--------------------------- MODULE CollectorProofs ---------------------------
(***************************************************************************)
(* Proofs about Collector and its MetricsStore, for any finite set of      *)
(* recorders, any ring and any times: what the ring keeps after whatever   *)
(* idle time, what a history and a percentile show, how the counts of a    *)
(* request agree, and what a snapshot shows that is taken meanwhile.       *)
(***************************************************************************)
EXTENDS Collector, FiniteSetTheorems, TLAPS

------------------------------------------------------------------------------
(* Division, as the ring uses it.                                          *)

(* A number is its quotient times the divisor, and a remainder. *)
LEMMA ModRange == ASSUME NEW a \in Int, NEW n \in Nat \ {0}
  PROVE a % n \in 0..n-1 /\ a \div n \in Int /\ a = n * (a \div n) + (a % n)
OBVIOUS

(* ... of which there is only one. *)
LEMMA ModIs == ASSUME NEW n \in Nat \ {0}, NEW q \in Int, NEW r \in 0..n-1
  PROVE (q * n + r) % n = r /\ (q * n + r) \div n = q
OBVIOUS

(* Of what is less than the divisor. *)
LEMMA ModSmall == ASSUME NEW n \in Nat \ {0}, NEW a \in 0..n-1 PROVE a % n = a
OBVIOUS

(* Of what is at least the divisor, and less than twice. *)
LEMMA ModWrap == ASSUME NEW n \in Nat \ {0}, NEW a \in Nat, n <= a, a < n + n PROVE a % n = a - n
OBVIOUS

(* Of a negative number. *)
LEMMA ModNeg == ASSUME NEW n \in Nat \ {0}, NEW a \in 1..n-1 PROVE (-a) % n = n - a
OBVIOUS

(* Division keeps the order. *)
LEMMA DivMono ==
  ASSUME NEW n \in Nat \ {0}, NEW a \in Nat, NEW b \in Nat, a <= b
  PROVE  a \div n <= b \div n
OBVIOUS

(* Multiples of one number are to each other as their factors. *)
LEMMA Times == ASSUME NEW n \in Nat \ {0}, NEW a \in Int, NEW b \in Int
  PROVE /\ a * n \in Int /\ a * n + b * n = (a + b) * n /\ a * n - b * n = (a - b) * n
        /\ (a * n) % n = 0 /\ (a * n) \div n = a
        /\ (a <= b <=> a * n <= b * n) /\ (a = b <=> a * n = b * n) /\ (a >= 0 <=> a * n >= 0)
<1>1. a * n \in Int /\ a * n + b * n = (a + b) * n /\ a * n - b * n = (a - b) * n
  OBVIOUS
<1>2. (a * n) % n = 0 /\ (a * n) \div n = a
  BY ModIs, <1>1
<1>3. (a <= b <=> a * n <= b * n)
  <2>1. ASSUME a <= b PROVE a * n <= b * n
    BY <2>1
  <2>2. ASSUME ~(a <= b) PROVE ~(a * n <= b * n)
    <3>1. (a - b) * n > 0
      BY <2>2
    <3> QED BY <1>1, <3>1
  <2> QED BY <2>1, <2>2
<1>4. a = b <=> a * n = b * n
  BY <1>3
<1>5. (a >= 0 <=> a * n >= 0)
  OBVIOUS
<1> QED BY <1>1, <1>2, <1>3, <1>4, <1>5

------------------------------------------------------------------------------
(* Buckets, and what is added to them.                                     *)

(* Adding to counts adds to each. *)
LEMMA AddCounts == ASSUME NEW b \in Counts, NEW change \in Counts
  PROVE /\ Add(b, change) \in Counts
        /\ Add(b, change).requests = b.requests + change.requests
        /\ Add(b, change).errors = b.errors + change.errors
        /\ Add(b, change).latency = b.latency + change.latency
<1> DEFINE one == [b EXCEPT !.requests = @ + change.requests]
           two == [one EXCEPT !.errors = @ + change.errors]
           both == Add(b, change)
<1>0. change.requests \in Nat /\ change.errors \in Nat /\ change.latency \in Nat
  BY DEF Counts
<1>1. one \in Counts /\ one.requests = b.requests + change.requests /\ one.errors = b.errors
        /\ one.latency = b.latency
  BY <1>0 DEF Counts
<1>2. two \in Counts /\ two.requests = one.requests
        /\ two.errors = one.errors + change.errors /\ two.latency = one.latency
  <2> HIDE DEF one
  <2> QED BY <1>0, <1>1 DEF Counts
<1>3. both = [two EXCEPT !.latency = @ + change.latency]
  BY DEF Add
<1> HIDE DEF two, one, both
<1>4. both \in Counts /\ both.requests = b.requests + change.requests
      /\ both.errors = b.errors + change.errors /\ both.latency = b.latency + change.latency
  <2>1. two.latency + change.latency \in Nat
    BY <1>0, <1>2 DEF Counts
  <2>2. both \in Counts
    BY <1>2, <1>3, <2>1 DEF Counts
  <2>3. both.requests = two.requests /\ both.errors = two.errors
          /\ both.latency = two.latency + change.latency
    BY <1>2, <1>3 DEF Counts
  <2> QED BY <1>1, <1>2, <2>2, <2>3
<1> QED BY <1>4 DEF both

(* Adding to a bucket adds to its counts, and leaves its time alone. *)
LEMMA AddIs == ASSUME NEW b \in BucketSet, NEW change \in Counts
  PROVE /\ Add(b, change).timestamp = b.timestamp
        /\ Add(b, change) \in BucketSet
        /\ Data(Add(b, change)) = Add(Data(b), change)
<1> DEFINE one == [b EXCEPT !.requests = @ + change.requests]
           two == [one EXCEPT !.errors = @ + change.errors]
           both == Add(b, change)
<1>0. change.requests \in Nat /\ change.errors \in Nat /\ change.latency \in Nat
  BY DEF Counts
<1>1. one \in BucketSet /\ one.timestamp = b.timestamp
        /\ one.requests = b.requests + change.requests /\ one.errors = b.errors
        /\ one.latency = b.latency
  BY <1>0 DEF BucketSet
<1>2. two \in BucketSet /\ two.timestamp = one.timestamp /\ two.requests = one.requests
        /\ two.errors = one.errors + change.errors /\ two.latency = one.latency
  <2> HIDE DEF one
  <2> QED BY <1>0, <1>1 DEF BucketSet
<1>3. both = [two EXCEPT !.latency = @ + change.latency]
  BY DEF Add
<1>4. both \in BucketSet /\ both.timestamp = b.timestamp
        /\ both.requests = b.requests + change.requests
      /\ both.errors = b.errors + change.errors /\ both.latency = b.latency + change.latency
  <2> HIDE DEF two, one, both
  <2> QED BY <1>0, <1>1, <1>2, <1>3 DEF BucketSet
<1>5. Data(b) \in Counts /\ Data(b).requests = b.requests /\ Data(b).errors = b.errors
        /\ Data(b).latency = b.latency
  BY DEF Data, Counts, BucketSet
<1>6. Data(both) \in Counts /\ Data(both).requests = both.requests
        /\ Data(both).errors = both.errors /\ Data(both).latency = both.latency
  <2> HIDE DEF both
  <2> QED BY <1>4 DEF Data, Counts, BucketSet
<1>7. Data(both) = Add(Data(b), change)
  <2> HIDE DEF both
  <2>1. Add(Data(b), change) \in Counts
          /\  Add(Data(b), change).requests = b.requests + change.requests
        /\ Add(Data(b), change).errors = b.errors + change.errors
        /\ Add(Data(b), change).latency = b.latency + change.latency
    BY <1>5, AddCounts
  <2> QED BY <1>4, <1>6, <2>1 DEF Counts
<1> QED BY <1>4, <1>7

(* A new bucket has counted nothing. *)
LEMMA BucketIs == ASSUME NEW start \in Int
  PROVE Bucket(start) \in BucketSet /\ Bucket(start).timestamp = start
          /\ Data(Bucket(start)) = Empty
BY DEF Bucket, BucketSet, Data, Empty

(* Truncate gives the start of the period of a time, and so are all the    *)
(* starts before it.                                                       *)
LEMMA PeriodIs == ASSUME NEW t \in 0..MaxTime
  PROVE /\ Period(t) \in Nat /\ Truncate(t, Resolution) = Period(t) * Resolution
        /\ \A k \in 0..Period(t) : k * Resolution \in Starts
        /\ \A n \in Nat : t >= n * Resolution => Period(t) >= n
<1>1. Resolution \in Nat \ {0} /\ MaxTime \in Nat /\ t \in Nat
  BY StoreAssumption
<1>2. Period(t) \in Int /\ t = Resolution * Period(t) + (t % Resolution)
        /\ t % Resolution \in 0..Resolution-1
  BY <1>1, ModRange DEF Period
<1>3. Period(t) \in Nat
  <2>1. Period(t) * Resolution >= -(Resolution - 1)
    BY <1>1, <1>2
  <2> QED BY <1>1, <1>2, <2>1
<1>4. Truncate(t, Resolution) = Period(t) * Resolution
  BY <1>1, <1>2 DEF Truncate
<1>5. ASSUME NEW k \in 0..Period(t) PROVE k * Resolution \in Starts
  <2>1. k \in Int /\ k >= 0 /\ k <= Period(t)
    BY <1>3
  <2>2. k * Resolution <= Period(t) * Resolution /\ k * Resolution >= 0
          /\ (k * Resolution) % Resolution = 0 /\ k * Resolution \in Int
    BY <1>1, <1>3, <2>1, Times
  <2>3. Period(t) * Resolution <= t /\ Period(t) * Resolution \in Int
    BY <1>1, <1>2
  <2> QED BY <1>1, <2>2, <2>3 DEF Starts
<1>6. ASSUME NEW n \in Nat, t >= n * Resolution PROVE Period(t) >= n
  <2>1. n * Resolution \in Nat /\ (n * Resolution) \div Resolution = n
    BY <1>1, Times
  <2> QED BY <1>1, <1>6, <2>1, DivMono DEF Period
<1> QED BY <1>3, <1>4, <1>5, <1>6

------------------------------------------------------------------------------
(* The ring: the bucket i places back is the one of i periods ago, and has *)
(* what was recorded in that period.                                       *)

(* A new ring (store.go:53, and Reset) has an empty bucket for each of the *)
(* last periods.                                                           *)
LEMMA RingIsMade ==
  ASSUME NEW t \in 0..MaxTime
  PROVE /\ NewBuckets(t) \in [Indexes -> BucketSet]
        /\ \A i \in Indexes :
             /\ NewBuckets(t)[i].timestamp = (Period(t) - (MaxBuckets - 1 - i)) * Resolution
             /\ Data(NewBuckets(t)[i]) = Empty
<1> SUFFICES ASSUME NEW i \in Indexes
             PROVE  LET start == Truncate(t, Resolution) - (MaxBuckets - 1 - i) * Resolution
                    IN  start \in Int /\ start = (Period(t) - (MaxBuckets - 1 - i)) * Resolution
  BY BucketIs DEF NewBuckets
<1> QED BY PeriodIs, Times, StoreAssumption DEF Indexes

(* The ring is right as it is made ... *)
LEMMA RingStart == StoreInit => RingInv
<1> SUFFICES ASSUME StoreInit PROVE RingInv
  OBVIOUS
<1> USE StoreAssumption
<1>1. /\ MaxBuckets * Resolution \in Nat
      /\ (MaxBuckets + 1) * Resolution = MaxBuckets * Resolution + Resolution
      /\ (MaxBuckets - 1) * Resolution = MaxBuckets * Resolution - Resolution
  OBVIOUS
<1>2. /\ now \in 0..MaxTime /\ latest = now /\ now >= MaxBuckets * Resolution
      /\ current = MaxBuckets - 1 /\ current \in Indexes
      /\ buckets = NewBuckets(now)
      /\ truth = [t \in Starts \cup {Forgotten} |-> Empty]
  BY <1>1 DEF StoreInit, Indexes
<1>3. Period(latest) >= MaxBuckets - 1 /\ now >= (MaxBuckets - 1) * Resolution
        /\ Period(latest) \in Nat
  BY <1>1, <1>2, PeriodIs
<1>4. \A i \in Indexes : /\ Back(i) = MaxBuckets - 1 - i
                         /\ Period(latest) - Back(i) \in 0..Period(latest)
  BY <1>2, <1>3 DEF Back, Indexes
<1>5. \A i \in Indexes : /\ buckets[i].timestamp = (Period(latest) - Back(i)) * Resolution
                         /\ buckets[i].timestamp \in Starts /\ Data(buckets[i]) = Empty
  BY <1>2, <1>4, RingIsMade, PeriodIs
<1>6. buckets \in [Indexes -> BucketSet]
  BY <1>2, RingIsMade
<1>7. Empty \in Counts
  BY DEF Empty, Counts
<1> QED BY <1>2, <1>3, <1>5, <1>6, <1>7 DEF RingInv

(* ... as Reset makes it ... *)
LEMMA RingReset == ASSUME RingInv, Reset PROVE RingInv'
<1> USE StoreAssumption
<1>1. /\ now' = now /\ now \in 0..MaxTime /\ latest' = now /\ now >= (MaxBuckets - 1) * Resolution
      /\ current' = MaxBuckets - 1 /\ current' \in Indexes
      /\ buckets' = NewBuckets(now)
      /\ \A t \in Starts : truth'[t] = Empty
      /\ truth' = [t \in Starts \cup {Forgotten} |-> truth'[t]]
  <2>1. \A t \in Starts : t # Forgotten
    BY DEF Starts, Forgotten
  <2> QED BY <2>1 DEF Reset, Indexes, RingInv
<1>2. Period(latest') >= MaxBuckets - 1 /\ Period(latest') \in Nat
  BY <1>1, PeriodIs
<1>3. \A i \in Indexes : /\ Back(i)' = MaxBuckets - 1 - i
                         /\ Period(latest') - Back(i)' \in 0..Period(latest')
  BY <1>1, <1>2 DEF Back, Indexes
<1>4. \A i \in Indexes : /\ buckets'[i].timestamp = (Period(latest') - Back(i)') * Resolution
                         /\ buckets'[i].timestamp \in Starts /\ Data(buckets'[i]) = Empty
  BY <1>1, <1>3, RingIsMade, PeriodIs
<1>5. buckets' \in [Indexes -> BucketSet]
  BY <1>1, RingIsMade
<1>6. Empty \in Counts
  BY DEF Empty, Counts
<1> QED BY <1>1, <1>2, <1>4, <1>5, <1>6 DEF RingInv

(* ... and whatever time passes, or the clock is set back. *)
LEMMA RingTime == ASSUME RingInv, TimePasses \/ ClockSetBack PROVE RingInv'
<1>1. now' \in 0..MaxTime /\ now' >= (MaxBuckets - 1) * Resolution
  <2>1. (MaxBuckets - 1) * Resolution \in Nat
    BY StoreAssumption
  <2> QED BY <2>1, StoreAssumption DEF RingInv, TimePasses, ClockSetBack
<1>2. UNCHANGED <<buckets, current, latest, truth>>
  BY DEF TimePasses, ClockSetBack
<1> QED BY <1>1, <1>2 DEF RingInv, Back

(* How far back a place is from the one that the ring is turned to. *)
TurnedBack(i) == IF i <= Turned THEN Turned - i ELSE Turned - i + MaxBuckets

(* getCurrentBucket: however long the idle time, the ring is turned to the *)
(* later of the period it had and the one it is now; what it has kept is   *)
(* in place, and what it has not is empty, as is what was recorded then.   *)
LEMMA RingTurns ==
  ASSUME RingInv
  PROVE  /\ Skip \in Nat /\ Turned \in Indexes
         /\ Period(latest) + Skip
              = IF Period(now) > Period(latest) THEN Period(now) ELSE Period(latest)
         /\ Rotated \in [Indexes -> BucketSet]
         /\ \A i \in Indexes :
              /\ Rotated[i].timestamp = ((Period(latest) + Skip) - TurnedBack(i)) * Resolution
              /\ Data(Rotated[i]) = truth[Rotated[i].timestamp]
<1> DEFINE a == Period(latest)
           b == Period(now)
           back(i) == TurnedBack(i)
<1>0. MaxBuckets \in Nat \ {0} /\ Resolution \in Nat \ {0} /\ MaxTime \in Nat
  BY StoreAssumption
<1>1. /\ a \in Nat /\ b \in Nat /\ Truncate(now, Resolution) = b * Resolution
      /\ a >= MaxBuckets - 1
      /\ \A k \in 0..a : k * Resolution \in Starts
      /\ \A k \in 0..b : k * Resolution \in Starts
      /\ current \in 0..MaxBuckets - 1
  BY PeriodIs DEF RingInv, Indexes
<1>2. buckets[current].timestamp = a * Resolution
  <2>1. Back(current) = 0 /\ current \in Indexes
    BY <1>1 DEF Back, Indexes
  <2>2. buckets[current].timestamp = (a - Back(current)) * Resolution
    BY <2>1 DEF RingInv
  <2> QED BY <1>1, <2>1, <2>2
<1> HIDE DEF a, b
<1>3. Skip = IF b > a THEN b - a ELSE 0
  <2>1. Elapsed = (b - a) * Resolution
    BY <1>0, <1>1, <1>2, Times DEF Elapsed
  <2>2. Elapsed > 0 <=> b > a
    BY <1>0, <1>1, <2>1
  <2>3. Elapsed \div Resolution = b - a
    BY <1>0, <1>1, <2>1, Times
  <2> QED BY <2>2, <2>3 DEF Skip
<1>4. Skip \in Nat /\ Turned \in 0..MaxBuckets - 1
  <2> DEFINE place == current + Skip
  <2>1. Skip \in Nat /\ place \in Int
    BY <1>1, <1>3
  <2> HIDE DEF place
  <2>2. place % MaxBuckets \in 0..MaxBuckets - 1
    BY <1>0, <2>1, ModRange
  <2> QED BY <2>1, <2>2 DEF Turned, place
<1>5. ASSUME NEW i \in Indexes
      PROVE  (Turned - i) % MaxBuckets = back(i) /\ back(i) \in 0..MaxBuckets - 1
  <2> USE DEF TurnedBack
  <2>1. i \in 0..MaxBuckets - 1
    BY DEF Indexes
  <2>2. CASE i <= Turned
    BY <1>0, <1>4, <2>1, <2>2, ModSmall
  <2>3. CASE ~(i <= Turned)
    <3>1. i - Turned \in 1..MaxBuckets - 1 /\ Turned - i = -(i - Turned)
      BY <1>0, <1>4, <2>1, <2>3
    <3>2. (Turned - i) % MaxBuckets = MaxBuckets - (i - Turned)
      BY <1>0, <3>1, ModNeg
    <3> QED BY <1>0, <1>4, <2>1, <2>3, <3>1, <3>2
  <2> QED BY <2>2, <2>3
<1> HIDE DEF back
<1>6. ASSUME NEW i \in Indexes, LastSkip(i) >= 1
      PROVE  /\ Rotated[i] \in BucketSet
             /\ Rotated[i].timestamp = ((a + Skip) - back(i)) * Resolution
             /\ Data(Rotated[i]) = truth[Rotated[i].timestamp]
  <2> DEFINE place == a + LastSkip(i)
             start == buckets[current].timestamp + LastSkip(i) * Resolution
  <2>1. LastSkip(i) = Skip - back(i) /\ LastSkip(i) \in Int
    BY <1>4, <1>5 DEF LastSkip
  <2>2. place \in 0..b /\ place \in Int /\ place > a /\ place = (a + Skip) - back(i)
    BY <1>1, <1>3, <1>4, <1>5, <1>6, <2>1
  <2>3. start = place * Resolution /\ start \in Int
    BY <1>0, <1>1, <1>2, <2>1, Times
  <2>4. start \in Starts /\ start > a * Resolution
    BY <1>0, <1>1, <2>2, <2>3, Times
  <2>5. truth[start] = Empty
    BY <2>4 DEF RingInv, a
  <2>6. Rotated[i] = Bucket(start)
    BY <1>6 DEF Rotated
  <2> HIDE DEF start, place
  <2> QED BY <2>2, <2>3, <2>5, <2>6, BucketIs
<1>7. ASSUME NEW i \in Indexes, ~(LastSkip(i) >= 1)
      PROVE  /\ Rotated[i] \in BucketSet
             /\ Rotated[i].timestamp = ((a + Skip) - back(i)) * Resolution
             /\ Data(Rotated[i]) = truth[Rotated[i].timestamp]
  <2>1. Rotated[i] = buckets[i]
    BY <1>7 DEF Rotated
  <2>2. LastSkip(i) = Skip - back(i)
    BY <1>5 DEF LastSkip
  <2>3. Skip <= back(i) /\ Skip <= MaxBuckets - 1
    BY <1>0, <1>4, <1>5, <1>7, <2>2
  <2>4. Turned = IF current + Skip < MaxBuckets THEN current + Skip
                 ELSE (current + Skip) - MaxBuckets
    <3>1. CASE current + Skip < MaxBuckets
      BY <1>0, <1>1, <1>4, <3>1, ModSmall DEF Turned
    <3>2. CASE ~(current + Skip < MaxBuckets)
      <4> DEFINE place == current + Skip
      <4>1. place \in Nat /\ MaxBuckets <= place /\ place < MaxBuckets + MaxBuckets
        BY <1>0, <1>1, <1>4, <2>3, <3>2
      <4>2. place % MaxBuckets = place - MaxBuckets
        <5> HIDE DEF place
        <5> QED BY <1>0, <4>1, ModWrap
      <4> QED BY <3>2, <4>2 DEF Turned
    <3> QED BY <3>1, <3>2
  <2>5. Back(i) = back(i) - Skip
    <3>1. i \in 0..MaxBuckets - 1
      BY DEF Indexes
    <3> QED BY <1>0, <1>1, <1>4, <2>3, <2>4, <3>1 DEF Back, back, TurnedBack
  <2>6. a - Back(i) = (a + Skip) - back(i)
    BY <1>1, <1>4, <1>5, <2>5
  <2> QED BY <2>1, <2>6 DEF RingInv, a
<1>8. Rotated \in [Indexes -> BucketSet]
  BY <1>6, <1>7 DEF Rotated
<1>9. a + Skip = IF b > a THEN b ELSE a
  BY <1>1, <1>3
<1>10. \A i \in Indexes : /\ Rotated[i].timestamp = ((a + Skip) - back(i)) * Resolution
                          /\ Data(Rotated[i]) = truth[Rotated[i].timestamp]
  BY <1>6, <1>7
<1> QED BY <1>4, <1>8, <1>9, <1>10 DEF a, b, Indexes, back

(* Recording in the bucket that the ring is turned to. *)
LEMMA RingRecords ==
  ASSUME RingInv, NEW change \in Counts, Record(change) PROVE RingInv'
<1> DEFINE a == Period(latest)
           b == Period(now)
           last == a + Skip
           start == last * Resolution
<1>0. MaxBuckets \in Nat \ {0} /\ Resolution \in Nat \ {0} /\ MaxTime \in Nat
  BY StoreAssumption
<1>1. /\ a \in Nat /\ b \in Nat /\ a >= MaxBuckets - 1
      /\ now \in 0..MaxTime /\ latest \in 0..MaxTime
      /\ now >= (MaxBuckets - 1) * Resolution
      /\ Truncate(now, Resolution) = b * Resolution
      /\ Truncate(latest, Resolution) = a * Resolution
      /\ \A k \in 0..a : k * Resolution \in Starts
      /\ \A k \in 0..b : k * Resolution \in Starts
  BY PeriodIs DEF RingInv
<1>2. /\ Skip \in Nat /\ Turned \in Indexes /\ last = IF b > a THEN b ELSE a
      /\ Rotated \in [Indexes -> BucketSet]
      /\ \A i \in Indexes : /\ Rotated[i].timestamp = (last - TurnedBack(i)) * Resolution
                            /\ Data(Rotated[i]) = truth[Rotated[i].timestamp]
  <2>1. Skip \in Nat /\ Turned \in Indexes /\ Rotated \in [Indexes -> BucketSet]
    BY RingTurns
  <2>2. last = IF b > a THEN b ELSE a
    BY RingTurns
  <2>3. ASSUME NEW i \in Indexes
        PROVE  /\ Rotated[i].timestamp = (last - TurnedBack(i)) * Resolution
               /\ Data(Rotated[i]) = truth[Rotated[i].timestamp]
    BY RingTurns
  <2> QED BY <2>1, <2>2, <2>3
<1>3. /\ current' = Turned /\ buckets' = [Rotated EXCEPT ![Turned] = Add(@, change)]
      /\ latest' = IF now > latest THEN now ELSE latest
      /\ truth' = [truth EXCEPT ![Truncate(latest', Resolution)] = Add(@, change)]
      /\ now' = now
  BY DEF Record, Witness
<1>4. Period(latest') = last
  <2>1. latest <= now => a <= b
    BY <1>0, <1>1, DivMono DEF Period
  <2>2. now <= latest => b <= a
    BY <1>0, <1>1, DivMono DEF Period
  <2> QED BY <1>1, <1>2, <1>3, <2>1, <2>2
<1>5. /\ latest' \in 0..MaxTime /\ last \in Nat /\ last >= MaxBuckets - 1 /\ last >= a
      /\ start \in Starts /\ Truncate(latest', Resolution) = start
  <2>1. latest' \in 0..MaxTime
    BY <1>1, <1>3
  <2>2. last \in Nat /\ last >= a /\ last >= MaxBuckets - 1
    BY <1>0, <1>1, <1>2
  <2>3. Truncate(latest', Resolution) = start /\ last * Resolution \in Starts
    BY <1>4, <2>1, <2>2, PeriodIs
  <2> QED BY <2>1, <2>2, <2>3
<1> HIDE DEF a, b, last, start
<1>6. \A i \in Indexes : Back(i)' = TurnedBack(i)
  BY <1>3 DEF Back, TurnedBack
<1>7. \A i \in Indexes : /\ TurnedBack(i) \in 0..MaxBuckets - 1
                         /\ TurnedBack(i) = 0 <=> i = Turned
  BY <1>0, <1>2 DEF TurnedBack, Indexes
<1>8. \A t \in Starts : truth[t] \in Counts /\ t # Forgotten
  BY DEF RingInv, Starts, Forgotten
<1>9. /\ truth' = [t \in Starts \cup {Forgotten} |-> truth'[t]]
      /\ \A t \in Starts : truth'[t] = IF t = start THEN Add(truth[t], change) ELSE truth[t]
  BY <1>3, <1>5, <1>8 DEF RingInv
<1>10. \A t \in Starts : truth'[t] \in Counts
  BY <1>8, <1>9, AddCounts
<1>11. \A t \in Starts : t > last * Resolution => truth'[t] = Empty
  <2>1. a * Resolution <= last * Resolution /\ a * Resolution \in Int /\ last * Resolution \in Int
    BY <1>0, <1>1, <1>5, Times
  <2>2. \A t \in Starts : t \in Int
    BY <1>0 DEF Starts
  <2> QED BY <1>9, <2>1, <2>2 DEF RingInv, a, start
<1>12. /\ buckets' \in [Indexes -> BucketSet]
       /\ \A i \in Indexes : buckets'[i].timestamp = (last - TurnedBack(i)) * Resolution
  BY <1>2, <1>3, AddIs
<1>13. ASSUME NEW i \in Indexes PROVE Data(buckets'[i]) = truth'[buckets'[i].timestamp]
  <2>1. (last - TurnedBack(i)) * Resolution = start <=> i = Turned
    <3>1. (last - TurnedBack(i)) * Resolution = start <=> last - TurnedBack(i) = last
      BY <1>0, <1>5, <1>7, Times DEF start
    <3> QED BY <1>5, <1>7, <3>1
  <2>2. (last - TurnedBack(i)) * Resolution \in Starts
    <3>1. last - TurnedBack(i) \in 0..last
      BY <1>0, <1>5, <1>7
    <3> QED BY <1>4, <1>5, <3>1, PeriodIs
  <2>3. CASE i = Turned
    BY <1>2, <1>3, <1>9, <2>1, <2>2, <2>3, AddIs
  <2>4. CASE i # Turned
    BY <1>2, <1>3, <1>9, <2>1, <2>2, <2>4
  <2> QED BY <2>3, <2>4
<1> QED BY <1>1, <1>2, <1>3, <1>4, <1>5, <1>6, <1>9, <1>10, <1>11, <1>12, <1>13 DEF RingInv

------------------------------------------------------------------------------
(* The store: the ring, and the latest latencies.                          *)

(* RecordRequest keeps the latest latencies only. *)
LEMMA LatenciesKeptOne ==
  ASSUME LatenciesKept, NEW latency \in Latencies, RecordRequest(latency)
  PROVE  LatenciesKept'
<1> DEFINE all == Append(allLatencies, latency)
<1>1. all \in Seq(Latencies) /\ Len(all) = Len(allLatencies) + 1 /\ Len(allLatencies) \in Nat
  BY DEF LatenciesKept
<1>2. allLatencies' = IF Len(all) > MaxLatencies
                      THEN SubSeq(all, Len(all) - MaxLatencies + 1, Len(all)) ELSE all
  BY DEF RecordRequest
<1>3. MaxLatencies \in Nat \ {0}
  BY StoreAssumption
<1>4. CASE Len(all) > MaxLatencies
  <2>1. Len(all) - MaxLatencies + 1 = 2 /\ Len(all) = MaxLatencies + 1
    <3>1. Len(allLatencies) <= MaxLatencies
      BY DEF LatenciesKept
    <3> HIDE DEF all
    <3> QED BY <1>1, <1>3, <1>4, <3>1
  <2>0. allLatencies' = SubSeq(all, 2, Len(all))
    <3> HIDE DEF all
    <3> QED BY <1>2, <1>4, <2>1
  <2>2. SubSeq(all, 2, Len(all)) \in Seq(Latencies)
          /\ Len(SubSeq(all, 2, Len(all))) = Len(all) - 1
    <3> HIDE DEF all
    <3>1. \A i \in 2..Len(all) : all[i] \in Latencies
      BY <1>1
    <3> QED BY <1>1, <1>3, <2>1, <3>1
  <2> QED BY <1>3, <2>0, <2>1, <2>2 DEF LatenciesKept
<1>5. CASE ~(Len(all) > MaxLatencies)
  BY <1>1, <1>2, <1>3, <1>5 DEF LatenciesKept
<1> QED BY <1>4, <1>5

(* Every step of the store preserves its invariant. *)
LEMMA StoreStepKeeps == StoreInv /\ [StoreNext]_storeVars => StoreInv'
<1> SUFFICES ASSUME StoreInv, [StoreNext]_storeVars PROVE StoreInv'
  OBVIOUS
<1> USE DEF StoreInv
<1>1. ASSUME NEW latency \in Latencies, RecordRequest(latency) PROVE StoreInv'
  <2>1. [requests |-> 1, errors |-> 0, latency |-> latency] \in Counts
    BY StoreAssumption DEF Counts
  <2> QED BY <1>1, <2>1, RingRecords, LatenciesKeptOne DEF RecordRequest
<1>2. CASE RecordError
  <2>1. [requests |-> 0, errors |-> 1, latency |-> 0] \in Counts
    BY DEF Counts
  <2> QED BY <1>2, <2>1, RingRecords DEF RecordError, LatenciesKept
<1>3. CASE Reset
  <2>1. LatenciesKept'
    BY <1>3, StoreAssumption DEF Reset, LatenciesKept
  <2> QED BY <1>3, <2>1, RingReset
<1>4. CASE TimePasses \/ ClockSetBack
  BY <1>4, RingTime DEF TimePasses, ClockSetBack, LatenciesKept
<1>5. CASE UNCHANGED storeVars
  BY <1>5 DEF storeVars, RingInv, LatenciesKept, Back
<1> QED BY <1>1, <1>2, <1>3, <1>4, <1>5 DEF StoreNext

(* The inductive invariant of the store (internal/metrics/store.go): each  *)
(* bucket of the ring has what was recorded in its period, and the ring    *)
(* has the latest periods.                                                 *)
THEOREM StoreInvariant == StoreSpec => []StoreInv
<1>1. StoreInit => LatenciesKept
  BY StoreAssumption DEF StoreInit, LatenciesKept
<1> QED BY <1>1, RingStart, StoreStepKeeps, PTL DEF StoreSpec, StoreInv

(* The ring of the invariant is a window of time. *)
LEMMA InvIsWindow == RingInv => RingIsWindow
<1> SUFFICES ASSUME RingInv, NEW i \in Indexes
             PROVE  buckets[(current + MaxBuckets - i) % MaxBuckets].timestamp
                      = buckets[current].timestamp - i * Resolution
  BY DEF RingIsWindow
<1> DEFINE a == Period(latest)
           j == IF i <= current THEN current - i ELSE (current - i) + MaxBuckets
<1>1. /\ MaxBuckets \in Nat \ {0} /\ Resolution \in Nat \ {0}
      /\ i \in 0..MaxBuckets - 1 /\ current \in 0..MaxBuckets - 1
      /\ a \in Nat
  BY StoreAssumption, PeriodIs DEF RingInv, Indexes
<1>2. (current + MaxBuckets - i) % MaxBuckets = j
  <2> DEFINE place == current + MaxBuckets - i
  <2>1. CASE i <= current
    <3>1. place \in Nat /\ MaxBuckets <= place /\ place < MaxBuckets + MaxBuckets
          /\ place - MaxBuckets = current - i
      BY <1>1, <2>1
    <3>2. place % MaxBuckets = place - MaxBuckets
      <4> HIDE DEF place
      <4> QED BY <1>1, <3>1, ModWrap
    <3> QED BY <2>1, <3>1, <3>2
  <2>2. CASE ~(i <= current)
    <3>1. place \in 0..MaxBuckets - 1 /\ place = (current - i) + MaxBuckets
      BY <1>1, <2>2
    <3>2. place % MaxBuckets = place
      <4> HIDE DEF place
      <4> QED BY <1>1, <3>1, ModSmall
    <3> QED BY <2>2, <3>1, <3>2
  <2> QED BY <2>1, <2>2
<1>3. j \in Indexes /\ Back(j) = i /\ current \in Indexes /\ Back(current) = 0
  BY <1>1 DEF Back, Indexes
<1> HIDE DEF a, j
<1>4. /\ buckets[j].timestamp = (a - i) * Resolution
      /\ buckets[current].timestamp = a * Resolution
  <2>1. \A k \in Indexes : buckets[k].timestamp = (Period(latest) - Back(k)) * Resolution
    BY DEF RingInv
  <2>2. a - 0 = a
    BY <1>1
  <2> QED BY <1>3, <2>1, <2>2 DEF a
<1> QED BY <1>1, <1>2, <1>4, Times

(* ... and typed. *)
LEMMA InvIsTyped == StoreInv => StoreTypeOK
<1> SUFFICES ASSUME StoreInv PROVE StoreTypeOK
  OBVIOUS
<1>1. \A i \in Indexes : buckets[i].timestamp \in Starts
  <2> SUFFICES ASSUME NEW i \in Indexes
               PROVE  Period(latest) - Back(i) \in 0..Period(latest)
    BY PeriodIs DEF StoreInv, RingInv
  <2>1. /\ Period(latest) \in Nat /\ Period(latest) >= MaxBuckets - 1
        /\ MaxBuckets \in Nat \ {0} /\ i \in 0..MaxBuckets - 1 /\ current \in 0..MaxBuckets - 1
    BY PeriodIs, StoreAssumption DEF Indexes, StoreInv, RingInv
  <2> QED BY <2>1 DEF Back
<1>2. \A i \in Indexes : Data(buckets[i]) \in [requests : Nat, errors : Nat, latency : Nat]
  BY DEF Data, BucketSet, StoreInv, RingInv
<1> QED BY <1>1, <1>2 DEF StoreTypeOK, StoreInv, RingInv, LatenciesKept

(* The ring is a window of consecutive buckets after any idle time         *)
(* (getCurrentBucket, store.go:81), for every length and resolution.       *)
THEOREM StoreRingIsWindow == StoreSpec => []RingIsWindow
BY StoreInvariant, InvIsWindow, PTL DEF StoreInv

(* What the collector does to the store is a step of the store, or none. *)
LEMMA CollectorStepIsStoreStep == [CollectorNext]_cvars => [StoreNext]_storeVars
BY DEF CollectorNext, Recording, CountError, ShowError, StoreError, CountRequest, CountTarget,
   StoreRequest, ReadField, SnapshotReturns, Storing, StoreNext, cvars

(* The collector uses the store by its methods only (collector.go): what   *)
(* is proved of the store holds in it.                                     *)
THEOREM CollectorImplementsStore == CollectorSpec => StoreSpec
<1>1. CollectorInit => StoreInit
  BY DEF CollectorInit
<1> QED BY <1>1, CollectorStepIsStoreStep, PTL DEF CollectorSpec, StoreSpec

(* So the ring is a window also under recorders that run concurrently. *)
THEOREM CollectorRingIsWindow == CollectorSpec => []RingIsWindow
BY CollectorImplementsStore, StoreRingIsWindow, PTL

------------------------------------------------------------------------------
(* What sorting gives: the n-th place has n - 1 others before it.          *)

(* Sorting puts every place once, and none before one that is earlier. *)
LEMMA SortingIs ==
  ASSUME NEW D \in SUBSET Int, IsFiniteSet(D), NEW keys \in [D -> Int]
  PROVE  /\ Cardinality(D) \in Nat /\ DOMAIN Sorting(keys) = 1..Cardinality(D)
         /\ \A n \in 1..Cardinality(D) :
              /\ Sorting(keys)[n] \in D
              /\ Cardinality(Earlier(keys, Sorting(keys)[n])) = n - 1
         /\ \A i \in D : \E n \in 1..Cardinality(D) : Sorting(keys)[n] = i
         /\ \A m, n \in 1..Cardinality(D) :
              m < n => Sorting(keys)[m] \in Earlier(keys, Sorting(keys)[n])
<1> DEFINE N == Cardinality(D)
           place == [i \in D |-> Cardinality(Earlier(keys, i)) + 1]
<1>0. DOMAIN keys = D /\ N \in Nat
  BY FS_CardinalityType
<1> HIDE DEF N
<1>1. ASSUME NEW i \in D
      PROVE  /\ IsFiniteSet(Earlier(keys, i)) /\ Cardinality(Earlier(keys, i)) \in Nat
             /\ place[i] \in 1..N
  <2>1. Earlier(keys, i) \in SUBSET (D \ {i})
    BY <1>0 DEF Earlier
  <2>2. IsFiniteSet(D \ {i}) /\ Cardinality(D \ {i}) = N - 1
    BY FS_RemoveElement DEF N
  <2>3. /\ IsFiniteSet(Earlier(keys, i)) /\ Cardinality(Earlier(keys, i)) \in Nat
        /\ Cardinality(Earlier(keys, i)) <= N - 1
    BY <2>1, <2>2, FS_Subset, FS_CardinalityType
  <2> QED BY <1>0, <2>3
<1>2. ASSUME NEW i \in D, NEW j \in D, i \in Earlier(keys, j)
      PROVE  Cardinality(Earlier(keys, i)) < Cardinality(Earlier(keys, j))
  <2>1. Earlier(keys, i) \in SUBSET Earlier(keys, j) /\ i \notin Earlier(keys, i)
    <3>1. \A k \in D : k \in Int /\ keys[k] \in Int
      OBVIOUS
    <3>2. ASSUME NEW k \in Earlier(keys, i) PROVE k \in Earlier(keys, j)
      <4>1. /\ k \in D /\ (keys[k] < keys[i] \/ (keys[k] = keys[i] /\ k < i))
            /\ (keys[i] < keys[j] \/ (keys[i] = keys[j] /\ i < j))
        BY <1>0, <1>2, <3>2 DEF Earlier
      <4>2. keys[k] < keys[j] \/ (keys[k] = keys[j] /\ k < j)
        BY <3>1, <4>1
      <4> QED BY <1>0, <4>1, <4>2 DEF Earlier
    <3>3. i \notin Earlier(keys, i)
      BY <3>1 DEF Earlier
    <3> QED BY <3>2, <3>3
  <2>2. /\ Cardinality(Earlier(keys, i)) <= Cardinality(Earlier(keys, j))
        /\ Cardinality(Earlier(keys, i)) # Cardinality(Earlier(keys, j))
    BY <1>1, <1>2, <2>1, FS_Subset
  <2> QED BY <1>1, <2>2
<1>3. ASSUME NEW i \in D, NEW j \in D, i # j
      PROVE  i \in Earlier(keys, j) \/ j \in Earlier(keys, i)
  BY <1>0, <1>3 DEF Earlier
<1>4. place \in Injection(D, 1..N)
  <2>1. place \in [D -> 1..N]
    BY <1>1
  <2>2. ASSUME NEW i \in D, NEW j \in D, i # j PROVE place[i] # place[j]
    BY <1>1, <1>2, <1>3, <2>2
  <2> HIDE DEF place
  <2> QED BY <2>1, <2>2 DEF Injection, IsInjective
<1>5. place \in Surjection(D, 1..N)
  <2>1. IsFiniteSet(1..N) /\ Cardinality(1..N) = N
    BY <1>0, FS_Interval
  <2> QED BY <1>4, <2>1, FS_Injection DEF N
<1>6. ASSUME NEW n \in 1..N
      PROVE  /\ Sorting(keys)[n] \in D
             /\ Cardinality(Earlier(keys, Sorting(keys)[n])) = n - 1
  <2>1. \E i \in D : Cardinality(Earlier(keys, i)) = n - 1
    <3>1. PICK i \in D : place[i] = n
      BY <1>5 DEF Surjection
    <3>2. Cardinality(Earlier(keys, i)) = n - 1
      BY <1>1, <3>1
    <3> QED BY <3>2
  <2>2. Sorting(keys)[n] = CHOOSE i \in D : Cardinality(Earlier(keys, i)) = n - 1
    BY <1>0 DEF Sorting, N
  <2> QED BY <2>1, <2>2
<1>7. ASSUME NEW i \in D PROVE \E n \in 1..N : Sorting(keys)[n] = i
  <2>1. place[i] \in 1..N /\ Cardinality(Earlier(keys, i)) = place[i] - 1
    BY <1>1
  <2>2. /\ Sorting(keys)[place[i]] \in D
        /\ Cardinality(Earlier(keys, Sorting(keys)[place[i]])) = place[i] - 1
    BY <1>6, <2>1
  <2>3. ASSUME NEW j \in D, Cardinality(Earlier(keys, j)) = Cardinality(Earlier(keys, i))
        PROVE  j = i
    BY <1>1, <1>2, <1>3, <2>3
  <2> HIDE DEF place
  <2>4. Sorting(keys)[place[i]] = i
    BY <2>1, <2>2, <2>3
  <2> QED BY <2>1, <2>4
<1>8. ASSUME NEW m \in 1..N, NEW n \in 1..N, m < n
      PROVE  Sorting(keys)[m] \in Earlier(keys, Sorting(keys)[n])
  <2> DEFINE i == Sorting(keys)[m]
             j == Sorting(keys)[n]
  <2>1. /\ i \in D /\ Cardinality(Earlier(keys, i)) = m - 1
        /\ j \in D /\ Cardinality(Earlier(keys, j)) = n - 1
    BY <1>6
  <2> HIDE DEF i, j
  <2>2. i # j /\ j \notin Earlier(keys, i)
    BY <1>0, <1>2, <1>8, <2>1
  <2> QED BY <1>3, <2>1, <2>2 DEF i, j
<1>9. DOMAIN Sorting(keys) = 1..N
  BY <1>0 DEF Sorting, N
<1> QED BY <1>0, <1>6, <1>7, <1>8, <1>9 DEF N

(* The rank that GetLatencyPercentiles computes (store.go:153) is inside   *)
(* the sorted latencies, and what is there is the percentile, for any      *)
(* latencies.                                                              *)
LEMMA RankedAlways ==
  ASSUME NEW latencies \in Seq(Nat), latencies # <<>>, NEW percent \in 0..99
  PROVE  Ranked(latencies, percent)
<1> DEFINE n == Len(latencies)
           order == Sorting(latencies)
           k == ((n * percent) \div 100) + 1
           p == latencies[order[k]]
           under == {i \in 1..n : latencies[i] < p}
           upto == {i \in 1..n : latencies[i] <= p}
           earlier == Earlier(latencies, order[k])
<1>1. n \in Nat /\ n > 0 /\ latencies \in [1..n -> Nat]
  OBVIOUS
<1>2. /\ k - 1 \in Nat /\ k \in 1..n
      /\ k * 100 > n * percent /\ (k - 1) * 100 <= n * percent
  <2> DEFINE shares == n * percent
  <2>1. shares \in Nat /\ shares < 100 * n
    BY <1>1
  <2> HIDE DEF shares
  <2>2. /\ shares \div 100 \in Nat /\ (shares \div 100) * 100 <= shares
        /\ ((shares \div 100) + 1) * 100 > shares
    BY <2>1
  <2>3. shares \div 100 < n
    BY <1>1, <2>1, <2>2
  <2> QED BY <1>1, <2>2, <2>3 DEF shares
<1>3. IsFiniteSet(1..n) /\ Cardinality(1..n) = n
  BY <1>1, FS_Interval
<1> HIDE DEF n, k
<1>4. order[k] \in 1..n /\ Cardinality(earlier) = k - 1
  <2>1. 1..n \in SUBSET Int /\ latencies \in [1..n -> Int]
    BY <1>1
  <2> QED BY <1>2, <1>3, <2>1, SortingIs
<1> HIDE DEF order
<1>5. /\ earlier \in SUBSET (1..n) /\ under \in SUBSET earlier
      /\ earlier \cup {order[k]} \in SUBSET upto /\ order[k] \notin earlier
  BY <1>1, <1>4 DEF Earlier
<1>6. IsFiniteSet(earlier) /\ IsFiniteSet(upto)
  BY <1>3, <1>5, FS_Subset
<1>7. Cardinality(under) <= k - 1 /\ Cardinality(under) \in Nat
  BY <1>4, <1>5, <1>6, FS_Subset, FS_CardinalityType
<1>8. Cardinality(upto) >= k /\ Cardinality(upto) \in Nat
  <2>1. Cardinality(earlier \cup {order[k]}) = (k - 1) + 1
    BY <1>4, <1>5, <1>6, FS_AddElement
  <2>2. Cardinality(earlier \cup {order[k]}) <= Cardinality(upto)
    BY <1>5, <1>6, FS_Subset
  <2> QED BY <1>2, <1>6, <2>1, <2>2, FS_CardinalityType
<1>9. Cardinality(upto) * 100 > n * percent /\ Cardinality(under) * 100 <= n * percent
  <2> HIDE DEF under, upto
  <2>1. n * percent \in Nat
    BY <1>1 DEF n
  <2> QED BY <1>2, <1>7, <1>8, <2>1
<1>10. Percentile(latencies, percent) = p
  BY DEF Percentile, n, k, order
<1> QED BY <1>9, <1>10 DEF Ranked, n

(* So it is for the latencies that the store keeps. *)
LEMMA InvRanks == LatenciesKept => PercentilesRank
<1>1. Latencies \subseteq Nat /\ MaxLatencies \in Nat /\ Percents \subseteq 0..99
  BY StoreAssumption DEF Percents
<1>2. ASSUME NEW s \in Samples PROVE s \in Seq(Nat)
  <2>1. PICK m \in 0..MaxLatencies + 3 : s \in [1..m -> Latencies]
    BY DEF Samples, SeqOf
  <2>2. m \in Nat
    BY <1>1
  <2>3. s \in [1..m -> Nat]
    BY <1>1, <2>1, Zenon
  <2> QED BY <2>2, <2>3
<1>3. SamplesRank
  BY <1>1, <1>2, RankedAlways DEF SamplesRank
<1>4. ASSUME LatenciesKept, allLatencies # <<>>, NEW percent \in Percents
      PROVE  Ranked(allLatencies, percent)
  <2>1. \A x \in Latencies : x \in Nat
    BY <1>1
  <2>2. allLatencies \in Seq(Nat)
    BY <1>4, <2>1 DEF LatenciesKept
  <2> QED BY <1>1, <1>4, <2>2, RankedAlways
<1> QED BY <1>3, <1>4 DEF PercentilesRank

(* The percentiles are those of the latencies that are kept                *)
(* (store.go:131).                                                         *)
THEOREM CollectorPercentilesRank == CollectorSpec => []PercentilesRank
<1>1. StoreInv => PercentilesRank
  BY InvRanks DEF StoreInv
<1> QED BY <1>1, CollectorImplementsStore, StoreInvariant, PTL

(* At the resolution of the store, its buckets are returned as they are. *)
LEMMA HistoryIsPoints ==
  ASSUME NEW duration PROVE GetHistory(duration, Resolution) = Points(duration)
<1>1. ~(Resolution > Resolution)
  BY StoreAssumption
<1> QED BY <1>1 DEF GetHistory, Coarsened

(* A query of a ring that has what was recorded returns it. *)
LEMMA InvIsTruth == RingInv => HistoryIsTruth
<1> SUFFICES ASSUME RingInv, NEW duration \in 0..MaxBuckets * Resolution - 1
    PROVE LET oldest == Truncate(latest, Resolution) - (MaxBuckets - 1) * Resolution
              points == Points(duration)
              times == [n \in DOMAIN points |-> points[n].timestamp]
          IN  /\ \A m, n \in DOMAIN times : m < n => times[m] < times[n]
              /\ \A p \in Range(points) : Data(p) = truth[p.timestamp]
              /\ \A t \in Starts : t >= now - duration /\ t >= oldest /\ truth[t] # Empty
                                     => t \in Range(times)
  BY HistoryIsPoints DEF HistoryIsTruth
<1> DEFINE a == Period(latest)
           kept == {i \in Indexes : buckets[i].timestamp >= now - duration}
           keys == [i \in kept |-> buckets[i].timestamp]
           order == Sorting(keys)
           points == Points(duration)
           N == Cardinality(kept)
<1>1. /\ MaxBuckets \in Nat \ {0} /\ Resolution \in Nat \ {0} /\ MaxTime \in Nat
      /\ a \in Nat /\ a >= MaxBuckets - 1 /\ Truncate(latest, Resolution) = a * Resolution
      /\ Indexes = 0..MaxBuckets - 1 /\ current \in Indexes
  BY StoreAssumption, PeriodIs DEF RingInv, Indexes
<1>2. \A i \in Indexes : /\ buckets[i].timestamp \in Int
                         /\ buckets[i].timestamp = (a - Back(i)) * Resolution
                         /\ Data(buckets[i]) = truth[buckets[i].timestamp]
  BY DEF RingInv, BucketSet
<1>3. \A i, j \in Indexes : i # j => buckets[i].timestamp # buckets[j].timestamp
  <2> SUFFICES ASSUME NEW i \in Indexes, NEW j \in Indexes, i # j
               PROVE  (a - Back(i)) * Resolution # (a - Back(j)) * Resolution
    BY <1>2
  <2>1. Back(i) # Back(j) /\ Back(i) \in Int /\ Back(j) \in Int
    BY <1>1 DEF Back
  <2> HIDE DEF a
  <2>2. a - Back(i) # a - Back(j) /\ a - Back(i) \in Int /\ a - Back(j) \in Int
    BY <1>1, <2>1
  <2> QED BY <1>1, <2>2, Times
<1> HIDE DEF a
<1>4. IsFiniteSet(kept) /\ kept \in SUBSET Int /\ kept \in SUBSET Indexes
  <2>1. IsFiniteSet(Indexes)
    BY <1>1, FS_Interval
  <2>2. kept \in SUBSET Indexes
    OBVIOUS
  <2>3. IsFiniteSet(kept)
    BY <2>1, <2>2, FS_Subset
  <2> QED BY <1>1, <2>2, <2>3
<1>5. keys \in [kept -> Int]
  BY <1>2
<1>6. points = [n \in DOMAIN order |-> buckets[order[n]]]
  BY DEF Points
<1> HIDE DEF points
<1>7. /\ DOMAIN order = 1..N /\ N \in Nat
      /\ \A n \in 1..N : order[n] \in kept
      /\ \A i \in kept : \E n \in 1..N : order[n] = i
      /\ \A m, n \in 1..N : m < n => order[m] \in Earlier(keys, order[n])
  <2> HIDE DEF kept, keys
  <2> QED BY <1>4, <1>5, SortingIs DEF order, N
<1> HIDE DEF order, N
<1> DEFINE times == [n \in DOMAIN points |-> points[n].timestamp]
<1>8. DOMAIN points = 1..N /\ \A n \in 1..N : points[n] = buckets[order[n]]
  BY <1>6, <1>7
<1>9. DOMAIN times = 1..N /\ \A n \in 1..N : times[n] = buckets[order[n]].timestamp
  BY <1>8
<1> HIDE DEF times
<1>10. ASSUME NEW m \in 1..N, NEW n \in 1..N, m < n PROVE times[m] < times[n]
  <2> DEFINE i == order[m]
             j == order[n]
  <2>1. i \in kept /\ j \in kept /\ i \in Earlier(keys, j)
    BY <1>7, <1>10
  <2>2. times[m] = buckets[i].timestamp /\ times[n] = buckets[j].timestamp
    BY <1>9
  <2> HIDE DEF i, j
  <2>3. i # j /\ buckets[i].timestamp <= buckets[j].timestamp
    BY <1>1, <1>2, <1>4, <2>1 DEF Earlier
  <2> QED BY <1>2, <1>3, <2>1, <2>2, <2>3
<1>11. ASSUME NEW p \in Range(points) PROVE Data(p) = truth[p.timestamp]
  BY <1>2, <1>7, <1>8, <1>11 DEF Range
<1>12. ASSUME NEW t \in Starts, t >= now - duration, truth[t] # Empty,
              t >= a * Resolution - (MaxBuckets - 1) * Resolution
       PROVE  t \in Range(times)
  <2> DEFINE period == t \div Resolution
  <2>1. t \in 0..MaxTime /\ t = period * Resolution /\ period \in Int
    <3>1. t \in 0..MaxTime /\ t \in Int /\ t % Resolution = 0
      BY <1>1 DEF Starts
    <3> QED BY <1>1, <3>1, ModRange
  <2>2. t <= a * Resolution
    BY <1>1, <1>12, <2>1 DEF RingInv, a
  <2> HIDE DEF period
  <2>3. period <= a /\ period >= a - (MaxBuckets - 1)
    <3>1. a * Resolution - (MaxBuckets - 1) * Resolution = (a - (MaxBuckets - 1)) * Resolution
      BY <1>1, Times
    <3> QED BY <1>1, <1>12, <2>1, <2>2, <3>1, Times
  <2> DEFINE back == a - period
             i == IF back <= current THEN current - back ELSE (current - back) + MaxBuckets
  <2>4. i \in Indexes /\ Back(i) = back
    BY <1>1, <2>1, <2>3 DEF Back
  <2>5. buckets[i].timestamp = t
    BY <1>1, <1>2, <2>1, <2>4
  <2> HIDE DEF i
  <2>6. i \in kept
    BY <1>12, <2>4, <2>5
  <2>7. PICK n \in 1..N : order[n] = i
    BY <1>7, <2>6
  <2> QED BY <1>9, <2>5, <2>7 DEF Range
<1> QED BY <1>1, <1>9, <1>10, <1>11, <1>12 DEF points, times

(* What GetHistory (store.go:161) returns of a past shorter than the ring  *)
(* is what was recorded in it, in order, once, and all of it: after any    *)
(* idle time, with the clock set back, and for every length and resolution *)
(* of the ring.                                                            *)
THEOREM CollectorHistoryIsTruth == CollectorSpec => []HistoryIsTruth
<1>1. StoreInv => HistoryIsTruth
  BY InvIsTruth DEF StoreInv
<1> QED BY <1>1, CollectorImplementsStore, StoreInvariant, PTL

------------------------------------------------------------------------------
(* A sum of naturals is the number of their units, which needs no          *)
(* induction: a unit is a number of its summand.                           *)

Units(h, s) == {p \in s \X Nat : 1 <= p[2] /\ p[2] <= h[p[1]]}
Sum(h, s) == Cardinality(Units(h, s))

(* As many units as the summand. *)
LEMMA ColumnCounts ==
  ASSUME NEW x, NEW n \in Nat
  PROVE  IsFiniteSet({x} \X (1..n)) /\ Cardinality({x} \X (1..n)) = n
<1>1. IsFiniteSet({x}) /\ Cardinality({x}) = 1
  BY FS_Singleton
<1>2. IsFiniteSet(1..n) /\ Cardinality(1..n) = n
  BY FS_Interval
<1>3. /\ IsFiniteSet({x} \X (1..n))
      /\ Cardinality({x} \X (1..n)) = Cardinality({x}) * Cardinality(1..n)
  BY <1>1, <1>2, FS_Product
<1> QED BY <1>1, <1>2, <1>3

(* A finite sum is a natural number. *)
LEMMA UnitsFinite ==
  ASSUME NEW S, IsFiniteSet(S), NEW h \in [S -> Nat]
  PROVE  IsFiniteSet(Units(h, S)) /\ Sum(h, S) \in Nat
<1> DEFINE column == [x \in S |-> {x} \X (1..h[x])]
           columns == {{x} \X (1..h[x]) : x \in S}
<1>1. column \in Surjection(S, columns)
  BY DEF Surjection
<1>2. IsFiniteSet(columns)
  BY <1>1, FS_Surjection
<1>3. \A T \in columns : IsFiniteSet(T)
  <2> SUFFICES ASSUME NEW x \in S PROVE IsFiniteSet({x} \X (1..h[x]))
    OBVIOUS
  <2> QED BY ColumnCounts
<1>4. IsFiniteSet(UNION columns)
  BY <1>2, <1>3, FS_UNION
<1>5. Units(h, S) \in SUBSET (UNION columns)
  <2> SUFFICES ASSUME NEW p \in Units(h, S) PROVE p \in {p[1]} \X (1..h[p[1]]) /\ p[1] \in S
    OBVIOUS
  <2> QED BY DEF Units
<1> QED BY <1>4, <1>5, FS_Subset, FS_CardinalityType DEF Sum

(* A summand and the sum of the rest. *)
LEMMA SumStep ==
  ASSUME NEW S, IsFiniteSet(S), NEW h \in [S -> Nat], NEW s \in SUBSET S, NEW x \in s
  PROVE  Sum(h, s) = h[x] + Sum(h, s \ {x})
<1> DEFINE rest == Units(h, s \ {x})
           column == {x} \X (1..h[x])
<1>1. IsFiniteSet(column) /\ Cardinality(column) = h[x] /\ h[x] \in Nat
  BY ColumnCounts
<1>2. IsFiniteSet(rest)
  <2>1. rest \in SUBSET Units(h, S)
    BY DEF Units
  <2> QED BY <2>1, UnitsFinite, FS_Subset
<1>3. Units(h, s) = column \cup rest
  BY DEF Units
<1>4. column \cap rest = {}
  BY DEF Units
<1> HIDE DEF rest, column
<1>5. Cardinality(column \cup rest) = Cardinality(column) + Cardinality(rest) - Cardinality({})
  BY <1>1, <1>2, <1>4, FS_Union
<1>6. Cardinality(rest) \in Nat
  BY <1>2, FS_CardinalityType
<1> QED BY <1>1, <1>3, <1>5, <1>6, FS_EmptySet DEF Sum, rest

(* The same summands have the same sum. *)
LEMMA SumSame ==
  ASSUME NEW s, NEW h, NEW g, \A x \in s : h[x] = g[x]
  PROVE  Sum(h, s) = Sum(g, s)
<1>1. Units(h, s) = Units(g, s)
  BY DEF Units
<1> QED BY <1>1 DEF Sum

(* Nothing sums to nothing. *)
LEMMA SumZero ==
  ASSUME NEW s, NEW h, \A x \in s : h[x] = 0
  PROVE  Sum(h, s) = 0
<1>1. Units(h, s) = {}
  BY DEF Units
<1> QED BY <1>1, FS_EmptySet DEF Sum

(* The sums of the fields of what is counted at some places. *)
Fields == {"requests", "errors", "latency"}
Field(f, name) == [x \in DOMAIN f |-> f[x][name]]
Total(f, s) == [requests |-> Sum(Field(f, "requests"), s),
                errors |-> Sum(Field(f, "errors"), s),
                latency |-> Sum(Field(f, "latency"), s)]

(* A field of counts is a natural number. *)
LEMMA FieldsAre ==
  ASSUME NEW S, NEW f \in [S -> Counts]
  PROVE  /\ DOMAIN f = S
         /\ Field(f, "requests") \in [S -> Nat]
         /\ Field(f, "errors") \in [S -> Nat]
         /\ Field(f, "latency") \in [S -> Nat]
BY DEF Field, Counts

(* The counts of one place and the total of the rest. *)
LEMMA TotalStep ==
  ASSUME NEW S, IsFiniteSet(S), NEW f \in [S -> Counts], NEW s \in SUBSET S, NEW x \in s
  PROVE  /\ Total(f, s \ {x}) \in Counts
         /\ Total(f, s).requests = f[x].requests + Total(f, s \ {x}).requests
         /\ Total(f, s).errors = f[x].errors + Total(f, s \ {x}).errors
         /\ Total(f, s).latency = f[x].latency + Total(f, s \ {x}).latency
<1>1. IsFiniteSet(s \ {x}) /\ x \in S
  BY FS_Subset
<1>2. ASSUME NEW name \in Fields
      PROVE  /\ Sum(Field(f, name), s) = f[x][name] + Sum(Field(f, name), s \ {x})
             /\ Sum(Field(f, name), s \ {x}) \in Nat
  <2>1. Field(f, name) \in [S -> Nat] /\ Field(f, name)[x] = f[x][name]
    BY <1>1, FieldsAre DEF Fields, Field
  <2>2. Sum(Field(f, name), s) = Field(f, name)[x] + Sum(Field(f, name), s \ {x})
    BY <2>1, SumStep
  <2>3. Units(Field(f, name), s \ {x}) \in SUBSET Units(Field(f, name), S)
    BY DEF Units
  <2>4. Sum(Field(f, name), s \ {x}) \in Nat
    BY <2>1, <2>3, UnitsFinite, FS_Subset, FS_CardinalityType DEF Sum
  <2> QED BY <2>1, <2>2, <2>4
<1> QED BY <1>2 DEF Total, Counts, Fields

(* ... which are counts, too, that one adds to the other. *)
LEMMA TotalAdds ==
  ASSUME NEW S, IsFiniteSet(S), NEW f \in [S -> Counts], NEW s \in SUBSET S, NEW x \in s
  PROVE  /\ Total(f, s \ {x}) \in Counts
         /\ Total(f, s) = Add(f[x], Total(f, s \ {x}))
         /\ Total(f, s) = Add(Total(f, s \ {x}), f[x])
<1> DEFINE rest == Total(f, s \ {x})
           whole == Total(f, s)
           one == Add(f[x], rest)
           other == Add(rest, f[x])
<1>1. /\ rest \in Counts /\ f[x] \in Counts
      /\ whole.requests = f[x].requests + rest.requests
      /\ whole.errors = f[x].errors + rest.errors
      /\ whole.latency = f[x].latency + rest.latency
  BY TotalStep
<1>2. whole \in [{"requests", "errors", "latency"} -> {whole.requests, whole.errors, whole.latency}]
  BY DEF Total
<1> HIDE DEF rest, whole
<1>3. /\ one \in Counts /\ one.requests = f[x].requests + rest.requests
      /\ one.errors = f[x].errors + rest.errors /\ one.latency = f[x].latency + rest.latency
  BY <1>1, AddCounts
<1>4. /\ other \in Counts /\ other.requests = rest.requests + f[x].requests
      /\ other.errors = rest.errors + f[x].errors /\ other.latency = rest.latency + f[x].latency
  BY <1>1, AddCounts
<1> HIDE DEF one, other
<1>5. whole = one
  BY <1>1, <1>2, <1>3 DEF Counts
<1>6. other = one
  <2>1. /\ f[x].requests \in Nat /\ f[x].errors \in Nat /\ f[x].latency \in Nat
        /\ rest.requests \in Nat /\ rest.errors \in Nat /\ rest.latency \in Nat
    BY <1>1 DEF Counts
  <2>2. /\ other.requests = one.requests /\ other.errors = one.errors
        /\ other.latency = one.latency
    BY <1>3, <1>4, <2>1
  <2> QED BY <1>3, <1>4, <2>2 DEF Counts
<1> QED BY <1>1, <1>5, <1>6 DEF rest, whole, one, other

(* The total of no places. *)
LEMMA TotalOfNone == ASSUME NEW f PROVE Total(f, {}) = Empty
<1>1. /\ Sum(Field(f, "requests"), {}) = 0 /\ Sum(Field(f, "errors"), {}) = 0
      /\ Sum(Field(f, "latency"), {}) = 0
  BY SumZero
<1> QED BY <1>1 DEF Total, Empty

(* Whatever adds the places one by one, in any order and to either side,   *)
(* has the total: a smallest set for which it differs would have a smaller *)
(* one.                                                                    *)
LEMMA AnyOrder ==
  ASSUME NEW S, IsFiniteSet(S), NEW f \in [S -> Counts], NEW iter,
         iter[{}] = Empty,
         \A s \in SUBSET S : s # {} =>
           \E x \in s : \/ iter[s] = Add(f[x], iter[s \ {x}])
                        \/ iter[s] = Add(iter[s \ {x}], f[x])
  PROVE  iter[S] = Total(f, S)
<1> DEFINE wrong == {s \in SUBSET S : iter[s] # Total(f, s)}
<1>1. ASSUME wrong # {} PROVE FALSE
  <2>1. IsWellFoundedOn(StrictSubsetOrdering(S), SUBSET S)
    BY FS_StrictSubsetOrderingWellFounded, FS_FiniteSubsetsOfFinite
  <2>2. PICK s \in wrong : \A u \in wrong : <<u, s>> \notin StrictSubsetOrdering(S)
    BY <1>1, <2>1, WFMin
  <2>3. s # {}
    BY <2>2, TotalOfNone
  <2>4. PICK x \in s : \/ iter[s] = Add(f[x], iter[s \ {x}])
                       \/ iter[s] = Add(iter[s \ {x}], f[x])
    BY <2>2, <2>3
  <2> DEFINE rest == s \ {x}
  <2>5. rest \notin wrong /\ rest \in SUBSET S
    <3>1. rest \in SUBSET S /\ s \in SUBSET S /\ rest \subseteq s /\ rest # s
      BY <2>2, <2>4
    <3> HIDE DEF rest
    <3>2. <<rest, s>> \in StrictSubsetOrdering(S)
      BY <3>1 DEF StrictSubsetOrdering
    <3> QED BY <2>2, <3>1, <3>2
  <2>6. iter[rest] = Total(f, rest)
    BY <2>5
  <2>7. Total(f, s) = Add(f[x], Total(f, rest)) /\ Total(f, s) = Add(Total(f, rest), f[x])
    BY <2>2, <2>4, TotalAdds
  <2> QED BY <2>2, <2>4, <2>6, <2>7
<1> QED BY <1>1

------------------------------------------------------------------------------
(* The fold over what was recorded is that sum.                            *)

(* The function that the fold takes its result from. *)
Chosen(s) == CHOOSE x \in s : TRUE
IsIter(iter, f, S) ==
  iter = [s \in SUBSET S |->
            IF s = {} THEN Empty ELSE Add(f[Chosen(s)], iter[s \ {Chosen(s)}])]
Folded(f) == FoldFunction(Add, Empty, f)

(* The fold is the result for all places of the function that it chooses. *)
LEMMA FoldIs ==
  ASSUME NEW f
  PROVE  Folded(f) = (CHOOSE iter : IsIter(iter, f, DOMAIN f))[DOMAIN f]
BY DEF Folded, FoldFunction, FoldFunctionOnSet, MapThenFoldSet, IsIter, Chosen

(* The total is such a function. *)
LEMMA TotalIsIter ==
  ASSUME NEW S, IsFiniteSet(S), NEW f \in [S -> Counts]
  PROVE  IsIter([s \in SUBSET S |-> Total(f, s)], f, S)
<1> DEFINE iter == [s \in SUBSET S |-> Total(f, s)]
<1> SUFFICES ASSUME NEW s \in SUBSET S
             PROVE  Total(f, s) = IF s = {} THEN Empty
                                  ELSE Add(f[Chosen(s)], iter[s \ {Chosen(s)}])
  BY DEF IsIter
<1>1. CASE s = {}
  BY <1>1, TotalOfNone
<1>2. CASE s # {}
  <2>1. Chosen(s) \in s
    BY <1>2 DEF Chosen
  <2>2. iter[s \ {Chosen(s)}] = Total(f, s \ {Chosen(s)})
    OBVIOUS
  <2> QED BY <1>2, <2>1, <2>2, TotalAdds
<1> QED BY <1>1, <1>2

(* So the fold is the total. *)
LEMMA FoldIsTotal ==
  ASSUME NEW S, IsFiniteSet(S), NEW f \in [S -> Counts]
  PROVE  Folded(f) = Total(f, S)
<1>1. DOMAIN f = S /\ \E iter : IsIter(iter, f, S)
  BY TotalIsIter
<1>2. PICK iter : IsIter(iter, f, S) /\ Folded(f) = iter[S]
  BY <1>1, FoldIs
<1>3. /\ iter[{}] = Empty
      /\ \A s \in SUBSET S : s # {} => iter[s] = Add(f[Chosen(s)], iter[s \ {Chosen(s)}])
  BY <1>2 DEF IsIter
<1>4. \A s \in SUBSET S : s # {} => Chosen(s) \in s
  BY DEF Chosen
<1>5. iter[S] = Total(f, S)
  <2>1. \A s \in SUBSET S : s # {} => \E x \in s : iter[s] = Add(f[x], iter[s \ {x}])
    BY <1>3, <1>4
  <2> QED BY <1>3, <2>1, AnyOrder
<1> QED BY <1>2, <1>5

(* Adding at one place adds to the fold. *)
LEMMA FoldAdds ==
  ASSUME NEW S, IsFiniteSet(S), NEW f \in [S -> Counts], NEW g \in [S -> Counts],
         NEW x \in S, NEW change \in Counts, g[x] = Add(f[x], change),
         \A y \in S : y # x => g[y] = f[y]
  PROVE  /\ Folded(f) \in Counts
         /\ Folded(g) = Add(Folded(f), change)
<1>1. Folded(f) = Total(f, S) /\ Folded(g) = Total(g, S)
  BY FoldIsTotal
<1>2. ASSUME NEW name \in Fields PROVE Sum(Field(g, name), S \ {x}) = Sum(Field(f, name), S \ {x})
  BY SumSame DEF Field
<1>3. Total(g, S \ {x}) = Total(f, S \ {x})
  BY <1>2 DEF Total, Fields
<1> DEFINE rest == Total(f, S \ {x})
<1>4. /\ rest \in Counts /\ f[x] \in Counts
      /\ Total(f, S).requests = f[x].requests + rest.requests
      /\ Total(f, S).errors = f[x].errors + rest.errors
      /\ Total(f, S).latency = f[x].latency + rest.latency
  BY TotalStep
<1>5. /\ Total(g, S).requests = g[x].requests + rest.requests
      /\ Total(g, S).errors = g[x].errors + rest.errors
      /\ Total(g, S).latency = g[x].latency + rest.latency
  <2>1. /\ Total(g, S).requests = g[x].requests + Total(g, S \ {x}).requests
        /\ Total(g, S).errors = g[x].errors + Total(g, S \ {x}).errors
        /\ Total(g, S).latency = g[x].latency + Total(g, S \ {x}).latency
    BY TotalStep
  <2> QED BY <1>3, <2>1
<1>6. /\ g[x] = Add(f[x], change)
      /\ g[x].requests = f[x].requests + change.requests
      /\ g[x].errors = f[x].errors + change.errors
      /\ g[x].latency = f[x].latency + change.latency
  BY <1>4, AddCounts
<1> HIDE DEF rest
<1>7. Total(f, S) \in Counts /\ DOMAIN Total(g, S) = DOMAIN Total(f, S)
  BY <1>4 DEF Total, Counts
<1>8. /\ Add(Total(f, S), change) \in Counts
      /\ Add(Total(f, S), change).requests = Total(f, S).requests + change.requests
      /\ Add(Total(f, S), change).errors = Total(f, S).errors + change.errors
      /\ Add(Total(f, S), change).latency = Total(f, S).latency + change.latency
  BY <1>7, AddCounts
<1>9. /\ Total(g, S).requests = Total(f, S).requests + change.requests
      /\ Total(g, S).errors = Total(f, S).errors + change.errors
      /\ Total(g, S).latency = Total(f, S).latency + change.latency
  BY <1>4, <1>5, <1>6 DEF Counts
<1>10. Total(g, S) = Add(Total(f, S), change)
  BY <1>8, <1>9 DEF Total, Counts
<1> QED BY <1>1, <1>7, <1>10

(* If only one place has counts, the fold is these. *)
LEMMA FoldGathers ==
  ASSUME NEW S, IsFiniteSet(S), NEW f \in [S -> Counts], NEW x \in S,
         \A y \in S : y # x => f[y] = Empty
  PROVE  Folded(f) = f[x]
<1>1. ASSUME NEW name \in Fields PROVE Sum(Field(f, name), S \ {x}) = 0
  BY SumZero DEF Field, Fields, Empty
<1>2. /\ f[x] \in Counts
      /\ Total(f, S).requests = f[x].requests + Total(f, S \ {x}).requests
      /\ Total(f, S).errors = f[x].errors + Total(f, S \ {x}).errors
      /\ Total(f, S).latency = f[x].latency + Total(f, S \ {x}).latency
  BY TotalStep
<1>3. /\ Total(f, S).requests = f[x].requests
      /\ Total(f, S).errors = f[x].errors
      /\ Total(f, S).latency = f[x].latency
  <2>1. Total(f, S \ {x}).requests = 0 /\ Total(f, S \ {x}).errors = 0
          /\ Total(f, S \ {x}).latency = 0
    BY <1>1 DEF Total, Fields
  <2> QED BY <1>2, <2>1 DEF Counts
<1>4. Total(f, S) = f[x]
  BY <1>2, <1>3 DEF Total, Counts
<1> QED BY <1>4, FoldIsTotal

------------------------------------------------------------------------------
(* Least and greatest numbers, for the folds over places in their order.   *)

(* The greatest and the least of finitely many numbers. *)
LEMMA EndsAre ==
  ASSUME NEW s \in SUBSET Int, IsFiniteSet(s), s # {}
  PROVE  /\ Max(s) \in s /\ \A x \in s : x <= Max(s)
         /\ \E m \in s : \A x \in s : m <= x
<1> DEFINE keys == [i \in s |-> i]
           order == Sorting(keys)
           N == Cardinality(s)
<1>0. keys \in [s -> Int] /\ DOMAIN keys = s /\ \A i \in s : keys[i] = i
  OBVIOUS
<1> HIDE DEF keys
<1>1. /\ N \in Nat
      /\ \A n \in 1..N : order[n] \in s
      /\ \A i \in s : \E n \in 1..N : order[n] = i
      /\ \A m, n \in 1..N : m < n => order[m] \in Earlier(keys, order[n])
  BY <1>0, SortingIs
<1> HIDE DEF N, order
<1>2. N > 0
  <2>1. PICK i : i \in s
    OBVIOUS
  <2>2. PICK n \in 1..N : order[n] = i
    BY <1>1, <2>1
  <2> QED BY <1>1, <2>2
<1>3. \A m, n \in 1..N : m <= n => order[m] <= order[n]
  <2> SUFFICES ASSUME NEW m \in 1..N, NEW n \in 1..N, m <= n PROVE order[m] <= order[n]
    OBVIOUS
  <2>1. order[m] \in s /\ order[n] \in s /\ order[m] \in Int /\ order[n] \in Int
    BY <1>1
  <2>2. CASE m = n
    BY <2>1, <2>2
  <2>3. CASE m < n
    <3>1. order[m] \in Earlier(keys, order[n])
      BY <1>1, <2>3
    <3>2. keys[order[m]] <= keys[order[n]]
      BY <1>0, <2>1, <3>1 DEF Earlier
    <3> QED BY <1>0, <2>1, <3>2
  <2> QED BY <1>1, <2>2, <2>3
<1>4. /\ order[1] \in s /\ \A x \in s : order[1] <= x
      /\ order[N] \in s /\ \A x \in s : x <= order[N]
  BY <1>1, <1>2, <1>3
<1>5. Max(s) \in s /\ \A x \in s : Max(s) >= x
  BY <1>4 DEF Max
<1> QED BY <1>4, <1>5

------------------------------------------------------------------------------
(* The sums of a history.                                                  *)

CountsOf(points) == [i \in DOMAIN points |-> Data(points[i])]
Upto(points, k) == Total(CountsOf(points), 1..k)
IsSumming(iter, points, S) ==
  iter = [s \in SUBSET S |->
            IF s = {} THEN Empty ELSE Add(iter[s \ {Max(s)}], points[Max(s)])]

(* The sum is the result of the function that the fold chooses. *)
LEMMA SumOfIs ==
  ASSUME NEW points
  PROVE  SumOf(points)
           = (CHOOSE iter : IsSumming(iter, points, DOMAIN points))[DOMAIN points]
BY DEF SumOf, FoldLeft, MapThenFoldSet, IsSumming

(* Only the counts of a bucket are added. *)
LEMMA AddIsOfData == ASSUME NEW b, NEW change PROVE Add(b, change) = Add(b, Data(change))
BY DEF Add, Data

(* A part of a range of places is finite, and so has a last place. *)
LEMMA LastOfPart ==
  ASSUME NEW n \in Nat, NEW s \in SUBSET (1..n), s # {}
  PROVE  IsFiniteSet(s) /\ Max(s) \in s /\ \A x \in s : x <= Max(s)
<1>1. IsFiniteSet(1..n)
  BY FS_Interval
<1>2. IsFiniteSet(s)
  BY <1>1, FS_Subset
<1>3. s \in SUBSET Int
  OBVIOUS
<1> QED BY <1>2, <1>3, EndsAre

(* The sum of a history is the total of its counts. *)
LEMMA SumOfIsTotal ==
  ASSUME NEW n \in Nat, NEW points, DOMAIN points = 1..n, \A i \in 1..n : Data(points[i]) \in Counts
  PROVE  SumOf(points) = Upto(points, n)
<1> DEFINE f == CountsOf(points)
           S == 1..n
           total == [s \in SUBSET S |-> Total(f, s)]
<1>1. IsFiniteSet(S) /\ f \in [S -> Counts] /\ \A i \in S : f[i] = Data(points[i])
  BY FS_Interval DEF CountsOf
<1> HIDE DEF f
<1>2. IsSumming(total, points, S)
  <2> SUFFICES ASSUME NEW s \in SUBSET S
               PROVE  Total(f, s) = IF s = {} THEN Empty
                                    ELSE Add(total[s \ {Max(s)}], points[Max(s)])
    BY DEF IsSumming
  <2>1. CASE s = {}
    BY <2>1, TotalOfNone
  <2>2. CASE s # {}
    <3>1. Max(s) \in s
      BY <2>2, LastOfPart
    <3>2. total[s \ {Max(s)}] = Total(f, s \ {Max(s)})
      OBVIOUS
    <3>3. Total(f, s) = Add(Total(f, s \ {Max(s)}), f[Max(s)])
      BY <1>1, <3>1, TotalAdds
    <3>4. f[Max(s)] = Data(points[Max(s)])
      BY <1>1, <3>1
    <3> HIDE DEF total
    <3> QED BY <2>2, <3>2, <3>3, <3>4, AddIsOfData
  <2> QED BY <2>1, <2>2
<1>3. PICK iter : IsSumming(iter, points, S) /\ SumOf(points) = iter[S]
  BY <1>2, SumOfIs
<1>4. /\ iter[{}] = Empty
      /\ \A s \in SUBSET S : s # {} => iter[s] = Add(iter[s \ {Max(s)}], points[Max(s)])
  BY <1>3 DEF IsSumming
<1>5. \A s \in SUBSET S : s # {} => \E x \in s : iter[s] = Add(iter[s \ {x}], f[x])
  <2> SUFFICES ASSUME NEW s \in SUBSET S, s # {}
               PROVE  iter[s] = Add(iter[s \ {Max(s)}], f[Max(s)]) /\ Max(s) \in s
    OBVIOUS
  <2>1. Max(s) \in s
    BY LastOfPart
  <2>2. f[Max(s)] = Data(points[Max(s)])
    BY <1>1, <2>1
  <2>3. iter[s] = Add(iter[s \ {Max(s)}], points[Max(s)])
    BY <1>4
  <2>4. iter[s] = Add(iter[s \ {Max(s)}], Data(points[Max(s)]))
    BY <2>3, AddIsOfData
  <2> QED BY <2>1, <2>2, <2>4
<1>6. iter[S] = Total(f, S)
  <2> HIDE DEF S
  <2> QED BY <1>1, <1>4, <1>5, AnyOrder
<1> QED BY <1>3, <1>6 DEF Upto, f

(* With each place, what is counted there is added. *)
LEMMA UptoAdds ==
  ASSUME NEW n \in Nat, NEW points, DOMAIN points = 1..n,
         \A i \in 1..n : Data(points[i]) \in Counts, NEW k \in 1..n
  PROVE  /\ Upto(points, k - 1) \in Counts
         /\ Upto(points, k) = Add(Upto(points, k - 1), Data(points[k]))
<1> DEFINE f == CountsOf(points)
           S == 1..n
           part == 1..k
<1>1. IsFiniteSet(S) /\ f \in [S -> Counts] /\ f[k] = Data(points[k])
  BY FS_Interval DEF CountsOf
<1>2. part \ {k} = 1..(k - 1)
  OBVIOUS
<1>3. k \in part /\ part \in SUBSET S
  OBVIOUS
<1> HIDE DEF f, S, part
<1>4. Total(f, part \ {k}) \in Counts /\ Total(f, part) = Add(Total(f, part \ {k}), f[k])
  BY <1>1, <1>3, TotalAdds
<1> QED BY <1>1, <1>2, <1>4 DEF Upto, f, part

(* At first nothing is. *)
LEMMA UptoNone == ASSUME NEW points PROVE Upto(points, 0) = Empty
<1>1. 1..0 = {}
  OBVIOUS
<1> QED BY <1>1, TotalOfNone DEF Upto

(* The sum of no more than the first places is the same for a longer       *)
(* history.                                                                *)
LEMMA UptoSame ==
  ASSUME NEW k \in Nat, NEW points, NEW others, 1..k \subseteq DOMAIN points,
         1..k \subseteq DOMAIN others, \A i \in 1..k : points[i] = others[i]
  PROVE  Upto(points, k) = Upto(others, k)
<1>1. \A name \in Fields : \A i \in 1..k :
        Field(CountsOf(points), name)[i] = Field(CountsOf(others), name)[i]
  BY DEF Field, CountsOf
<1>2. \A name \in Fields : Sum(Field(CountsOf(points), name), 1..k)
                             = Sum(Field(CountsOf(others), name), 1..k)
  BY <1>1, SumSame
<1> QED BY <1>2 DEF Upto, Total, Fields

(* A sequence of buckets has counts to sum. *)
LEMMA BucketsHaveCounts == ASSUME NEW b \in BucketSet
  PROVE /\ Data(b) \in Counts /\ Data(b).requests = b.requests /\ Data(b).errors = b.errors
        /\ Data(b).latency = b.latency
BY DEF BucketSet, Data, Counts

(* What is appended to a history is added to its sum. *)
LEMMA SumOfAppend ==
  ASSUME NEW points \in Seq(BucketSet), NEW b \in BucketSet
  PROVE  /\ SumOf(points) \in Counts
         /\ SumOf(Append(points, b)) = Add(SumOf(points), Data(b))
<1> DEFINE n == Len(points)
           longer == Append(points, b)
<1>1. /\ n \in Nat /\ DOMAIN points = 1..n /\ DOMAIN longer = 1..(n + 1)
      /\ \A i \in 1..n : points[i] \in BucketSet /\ longer[i] = points[i]
      /\ longer[n + 1] = b
  OBVIOUS
<1> HIDE DEF n, longer
<1>2. \A i \in 1..n : Data(points[i]) \in Counts
  BY <1>1, BucketsHaveCounts
<1>3. \A i \in 1..(n + 1) : Data(longer[i]) \in Counts
  BY <1>1, BucketsHaveCounts
<1>4. n + 1 \in Nat /\ n + 1 \in 1..(n + 1) /\ (n + 1) - 1 = n
  BY <1>1
<1>5. SumOf(points) = Upto(points, n) /\ SumOf(longer) = Upto(longer, n + 1)
  BY <1>1, <1>2, <1>3, <1>4, SumOfIsTotal
<1>6. /\ Upto(longer, n) \in Counts
      /\ Upto(longer, n + 1) = Add(Upto(longer, n), Data(b))
  BY <1>1, <1>3, <1>4, UptoAdds
<1>7. Upto(longer, n) = Upto(points, n)
  <2>1. 1..n \subseteq DOMAIN points /\ 1..n \subseteq DOMAIN longer
    BY <1>1
  <2> QED BY <1>1, <2>1, UptoSame
<1> QED BY <1>5, <1>6, <1>7 DEF longer

(* An empty history sums to nothing. *)
LEMMA SumOfNone == SumOf(<<>>) = Empty
<1>1. DOMAIN <<>> = 1..0 /\ \A i \in 1..0 : Data(<<>>[i]) \in Counts
  OBVIOUS
<1> QED BY <1>1, SumOfIsTotal, UptoNone

------------------------------------------------------------------------------
(* The loop of aggregatePoints.                                            *)

IsLoop(iter, points, resolution, S) ==
  iter = [s \in SUBSET S |->
            IF s = {} THEN Nothing
            ELSE Include(iter[s \ {Max(s)}], points[Max(s)], resolution)]

(* The loop ends with the result of the function that the fold chooses. *)
LEMMA SummedIs ==
  ASSUME NEW points, NEW resolution
  PROVE  Summed(points, resolution)
           = (CHOOSE iter : IsLoop(iter, points, resolution, DOMAIN points))[DOMAIN points]
BY DEF Summed, FoldLeft, MapThenFoldSet, IsLoop

(* There is such a function: if there were none for so many points, there  *)
(* would be none for one less.                                             *)
LEMMA LoopExists ==
  ASSUME NEW n \in Nat, NEW points, NEW resolution
  PROVE  \E iter : IsLoop(iter, points, resolution, 1..n)
<1> DEFINE bad == {m \in 0..n : ~\E iter : IsLoop(iter, points, resolution, 1..m)}
<1> SUFFICES ASSUME bad # {} PROVE FALSE
  OBVIOUS
<1>1. PICK m \in bad : \A k \in bad : m <= k
  <2>1. IsFiniteSet(0..n)
    BY FS_Interval
  <2>2. bad \in SUBSET (0..n) /\ bad \in SUBSET Int
    OBVIOUS
  <2>3. IsFiniteSet(bad)
    BY <2>1, <2>2, FS_Subset
  <2> QED BY <2>2, <2>3, EndsAre
<1>2. m # 0
  <2> SUFFICES ASSUME m = 0 PROVE \E iter : IsLoop(iter, points, resolution, 1..m)
    BY <1>1
  <2>1. 1..m = {} /\ SUBSET {} = {{}}
    OBVIOUS
  <2>2. IsLoop([s \in SUBSET {} |-> Nothing], points, resolution, {})
    BY <2>1 DEF IsLoop
  <2> QED BY <2>1, <2>2
<1>3. m \in Nat /\ m - 1 \in 0..n /\ m - 1 < m
  BY <1>1, <1>2
<1>4. PICK fewer : IsLoop(fewer, points, resolution, 1..(m - 1))
  BY <1>1, <1>3
<1> DEFINE step(g, s) == IF s = {} THEN Nothing
                         ELSE Include(g[s \ {Max(s)}], points[Max(s)], resolution)
           more == [s \in SUBSET (1..m) |-> step(fewer, s)]
<1>5. \A s \in SUBSET (1..(m - 1)) : fewer[s] = step(fewer, s)
  BY <1>4 DEF IsLoop
<1>6. ASSUME NEW s \in SUBSET (1..m), s # {} PROVE s \ {Max(s)} \in SUBSET (1..(m - 1))
  <2>1. Max(s) \in s /\ \A x \in s : x <= Max(s)
    BY <1>3, <1>6, LastOfPart
  <2> SUFFICES ASSUME NEW x \in s, x # Max(s) PROVE x \in 1..(m - 1)
    OBVIOUS
  <2>2. x \in 1..m /\ Max(s) \in 1..m /\ x <= Max(s)
    BY <1>6, <2>1
  <2> QED BY <1>3, <2>2
<1>7. \A s \in SUBSET (1..(m - 1)) : more[s] = fewer[s]
  <2>1. 1..(m - 1) \subseteq 1..m
    BY <1>3
  <2> HIDE DEF step
  <2> QED BY <1>5, <2>1
<1>8. ASSUME NEW s \in SUBSET (1..m) PROVE more[s] = step(more, s)
  <2>1. more[s] = step(fewer, s)
    OBVIOUS
  <2>2. CASE s = {}
    BY <2>1, <2>2
  <2>3. CASE s # {}
    <3>1. more[s \ {Max(s)}] = fewer[s \ {Max(s)}]
      BY <1>6, <1>7, <2>3
    <3> HIDE DEF more
    <3> QED BY <2>1, <2>3, <3>1
  <2> QED BY <2>2, <2>3
<1>9. IsLoop(more, points, resolution, 1..m)
  <2>1. more = [s \in SUBSET (1..m) |-> more[s]]
    OBVIOUS
  <2> HIDE DEF more
  <2>2. more = [s \in SUBSET (1..m) |-> step(more, s)]
    BY <1>8, <2>1
  <2> QED BY <2>2 DEF IsLoop
<1> QED BY <1>1, <1>9

(* The loop after each of n points. *)
IsRun(acc, n, points, resolution) ==
  /\ acc[0] = Nothing
  /\ \A k \in 1..n : acc[k] = Include(acc[k - 1], points[k], resolution)
  /\ acc[n] = Summed(points, resolution)

(* It includes one point after the other. *)
LEMMA LoopSteps ==
  ASSUME NEW n \in Nat, NEW points, DOMAIN points = 1..n, NEW resolution
  PROVE  \E acc : IsRun(acc, n, points, resolution)
<1>1. PICK iter : /\ IsLoop(iter, points, resolution, 1..n)
                  /\ Summed(points, resolution) = iter[1..n]
  BY LoopExists, SummedIs
<1>2. \A s \in SUBSET (1..n) :
        iter[s] = IF s = {} THEN Nothing
                  ELSE Include(iter[s \ {Max(s)}], points[Max(s)], resolution)
  BY <1>1 DEF IsLoop
<1> DEFINE acc == [k \in 0..n |-> iter[1..k]]
<1>3. acc[0] = Nothing
  <2>1. 1..0 = {} /\ 0 \in 0..n
    OBVIOUS
  <2>2. iter[{}] = Nothing
    BY <1>2
  <2> QED BY <2>1, <2>2
<1>4. acc[n] = Summed(points, resolution)
  BY <1>1
<1>5. ASSUME NEW k \in 1..n PROVE acc[k] = Include(acc[k - 1], points[k], resolution)
  <2> DEFINE s == 1..k
  <2>1. s \in SUBSET (1..n) /\ s # {} /\ k \in s /\ \A x \in s : x \in Int /\ x <= k
    OBVIOUS
  <2>2. s \ {k} = 1..(k - 1)
    OBVIOUS
  <2>3. acc[k] = iter[s] /\ acc[k - 1] = iter[1..(k - 1)]
    <3>1. k \in 0..n /\ k - 1 \in 0..n
      OBVIOUS
    <3> QED BY <3>1
  <2> HIDE DEF s
  <2>4. Max(s) = k
    <3> DEFINE last == Max(s)
    <3>1. last \in s /\ \A x \in s : x <= last
      BY <2>1, LastOfPart
    <3> HIDE DEF last
    <3>2. last \in Int /\ k \in Int /\ last <= k /\ k <= last
      BY <2>1, <3>1
    <3> QED BY <3>2 DEF last
  <2> HIDE DEF acc
  <2>5. iter[s] = Include(iter[s \ {Max(s)}], points[Max(s)], resolution)
    BY <1>2, <2>1
  <2> QED BY <2>2, <2>3, <2>4, <2>5
<1> HIDE DEF acc
<1>6. IsRun(acc, n, points, resolution)
  BY <1>3, <1>4, <1>5 DEF IsRun
<1> QED BY <1>6

------------------------------------------------------------------------------
(* What the loop keeps: the points that are emitted and the one that is    *)
(* being summed have nothing that is not in the first k points, and the    *)
(* former and the requests with latencies have every slow request of them. *)

Apart(result, resolution) ==
  \A i \in 1..Len(result) - 1 : result[i].timestamp + resolution < result[i + 1].timestamp

LoopShape(acc, resolution) ==
  /\ acc \in [result : Seq(BucketSet), any : BOOLEAN, end : Int, current : BucketSet,
              latencyCount : Nat]
  /\ ~acc.any => acc.result = <<>> /\ Data(acc.current) = Empty /\ acc.latencyCount = 0
  /\ acc.any => acc.end = acc.current.timestamp + resolution
  /\ Apart(acc.result, resolution)
  /\ \A i \in 1..Len(acc.result) : acc.result[i].timestamp + resolution < acc.current.timestamp

LoopCounts(acc, all, slow) ==
  /\ acc.latencyCount <= acc.current.requests
  /\ SumOf(acc.result).requests + acc.current.requests <= all.requests
  /\ SumOf(acc.result).errors + acc.current.errors <= all.errors
  /\ slow.requests <= SumOf(acc.result).requests + acc.latencyCount

(* What is emitted. *)
LEMMA EmittedIs ==
  ASSUME NEW resolution \in Nat, NEW acc, NEW all \in Counts, NEW slow \in Counts,
         LoopShape(acc, resolution), LoopCounts(acc, all, slow)
  PROVE  /\ Emitted(acc) \in Seq(BucketSet) /\ Apart(Emitted(acc), resolution)
         /\ ~acc.any => Emitted(acc) = <<>>
         /\ \A i \in 1..Len(Emitted(acc)) : Emitted(acc)[i].timestamp <= acc.current.timestamp
         /\ SumOf(Emitted(acc)) \in Counts
         /\ SumOf(Emitted(acc)).requests <= all.requests
         /\ SumOf(Emitted(acc)).errors <= all.errors
         /\ slow.requests <= SumOf(Emitted(acc)).requests
<1> DEFINE result == acc.result
           point == acc.current
           n == Len(result)
           sum == SumOf(result)
           out == Emitted(acc)
<1>1. /\ result \in Seq(BucketSet) /\ point \in BucketSet /\ acc.latencyCount \in Nat
      /\ n \in Nat /\ \A i \in 1..n : result[i] \in BucketSet
      /\ Apart(result, resolution)
      /\ \A i \in 1..n : result[i].timestamp + resolution < point.timestamp
      /\ ~acc.any => result = <<>>
  BY DEF LoopShape
<1>2. /\ acc.latencyCount <= point.requests
      /\ sum.requests + point.requests <= all.requests
      /\ sum.errors + point.errors <= all.errors
      /\ slow.requests <= sum.requests + acc.latencyCount
  BY DEF LoopCounts
<1>3. sum \in Counts /\ Data(point) \in Counts
  BY <1>1, SumOfAppend, BucketsHaveCounts
<1>4. /\ point.timestamp \in Int /\ \A i \in 1..n : result[i].timestamp \in Int
      /\ sum.requests \in Nat /\ sum.errors \in Nat
      /\ point.requests \in Nat /\ point.errors \in Nat
      /\ all.requests \in Nat /\ all.errors \in Nat /\ slow.requests \in Nat
  BY <1>1, <1>3 DEF BucketSet, Counts
<1>5. CASE acc.any /\ acc.latencyCount > 0
  <2>1. out = Append(result, point)
    BY <1>5 DEF Emitted
  <2> HIDE DEF result, point
  <2>2. /\ out \in Seq(BucketSet) /\ Len(out) = n + 1 /\ out[n + 1] = point
        /\ \A i \in 1..n : out[i] = result[i]
    BY <1>1, <2>1
  <2>3. SumOf(out) = Add(sum, Data(point))
    BY <1>1, <2>1, SumOfAppend
  <2>4. /\ SumOf(out) \in Counts /\ SumOf(out).requests = sum.requests + point.requests
        /\ SumOf(out).errors = sum.errors + point.errors
    <3>1. Data(point).requests = point.requests /\ Data(point).errors = point.errors
      BY <1>1, BucketsHaveCounts
    <3> HIDE DEF sum, out
    <3> QED BY <1>3, <2>3, <3>1, AddCounts
  <2> HIDE DEF n, sum, out
  <2>5. Apart(out, resolution)
    <3> SUFFICES ASSUME NEW i \in 1..n PROVE out[i].timestamp + resolution < out[i + 1].timestamp
      BY <1>1, <2>2 DEF Apart
    <3>1. CASE i = n
      BY <1>1, <2>2, <3>1
    <3>2. CASE i \in 1..n - 1
      BY <1>1, <2>2, <3>2 DEF Apart, n
    <3> QED BY <1>1, <3>1, <3>2
  <2>6. \A i \in 1..Len(out) : out[i].timestamp <= point.timestamp
    <3> SUFFICES ASSUME NEW i \in 1..n + 1 PROVE out[i].timestamp <= point.timestamp
      BY <2>2
    <3>1. CASE i = n + 1
      BY <1>4, <2>2, <3>1
    <3>2. CASE i \in 1..n
      <4> DEFINE before == out[i].timestamp
                 after == point.timestamp
      <4>1. before \in Int /\ after \in Int /\ before + resolution < after
        BY <1>1, <1>4, <2>2, <3>2
      <4> HIDE DEF before, after
      <4>2. before <= after
        BY <4>1
      <4> QED BY <4>2 DEF before, after
    <3> QED BY <1>1, <3>1, <3>2
  <2>7. /\ SumOf(out).requests <= all.requests /\ SumOf(out).errors <= all.errors
        /\ slow.requests <= SumOf(out).requests
    BY <1>1, <1>2, <1>4, <2>4
  <2> QED BY <1>5, <2>2, <2>4, <2>5, <2>6, <2>7 DEF out, point
<1>6. CASE ~(acc.any /\ acc.latencyCount > 0)
  <2>1. out = result
    BY <1>6 DEF Emitted
  <2>2. acc.latencyCount = 0
    BY <1>1, <1>6 DEF LoopShape
  <2> HIDE DEF result, point, sum
  <2>3. \A i \in 1..n : result[i].timestamp <= point.timestamp
    BY <1>1, <1>4
  <2>4. sum.requests <= all.requests /\ sum.errors <= all.errors /\ slow.requests <= sum.requests
    <3>1. sum.requests + point.requests <= all.requests /\ sum.errors + point.errors <= all.errors
      BY <1>2
    <3>2. slow.requests <= sum.requests + 0
      BY <1>2, <2>2
    <3> DEFINE r == sum.requests
               e == sum.errors
    <3> HIDE DEF r, e
    <3> QED BY <1>4, <3>1, <3>2 DEF r, e
  <2> QED BY <1>1, <1>3, <2>1, <2>3, <2>4 DEF sum, point
<1> QED BY <1>5, <1>6

(* The next point to be summed is opened after those emitted. *)
LEMMA OpenKeeps ==
  ASSUME NEW resolution \in Nat, NEW acc, NEW all \in Counts, NEW slow \in Counts,
         LoopShape(acc, resolution), LoopCounts(acc, all, slow),
         NEW start \in Int, ~acc.any \/ start > acc.end
  PROVE  /\ LoopShape(Open(acc, start, resolution), resolution)
         /\ LoopCounts(Open(acc, start, resolution), all, slow)
         /\ Open(acc, start, resolution).any
<1> DEFINE next == Open(acc, start, resolution)
           out == Emitted(acc)
<1>1. /\ out \in Seq(BucketSet) /\ Apart(out, resolution) /\ (~acc.any => out = <<>>)
      /\ \A i \in 1..Len(out) : out[i].timestamp <= acc.current.timestamp
      /\ SumOf(out) \in Counts
      /\ SumOf(out).requests <= all.requests /\ SumOf(out).errors <= all.errors
      /\ slow.requests <= SumOf(out).requests
  BY EmittedIs
<1>2. /\ next.result = out /\ next.any = TRUE /\ next.end = start + resolution
      /\ next.current = Bucket(start) /\ next.latencyCount = 0
      /\ DOMAIN next = {"result", "any", "end", "current", "latencyCount"}
  BY DEF Open
<1>3. Bucket(start) \in BucketSet /\ Bucket(start).timestamp = start
        /\ Bucket(start).requests = 0 /\ Bucket(start).errors = 0
  BY BucketIs DEF Bucket
<1>4. acc.any => acc.end = acc.current.timestamp + resolution /\ acc.current.timestamp \in Int
  BY DEF LoopShape, BucketSet
<1> HIDE DEF out
<1>5. \A i \in 1..Len(out) : out[i].timestamp + resolution < start
  <2> SUFFICES ASSUME NEW i \in 1..Len(out) PROVE out[i].timestamp + resolution < start
    OBVIOUS
  <2>1. acc.any /\ out[i] \in BucketSet
    BY <1>1
  <2>2. out[i].timestamp \in Int
    BY <2>1 DEF BucketSet
  <2> QED BY <1>1, <1>4, <2>1, <2>2
<1>6. next \in [result : Seq(BucketSet), any : BOOLEAN, end : Int, current : BucketSet,
                latencyCount : Nat]
  BY <1>1, <1>3 DEF Open, out
<1> HIDE DEF next
<1>7. LoopShape(next, resolution)
  BY <1>1, <1>2, <1>3, <1>5, <1>6 DEF LoopShape
<1>8. LoopCounts(next, all, slow)
  <2>1. SumOf(out).requests \in Nat /\ SumOf(out).errors \in Nat
    BY <1>1 DEF Counts
  <2> QED BY <1>1, <1>2, <1>3, <2>1 DEF LoopCounts
<1> QED BY <1>2, <1>7, <1>8 DEF next

(* A point is counted in the one that is being summed. *)
LEMMA CountedIn ==
  ASSUME NEW resolution \in Nat, NEW base, NEW all \in Counts, NEW slow \in Counts,
         LoopShape(base, resolution), LoopCounts(base, all, slow), base.any,
         NEW p \in BucketSet
  PROVE  /\ LoopShape(CountIn(base, p), resolution)
         /\ LoopCounts(CountIn(base, p), Add(all, Data(p)), Add(slow, Data(IfSlow(p))))
<1> DEFINE isSlow == p.latency >= Millisecond
           next == CountIn(base, p)
           counted == IfSlow(p)
           point == base.current
           sum == SumOf(base.result)
           both == Add(all, Data(p))
           bothSlow == Add(slow, Data(counted))
<1>1. /\ base \in [result : Seq(BucketSet), any : BOOLEAN, end : Int, current : BucketSet,
                   latencyCount : Nat]
      /\ base.result \in Seq(BucketSet) /\ point \in BucketSet /\ base.latencyCount \in Nat
      /\ base.end = point.timestamp + resolution
  BY DEF LoopShape
<1>2. /\ Data(p) \in Counts /\ Data(p).requests = p.requests /\ Data(p).errors = p.errors
      /\ p.requests \in Nat /\ p.errors \in Nat
  BY BucketsHaveCounts DEF BucketSet
<1>3. /\ Add(point, p) \in BucketSet /\ Add(point, p).timestamp = point.timestamp
      /\ Add(point, p).requests = point.requests + p.requests
      /\ Add(point, p).errors = point.errors + p.errors
  <2>1. Add(point, p) = Add(point, Data(p))
    BY AddIsOfData
  <2>2. /\ Add(point, Data(p)) \in BucketSet /\ Add(point, Data(p)).timestamp = point.timestamp
        /\ Data(Add(point, Data(p))) = Add(Data(point), Data(p))
    BY <1>1, <1>2, AddIs
  <2>3. /\ Data(point) \in Counts
        /\ Data(point).requests = point.requests /\ Data(point).errors = point.errors
    BY <1>1, BucketsHaveCounts
  <2>4. /\ Add(Data(point), Data(p)).requests = point.requests + p.requests
        /\ Add(Data(point), Data(p)).errors = point.errors + p.errors
    BY <1>2, <2>3, AddCounts
  <2>5. /\ Data(Add(point, p)).requests = Add(point, p).requests
        /\ Data(Add(point, p)).errors = Add(point, p).errors
    BY <2>1, <2>2, BucketsHaveCounts
  <2> QED BY <2>1, <2>2, <2>4, <2>5
<1>4. /\ next.result = base.result /\ next.any /\ next.end = base.end
      /\ next.current = Add(point, p)
      /\ next.latencyCount = IF isSlow THEN base.latencyCount + p.requests ELSE base.latencyCount
  BY <1>1 DEF CountIn
<1>5. next \in [result : Seq(BucketSet), any : BOOLEAN, end : Int, current : BucketSet,
                latencyCount : Nat]
  <2>1. Add(point, p) \in BucketSet
        /\ (IF isSlow THEN base.latencyCount + p.requests ELSE base.latencyCount) \in Nat
    BY <1>1, <1>2, <1>3
  <2> HIDE DEF isSlow
  <2> QED BY <1>1, <2>1 DEF CountIn, isSlow
<1>6. LoopShape(next, resolution)
  <2> HIDE DEF next
  <2> QED BY <1>1, <1>3, <1>4, <1>5 DEF LoopShape
<1>7. both.requests = all.requests + p.requests /\ both.errors = all.errors + p.errors
  BY <1>2, AddCounts
<1>8. bothSlow.requests = slow.requests + (IF isSlow THEN p.requests ELSE 0)
  <2>1. CASE isSlow
    BY <1>2, <2>1, AddCounts DEF IfSlow
  <2>2. CASE ~isSlow
    <3>1. Data(counted) = Empty /\ Empty \in Counts /\ Empty.requests = 0
      BY <2>2 DEF Data, Empty, Counts, IfSlow
    <3> QED BY <2>2, <3>1, AddCounts
  <2> QED BY <2>1, <2>2
<1>9. /\ base.latencyCount <= point.requests
      /\ sum.requests + point.requests <= all.requests
      /\ sum.errors + point.errors <= all.errors
      /\ slow.requests <= sum.requests + base.latencyCount
  BY DEF LoopCounts
<1>10. /\ sum.requests \in Nat /\ sum.errors \in Nat /\ point.requests \in Nat
       /\ point.errors \in Nat /\ all.requests \in Nat /\ all.errors \in Nat
       /\ slow.requests \in Nat
  BY <1>1, SumOfAppend DEF Counts, BucketSet
<1> HIDE DEF next, counted, sum, both, bothSlow, isSlow, point
<1>11. LoopCounts(next, both, bothSlow)
  <2>1. next.latencyCount <= next.current.requests
    BY <1>1, <1>2, <1>3, <1>4, <1>9, <1>10
  <2>2. /\ sum.requests + next.current.requests <= both.requests
        /\ sum.errors + next.current.errors <= both.errors
    BY <1>2, <1>3, <1>4, <1>7, <1>9, <1>10
  <2>3. bothSlow.requests <= sum.requests + next.latencyCount
    <3>1. CASE isSlow
      <4>1. /\ bothSlow.requests = slow.requests + p.requests
            /\ next.latencyCount = base.latencyCount + p.requests
        BY <1>4, <1>8, <3>1
      <4>2. slow.requests + p.requests <= sum.requests + (base.latencyCount + p.requests)
        <5> DEFINE a == slow.requests
                   b == sum.requests
                   c == base.latencyCount
                   d == p.requests
        <5>1. a \in Int /\ b \in Int /\ c \in Int /\ d \in Int /\ a <= b + c
          BY <1>1, <1>2, <1>9, <1>10
        <5> HIDE DEF a, b, c, d
        <5>2. a + d <= b + (c + d)
          BY <5>1
        <5> QED BY <5>2 DEF a, b, c, d
      <4> QED BY <4>1, <4>2
    <3>2. CASE ~isSlow
      BY <1>4, <1>8, <1>9, <1>10, <3>2
    <3> QED BY <3>1, <3>2
  <2> QED BY <1>4, <2>1, <2>2, <2>3 DEF LoopCounts, sum
<1> QED BY <1>6, <1>11 DEF next, counted, both, bothSlow

(* What the loop does with a point keeps what it has to. *)
LEMMA IncludeKeeps ==
  ASSUME NEW resolution \in Nat \ {0}, NEW acc, NEW all \in Counts, NEW slow \in Counts,
         LoopShape(acc, resolution), LoopCounts(acc, all, slow), NEW p \in BucketSet
  PROVE  /\ LoopShape(Include(acc, p, resolution), resolution)
         /\ LoopCounts(Include(acc, p, resolution), Add(all, Data(p)),
                       Add(slow, Data(IfSlow(p))))
<1> DEFINE start == Truncate(p.timestamp, resolution)
           base == IF ~acc.any \/ start > acc.end THEN Open(acc, start, resolution) ELSE acc
<1>1. start \in Int
  <2>1. p.timestamp \in Int
    BY DEF BucketSet
  <2> QED BY <2>1, ModRange DEF Truncate
<1> HIDE DEF start
<1>2. LoopShape(base, resolution) /\ LoopCounts(base, all, slow) /\ base.any
  <2>1. CASE ~acc.any \/ start > acc.end
    BY <1>1, <2>1, OpenKeeps
  <2>2. CASE ~(~acc.any \/ start > acc.end)
    BY <2>2
  <2> QED BY <2>1, <2>2
<1> HIDE DEF base
<1>3. Include(acc, p, resolution) = CountIn(base, p)
  BY DEF Include, base, start
<1> QED BY <1>2, <1>3, CountedIn

(* So it is when the loop has ended. *)
LEMMA LoopKeeps ==
  ASSUME NEW n \in Nat, NEW points \in [1..n -> BucketSet], NEW resolution \in Nat \ {0}
  PROVE  /\ LoopShape(Summed(points, resolution), resolution)
         /\ LoopCounts(Summed(points, resolution), SumOf(points), SumOf(Slow(points)))
         /\ SumOf(points) \in Counts /\ SumOf(Slow(points)) \in Counts
<1> DEFINE all(k) == Upto(points, k)
           slow(k) == Upto(Slow(points), k)
<1>1. PICK acc : IsRun(acc, n, points, resolution)
  <2>1. DOMAIN points = 1..n
    OBVIOUS
  <2> QED BY <2>1, LoopSteps
<1>2. /\ acc[0] = Nothing /\ acc[n] = Summed(points, resolution)
      /\ \A k \in 1..n : acc[k] = Include(acc[k - 1], points[k], resolution)
  BY <1>1 DEF IsRun
<1>3. /\ DOMAIN points = 1..n /\ \A i \in 1..n : Data(points[i]) \in Counts
      /\ DOMAIN Slow(points) = 1..n /\ \A i \in 1..n : Data(Slow(points)[i]) \in Counts
      /\ \A i \in 1..n : Slow(points)[i] = IfSlow(points[i])
  <2>1. Data(Empty) \in Counts
    BY DEF Data, Empty, Counts
  <2> QED BY <2>1, BucketsHaveCounts DEF Slow, IfSlow
<1>4. SumOf(points) = all(n) /\ SumOf(Slow(points)) = slow(n)
  BY <1>3, SumOfIsTotal
<1>5. /\ \A k \in 1..n : all(k - 1) \in Counts /\ all(k) = Add(all(k - 1), Data(points[k]))
      /\ \A k \in 1..n : /\ slow(k - 1) \in Counts
                         /\ slow(k) = Add(slow(k - 1), Data(Slow(points)[k]))
  BY <1>3, UptoAdds
<1>6. all(0) = Empty /\ slow(0) = Empty /\ Empty \in Counts
  BY UptoNone DEF Empty, Counts
<1> HIDE DEF all, slow
<1> DEFINE Kept(k) == /\ all(k) \in Counts /\ slow(k) \in Counts
                      /\ LoopShape(acc[k], resolution) /\ LoopCounts(acc[k], all(k), slow(k))
           bad == {k \in 0..n : ~Kept(k)}
<1>7. Kept(0)
  <2>1. LoopShape(Nothing, resolution)
    <3>1. Bucket(0) \in BucketSet /\ Data(Bucket(0)) = Empty
      BY BucketIs
    <3>2. Nothing \in [result : Seq(BucketSet), any : BOOLEAN, end : Int, current : BucketSet,
                       latencyCount : Nat]
      BY <3>1 DEF Nothing
    <3> QED BY <3>1, <3>2 DEF LoopShape, Apart, Nothing
  <2>2. LoopCounts(Nothing, Empty, Empty)
    BY SumOfNone DEF LoopCounts, Nothing, Empty, Bucket
  <2> QED BY <1>2, <1>6, <2>1, <2>2
<1>8. ASSUME NEW k \in 1..n, Kept(k - 1) PROVE Kept(k)
  <2> DEFINE p == points[k]
  <2>1. p \in BucketSet /\ acc[k] = Include(acc[k - 1], p, resolution)
    BY <1>2
  <2>2. /\ all(k) = Add(all(k - 1), Data(p)) /\ Data(p) \in Counts
        /\ slow(k) = Add(slow(k - 1), Data(Slow(points)[k])) /\ Data(Slow(points)[k]) \in Counts
        /\ Slow(points)[k] = IfSlow(p)
    BY <1>3, <1>5
  <2> HIDE DEF p
  <2>3. all(k) \in Counts /\ slow(k) \in Counts
    BY <1>8, <2>2, AddCounts
  <2>4. LoopShape(acc[k], resolution) /\ LoopCounts(acc[k], all(k), slow(k))
    BY <1>8, <2>1, <2>2, IncludeKeeps
  <2> QED BY <2>3, <2>4
<1> HIDE DEF Kept
<1>9. ASSUME bad # {} PROVE FALSE
  <2>1. PICK k \in bad : \A j \in bad : k <= j
    <3>1. IsFiniteSet(0..n)
      BY FS_Interval
    <3>2. bad \in SUBSET (0..n) /\ bad \in SUBSET Int
      OBVIOUS
    <3>3. IsFiniteSet(bad)
      BY <3>1, <3>2, FS_Subset
    <3> QED BY <1>9, <3>2, <3>3, EndsAre
  <2>2. k # 0 /\ k \in 0..n /\ ~Kept(k)
    BY <1>7, <2>1
  <2>3. k \in 1..n /\ k - 1 \in 0..n /\ k - 1 < k
    BY <2>2
  <2>4. Kept(k - 1)
    BY <2>1, <2>3
  <2> QED BY <1>8, <2>2, <2>3, <2>4
<1>10. Kept(n)
  BY <1>9
<1> QED BY <1>2, <1>4, <1>10 DEF Kept

(* The points that a query is of. *)
LEMMA PointsAre ==
  ASSUME RingInv, NEW duration \in Int
  PROVE  \E n \in Nat : Points(duration) \in [1..n -> BucketSet]
<1> DEFINE kept == {i \in Indexes : buckets[i].timestamp >= now - duration}
           keys == [i \in kept |-> buckets[i].timestamp]
           order == Sorting(keys)
<1>1. \A i \in Indexes : buckets[i] \in BucketSet /\ buckets[i].timestamp \in Int
  BY DEF RingInv, BucketSet
<1>2. IsFiniteSet(kept) /\ kept \in SUBSET Int /\ kept \in SUBSET Indexes
  <2>1. IsFiniteSet(Indexes) /\ Indexes \in SUBSET Int
    BY StoreAssumption, FS_Interval DEF Indexes
  <2>2. kept \in SUBSET Indexes
    OBVIOUS
  <2>3. IsFiniteSet(kept)
    BY <2>1, <2>2, FS_Subset
  <2> QED BY <2>1, <2>2, <2>3
<1>3. keys \in [kept -> Int]
  BY <1>1
<1>4. Points(duration) = [n \in DOMAIN order |-> buckets[order[n]]]
  BY DEF Points
<1> DEFINE size == Cardinality(kept)
<1>5. DOMAIN order = 1..size /\ size \in Nat /\ \A n \in 1..size : order[n] \in kept
  <2> HIDE DEF kept, keys
  <2> QED BY <1>2, <1>3, SortingIs
<1> HIDE DEF order, size
<1>6. Points(duration) \in [1..size -> BucketSet]
  BY <1>1, <1>2, <1>4, <1>5
<1> QED BY <1>5, <1>6

(* A query of a ring is aggregated without loss. *)
LEMMA InvAggregates == RingInv => AggregateCounts
<1> SUFFICES ASSUME RingInv, NEW duration \in Durations, NEW resolution \in Coarser
             PROVE  LET raw == Points(duration)
                        all == SumOf(raw)
                        slow == SumOf(Slow(raw))
                        coarse == Coarsened(raw, resolution)
                        kept == SumOf(coarse)
                    IN  /\ kept.requests \in slow.requests..all.requests
                        /\ kept.errors <= all.errors
                        /\ \A i \in 1..Len(coarse) - 1 :
                             coarse[i].timestamp + resolution <= coarse[i + 1].timestamp
  BY HistoryIsPoints DEF AggregateCounts
<1> DEFINE raw == Points(duration)
           acc == Summed(raw, resolution)
           coarse == Coarsened(raw, resolution)
<1>1. duration \in Int /\ resolution \in Nat \ {0} /\ resolution \in Nat /\ resolution > Resolution
  <2>1. MaxBuckets \in Nat \ {0} /\ Resolution \in Nat \ {0}
    BY StoreAssumption
  <2>2. PICK m \in 1..MaxBuckets : duration = m * Resolution
    BY DEF Durations
  <2>3. PICK k \in 2..MaxBuckets : resolution = k * Resolution
    BY DEF Coarser
  <2>4. m \in Int /\ k \in Int /\ k >= 2
    BY <2>1
  <2>5. k * Resolution >= 2 * Resolution /\ m * Resolution \in Int /\ k * Resolution \in Int
    BY <2>1, <2>4, Times
  <2> QED BY <2>1, <2>2, <2>3, <2>5
<1>2. PICK n \in Nat : raw \in [1..n -> BucketSet]
  BY <1>1, PointsAre
<1> HIDE DEF raw
<1>3. /\ LoopShape(acc, resolution) /\ LoopCounts(acc, SumOf(raw), SumOf(Slow(raw)))
      /\ SumOf(raw) \in Counts /\ SumOf(Slow(raw)) \in Counts
  BY <1>1, <1>2, LoopKeeps
<1>4. coarse = Emitted(acc)
  BY <1>1 DEF Coarsened, Aggregate
<1> HIDE DEF acc, coarse
<1>5. /\ coarse \in Seq(BucketSet) /\ Apart(coarse, resolution) /\ SumOf(coarse) \in Counts
      /\ SumOf(coarse).requests <= SumOf(raw).requests
      /\ SumOf(coarse).errors <= SumOf(raw).errors
      /\ SumOf(Slow(raw)).requests <= SumOf(coarse).requests
  BY <1>1, <1>3, <1>4, EmittedIs
<1>6. /\ SumOf(coarse).requests \in Int /\ SumOf(raw).requests \in Int
      /\ SumOf(Slow(raw)).requests \in Int
  BY <1>3, <1>5 DEF Counts
<1>7. SumOf(coarse).requests \in SumOf(Slow(raw)).requests..SumOf(raw).requests
  BY <1>5, <1>6
<1>8. ASSUME NEW i \in 1..Len(coarse) - 1
      PROVE  coarse[i].timestamp + resolution <= coarse[i + 1].timestamp
  <2>1. i \in 1..Len(coarse) /\ i + 1 \in 1..Len(coarse)
    BY <1>5
  <2>2. coarse[i] \in BucketSet /\ coarse[i + 1] \in BucketSet
    BY <1>5, <2>1
  <2>3. coarse[i].timestamp \in Int /\ coarse[i + 1].timestamp \in Int
    BY <2>2 DEF BucketSet
  <2>4. coarse[i].timestamp + resolution < coarse[i + 1].timestamp
    BY <1>5 DEF Apart
  <2> QED BY <1>1, <2>3, <2>4
<1> QED BY <1>5, <1>7, <1>8 DEF raw, coarse

(* Aggregation to a coarser resolution (store.go:217) counts no request or *)
(* error twice, loses no request of a bucket with latencies of a           *)
(* millisecond, the last window's included, and returns points in order    *)
(* whose windows do not overlap: for every length and resolution of the    *)
(* ring and whatever was recorded in it.                                   *)
THEOREM CollectorAggregateCounts == CollectorSpec => []AggregateCounts
<1>1. StoreInv => AggregateCounts
  BY InvAggregates DEF StoreInv
<1> QED BY <1>1, CollectorImplementsStore, StoreInvariant, PTL

------------------------------------------------------------------------------
(* The counters, and the recorders between them.                           *)

States == {"idle", "failed", "shown", "answered", "counted", "targeted"}
In(states) == {r \in Recorders : rpc[r] \in states}

(* There are finitely many recorders. *)
LEMMA AtIsNat == ASSUME NEW states  PROVE At(states) \in Nat
BY CollectorAssumption, FS_Subset, FS_CardinalityType DEF At

(* A recorder that goes on changes the number of those in a set of states  *)
(* by one, or not at all.                                                  *)
LEMMA GoesCounts ==
  ASSUME NEW states, CountersTypeOK, NEW r \in Recorders,
         NEW from \in States, NEW to \in States, Goes(r, from, to)
  PROVE  At(states)' = At(states) + (IF to \in states THEN 1 ELSE 0)
                                  - (IF from \in states THEN 1 ELSE 0)
<1>1. IsFiniteSet(In(states)) /\ Cardinality(In(states)) \in Nat
  BY CollectorAssumption, FS_Subset, FS_CardinalityType DEF In
<1>2. At(states) = Cardinality(In(states)) /\ At(states)' = Cardinality(In(states)')
  BY DEF At, In
<1>3. \A s \in Recorders : rpc'[s] = IF s = r THEN to ELSE rpc[s]
  BY DEF Goes, CountersTypeOK
<1>4. rpc[r] = from
  BY DEF Goes
<1>5. CASE from \in states /\ to \notin states
  <2>1. In(states)' = In(states) \ {r} /\ r \in In(states)
    BY <1>3, <1>4, <1>5 DEF In
  <2>2. Cardinality(In(states)') = Cardinality(In(states)) - 1
    BY <1>1, <2>1, FS_RemoveElement
  <2> QED BY <1>1, <1>2, <1>5, <2>2
<1>6. CASE from \notin states /\ to \in states
  <2>1. In(states)' = In(states) \cup {r} /\ r \notin In(states)
    BY <1>3, <1>4, <1>6 DEF In
  <2>2. Cardinality(In(states)') = Cardinality(In(states)) + 1
    BY <1>1, <2>1, FS_AddElement
  <2> QED BY <1>1, <1>2, <1>6, <2>2
<1>7. CASE from \in states <=> to \in states
  <2>1. In(states)' = In(states)
    BY <1>3, <1>4, <1>7 DEF In
  <2> QED BY <1>1, <1>2, <1>7, <2>1
<1> QED BY <1>5, <1>6, <1>7

(* Nothing has been counted in the initial state. *)
LEMMA InitHolds == CollectorInit => CollectorInv
<1> SUFFICES ASSUME CollectorInit  PROVE CollectorInv
  OBVIOUS
<1>1. In({"counted"}) = {} /\ In(Failing) = {}
  BY DEF CollectorInit, In, Failing
<1>2. At({"counted"}) = 0 /\ At(Failing) = 0
  BY <1>1, FS_EmptySet DEF At, In
<1>3. CountersTypeOK
  BY DEF CollectorInit, CountersTypeOK, Order, NoSnap, Services
<1> QED BY <1>2, <1>3 DEF CollectorInit, CollectorInv, RequestsSplit, ErrorsSplit, ErrorsRead,
                          RequestsRead, Services

(* The numbers that the invariant counts. *)
Recordings == At({"counted"}) \in Nat /\ At(Failing) \in Nat

(* What a snapshot has read is bounded by counters that only grow. *)
LEMMA GrowingKeeps ==
  ASSUME CollectorInv, CountersTypeOK', RequestsSplit', ErrorsSplit',
         UNCHANGED <<read, snap>>,
         totalErrors' >= totalErrors, failed' >= failed,
         \A s \in Services : requestsOf'[s] >= requestsOf[s]
  PROVE  CollectorInv'
<1>1. /\ totalErrors \in Nat /\ totalErrors' \in Nat /\ failed \in Nat /\ failed' \in Nat
      /\ snap.lastError \in Nat /\ snap.failed \in Nat /\ snap.totalRequests \in Nat
      /\ snap.blue \in Nat /\ snap.untargeted \in Nat
  BY DEF CollectorInv, CountersTypeOK, NoSnap
<1>2. /\ requestsOf["blue"] \in Nat /\ requestsOf'["blue"] \in Nat
      /\ requestsOf["green"] \in Nat /\ requestsOf'["green"] \in Nat
      /\ requestsOf'["blue"] >= requestsOf["blue"] /\ requestsOf'["green"] >= requestsOf["green"]
  BY DEF CollectorInv, CountersTypeOK, Services
<1>3. ErrorsRead'
  BY <1>1 DEF CollectorInv, ErrorsRead
<1>4. RequestsRead'
  BY <1>1, <1>2 DEF CollectorInv, RequestsRead
<1> QED BY <1>3, <1>4 DEF CollectorInv

(* Recording an error. *)
LEMMA ErrorSteps ==
  ASSUME CollectorInv, NEW r \in Recorders, CountError(r) \/ ShowError(r) \/ StoreError(r)
  PROVE  CollectorInv'
<1>1. CountersTypeOK /\ Recordings /\ RequestsSplit /\ ErrorsSplit
  BY AtIsNat DEF CollectorInv, Recordings
<1>2. /\ totalErrors \in Nat /\ failed \in Nat
      /\ \A s \in Services : requestsOf[s] \in Nat /\ requestsOf[s] >= requestsOf[s]
  BY <1>1 DEF CountersTypeOK
<1>3. CASE CountError(r)
  <2>1. Goes(r, "idle", "failed")
    BY <1>3 DEF CountError
  <2>2. At({"counted"})' = At({"counted"}) /\ At(Failing)' = At(Failing) + 1
    BY <1>1, <2>1, GoesCounts DEF Recordings, States, Failing
  <2>3. /\ totalErrors' = totalErrors + 1
        /\ UNCHANGED <<totalRequests, requestsOf, failed, read, snap>>
    BY <1>3 DEF CountError, snapVars
  <2>4. CountersTypeOK'
    BY <1>1, <1>3, <2>1 DEF CountError, Goes, CountersTypeOK, snapVars
  <2>5. RequestsSplit' /\ ErrorsSplit'
    BY <1>1, <1>2, <2>2, <2>3 DEF RequestsSplit, ErrorsSplit, Recordings
  <2> QED BY <1>2, <2>3, <2>4, <2>5, GrowingKeeps
<1>4. CASE ShowError(r)
  <2>1. Goes(r, "failed", "shown")
    BY <1>4 DEF ShowError
  <2>2. At({"counted"})' = At({"counted"}) /\ At(Failing)' = At(Failing)
    BY <1>1, <2>1, GoesCounts DEF Recordings, States, Failing
  <2>3. UNCHANGED <<totalErrors, totalRequests, requestsOf, failed, read, snap>>
    BY <1>4 DEF ShowError, snapVars
  <2>4. CountersTypeOK'
    BY <1>1, <1>4, <2>1 DEF ShowError, Goes, CountersTypeOK, snapVars
  <2>5. RequestsSplit' /\ ErrorsSplit'
    BY <1>1, <2>2, <2>3 DEF RequestsSplit, ErrorsSplit
  <2> QED BY <1>2, <2>3, <2>4, <2>5, GrowingKeeps
<1>5. CASE StoreError(r)
  <2>1. Goes(r, "shown", "answered")
    BY <1>5 DEF StoreError
  <2>2. At({"counted"})' = At({"counted"}) /\ At(Failing)' = At(Failing)
    BY <1>1, <2>1, GoesCounts DEF Recordings, States, Failing
  <2>3. UNCHANGED <<counterVars, error, failed, read, snap>>
    BY <1>5 DEF StoreError, snapVars
  <2>4. CountersTypeOK'
    BY <1>1, <2>1, <2>3 DEF Goes, CountersTypeOK, counterVars
  <2>5. RequestsSplit' /\ ErrorsSplit'
    BY <1>1, <2>2, <2>3 DEF RequestsSplit, ErrorsSplit, counterVars
  <2> QED BY <1>2, <2>3, <2>4, <2>5, GrowingKeeps DEF counterVars
<1> QED BY <1>3, <1>4, <1>5

(* Recording a request. *)
LEMMA RequestSteps ==
  ASSUME CollectorInv, NEW r \in Recorders, CountRequest(r) \/ CountTarget(r) \/ StoreRequest(r)
  PROVE  CollectorInv'
<1>1. CountersTypeOK /\ Recordings /\ RequestsSplit /\ ErrorsSplit
  BY AtIsNat DEF CollectorInv, Recordings
<1>2. /\ totalErrors \in Nat /\ failed \in Nat /\ totalRequests \in Nat
      /\ \A s \in Services : requestsOf[s] \in Nat /\ requestsOf[s] >= requestsOf[s]
  BY <1>1 DEF CountersTypeOK
<1>3. CASE CountRequest(r)
  <2>1. PICK from \in {"idle", "answered"} :
          Goes(r, from, "counted") /\ failed' = failed + (IF from = "idle" THEN 0 ELSE 1)
    BY <1>2, <1>3 DEF CountRequest
  <2>2. /\ At({"counted"})' = At({"counted"}) + 1
        /\ At(Failing)' = At(Failing) - (IF from = "idle" THEN 0 ELSE 1)
    BY <1>1, <2>1, GoesCounts DEF Recordings, States, Failing
  <2>3. /\ totalRequests' = totalRequests + 1
        /\ UNCHANGED <<totalErrors, requestsOf, lastError, error, read, snap>>
    BY <1>3 DEF CountRequest, snapVars
  <2>4. CountersTypeOK'
    BY <1>1, <1>2, <2>1, <2>3 DEF Goes, CountersTypeOK
  <2>5. RequestsSplit' /\ ErrorsSplit'
    BY <1>1, <1>2, <2>1, <2>2, <2>3 DEF RequestsSplit, ErrorsSplit, Recordings, Services
  <2> QED BY <1>2, <2>1, <2>3, <2>4, <2>5, GrowingKeeps
<1>4. CASE CountTarget(r)
  <2>1. PICK s \in Services : requestsOf' = [requestsOf EXCEPT ![s] = @ + 1]
    BY <1>4 DEF CountTarget
  <2>2. Goes(r, "counted", "targeted")
    BY <1>4 DEF CountTarget
  <2>3. At({"counted"})' = At({"counted"}) - 1 /\ At(Failing)' = At(Failing)
    BY <1>1, <2>2, GoesCounts DEF Recordings, States, Failing
  <2>4. UNCHANGED <<totalRequests, totalErrors, lastError, error, failed, read, snap>>
    BY <1>4 DEF CountTarget, snapVars
  <2>5. CountersTypeOK'
    BY <1>1, <2>1, <2>2, <2>4 DEF Goes, CountersTypeOK
  <2>6. \A t \in Services : requestsOf'[t] = requestsOf[t] + (IF t = s THEN 1 ELSE 0)
    BY <1>1, <1>2, <2>1 DEF CountersTypeOK
  <2>7. RequestsSplit' /\ ErrorsSplit'
    BY <1>1, <1>2, <2>3, <2>4, <2>6 DEF RequestsSplit, ErrorsSplit, Recordings, Services
  <2>8. \A t \in Services : requestsOf'[t] >= requestsOf[t]
    BY <1>2, <2>6
  <2> QED BY <1>2, <2>4, <2>5, <2>7, <2>8, GrowingKeeps
<1>5. CASE StoreRequest(r)
  <2>1. Goes(r, "targeted", "idle")
    BY <1>5 DEF StoreRequest
  <2>2. At({"counted"})' = At({"counted"}) /\ At(Failing)' = At(Failing)
    BY <1>1, <2>1, GoesCounts DEF Recordings, States, Failing
  <2>3. UNCHANGED <<counterVars, error, failed, read, snap>>
    BY <1>5 DEF StoreRequest, snapVars
  <2>4. CountersTypeOK'
    BY <1>1, <2>1, <2>3 DEF Goes, CountersTypeOK, counterVars
  <2>5. RequestsSplit' /\ ErrorsSplit'
    BY <1>1, <2>2, <2>3 DEF RequestsSplit, ErrorsSplit, counterVars
  <2> QED BY <1>2, <2>3, <2>4, <2>5, GrowingKeeps DEF counterVars
<1> QED BY <1>3, <1>4, <1>5

(* Snapshot reads one field after the other. *)
LEMMA ReadStep == ASSUME CollectorInv, ReadField  PROVE CollectorInv'
<1>1. CountersTypeOK /\ Recordings /\ RequestsSplit /\ ErrorsSplit
  BY AtIsNat DEF CollectorInv, Recordings
<1>2. /\ lastError \in Nat /\ totalErrors \in Nat /\ failed \in Nat /\ totalRequests \in Nat
      /\ lastError <= totalErrors /\ failed <= totalErrors
      /\ requestsOf["blue"] \in Nat /\ requestsOf["green"] \in Nat /\ At({"counted"}) \in Nat
      /\ totalRequests = requestsOf["blue"] + requestsOf["green"] + At({"counted"})
  BY <1>1 DEF CountersTypeOK, Recordings, RequestsSplit, ErrorsSplit, Services
<1>0. /\ Len(Order) = 5
      /\ Order[1] = "lastError" /\ Order[2] = "totalRequests" /\ Order[3] = "totalErrors"
      /\ Order[4] = "blue" /\ Order[5] = "green"
  BY DEF Order
<1>3. snap \in [DOMAIN NoSnap -> Nat] /\ read \in 0..4 /\ read' = read + 1
  <2>1. read < Len(Order) /\ read' = read + 1
    BY DEF ReadField
  <2>2. snap \in [DOMAIN NoSnap -> Nat] /\ read \in 0..Len(Order)
    BY <1>1 DEF CountersTypeOK
  <2> QED BY <1>0, <2>1, <2>2
<1>4. /\ UNCHANGED <<counterVars, rpc, error, failed>>
      /\ RequestsSplit' /\ ErrorsSplit'
  BY <1>1 DEF ReadField, RequestsSplit, ErrorsSplit, counterVars, At
<1>5. DOMAIN NoSnap = {"lastError", "totalRequests", "totalErrors", "blue", "green", "failed",
                       "untargeted"}
  BY DEF NoSnap
<1>6. ASSUME NEW field, Order[read + 1] = field
      PROVE  snap' = IF field = "totalRequests"
                     THEN [[snap EXCEPT ![field] = Value(field)]
                             EXCEPT !.failed = failed, !.untargeted = At({"counted"})]
                     ELSE [snap EXCEPT ![field] = Value(field)]
  BY <1>6 DEF ReadField
<1>8. /\ snap' \in [DOMAIN NoSnap -> Nat]
      /\ read = 0 => snap'.lastError = lastError
      /\ read = 1 => /\ snap'.lastError = snap.lastError /\ snap'.totalRequests = totalRequests
                     /\ snap'.failed = failed /\ snap'.untargeted = At({"counted"})
      /\ read >= 2 => /\ snap'.lastError = snap.lastError
                      /\ snap'.totalRequests = snap.totalRequests
                      /\ snap'.failed = snap.failed /\ snap'.untargeted = snap.untargeted
      /\ read = 2 => snap'.totalErrors = totalErrors
      /\ read >= 3 => snap'.totalErrors = snap.totalErrors
      /\ read = 3 => snap'.blue = requestsOf["blue"]
      /\ read = 4 => snap'.blue = snap.blue /\ snap'.green = requestsOf["green"]
  <2>1. CASE read = 0
    <3>1. Order[read + 1] = "lastError"
      BY <1>0, <2>1
    <3>2. Value("lastError") = lastError
      BY DEF Value
    <3>3. snap' = [snap EXCEPT !["lastError"] = lastError]
      BY <1>6, <3>1, <3>2
    <3> QED BY <1>2, <1>3, <1>5, <2>1, <3>3
  <2>2. CASE read = 1
    <3>1. Order[read + 1] = "totalRequests"
      BY <1>0, <2>2
    <3>2. Value("totalRequests") = totalRequests
      BY DEF Value
    <3>3. snap' = [[snap EXCEPT !["totalRequests"] = totalRequests]
                     EXCEPT !.failed = failed, !.untargeted = At({"counted"})]
      BY <1>6, <3>1, <3>2
    <3> DEFINE seen == [snap EXCEPT !["totalRequests"] = totalRequests]
               more == [seen EXCEPT !.failed = failed]
    <3>4. /\ seen \in [DOMAIN NoSnap -> Nat]
          /\ seen.totalRequests = totalRequests /\ seen.lastError = snap.lastError
      BY <1>2, <1>3, <1>5
    <3>5. /\ more \in [DOMAIN NoSnap -> Nat] /\ more.failed = failed
          /\ more.totalRequests = totalRequests /\ more.lastError = snap.lastError
      <4> HIDE DEF seen
      <4> QED BY <1>2, <1>5, <3>4
    <3>6. snap' = [more EXCEPT !.untargeted = At({"counted"})]
      BY <3>3
    <3> HIDE DEF more
    <3>7. /\ snap' \in [DOMAIN NoSnap -> Nat] /\ snap'.untargeted = At({"counted"})
          /\ snap'.failed = failed
          /\ snap'.totalRequests = totalRequests /\ snap'.lastError = snap.lastError
      BY <1>2, <1>5, <3>5, <3>6
    <3> QED BY <2>2, <3>7
  <2>3. CASE read = 2
    <3>1. Order[read + 1] = "totalErrors"
      BY <1>0, <2>3
    <3>2. Value("totalErrors") = totalErrors
      BY DEF Value
    <3>3. snap' = [snap EXCEPT !["totalErrors"] = totalErrors]
      BY <1>6, <3>1, <3>2
    <3> QED BY <1>2, <1>3, <1>5, <2>3, <3>3
  <2>4. CASE read = 3
    <3>1. Order[read + 1] = "blue"
      BY <1>0, <2>4
    <3>2. Value("blue") = requestsOf["blue"]
      BY DEF Value
    <3>3. snap' = [snap EXCEPT !["blue"] = requestsOf["blue"]]
      BY <1>6, <3>1, <3>2
    <3> QED BY <1>2, <1>3, <1>5, <2>4, <3>3
  <2>5. CASE read = 4
    <3>1. Order[read + 1] = "green"
      BY <1>0, <2>5
    <3>2. Value("green") = requestsOf["green"]
      BY DEF Value
    <3>3. snap' = [snap EXCEPT !["green"] = requestsOf["green"]]
      BY <1>6, <3>1, <3>2
    <3> QED BY <1>2, <1>3, <1>5, <2>5, <3>3
  <2> QED BY <1>3, <2>1, <2>2, <2>3, <2>4, <2>5
<1>9. CountersTypeOK'
  BY <1>0, <1>1, <1>3, <1>4, <1>8 DEF CountersTypeOK, counterVars
<1>10. /\ snap.lastError \in Nat /\ snap.failed \in Nat /\ snap.totalRequests \in Nat
       /\ snap.blue \in Nat /\ snap.untargeted \in Nat
  BY <1>3, <1>5
<1>11. ErrorsRead' /\ RequestsRead'
  BY <1>2, <1>3, <1>4, <1>8, <1>10 DEF CollectorInv, ErrorsRead, RequestsRead, counterVars
<1> QED BY <1>4, <1>9, <1>11 DEF CollectorInv

(* What leaves the counters alone. *)
LEMMA OtherSteps ==
  ASSUME CollectorInv, SnapshotReturns \/ Storing \/ UNCHANGED cvars
  PROVE  CollectorInv'
<1>1. CASE SnapshotReturns
  BY <1>1 DEF SnapshotReturns, CollectorInv, CountersTypeOK, RequestsSplit, ErrorsSplit,
              ErrorsRead, RequestsRead, At, counterVars, NoSnap, Order
<1>2. CASE Storing \/ UNCHANGED cvars
  <2>1. UNCHANGED <<counterVars, rpc, error, failed, snapVars>>
    BY <1>2 DEF Storing, cvars
  <2> QED BY <2>1 DEF CollectorInv, CountersTypeOK, RequestsSplit, ErrorsSplit, ErrorsRead,
                      RequestsRead, At, counterVars, snapVars
<1> QED BY <1>1, <1>2

(* The inductive invariant of the counters and of a snapshot under way. *)
THEOREM CollectorInvariant == CollectorSpec => []CollectorInv
<1>1. CollectorInv /\ [CollectorNext]_cvars => CollectorInv'
  BY ErrorSteps, RequestSteps, ReadStep, OtherSteps DEF CollectorNext, Recording
<1> QED BY <1>1, InitHolds, PTL DEF CollectorSpec

(* Type correctness of the collector and its store, with their inductive   *)
(* invariants.                                                             *)
THEOREM CollectorTyped == CollectorSpec => []CollectorTypeOK
BY StoreInvariant, CollectorImplementsStore, InvIsTyped, CollectorInvariant, PTL DEF CollectorTypeOK

(* However many requests are recorded while a snapshot is taken            *)
(* (collector.go:187), what it shows hangs together.                       *)
THEOREM CollectorSnapshot == CollectorSpec => []SnapshotHangsTogether
<1>1. CollectorInv => SnapshotHangsTogether
  BY DEF CollectorInv, ErrorsRead, RequestsRead, SnapshotHangsTogether, Order
<1> QED BY <1>1, CollectorInvariant, PTL

------------------------------------------------------------------------------
(* The counters and the store agree.  What was recorded at all times, and  *)
(* what Reset dropped, is the sum that the counters are ahead of by the    *)
(* recordings under way.                                                   *)

TruthTyped == truth \in [Starts \cup {Forgotten} -> Counts]
Stored == Folded(truth)
StoredSplit ==
  /\ totalRequests = Stored.requests + At({"counted", "targeted"})
  /\ totalErrors = Stored.errors + At({"failed", "shown"})
CountsInv == CollectorInv /\ StoreInv /\ TruthTyped /\ StoredSplit

(* There are finitely many times. *)
LEMMA TruthIsFinite == IsFiniteSet(Starts \cup {Forgotten}) /\ Forgotten \notin Starts
<1>1. IsFiniteSet(0..MaxTime) /\ Starts \in SUBSET (0..MaxTime)
  BY FS_Interval, StoreAssumption DEF Starts
<1>2. IsFiniteSet(Starts)
  BY <1>1, FS_Subset
<1> QED BY <1>2, FS_AddElement DEF Starts, Forgotten

(* What was recorded is counted in natural numbers. *)
LEMMA StoredIsTyped == ASSUME TruthTyped PROVE Stored \in Counts
<1> DEFINE places == Starts \cup {Forgotten}
           more == [truth EXCEPT ![Forgotten] = Add(truth[Forgotten], Empty)]
<1>1. truth \in [places -> Counts] /\ IsFiniteSet(places) /\ Forgotten \in places
  BY TruthIsFinite DEF TruthTyped
<1>2. Empty \in Counts /\ truth[Forgotten] \in Counts
  BY <1>1 DEF Empty, Counts
<1>3. Add(truth[Forgotten], Empty) \in Counts
  BY <1>2, AddCounts
<1>4. /\ more \in [places -> Counts] /\ more[Forgotten] = Add(truth[Forgotten], Empty)
      /\ \A t \in places : t # Forgotten => more[t] = truth[t]
  BY <1>1, <1>3
<1> HIDE DEF places, more
<1>5. Folded(truth) \in Counts
  BY <1>1, <1>2, <1>4, FoldAdds
<1> QED BY <1>5 DEF Stored

(* Recording adds to what was recorded ... *)
LEMMA RecordAdds ==
  ASSUME RingInv, TruthTyped, NEW change \in Counts, Record(change)
  PROVE  TruthTyped' /\ Stored' = Add(Stored, change)
<1> DEFINE start == Truncate(latest', Resolution)
           places == Starts \cup {Forgotten}
<1>1. latest' \in 0..MaxTime /\ truth' = [truth EXCEPT ![start] = Add(@, change)]
  BY DEF Record, Witness, RingInv
<1>2. start \in places
  <2>1. Period(latest') \in 0..Period(latest')
    BY <1>1, PeriodIs
  <2> QED BY <1>1, <2>1, PeriodIs
<1> HIDE DEF start, places
<1>3. truth \in [places -> Counts] /\ IsFiniteSet(places)
  BY TruthIsFinite DEF TruthTyped, places
<1>4. Add(truth[start], change) \in Counts
  BY <1>2, <1>3, AddCounts
<1>5. /\ truth' \in [places -> Counts] /\ truth'[start] = Add(truth[start], change)
      /\ \A t \in places : t # start => truth'[t] = truth[t]
  BY <1>1, <1>2, <1>3, <1>4
<1>6. /\ Folded(truth) \in Counts
      /\ Folded(truth') = Add(Folded(truth), change)
  BY <1>2, <1>3, <1>5, FoldAdds
<1> QED BY <1>5, <1>6 DEF Stored, TruthTyped, places

(* ... and Reset does not. *)
LEMMA ResetGathers ==
  ASSUME RingInv, TruthTyped, Reset
  PROVE  TruthTyped' /\ Stored' = Stored
<1> DEFINE places == Starts \cup {Forgotten}
<1>1. truth \in [places -> Counts] /\ IsFiniteSet(places) /\ Forgotten \in places
  BY TruthIsFinite DEF TruthTyped
<1>2. Empty \in Counts
  BY DEF Empty, Counts
<1> HIDE DEF places
<1>3. Stored \in Counts
  BY StoredIsTyped
<1>4. /\ truth' \in [places -> Counts] /\ truth'[Forgotten] = Stored
      /\ \A t \in places : t # Forgotten => truth'[t] = Empty
  BY <1>1, <1>2, <1>3 DEF Reset, Stored, Folded
<1> QED BY <1>1, <1>4, FoldGathers DEF Stored, TruthTyped, places

(* Nothing has been recorded in the initial state. *)
LEMMA AgreeStart == CollectorInit => CountsInv
<1> SUFFICES ASSUME CollectorInit PROVE TruthTyped /\ StoredSplit /\ StoreInv
  BY InitHolds DEF CountsInv
<1> DEFINE places == Starts \cup {Forgotten}
<1>1. truth = [t \in places |-> Empty] /\ Empty \in Counts
  BY DEF CollectorInit, StoreInit, Empty, Counts
<1>2. truth \in [places -> Counts] /\ IsFiniteSet(places) /\ Forgotten \in places
  BY <1>1, TruthIsFinite
<1> HIDE DEF places
<1>3. Stored = Empty
  BY <1>1, <1>2, FoldGathers DEF Stored
<1>4. In({"counted", "targeted"}) = {} /\ In({"failed", "shown"}) = {}
  BY DEF CollectorInit, In
<1>5. At({"counted", "targeted"}) = 0 /\ At({"failed", "shown"}) = 0
  BY <1>4, FS_EmptySet DEF At, In
<1>6. StoredSplit
  BY <1>3, <1>5 DEF StoredSplit, CollectorInit, Empty
<1>7. StoreInv
  BY RingStart, StoreAssumption DEF StoreInv, LatenciesKept, CollectorInit, StoreInit
<1> QED BY <1>2, <1>6, <1>7 DEF TruthTyped, places

(* Each step of a recorder counts in one place: what it has not yet        *)
(* counted in the other is what the counters are ahead by.                 *)
LEMMA AgreeSteps ==
  ASSUME CountsInv, [CollectorNext]_cvars, CollectorInv', StoreInv'
  PROVE  CountsInv'
<1> DEFINE Targeting == {"counted", "targeted"}
           Showing == {"failed", "shown"}
           Requested == At(Targeting)
           Erred == At(Showing)
<1>1. /\ CountersTypeOK /\ RingInv /\ TruthTyped
      /\ totalRequests \in Nat /\ totalErrors \in Nat
      /\ totalRequests = Stored.requests + Requested /\ totalErrors = Stored.errors + Erred
      /\ Requested \in Nat /\ Erred \in Nat
  BY AtIsNat DEF CountsInv, CollectorInv, StoreInv, StoredSplit, CountersTypeOK
<1>2. /\ Requested' = At(Targeting)' /\ Erred' = At(Showing)'
      /\ StoredSplit' <=> /\ totalRequests' = Stored'.requests + Requested'
                          /\ totalErrors' = Stored'.errors + Erred'
  BY DEF StoredSplit
<1>3. Stored \in Counts
  BY <1>1, StoredIsTyped
<1>4. Stored.requests \in Nat /\ Stored.errors \in Nat
  BY <1>3 DEF Counts
<1>5. SUFFICES TruthTyped' /\ StoredSplit'
  BY DEF CountsInv
<1>6. ASSUME UNCHANGED truth, UNCHANGED <<totalRequests, totalErrors, rpc>>
      PROVE  TruthTyped' /\ StoredSplit'
  BY <1>1, <1>6 DEF TruthTyped, StoredSplit, Stored, At
<1>7. ASSUME NEW r \in Recorders, CountError(r) PROVE TruthTyped' /\ StoredSplit'
  <2>1. /\ Goes(r, "idle", "failed") /\ UNCHANGED <<totalRequests, truth>>
        /\ totalErrors' = totalErrors + 1
    BY <1>7 DEF CountError, storeVars
  <2>2. Requested' = Requested /\ Erred' = Erred + 1
    BY <1>1, <2>1, GoesCounts DEF States
  <2> QED BY <1>1, <1>4, <2>1, <2>2 DEF TruthTyped, StoredSplit, Stored
<1>8. ASSUME NEW r \in Recorders, ShowError(r) PROVE TruthTyped' /\ StoredSplit'
  <2>1. Goes(r, "failed", "shown") /\ UNCHANGED <<totalRequests, totalErrors, truth>>
    BY <1>8 DEF ShowError, storeVars
  <2>2. Requested' = Requested /\ Erred' = Erred
    BY <1>1, <2>1, GoesCounts DEF States
  <2> QED BY <1>1, <2>1, <2>2 DEF TruthTyped, StoredSplit, Stored
<1>9. ASSUME NEW r \in Recorders, StoreError(r) PROVE TruthTyped' /\ StoredSplit'
  <2> DEFINE change == [requests |-> 0, errors |-> 1, latency |-> 0]
  <2>1. Goes(r, "shown", "answered") /\ UNCHANGED <<totalRequests, totalErrors>> /\ Record(change)
    BY <1>9 DEF StoreError, RecordError, counterVars
  <2>2. Requested' = Requested /\ Erred' = Erred - 1
    BY <1>1, <2>1, GoesCounts DEF States
  <2>3. change \in Counts /\ change.requests = 0 /\ change.errors = 1
    BY DEF Counts
  <2> HIDE DEF change
  <2>4. TruthTyped' /\ Stored' = Add(Stored, change)
    BY <1>1, <2>1, <2>3, RecordAdds
  <2>5. Stored'.requests = Stored.requests /\ Stored'.errors = Stored.errors + 1
    BY <1>3, <1>4, <2>3, <2>4, AddCounts
  <2> QED BY <1>1, <1>4, <2>1, <2>2, <2>4, <2>5 DEF StoredSplit
<1>10. ASSUME NEW r \in Recorders, CountRequest(r) PROVE TruthTyped' /\ StoredSplit'
  <2>1. PICK from \in {"idle", "answered"} : Goes(r, from, "counted")
    BY <1>10 DEF CountRequest
  <2>2. UNCHANGED <<totalErrors, truth>> /\ totalRequests' = totalRequests + 1
    BY <1>10 DEF CountRequest, storeVars
  <2>3. Requested' = Requested + 1 /\ Erred' = Erred
    BY <1>1, <2>1, GoesCounts DEF States
  <2> QED BY <1>1, <1>4, <2>2, <2>3 DEF TruthTyped, StoredSplit, Stored
<1>11. ASSUME NEW r \in Recorders, CountTarget(r) PROVE TruthTyped' /\ StoredSplit'
  <2>1. Goes(r, "counted", "targeted") /\ UNCHANGED <<totalRequests, totalErrors, truth>>
    BY <1>11 DEF CountTarget, storeVars
  <2>2. Requested' = Requested /\ Erred' = Erred
    BY <1>1, <2>1, GoesCounts DEF States
  <2> QED BY <1>1, <2>1, <2>2 DEF TruthTyped, StoredSplit, Stored
<1>12. ASSUME NEW r \in Recorders, StoreRequest(r) PROVE TruthTyped' /\ StoredSplit'
  <2>1. PICK latency \in Latencies : RecordRequest(latency)
    BY <1>12 DEF StoreRequest
  <2> DEFINE change == [requests |-> 1, errors |-> 0, latency |-> latency]
  <2>2. Goes(r, "targeted", "idle") /\ UNCHANGED <<totalRequests, totalErrors>> /\ Record(change)
    BY <1>12, <2>1 DEF StoreRequest, RecordRequest, counterVars
  <2>3. Requested' = Requested - 1 /\ Erred' = Erred
    BY <1>1, <2>2, GoesCounts DEF States
  <2>4. change \in Counts /\ change.requests = 1 /\ change.errors = 0
    BY StoreAssumption DEF Counts
  <2> HIDE DEF change
  <2>5. TruthTyped' /\ Stored' = Add(Stored, change)
    BY <1>1, <2>2, <2>4, RecordAdds
  <2>6. Stored'.requests = Stored.requests + 1 /\ Stored'.errors = Stored.errors
    BY <1>3, <1>4, <2>4, <2>5, AddCounts
  <2> QED BY <1>1, <1>4, <2>2, <2>3, <2>5, <2>6 DEF StoredSplit
<1>13. CASE Storing
  <2>1. UNCHANGED <<totalRequests, totalErrors, rpc>>
    BY <1>13 DEF Storing, counterVars
  <2>2. CASE Reset
    <3>1. TruthTyped' /\ Stored' = Stored
      BY <1>1, <2>2, ResetGathers
    <3> QED BY <1>1, <2>1, <3>1 DEF StoredSplit, At
  <2> QED BY <1>6, <1>13, <2>1, <2>2 DEF Storing, TimePasses, ClockSetBack
<1>14. CASE ReadField \/ SnapshotReturns \/ UNCHANGED cvars
  BY <1>6, <1>14 DEF ReadField, SnapshotReturns, cvars, storeVars, counterVars
<1> QED BY <1>7, <1>8, <1>9, <1>10, <1>11, <1>12, <1>13, <1>14 DEF CollectorNext, Recording

(* A request is counted in the total, at its backend and in the history    *)
(* (collector.go:112), an error in the total and in the history, by        *)
(* whatever goroutines: the counts differ only by what is being recorded.  *)
THEOREM CollectorCountsAgree == CollectorSpec => []CountsAgree
<1>1. CountsInv /\ [CollectorNext]_cvars /\ CollectorInv' /\ StoreInv' => CountsInv'
  BY AgreeSteps
<1>2. CountsInv => CountsAgree
  BY DEF CountsInv, CollectorInv, RequestsSplit, ErrorsSplit, StoredSplit, CountsAgree,
         Stored, Folded, Failing
<1>3. CollectorSpec => []StoreInv
  BY CollectorImplementsStore, StoreInvariant, PTL
<1>4. CollectorSpec => []CollectorInv
  BY CollectorInvariant
<1> QED BY <1>1, <1>2, <1>3, <1>4, AgreeStart, PTL DEF CollectorSpec
==============================================================================
