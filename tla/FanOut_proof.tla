----------------------------- MODULE FanOut_proof -----------------------------
(***************************************************************************)
(* Proofs about the routers that ask several connectors, History and       *)
(* FanOut, for every set of connectors, responses, errors and preferences. *)
(***************************************************************************)
EXTENDS FanOut, Basics_proof

-----------------------------------------------------------------------------
(* Buckets *)

PlanType == {p \in [unit : {"daily", "weekly", "minutes"}, minutes : Nat] :
                p.unit = "minutes" => p.minutes # 0}

LEMMA FloorInt ==
    ASSUME NEW t \in Int, NEW step \in Nat \ {0}
    PROVE  Floor(t, step) \in Int
    BY DEF Floor

LEMMA ZoneInts ==
    ASSUME NEW zone \in ZoneType, NEW t \in Int
    PROVE  /\ Offset(zone, t) \in Int /\ Local(zone, t) \in Int
           /\ Instants(zone, t) \in SUBSET Int
           /\ \A i \in Instants(zone, t) : i = t - Offset(zone, i)
    BY DEF ZoneType, Offset, Local, Instants

\* Of the two instants that a local time may have there is a first one.
LEMMA FirstInstant ==
    ASSUME NEW zone \in ZoneType, NEW t \in Int, Instants(zone, t) # {}
    PROVE  \E i \in Instants(zone, t) : \A j \in Instants(zone, t) : i <= j
    BY DEF ZoneType, Instants

\* Where there are two instants, any offset of the zone is that of one.
LEMMA InstantOfOffset ==
    ASSUME NEW zone \in ZoneType, NEW local \in Int, NEW t \in Int,
           Instants(zone, local) # {}, Cardinality(Instants(zone, local)) # 1
    PROVE  \E i \in Instants(zone, local) : Offset(zone, i) = Offset(zone, t)
    <1> DEFINE a == local - zone.before
               b == local - zone.after
    <1>1. a \in Int /\ b \in Int /\ zone.before \in Int /\ zone.after \in Int
        BY DEF ZoneType
    <1>2. Instants(zone, local) \subseteq {a, b}
        BY DEF Instants
    <1>3. \A x : Instants(zone, local) # {x}
        BY FS_Singleton
    <1>4. a \in Instants(zone, local) /\ b \in Instants(zone, local) /\ a # b
        <2> HIDE DEF a, b
        <2> QED BY <1>2, <1>3
    <1>5. Local(zone, a) = local /\ Local(zone, b) = local
        BY <1>4 DEF Instants
    <1>6. Offset(zone, a) = zone.before /\ Offset(zone, b) = zone.after
        BY <1>1, <1>5 DEF Local, Offset
    <1> HIDE DEF a, b
    <1>7. Offset(zone, t) \in {zone.before, zone.after}
        BY DEF Offset
    <1> QED BY <1>4, <1>6, <1>7

LEMMA MidnightInt ==
    ASSUME NEW zone \in ZoneType, NEW t \in Int, NEW local \in Int
    PROVE  MidnightOf(zone, t, local) \in Int
    <1>1. Floor(t, Day) \in Int
        BY DayAssumption, FloorInt
    <1>2. CASE Instants(zone, local) = {}
        BY <1>1, <1>2 DEF MidnightOf
    <1>3. CASE Instants(zone, local) # {}
        <2>1. \E i \in Instants(zone, local) : \A j \in Instants(zone, local) : i <= j
            BY <1>3, FirstInstant
        <2>2. Instants(zone, local) \in SUBSET Int
            BY ZoneInts
        <2>3. MidnightOf(zone, t, local) \in Instants(zone, local)
            BY <1>3, <2>1 DEF MidnightOf
        <2> QED BY <2>2, <2>3
    <1> QED BY <1>2, <1>3

LEMMA WeekStartInt ==
    ASSUME NEW local \in Int
    PROVE  WeekStart(local) \in Int
    <1>1. (local \div Day) + 3 \in Int
        BY DayAssumption
    <1>2. Floor((local \div Day) + 3, 7) \in Int
        BY <1>1, FloorInt
    <1> QED BY <1>2, DayAssumption DEF WeekStart

\* A bucket begins at an instant, whatever the zone does.
LEMMA BucketInt ==
    ASSUME NEW plan \in PlanType, NEW meta \in MetaType, NEW t \in Int
    PROVE  Bucket(plan, meta, t) \in Int
    <1>1. FixedOffset(meta) \in Int
        BY DEF FixedOffset, MetaType
    <1>2. t + FixedOffset(meta) \in Int
        BY <1>1
    <1>3. HasZone(meta) => meta.zone \in ZoneType
        BY DEF HasZone, MetaType
    <1>4. DayBucket(meta, t) \in Int
        <2>1. CASE HasZone(meta)
            <3>1. Floor(Local(meta.zone, t), Day) \in Int
                BY <1>3, <2>1, ZoneInts, FloorInt, DayAssumption
            <3> QED BY <1>3, <2>1, <3>1, MidnightInt DEF DayBucket
        <2>2. CASE ~HasZone(meta)
            <3>1. Floor(t + FixedOffset(meta), Day) \in Int
                BY <1>2, FloorInt, DayAssumption
            <3> QED BY <1>1, <2>2, <3>1 DEF DayBucket
        <2> QED BY <2>1, <2>2
    <1>5. WeekBucket(meta, t) \in Int
        <2>1. CASE HasZone(meta)
            <3>1. WeekStart(Local(meta.zone, t)) \in Int
                BY <1>3, <2>1, ZoneInts, WeekStartInt
            <3> QED BY <1>3, <2>1, <3>1, MidnightInt DEF WeekBucket
        <2>2. CASE ~HasZone(meta)
            <3>1. WeekStart(t + FixedOffset(meta)) \in Int
                BY <1>2, WeekStartInt
            <3> QED BY <1>1, <2>2, <3>1 DEF WeekBucket
        <2> QED BY <2>1, <2>2
    <1>6. ASSUME NEW step \in Nat \ {0} PROVE MinuteBucket(meta, step, t) \in Int
        <2>1. CASE HasZone(meta)
            <3> DEFINE local == Local(meta.zone, t)
                       bucket == Floor(local, Day) + Floor(local % Day, step)
                       found == Instants(meta.zone, bucket)
            <3>1. local \in Int /\ local % Day \in Int
                BY <1>3, <2>1, ZoneInts, DayAssumption
            <3>2. Floor(local, Day) \in Int /\ Floor(local % Day, step) \in Int
                <4> HIDE DEF local
                <4> QED BY <3>1, FloorInt, DayAssumption
            <3>3. bucket \in Int
                BY <3>2
            <3>4. Floor(t, step) \in Int
                BY FloorInt
            <3> HIDE DEF bucket
            <3>5. found \in SUBSET Int
                BY <1>3, <2>1, <3>3, ZoneInts
            <3>6. MinuteBucket(meta, step, t) =
                    CASE found = {} -> Floor(t, step)
                      [] Cardinality(found) = 1 -> CHOOSE i \in found : TRUE
                      [] OTHER -> CHOOSE i \in found : Offset(meta.zone, i) = Offset(meta.zone, t)
                BY <2>1 DEF MinuteBucket, bucket
            <3>7. Cardinality({}) = 0
                BY FS_EmptySet
            <3>8. found # {} /\ Cardinality(found) # 1 =>
                    \E i \in found : Offset(meta.zone, i) = Offset(meta.zone, t)
                BY <1>3, <2>1, <3>3, InstantOfOffset
            <3> HIDE DEF found, local
            <3>9. CASE found = {}
                BY <3>4, <3>6, <3>7, <3>9
            <3>10. CASE found # {} /\ Cardinality(found) = 1
                <4>1. MinuteBucket(meta, step, t) = CHOOSE i \in found : TRUE
                    BY <3>6, <3>10
                <4> QED BY <3>5, <3>10, <4>1
            <3>11. CASE found # {} /\ Cardinality(found) # 1
                <4>1. MinuteBucket(meta, step, t)
                        = CHOOSE i \in found : Offset(meta.zone, i) = Offset(meta.zone, t)
                    BY <3>6, <3>11
                <4> QED BY <3>5, <3>8, <3>11, <4>1
            <3> QED BY <3>9, <3>10, <3>11
        <2>2. CASE ~HasZone(meta)
            <3>1. Floor(t + FixedOffset(meta), step) \in Int
                BY <1>2, FloorInt
            <3> QED BY <1>1, <2>2, <3>1 DEF MinuteBucket
        <2> QED BY <2>1, <2>2
    <1>7. plan.unit = "minutes" => MinuteBucket(meta, plan.minutes, t) \in Int
        BY <1>6 DEF PlanType
    <1> QED BY <1>4, <1>5, <1>7 DEF Bucket, PlanType
-----------------------------------------------------------------------------
(* Sorting by time *)

\* Sorted by time, candles are the same ones.
LEMMA ByTimeIs ==
    ASSUME NEW candles \in Seq(CandleType)
    PROVE  /\ ByTime(candles) \in Seq(CandleType)
           /\ DOMAIN ByTime(candles) = DOMAIN candles
           /\ \A i, j \in DOMAIN candles :
                 i < j => ByTime(candles)[i].ts <= ByTime(candles)[j].ts
           /\ \A i \in DOMAIN candles : \E k \in DOMAIN candles : ByTime(candles)[i] = candles[k]
           /\ \A k \in DOMAIN candles : \E i \in DOMAIN candles : ByTime(candles)[i] = candles[k]
    <1> DEFINE R == {p \in (DOMAIN candles) \X (DOMAIN candles) :
                        \/ candles[p[1]].ts < candles[p[2]].ts
                        \/ candles[p[1]].ts = candles[p[2]].ts /\ p[1] <= p[2]}
               order == InOrder(DOMAIN candles, R)
    <1>1. \A x, y \in DOMAIN candles :
              <<x, y>> \in R <=> \/ candles[x].ts < candles[y].ts
                                 \/ candles[x].ts = candles[y].ts /\ x <= y
        OBVIOUS
    <1>2. ByTime(candles) = Sorted(candles, R)
        BY DEF ByTime
    <1>3. \A x \in DOMAIN candles : x \in Int /\ candles[x].ts \in Int
        <2>1. \A x \in DOMAIN candles : x \in Int /\ candles[x] \in CandleType
            OBVIOUS
        <2> QED BY <2>1 DEF CandleType
    <1> HIDE DEF R
    <1>4. Orders(R, DOMAIN candles)
        BY SMTT(20), <1>1, <1>3 DEF Orders
    <1>5. /\ Sorted(candles, R) \in Seq(CandleType) /\ DOMAIN Sorted(candles, R) = DOMAIN candles
          /\ \A i \in DOMAIN candles : order[i] \in DOMAIN candles
          /\ \A i, j \in DOMAIN candles : i < j => order[i] # order[j] /\ <<order[i], order[j]>> \in R
          /\ \A x \in DOMAIN candles : \E k \in DOMAIN candles : order[k] = x
          /\ \A k \in DOMAIN candles : Sorted(candles, R)[k] = candles[order[k]]
        BY <1>4, SortedIs
    <1> HIDE DEF order
    <1>6. ASSUME NEW i \in DOMAIN candles, NEW j \in DOMAIN candles, i < j
          PROVE  ByTime(candles)[i].ts <= ByTime(candles)[j].ts
        <2>1. order[i] \in DOMAIN candles /\ order[j] \in DOMAIN candles /\ <<order[i], order[j]>> \in R
            BY <1>5, <1>6
        <2>2. candles[order[i]].ts <= candles[order[j]].ts
            BY <1>1, <1>3, <2>1
        <2>3. /\ ByTime(candles)[i] = candles[order[i]]
              /\ ByTime(candles)[j] = candles[order[j]]
            BY <1>2, <1>5
        <2> QED BY Zenon, <2>2, <2>3
    <1>7. \A i \in DOMAIN candles : ByTime(candles)[i] = candles[order[i]] /\ order[i] \in DOMAIN candles
        BY <1>2, <1>5
    <1>8. ASSUME NEW k \in DOMAIN candles
          PROVE  \E i \in DOMAIN candles : ByTime(candles)[i] = candles[k]
        <2>1. PICK i \in DOMAIN candles : order[i] = k
            BY <1>5
        <2> QED BY <1>7, <2>1
    <1>9. ASSUME NEW i \in DOMAIN candles
          PROVE  \E k \in DOMAIN candles : ByTime(candles)[i] = candles[k]
        BY <1>7
    <1>10. ByTime(candles) \in Seq(CandleType) /\ DOMAIN ByTime(candles) = DOMAIN candles
        BY <1>2, <1>5
    <1> QED BY Zenon, <1>6, <1>8, <1>9, <1>10

-----------------------------------------------------------------------------
(* Resampling *)

AccType == [out : Seq(CandleType), mixed : BOOLEAN, cur : CandleType]

LEMMA StartBucketType ==
    ASSUME NEW bucket \in Int, NEW c \in CandleType
    PROVE  StartBucket(bucket, c) \in CandleType
    BY DEF StartBucket, CandleType

LEMMA FinalizeType ==
    ASSUME NEW acc \in AccType
    PROVE  Finalize(acc) \in AccType
    <1>1. Append(acc.out, acc.cur) \in Seq(CandleType)
        BY DEF AccType
    <1> QED BY <1>1 DEF Finalize, AccType

LEMMA AddVolumeType ==
    ASSUME NEW a \in Nat \union {None}, NEW b \in Nat \union {None}
    PROVE  AddVolume(a, b) \in Nat \union {None}
    BY DEF AddVolume

LEMMA AddCandleType ==
    ASSUME NEW plan \in PlanType, NEW meta \in MetaType, NEW acc \in AccType, NEW c \in CandleType
    PROVE  AddCandle(plan, meta, acc, c) \in AccType
    <1> DEFINE b == acc.cur
               bucket == Bucket(plan, meta, c.ts)
               f == Finalize(acc)
               grown == [b EXCEPT !.high = Higher(@, c.high), !.low = Lower(@, c.low),
                                  !.close = c.close, !.vol = AddVolume(@, c.vol)]
    <1>1. c.ts \in Int /\ b \in CandleType
        BY DEF CandleType, AccType
    <1>2. StartBucket(bucket, c) \in CandleType
        BY <1>1, BucketInt, StartBucketType
    <1>3. f \in AccType
        BY FinalizeType
    <1>4. AddVolume(b.vol, c.vol) \in Nat \union {None}
        BY <1>1, AddVolumeType DEF CandleType
    <1>5. Higher(b.high, c.high) \in Price /\ Lower(b.low, c.low) \in Price
        BY <1>1 DEF CandleType, Higher, Lower
    <1>6. grown \in CandleType
        BY <1>1, <1>4, <1>5 DEF CandleType
    <1> DEFINE begun == [f EXCEPT !.cur = StartBucket(bucket, c)]
               joined == [acc EXCEPT !.cur = grown]
               spoilt == [acc EXCEPT !.mixed = TRUE]
    <1>7. AddCandle(plan, meta, acc, c) \in {acc, begun, joined, spoilt}
        BY DEF AddCandle
    <1> HIDE DEF f, grown, bucket, b
    <1>8. begun \in AccType /\ joined \in AccType /\ spoilt \in AccType
        BY <1>2, <1>3, <1>6 DEF AccType, b
    <1> QED BY <1>7, <1>8

\* The function of the turns that the loop of resample_by computes.
Resampling(f, plan, meta, sorted) ==
    f = [i \in 1..Len(sorted) |->
            IF i = 1 THEN [out |-> <<>>, mixed |-> FALSE,
                           cur |-> StartBucket(Bucket(plan, meta, sorted[1].ts), sorted[1])]
            ELSE AddCandle(plan, meta, f[i - 1], sorted[i])]

LEMMA ResamplingIs ==
    ASSUME NEW plan \in PlanType, NEW meta \in MetaType,
           NEW sorted \in Seq(CandleType), sorted # <<>>
    PROVE  \E f : f \in [1..Len(sorted) -> AccType] /\ Resampling(f, plan, meta, sorted)
    <1> DEFINE n == Len(sorted)
               base == [out |-> <<>>, mixed |-> FALSE,
                        cur |-> StartBucket(Bucket(plan, meta, sorted[1].ts), sorted[1])]
               step == [i \in 2..n |-> [acc \in AccType |-> AddCandle(plan, meta, acc, sorted[i])]]
    <1>1. n \in Nat \ {0} /\ \A i \in 1..n : sorted[i] \in CandleType
        OBVIOUS
    <1>2. \A i \in 2..n : i \in 1..n /\ i # 1 /\ i - 1 \in 1..n
        OBVIOUS
    <1>3. base \in AccType
        <2>1. sorted[1] \in CandleType /\ sorted[1].ts \in Int
            BY <1>1 DEF CandleType
        <2>2. StartBucket(Bucket(plan, meta, sorted[1].ts), sorted[1]) \in CandleType
            BY <2>1, BucketInt, StartBucketType
        <2> QED BY <2>2 DEF AccType
    <1> HIDE DEF n
    <1>4. step \in [2..n -> [AccType -> AccType]]
        BY <1>1, <1>2, AddCandleType
    <1>5. \A i \in 2..n, acc \in AccType : step[i][acc] = AddCandle(plan, meta, acc, sorted[i])
        OBVIOUS
    <1> HIDE DEF base, step
    <1>6. PICK f : IsLoopFromOne(f, n, AccType, base, step)
        BY <1>1, <1>3, <1>4, LoopFromOne
    <1>7. \A i \in 1..n : f[i] = IF i = 1 THEN base ELSE AddCandle(plan, meta, f[i - 1], sorted[i])
        <2> TAKE i \in 1..n
        <2>1. CASE i = 1
            BY <1>6, <2>1 DEF IsLoopFromOne
        <2>2. CASE i # 1
            <3>1. i \in 2..n /\ i - 1 \in 1..n
                BY <1>1, <2>2
            <3>2. f[i - 1] \in AccType /\ f[i] = step[i][f[i - 1]]
                BY <1>6, <3>1 DEF IsLoopFromOne
            <3> QED BY <1>5, <2>2, <3>1, <3>2
        <2> QED BY <2>1, <2>2
    <1>8. f = [i \in 1..n |-> f[i]] /\ f \in [1..n -> AccType]
        BY <1>6 DEF IsLoopFromOne
    <1>9. f = [i \in 1..n |-> IF i = 1 THEN base ELSE AddCandle(plan, meta, f[i - 1], sorted[i])]
        BY <1>7, <1>8
    <1>10. Resampling(f, plan, meta, sorted)
        BY <1>9 DEF Resampling, base, n
    <1> QED BY <1>8, <1>10 DEF n

\* Any function that the loop computes has the accumulators' type.
LEMMA ResamplingType ==
    ASSUME NEW plan \in PlanType, NEW meta \in MetaType,
           NEW s \in Seq(CandleType), s # <<>>,
           NEW f, Resampling(f, plan, meta, s)
    PROVE  f \in [1..Len(s) -> AccType]
    <1> DEFINE n == Len(s)
               T == {i \in 0..n : i # 0 => f[i] \in AccType}
    <1>1. n \in Nat \ {0} /\ 1 \in 1..n /\ \A i \in 1..n : s[i] \in CandleType
        OBVIOUS
    <1>2. PICK g : g \in [1..n -> AccType] /\ Resampling(g, plan, meta, s)
        BY ResamplingIs
    <1> HIDE DEF n
    <1>3. f[1] = g[1]
        BY <1>1, <1>2 DEF Resampling, n
    <1>4. \A i \in 1..n : i # 1 => f[i] = AddCandle(plan, meta, f[i - 1], s[i])
        BY Zenon DEF Resampling, n
    <1>5. ASSUME NEW i \in 1..n, i - 1 \in T PROVE i \in T
        <2>1. i \in 0..n
            OBVIOUS
        <2>2. CASE i = 1
            BY <1>1, <1>2, <1>3, <2>1, <2>2
        <2>3. CASE i # 1
            <3>1. f[i - 1] \in AccType
                BY <1>5, <2>3
            <3>2. f[i] = AddCandle(plan, meta, f[i - 1], s[i])
                BY <1>4, <2>3
            <3> QED BY <1>1, <2>1, <3>1, <3>2, AddCandleType
        <2> QED BY <2>2, <2>3
    <1>6. 0 \in T
        BY <1>1
    <1> HIDE DEF T
    <1>7. 0..n \subseteq T
        BY <1>1, <1>5, <1>6, IntervalInduction
    <1>8. \A i \in 1..n : f[i] \in AccType
        BY <1>1, <1>7 DEF T
    <1>9. f = [i \in 1..n |-> f[i]]
        BY DEF Resampling, n
    <1> QED BY <1>8, <1>9 DEF n

\* Resampling yields a series of candles.
LEMMA ResampledType ==
    ASSUME NEW plan \in PlanType, NEW meta \in MetaType, NEW candles \in Seq(CandleType)
    PROVE  /\ Resampled(plan, meta, candles).out \in Seq(CandleType)
           /\ Resampled(plan, meta, candles).mixed \in BOOLEAN
           /\ candles # <<>> /\ ~Resampled(plan, meta, candles).mixed =>
                  Resampled(plan, meta, candles).out # <<>>
    <1>1. CASE candles = <<>>
        BY <1>1 DEF Resampled
    <1>2. CASE candles # <<>>
        <2> DEFINE sorted == ByTime(candles)
                   after == CHOOSE f : Resampling(f, plan, meta, sorted)
        <2>1. sorted \in Seq(CandleType) /\ DOMAIN sorted = DOMAIN candles
            BY ByTimeIs
        <2>2. Len(sorted) \in Nat \ {0} /\ sorted # <<>>
            <3> HIDE DEF sorted
            <3> QED BY <1>2, <2>1
        <2>3. Resampled(plan, meta, candles) =
                LET end == after[Len(sorted)]
                    last == IF end.mixed THEN end ELSE Finalize(end)
                IN  [out |-> last.out, mixed |-> last.mixed]
            BY <1>2 DEF Resampled, Resampling
        <2> HIDE DEF sorted
        <2>4. \E f : f \in [1..Len(sorted) -> AccType] /\ Resampling(f, plan, meta, sorted)
            BY <2>1, <2>2, ResamplingIs
        <2>5. Resampling(after, plan, meta, sorted)
            BY <2>4
        <2> HIDE DEF after
        <2>6. after \in [1..Len(sorted) -> AccType]
            BY <2>1, <2>2, <2>5, ResamplingType
        <2>10. after[Len(sorted)] \in AccType
            BY <2>2, <2>6
        <2> DEFINE end == after[Len(sorted)]
                   last == IF end.mixed THEN end ELSE Finalize(end)
        <2>11. last \in AccType
            BY <2>10, FinalizeType
        <2>12. last.out \in Seq(CandleType) /\ last.mixed \in BOOLEAN
            BY <2>11 DEF AccType
        <2>13. ~last.mixed => last.out # <<>>
            <3>1. end.out \in Seq(CandleType) /\ end.cur \in CandleType
                BY <2>10 DEF AccType
            <3>2. Append(end.out, end.cur) # <<>>
                BY <3>1
            <3>3. Finalize(end).mixed \/ Finalize(end).out = Append(end.out, end.cur)
                BY <2>10 DEF Finalize, AccType
            <3> HIDE DEF end
            <3> QED BY <3>2, <3>3
        <2> HIDE DEF last
        <2> QED BY <2>3, <2>12, <2>13 DEF last
    <1> QED BY <1>1, <1>2
-----------------------------------------------------------------------------
(* Resampling is by buckets *)

\* The volumes at these places, summed turn by turn.
Totalling(f, s, places) ==
    f = [n \in 0..Len(s) |-> IF n = 0 THEN 0
                             ELSE IF n \in places THEN f[n - 1] + s[n].vol ELSE f[n - 1]]

Total(s, places) == CHOOSE f : Totalling(f, s, places)

LEMMA TotalIs ==
    ASSUME NEW s \in Seq(CandleType), NEW places, \A i \in places \cap DOMAIN s : s[i].vol # None
    PROVE  /\ TotalVolume(s, places) = Total(s, places)[Len(s)]
           /\ Total(s, places)[0] = 0
           /\ \A n \in 0..Len(s) : Total(s, places)[n] \in Nat
           /\ \A n \in 1..Len(s) :
                 Total(s, places)[n] = IF n \in places THEN Total(s, places)[n - 1] + s[n].vol
                                       ELSE Total(s, places)[n - 1]
    <1> DEFINE N == Len(s)
               g == Total(s, places)
               step == [n \in 1..N |-> [x \in Nat |-> IF n \in places THEN x + s[n].vol ELSE x]]
    <1>1. N \in Nat /\ DOMAIN s = 1..N /\ \A n \in 1..N : s[n] \in CandleType
        OBVIOUS
    <1>2. \A n \in 1..N : n \in places => s[n].vol \in Nat
        BY <1>1 DEF CandleType
    <1>3. TotalVolume(s, places) = g[N]
        BY DEF TotalVolume, Total, Totalling
    <1> HIDE DEF N
    <1>4. step \in [1..N -> [Nat -> Nat]]
        BY <1>2
    <1>5. \A n \in 1..N, x \in Nat : step[n][x] = IF n \in places THEN x + s[n].vol ELSE x
        OBVIOUS
    <1> HIDE DEF step
    <1>6. PICK f : IsLoop(f, N, Nat, 0, step)
        BY <1>1, <1>4, LoopFunction
    <1>7. \A n \in 0..N : f[n] = IF n = 0 THEN 0
                                 ELSE IF n \in places THEN f[n - 1] + s[n].vol ELSE f[n - 1]
        <2> TAKE n \in 0..N
        <2>1. CASE n = 0
            BY <1>6, <2>1 DEF IsLoop
        <2>2. CASE n # 0
            <3>1. n \in 1..N /\ n - 1 \in 0..N
                BY <1>1, <2>2
            <3>2. f[n - 1] \in Nat /\ f[n] = step[n][f[n - 1]]
                BY <1>6, <3>1 DEF IsLoop
            <3> QED BY <1>5, <2>2, <3>1, <3>2
        <2> QED BY <2>1, <2>2
    <1>8. Totalling(f, s, places)
        <2>1. f = [n \in 0..N |-> f[n]]
            BY <1>6 DEF IsLoop
        <2> QED BY <1>7, <2>1 DEF Totalling, N
    <1>9. Totalling(g, s, places)
        BY <1>8 DEF Total
    <1> HIDE DEF g
    <1>10. \A n \in 0..N : g[n] = IF n = 0 THEN 0
                                  ELSE IF n \in places THEN g[n - 1] + s[n].vol ELSE g[n - 1]
        BY <1>9 DEF Totalling, N
    <1>11. \A n \in 1..N : n \in 0..N /\ n # 0
        OBVIOUS
    <1> DEFINE T == {n \in 0..N : g[n] \in Nat}
    <1>12. \A n \in 1..N : n - 1 \in T => n \in T
        BY <1>2, <1>10, <1>11
    <1>13. 0 \in T
        BY <1>1, <1>10
    <1> HIDE DEF T
    <1>14. 0..N \subseteq T
        BY <1>1, <1>12, <1>13, IntervalInduction
    <1>15. \A n \in 0..N : g[n] \in Nat
        BY <1>14 DEF T
    <1>16. 0 \in 0..N
        BY <1>1
    <1> QED BY <1>3, <1>10, <1>11, <1>15, <1>16 DEF g, N

\* Nothing is summed before the first place.
LEMMA TotalStarts ==
    ASSUME NEW s \in Seq(CandleType), NEW places, \A i \in places \cap DOMAIN s : s[i].vol # None,
           NEW n \in 0..Len(s), \A j \in 1..n : j \notin places
    PROVE  Total(s, places)[n] = 0
    <1> DEFINE g == Total(s, places)
               T == {m \in 0..n : g[m] = 0}
    <1>1. n \in Nat /\ 1..n \subseteq 1..Len(s)
        OBVIOUS
    <1>2. g[0] = 0 /\ \A m \in 1..Len(s) : m \notin places => g[m] = g[m - 1]
        BY TotalIs
    <1> HIDE DEF g
    <1>3. \A m \in 1..n : m - 1 \in T => m \in T
        BY <1>1, <1>2
    <1>4. 0 \in T
        BY <1>2
    <1> HIDE DEF T
    <1>5. 0..n \subseteq T
        BY <1>1, <1>3, <1>4, IntervalInduction
    <1>6. n \in T
        BY <1>1, <1>5
    <1> QED BY <1>6 DEF T, g

\* The candles of a bucket among the first i, given the bucket of each candle,
\* and those of them that have a volume.
InBucket(B, b, i) == {j \in 1..i : B[j] = b}
WithVolume(s, B, b, i) == {j \in InBucket(B, b, i) : s[j].vol # None}

\* c has what the first i candles of its bucket add up to.
GroupsUpTo(c, s, B, i) ==
    LET w == InBucket(B, c.ts, i)
    IN  /\ \E j \in w : c.open = s[j].open /\ \A l \in w : j <= l
        /\ \E j \in w : c.close = s[j].close /\ \A l \in w : l <= j
        /\ \E j \in w : c.high = s[j].high
        /\ \A l \in w : s[l].high.amt <= c.high.amt
        /\ \E j \in w : c.low = s[j].low
        /\ \A l \in w : s[l].low.amt >= c.low.amt
        /\ c.vol = IF WithVolume(s, B, c.ts, i) = {} THEN None
                   ELSE Total(s, WithVolume(s, B, c.ts, Len(s)))[i]
        /\ ~c.raw

LEMMA VolumePlaces ==
    ASSUME NEW s \in Seq(CandleType), NEW B, NEW b
    PROVE  /\ \A i \in WithVolume(s, B, b, Len(s)) \cap DOMAIN s : s[i].vol # None
           /\ \A n \in 0..Len(s) : \A i \in 1..n :
                 i \in WithVolume(s, B, b, Len(s)) <=> i \in WithVolume(s, B, b, n)
    BY DEF WithVolume, InBucket

\* A candle of another bucket changes nothing.
LEMMA GroupStays ==
    ASSUME NEW s \in Seq(CandleType), NEW B, NEW i \in 1..Len(s), NEW c \in CandleType,
           GroupsUpTo(c, s, B, i - 1), B[i] # c.ts
    PROVE  GroupsUpTo(c, s, B, i)
    <1>1. 1..i = (1..(i - 1)) \union {i}
        OBVIOUS
    <1>2. InBucket(B, c.ts, i) = InBucket(B, c.ts, i - 1)
        BY <1>1 DEF InBucket
    <1>3. WithVolume(s, B, c.ts, i) = WithVolume(s, B, c.ts, i - 1)
        BY <1>2 DEF WithVolume
    <1> DEFINE places == WithVolume(s, B, c.ts, Len(s))
    <1>4. i \notin places
        BY DEF WithVolume, InBucket
    <1>5. \A j \in places \cap DOMAIN s : s[j].vol # None
        BY VolumePlaces
    <1> HIDE DEF places
    <1>6. Total(s, places)[i] = Total(s, places)[i - 1]
        BY <1>4, <1>5, TotalIs
    <1> QED BY <1>2, <1>3, <1>6 DEF GroupsUpTo, places

\* The first candle of a bucket starts a group.
LEMMA GroupStarts ==
    ASSUME NEW s \in Seq(CandleType), NEW B, NEW i \in 1..Len(s), B[i] \in Int,
           \A j \in 1..(i - 1) : B[j] # B[i]
    PROVE  GroupsUpTo(StartBucket(B[i], s[i]), s, B, i)
    <1> DEFINE c == StartBucket(B[i], s[i])
               places == WithVolume(s, B, B[i], Len(s))
    <1>0. s[i] \in CandleType
        OBVIOUS
    <1>1. /\ c.ts = B[i] /\ c.open = s[i].open /\ c.close = s[i].close /\ c.high = s[i].high
          /\ c.low = s[i].low /\ c.vol = s[i].vol /\ ~c.raw
        BY <1>0 DEF StartBucket, CandleType
    <1>2. 1..i = (1..(i - 1)) \union {i} /\ i - 1 \in 0..Len(s)
        OBVIOUS
    <1>3. InBucket(B, B[i], i) = {i}
        BY <1>2 DEF InBucket
    <1>4. WithVolume(s, B, B[i], i) = IF s[i].vol = None THEN {} ELSE {i}
        BY <1>3 DEF WithVolume
    <1>5. \A j \in places \cap DOMAIN s : s[j].vol # None
        BY VolumePlaces
    <1>6. \A j \in 1..(i - 1) : j \notin places
        BY DEF WithVolume, InBucket
    <1>7. i \in places <=> s[i].vol # None
        BY DEF WithVolume, InBucket
    <1> HIDE DEF places
    <1>8. Total(s, places)[i - 1] = 0
        BY <1>2, <1>5, <1>6, TotalStarts
    <1>9. s[i].vol # None => Total(s, places)[i] = s[i].vol
        <2>1. s[i].vol # None => s[i].vol \in Nat
            BY <1>0 DEF CandleType
        <2>2. Total(s, places)[i] = IF i \in places THEN Total(s, places)[i - 1] + s[i].vol
                                    ELSE Total(s, places)[i - 1]
            BY <1>5, TotalIs
        <2> QED BY <1>7, <1>8, <2>1, <2>2
    <1> HIDE DEF c
    <1>10. c.vol = IF WithVolume(s, B, c.ts, i) = {} THEN None
                   ELSE Total(s, WithVolume(s, B, c.ts, Len(s)))[i]
        BY <1>1, <1>4, <1>9 DEF places
    <1>11. s[i].high.amt \in Int /\ s[i].low.amt \in Int /\ i \in Int
        <2>1. s[i].high \in Price /\ s[i].low \in Price
            BY <1>0 DEF CandleType
        <2> QED BY <2>1 DEF Price
    <1> DEFINE w == InBucket(B, c.ts, i)
    <1>12. w = {i}
        BY <1>1, <1>3
    <1> HIDE DEF w
    <1>13. /\ \E j \in w : c.open = s[j].open /\ \A l \in w : j <= l
           /\ \E j \in w : c.close = s[j].close /\ \A l \in w : l <= j
           /\ \E j \in w : c.high = s[j].high
           /\ \A l \in w : s[l].high.amt <= c.high.amt
           /\ \E j \in w : c.low = s[j].low
           /\ \A l \in w : s[l].low.amt >= c.low.amt
        BY <1>1, <1>11, <1>12
    <1> QED BY <1>1, <1>10, <1>13 DEF GroupsUpTo, c, w

\* Another candle of the bucket joins it.
Grown(b, c) == [b EXCEPT !.high = Higher(@, c.high), !.low = Lower(@, c.low),
                         !.close = c.close, !.vol = AddVolume(@, c.vol)]

LEMMA GroupGrows ==
    ASSUME NEW s \in Seq(CandleType), NEW B, NEW i \in 2..Len(s), NEW b \in CandleType,
           GroupsUpTo(b, s, B, i - 1), B[i] = b.ts
    PROVE  GroupsUpTo(Grown(b, s[i]), s, B, i)
    <1> DEFINE c == Grown(b, s[i])
               w == InBucket(B, b.ts, i - 1)
               v == WithVolume(s, B, b.ts, i - 1)
               places == WithVolume(s, B, b.ts, Len(s))
    <1>0. s[i] \in CandleType /\ i \in 1..Len(s) /\ i - 1 \in 0..Len(s)
        OBVIOUS
    <1>1. /\ c.ts = b.ts /\ c.open = b.open /\ c.close = s[i].close
          /\ c.high = Higher(b.high, s[i].high) /\ c.low = Lower(b.low, s[i].low)
          /\ c.vol = AddVolume(b.vol, s[i].vol) /\ c.raw = b.raw
        BY DEF Grown, CandleType
    <1>2. 1..i = (1..(i - 1)) \union {i}
        OBVIOUS
    <1>3. InBucket(B, b.ts, i) = w \union {i} /\ w \subseteq 1..(i - 1)
        BY <1>2 DEF InBucket
    <1>4. WithVolume(s, B, b.ts, i) = v \union (IF s[i].vol = None THEN {} ELSE {i})
        BY <1>3 DEF WithVolume
    <1>5. \A j \in places \cap DOMAIN s : s[j].vol # None
        BY VolumePlaces
    <1>6. i \in places <=> s[i].vol # None
        BY <1>0 DEF WithVolume, InBucket
    <1>7. v = {} => \A j \in 1..(i - 1) : j \notin places
        BY <1>0, VolumePlaces
    <1>8. b.vol = IF v = {} THEN None ELSE Total(s, places)[i - 1]
        BY DEF GroupsUpTo
    <1> HIDE DEF places, v, c
    <1>9. v = {} => Total(s, places)[i - 1] = 0
        BY <1>0, <1>5, <1>7, TotalStarts
    <1>10. /\ Total(s, places)[i - 1] \in Nat
           /\ Total(s, places)[i] = IF i \in places THEN Total(s, places)[i - 1] + s[i].vol
                                    ELSE Total(s, places)[i - 1]
        BY <1>0, <1>5, TotalIs
    <1>11. s[i].vol \in Nat \union {None} /\ None \notin Nat
        BY <1>0, NoneAssumption DEF CandleType
    <1>12. c.vol = IF v = {} /\ s[i].vol = None THEN None ELSE Total(s, places)[i]
        BY <1>1, <1>6, <1>8, <1>9, <1>10, <1>11 DEF AddVolume
    <1>13. WithVolume(s, B, c.ts, i) = {} <=> v = {} /\ s[i].vol = None
        BY <1>1, <1>4
    <1>14. c.vol = IF WithVolume(s, B, c.ts, i) = {} THEN None
                   ELSE Total(s, WithVolume(s, B, c.ts, Len(s)))[i]
        BY <1>1, <1>12, <1>13 DEF places
    <1>15. /\ \E j \in w : b.open = s[j].open /\ \A l \in w : j <= l
           /\ \E j \in w : b.high = s[j].high
           /\ \A l \in w : s[l].high.amt <= b.high.amt
           /\ \E j \in w : b.low = s[j].low
           /\ \A l \in w : s[l].low.amt >= b.low.amt
           /\ ~b.raw
        BY DEF GroupsUpTo
    <1> HIDE DEF w
    <1>16. \A j \in w : j \in Int /\ j < i /\ s[j].high.amt \in Int /\ s[j].low.amt \in Int
        <2>1. \A j \in w : j \in Int /\ j < i /\ s[j] \in CandleType
            BY <1>3
        <2> QED BY <2>1 DEF CandleType, Price
    <1>17. /\ b.high.amt \in Int /\ b.low.amt \in Int
           /\ s[i].high.amt \in Int /\ s[i].low.amt \in Int
        BY <1>0 DEF CandleType, Price
    <1> DEFINE x == InBucket(B, c.ts, i)
    <1>18. x = w \union {i}
        BY <1>1, <1>3
    <1> HIDE DEF x
    <1>19. \E j \in x : c.open = s[j].open /\ \A l \in x : j <= l
        BY <1>1, <1>15, <1>16, <1>18
    <1>20. \E j \in x : c.close = s[j].close /\ \A l \in x : l <= j
        BY <1>1, <1>16, <1>18
    <1>21. (\E j \in x : c.high = s[j].high) /\ \A l \in x : s[l].high.amt <= c.high.amt
        BY <1>1, <1>15, <1>16, <1>17, <1>18 DEF Higher
    <1>22. (\E j \in x : c.low = s[j].low) /\ \A l \in x : s[l].low.amt >= c.low.amt
        BY <1>1, <1>15, <1>16, <1>17, <1>18 DEF Lower
    <1> QED BY <1>1, <1>14, <1>15, <1>19, <1>20, <1>21, <1>22 DEF GroupsUpTo, c, x

\* The loop after i turns: the bucket under way is that of the i-th candle, and
\* those before it have been emitted, in order.
GroupedUpTo(acc, s, B, i) ==
    /\ acc.cur.ts = B[i]
    /\ GroupsUpTo(acc.cur, s, B, i)
    /\ \A k \in DOMAIN acc.out : acc.out[k].ts < B[i] /\ GroupsUpTo(acc.out[k], s, B, i)
    /\ \A k, l \in DOMAIN acc.out : k < l => acc.out[k].ts < acc.out[l].ts
    /\ \A j \in 1..i : B[j] = B[i] \/ \E k \in DOMAIN acc.out : acc.out[k].ts = B[j]

\* the buckets of candles in the order of time
IsBucketing(B, s, plan, meta) ==
    /\ B = [j \in 1..Len(s) |-> Bucket(plan, meta, s[j].ts)]
    /\ \A i, j \in 1..Len(s) : i <= j => B[i] <= B[j]

LEMMA BucketingInt ==
    ASSUME NEW plan \in PlanType, NEW meta \in MetaType, NEW s \in Seq(CandleType),
           NEW B, IsBucketing(B, s, plan, meta), NEW i \in 1..Len(s)
    PROVE  B[i] \in Int /\ B[i] = Bucket(plan, meta, s[i].ts)
    <1>1. s[i].ts \in Int
        <2>1. s[i] \in CandleType
            OBVIOUS
        <2> QED BY <2>1 DEF CandleType
    <1>2. B[i] = Bucket(plan, meta, s[i].ts)
        BY DEF IsBucketing
    <1> QED BY <1>1, <1>2, BucketInt

LEMMA GroupedTurn ==
    ASSUME NEW plan \in PlanType, NEW meta \in MetaType, NEW s \in Seq(CandleType),
           NEW B, IsBucketing(B, s, plan, meta), NEW i \in 2..Len(s),
           NEW acc \in AccType, ~acc.mixed, GroupedUpTo(acc, s, B, i - 1),
           ~AddCandle(plan, meta, acc, s[i]).mixed
    PROVE  GroupedUpTo(AddCandle(plan, meta, acc, s[i]), s, B, i)
    <1> DEFINE next == AddCandle(plan, meta, acc, s[i])
    <1>1. i \in 1..Len(s) /\ i - 1 \in 1..Len(s) /\ s[i] \in CandleType
        OBVIOUS
    <1>2. /\ B[i] \in Int /\ B[i - 1] \in Int /\ B[i - 1] <= B[i]
          /\ B[i] = Bucket(plan, meta, s[i].ts)
        <2>1. B[i - 1] <= B[i]
            BY <1>1 DEF IsBucketing
        <2> QED BY <1>1, <2>1, BucketingInt
    <1>3. /\ acc.cur \in CandleType /\ acc.out \in Seq(CandleType) /\ acc.cur.ts = B[i - 1]
          /\ GroupsUpTo(acc.cur, s, B, i - 1)
          /\ \A k \in DOMAIN acc.out : /\ acc.out[k].ts < B[i - 1]
                                       /\ GroupsUpTo(acc.out[k], s, B, i - 1)
          /\ \A k, l \in DOMAIN acc.out : k < l => acc.out[k].ts < acc.out[l].ts
          /\ \A j \in 1..(i - 1) : \/ B[j] = B[i - 1]
                                   \/ \E k \in DOMAIN acc.out : acc.out[k].ts = B[j]
        BY DEF GroupedUpTo, AccType
    <1>4. \A k \in DOMAIN acc.out : acc.out[k] \in CandleType /\ acc.out[k].ts \in Int
        <2>1. \A k \in DOMAIN acc.out : acc.out[k] \in CandleType
            BY <1>3
        <2> QED BY <2>1 DEF CandleType
    <1>5. \A k \in DOMAIN acc.out : acc.out[k].ts < B[i] /\ GroupsUpTo(acc.out[k], s, B, i)
        <2> TAKE k \in DOMAIN acc.out
        <2>1. acc.out[k].ts < B[i] /\ acc.out[k].ts # B[i]
            BY <1>2, <1>3, <1>4
        <2> QED BY <1>1, <1>3, <1>4, <2>1, GroupStays
    <1>6. \A j \in 1..i : j = i \/ j \in 1..(i - 1)
        OBVIOUS
    <1>7. CASE B[i] # acc.cur.ts
        <2> DEFINE out == Append(acc.out, acc.cur)
                   started == StartBucket(B[i], s[i])
        <2>1. Finalize(acc).mixed \/ Finalize(acc) = [acc EXCEPT !.out = out]
            BY DEF Finalize, AccType
        <2>2. next = [Finalize(acc) EXCEPT !.cur = started]
            BY <1>2, <1>7 DEF AddCandle
        <2>3. ~Finalize(acc).mixed
            <3>1. Finalize(acc) \in AccType
                BY FinalizeType
            <3> QED BY <2>2, <3>1 DEF AccType
        <2>4. next.out = out /\ next.cur = started
            <3>1. Finalize(acc) \in AccType /\ Finalize(acc).out = out
                BY <2>1, <2>3, FinalizeType DEF AccType
            <3> QED BY <2>2, <3>1 DEF AccType
        <2>5. started.ts = B[i]
            BY <1>1 DEF StartBucket, CandleType
        <2>6. \A j \in 1..(i - 1) : B[j] # B[i]
            <3> TAKE j \in 1..(i - 1)
            <3>1. j \in 1..Len(s) /\ j <= i - 1
                OBVIOUS
            <3>2. B[j] <= B[i - 1] /\ B[j] \in Int
                BY <1>1, <3>1, BucketingInt DEF IsBucketing
            <3> QED BY <1>2, <1>3, <1>7, <3>2
        <2>7. GroupsUpTo(started, s, B, i)
            BY <1>1, <1>2, <2>6, GroupStarts
        <2>8. GroupsUpTo(acc.cur, s, B, i) /\ acc.cur.ts < B[i]
            BY <1>1, <1>2, <1>3, <1>7, GroupStays
        <2>9. /\ DOMAIN out = (DOMAIN acc.out) \union {Len(acc.out) + 1}
              /\ out[Len(acc.out) + 1] = acc.cur
              /\ \A k \in DOMAIN acc.out : out[k] = acc.out[k] /\ k \in Int /\ k < Len(acc.out) + 1
              /\ Len(acc.out) \in Nat
            BY <1>3
        <2> HIDE DEF out, started, next
        <2>10. \A k \in DOMAIN out : out[k].ts < B[i] /\ GroupsUpTo(out[k], s, B, i)
            BY <1>5, <2>8, <2>9
        <2>11. \A k, l \in DOMAIN out : k < l => out[k].ts < out[l].ts
            BY <1>3, <2>9
        <2>12. \A j \in 1..i : B[j] = B[i] \/ \E k \in DOMAIN out : out[k].ts = B[j]
            BY <1>3, <1>6, <2>9
        <2> QED BY <2>4, <2>5, <2>7, <2>10, <2>11, <2>12 DEF GroupedUpTo, next
    <1>8. CASE B[i] = acc.cur.ts
        <2>1. next.out = acc.out /\ next.cur = Grown(acc.cur, s[i])
            BY <1>2, <1>8 DEF AddCandle, Grown, AccType
        <2>2. GroupsUpTo(Grown(acc.cur, s[i]), s, B, i)
            BY <1>3, <1>8, GroupGrows
        <2>3. Grown(acc.cur, s[i]).ts = B[i]
            BY <1>3, <1>8 DEF Grown, CandleType
        <2> HIDE DEF next
        <2>4. \A j \in 1..i : B[j] = B[i] \/ \E k \in DOMAIN acc.out : acc.out[k].ts = B[j]
            BY <1>3, <1>6, <1>8
        <2> QED BY <1>3, <1>5, <2>1, <2>2, <2>3, <2>4 DEF GroupedUpTo, next
    <1> QED BY <1>7, <1>8

\* What the loop over candles in the order of time has when it ends.
LEMMA GroupedLoop ==
    ASSUME NEW plan \in PlanType, NEW meta \in MetaType,
           NEW s \in Seq(CandleType), s # <<>>,
           NEW B, IsBucketing(B, s, plan, meta),
           NEW f, f \in [1..Len(s) -> AccType], Resampling(f, plan, meta, s)
    PROVE  f[Len(s)].mixed \/ GroupedUpTo(f[Len(s)], s, B, Len(s))
    <1> DEFINE n == Len(s)
               T == {i \in 0..n : i # 0 => f[i].mixed \/ GroupedUpTo(f[i], s, B, i)}
    <1>1. n \in Nat \ {0} /\ 1 \in 1..n /\ n \in 0..n
        OBVIOUS
    <1>2. \A i \in 1..n : /\ f[i] \in AccType /\ s[i] \in CandleType
                          /\ f[i] = IF i = 1
                                    THEN [out |-> <<>>, mixed |-> FALSE,
                                          cur |-> StartBucket(Bucket(plan, meta, s[1].ts), s[1])]
                                    ELSE AddCandle(plan, meta, f[i - 1], s[i])
        <2> TAKE i \in 1..n
        <2>1. f[i] \in AccType /\ s[i] \in CandleType
            OBVIOUS
        <2>2. f[i] = IF i = 1 THEN [out |-> <<>>, mixed |-> FALSE,
                                    cur |-> StartBucket(Bucket(plan, meta, s[1].ts), s[1])]
                     ELSE AddCandle(plan, meta, f[i - 1], s[i])
            BY Zenon DEF Resampling
        <2> QED BY <2>1, <2>2
    <1> HIDE DEF n
    <1>3. GroupedUpTo(f[1], s, B, 1)
        <2>1. B[1] \in Int /\ B[1] = Bucket(plan, meta, s[1].ts)
            BY <1>1, BucketingInt DEF n
        <2>2. f[1] = [out |-> <<>>, mixed |-> FALSE, cur |-> StartBucket(B[1], s[1])]
            BY <1>1, <1>2, <2>1
        <2>3. \A j \in 1..(1 - 1) : B[j] # B[1]
            OBVIOUS
        <2>4. GroupsUpTo(StartBucket(B[1], s[1]), s, B, 1)
            BY <1>1, <2>1, <2>3, GroupStarts DEF n
        <2>5. StartBucket(B[1], s[1]).ts = B[1]
            BY <1>1, <1>2 DEF StartBucket, CandleType
        <2>6. DOMAIN <<>> = {} /\ 1..1 = {1}
            OBVIOUS
        <2> QED BY <2>2, <2>4, <2>5, <2>6 DEF GroupedUpTo
    <1>4. ASSUME NEW i \in 1..n, i - 1 \in T PROVE i \in T
        <2>1. i \in 0..n
            OBVIOUS
        <2>2. CASE i = 1
            BY <1>3, <2>1, <2>2
        <2>3. CASE i # 1
            <3>1. i \in 2..n /\ i - 1 \in 1..n /\ i - 1 # 0
                BY <1>1, <2>3
            <3>2. f[i] = AddCandle(plan, meta, f[i - 1], s[i]) /\ f[i - 1] \in AccType
                BY <1>2, <2>3, <3>1
            <3>3. CASE f[i - 1].mixed
                <4>1. f[i] = f[i - 1]
                    BY <3>2, <3>3 DEF AddCandle
                <4> QED BY <2>1, <3>3, <4>1
            <3>4. CASE ~f[i - 1].mixed
                <4>1. GroupedUpTo(f[i - 1], s, B, i - 1)
                    BY <1>4, <3>1, <3>4
                <4>2. f[i].mixed \/ GroupedUpTo(f[i], s, B, i)
                    BY <3>1, <3>2, <3>4, <4>1, GroupedTurn DEF n
                <4> QED BY <2>1, <4>2
            <3> QED BY <3>3, <3>4
        <2> QED BY <2>2, <2>3
    <1>5. 0 \in T
        BY <1>1
    <1> HIDE DEF T
    <1>6. 0..n \subseteq T
        BY <1>1, <1>4, <1>5, IntervalInduction
    <1> QED BY <1>1, <1>6 DEF T, n

\* Buckets come in the order of the candles.
Ascends(plan, meta, candles) ==
    \A i, j \in DOMAIN candles :
        candles[i].ts <= candles[j].ts =>
            Bucket(plan, meta, candles[i].ts) <= Bucket(plan, meta, candles[j].ts)

\* IsResampleOf, with the buckets of the code.
IsGrouping(out, plan, meta, candles) ==
    LET sorted == ByTime(candles)
        bucketOf(t) == Bucket(plan, meta, t)
        within(b) == {i \in DOMAIN sorted : bucketOf(sorted[i].ts) = b}
        volumes(b) == {i \in within(b) : sorted[i].vol # None}
    IN  /\ Times(out) = {bucketOf(t) : t \in Times(candles)}
        /\ \A i, j \in DOMAIN out : i < j => out[i].ts < out[j].ts
        /\ \A k \in DOMAIN out :
              LET w == within(out[k].ts)
              IN  /\ \E i \in w : out[k].open = sorted[i].open /\ \A j \in w : i <= j
                  /\ \E i \in w : out[k].close = sorted[i].close /\ \A j \in w : j <= i
                  /\ \E i \in w : out[k].high = sorted[i].high
                  /\ \A j \in w : sorted[j].high.amt <= out[k].high.amt
                  /\ \E i \in w : out[k].low = sorted[i].low
                  /\ \A j \in w : sorted[j].low.amt >= out[k].low.amt
                  /\ out[k].vol = IF volumes(out[k].ts) = {} THEN None
                                 ELSE TotalVolume(sorted, volumes(out[k].ts))
                  /\ ~out[k].raw

\* What resampling leaves has one candle per bucket, in order, made of all its
\* candles, if buckets come in the order of the candles.
LEMMA ResampledGroups ==
    ASSUME NEW plan \in PlanType, NEW meta \in MetaType, NEW candles \in Seq(CandleType),
           Ascends(plan, meta, candles), ~Resampled(plan, meta, candles).mixed
    PROVE  IsGrouping(Resampled(plan, meta, candles).out, plan, meta, candles)
    <1> DEFINE out == Resampled(plan, meta, candles).out
               s == ByTime(candles)
               n == Len(s)
               B == [j \in 1..n |-> Bucket(plan, meta, s[j].ts)]
    <1>1. s \in Seq(CandleType) /\ DOMAIN s = DOMAIN candles
        BY ByTimeIs
    <1>2. /\ \A i, j \in DOMAIN candles : i < j => s[i].ts <= s[j].ts
          /\ \A i \in DOMAIN candles : \E k \in DOMAIN candles : s[i] = candles[k]
          /\ \A k \in DOMAIN candles : \E i \in DOMAIN candles : s[i] = candles[k]
        BY ByTimeIs
    <1> HIDE DEF s
    <1>3. DOMAIN candles = 1..n /\ DOMAIN s = 1..n /\ n \in Nat
        BY <1>1
    <1> HIDE DEF n
    <1>4. \A i \in 1..n : s[i] \in CandleType /\ s[i].ts \in Int
        <2>1. \A i \in 1..n : s[i] \in CandleType
            BY <1>1, <1>3
        <2> QED BY <2>1 DEF CandleType
    <1>5. IsBucketing(B, s, plan, meta)
        <2>1. ASSUME NEW i \in 1..n, NEW j \in 1..n, i <= j PROVE B[i] <= B[j]
            <3>1. s[i].ts <= s[j].ts
                <4>1. i < j \/ i = j
                    BY <2>1
                <4>2. s[i].ts \in Int
                    BY <1>4
                <4>3. CASE i < j
                    BY <1>2, <1>3, <4>3
                <4>4. CASE i = j
                    BY <4>2, <4>4
                <4> QED BY <4>1, <4>3, <4>4
            <3>2. PICK k \in DOMAIN candles : s[i] = candles[k]
                BY <1>2, <1>3
            <3>3. PICK l \in DOMAIN candles : s[j] = candles[l]
                BY <1>2, <1>3
            <3>4. Bucket(plan, meta, candles[k].ts) <= Bucket(plan, meta, candles[l].ts)
                BY <3>1, <3>2, <3>3 DEF Ascends
            <3> QED BY <3>2, <3>3, <3>4
        <2> QED BY <2>1 DEF IsBucketing, n
    <1>6. \A i \in 1..n : B[i] \in Int /\ B[i] = Bucket(plan, meta, s[i].ts)
        BY <1>1, <1>5, BucketingInt DEF n
    <1> HIDE DEF B
    <1>7. /\ \A k \in DOMAIN out : GroupsUpTo(out[k], s, B, n)
          /\ \A k, l \in DOMAIN out : k < l => out[k].ts < out[l].ts
          /\ \A j \in 1..n : \E k \in DOMAIN out : out[k].ts = B[j]
        <2>1. CASE candles = <<>>
            <3>1. out = <<>> /\ n = 0
                BY <1>3, <2>1 DEF Resampled
            <3> QED BY <3>1
        <2>2. CASE candles # <<>>
            <3> DEFINE after == CHOOSE f : Resampling(f, plan, meta, s)
                       end == after[n]
                       last == IF end.mixed THEN end ELSE Finalize(end)
            <3>1. s # <<>> /\ n \in 1..n
                BY <1>1, <1>3, <2>2
            <3>2. Resampled(plan, meta, candles) = [out |-> last.out, mixed |-> last.mixed]
                BY <2>2 DEF Resampled, Resampling, s, n
            <3>3. \E f : f \in [1..n -> AccType] /\ Resampling(f, plan, meta, s)
                BY <1>1, <3>1, ResamplingIs DEF n
            <3>4. Resampling(after, plan, meta, s)
                BY <3>3
            <3> HIDE DEF after
            <3>5. after \in [1..n -> AccType]
                BY <1>1, <3>1, <3>4, ResamplingType DEF n
            <3>6. end \in AccType /\ (end.mixed \/ GroupedUpTo(end, s, B, n))
                BY <1>1, <1>5, <3>1, <3>4, <3>5, GroupedLoop DEF n
            <3> HIDE DEF end
            <3>7. ~end.mixed /\ ~Finalize(end).mixed /\ out = Finalize(end).out
                BY <3>2
            <3>8. Finalize(end).out = Append(end.out, end.cur)
                BY <3>6, <3>7 DEF Finalize, AccType
            <3>9. /\ end.cur.ts = B[n] /\ GroupsUpTo(end.cur, s, B, n)
                  /\ \A k \in DOMAIN end.out : end.out[k].ts < B[n] /\ GroupsUpTo(end.out[k], s, B, n)
                  /\ \A k, l \in DOMAIN end.out : k < l => end.out[k].ts < end.out[l].ts
                  /\ \A j \in 1..n : B[j] = B[n] \/ \E k \in DOMAIN end.out : end.out[k].ts = B[j]
                BY <3>6, <3>7 DEF GroupedUpTo
            <3> DEFINE m == Len(end.out)
            <3>10. end.out \in Seq(CandleType)
                BY <3>6 DEF AccType
            <3>11. /\ DOMAIN out = (DOMAIN end.out) \union {m + 1} /\ out[m + 1] = end.cur
                   /\ \A k \in DOMAIN end.out : out[k] = end.out[k] /\ k \in Int /\ k < m + 1
                   /\ m \in Nat
                BY <3>7, <3>8, <3>10
            <3> HIDE DEF m, out
            <3>12. \A k \in DOMAIN out : GroupsUpTo(out[k], s, B, n)
                BY <3>9, <3>11
            <3>13. \A k, l \in DOMAIN out : k < l => out[k].ts < out[l].ts
                BY <3>9, <3>11
            <3>14. \A j \in 1..n : \E k \in DOMAIN out : out[k].ts = B[j]
                BY <3>9, <3>11
            <3> QED BY <3>12, <3>13, <3>14
        <2> QED BY <2>1, <2>2
    <1> HIDE DEF out
    <1>8. Times(out) = {Bucket(plan, meta, t) : t \in Times(candles)}
        <2>1. ASSUME NEW k \in DOMAIN out
              PROVE  \E j \in DOMAIN candles : out[k].ts = Bucket(plan, meta, candles[j].ts)
            <3>1. PICK j \in 1..n : B[j] = out[k].ts
                BY <1>7 DEF GroupsUpTo, InBucket
            <3>2. PICK l \in DOMAIN candles : s[j] = candles[l]
                BY <1>2, <1>3
            <3> QED BY <1>6, <3>1, <3>2
        <2>2. ASSUME NEW l \in DOMAIN candles
              PROVE  \E k \in DOMAIN out : out[k].ts = Bucket(plan, meta, candles[l].ts)
            <3>1. PICK j \in 1..n : s[j] = candles[l]
                BY <1>2, <1>3
            <3>2. PICK k \in DOMAIN out : out[k].ts = B[j]
                BY <1>7
            <3> QED BY <1>6, <3>1, <3>2
        <2> QED BY <2>1, <2>2 DEF Times
    <1> DEFINE within(b) == {i \in DOMAIN s : Bucket(plan, meta, s[i].ts) = b}
               volumes(b) == {i \in within(b) : s[i].vol # None}
    <1>9. ASSUME NEW k \in DOMAIN out
          PROVE LET w == within(out[k].ts)
                IN  /\ \E i \in w : out[k].open = s[i].open /\ \A j \in w : i <= j
                    /\ \E i \in w : out[k].close = s[i].close /\ \A j \in w : j <= i
                    /\ \E i \in w : out[k].high = s[i].high
                    /\ \A j \in w : s[j].high.amt <= out[k].high.amt
                    /\ \E i \in w : out[k].low = s[i].low
                    /\ \A j \in w : s[j].low.amt >= out[k].low.amt
                    /\ out[k].vol = IF volumes(out[k].ts) = {} THEN None
                                    ELSE TotalVolume(s, volumes(out[k].ts))
                    /\ ~out[k].raw
        <2> DEFINE w == within(out[k].ts)
                   places == volumes(out[k].ts)
        <2>1. w = InBucket(B, out[k].ts, n)
            BY <1>3, <1>6 DEF InBucket
        <2>2. places = WithVolume(s, B, out[k].ts, n)
            BY <2>1 DEF WithVolume
        <2>3. TotalVolume(s, places) = Total(s, places)[n]
            <3>1. \A i \in places \cap DOMAIN s : s[i].vol # None
                OBVIOUS
            <3> HIDE DEF places
            <3> QED BY <1>1, <3>1, TotalIs DEF n
        <2> HIDE DEF w, places
        <2>4. GroupsUpTo(out[k], s, B, n)
            BY <1>7
        <2>5. out[k].vol = IF places = {} THEN None ELSE TotalVolume(s, places)
            BY <2>2, <2>3, <2>4 DEF GroupsUpTo, n
        <2>6. /\ \E i \in w : out[k].open = s[i].open /\ \A j \in w : i <= j
              /\ \E i \in w : out[k].close = s[i].close /\ \A j \in w : j <= i
              /\ \E i \in w : out[k].high = s[i].high
              /\ \A j \in w : s[j].high.amt <= out[k].high.amt
              /\ \E i \in w : out[k].low = s[i].low
              /\ \A j \in w : s[j].low.amt >= out[k].low.amt
              /\ ~out[k].raw
            BY <2>1, <2>4 DEF GroupsUpTo
        <2> QED BY <2>5, <2>6 DEF w, places
    <1> QED BY <1>7, <1>8, <1>9 DEF IsGrouping, s, out
-----------------------------------------------------------------------------
(* Buckets come in the order of time *)

\* Division by a positive number rounds down.
LEMMA DivIs ==
    ASSUME NEW a \in Int, NEW d \in Nat \ {0}
    PROVE  /\ a \div d \in Int /\ (a % d) \in 0..(d - 1)
           /\ a = ((a \div d) * d) + (a % d)
           /\ Floor(a, d) = (a \div d) * d
    <1>1. a \div d \in Int /\ (a % d) \in 0..(d - 1)
        OBVIOUS
    <1>2. a = ((a \div d) * d) + (a % d)
        OBVIOUS
    <1>3. (a \div d) * d \in Int
        OBVIOUS
    <1> QED BY <1>1, <1>2, <1>3 DEF Floor

LEMMA Multiples ==
    ASSUME NEW m \in Int, NEW n \in Int, NEW d \in Nat \ {0}
    PROVE  /\ m * d \in Int
           /\ m < n => (m * d) + d <= n * d
           /\ m <= n => m * d <= n * d
    <1>1. m * d \in Int /\ n * d \in Int /\ d \in Int /\ d >= 1
        OBVIOUS
    <1>2. n * d = (m * d) + ((n - m) * d)
        OBVIOUS
    <1>3. m < n => (n - m) * d >= d
        OBVIOUS
    <1>4. m <= n => (n - m) * d >= 0
        OBVIOUS
    <1>5. (n - m) * d \in Int
        OBVIOUS
    <1> QED BY <1>1, <1>2, <1>3, <1>4, <1>5

\* The multiple of d at or before a is the last one.
LEMMA FloorIs ==
    ASSUME NEW a \in Int, NEW d \in Nat \ {0}
    PROVE  /\ Floor(a, d) = (a \div d) * d /\ Floor(a, d) \in Int
           /\ Floor(a, d) <= a /\ a < Floor(a, d) + d
           /\ \A m \in Int : m * d <= a => m <= a \div d
           /\ \A m \in Int : a \div d < m => a < m * d
    <1>1. /\ a \div d \in Int /\ Floor(a, d) = (a \div d) * d /\ Floor(a, d) \in Int
          /\ Floor(a, d) <= a /\ a < Floor(a, d) + d
        <2>1. (a \div d) \in Int /\ (a % d) \in 0..(d - 1) /\ Floor(a, d) = (a \div d) * d
              /\ a = ((a \div d) * d) + (a % d)
            BY DivIs
        <2>2. (a \div d) * d \in Int
            BY <2>1, Multiples
        <2> QED BY <2>1, <2>2
    <1>2. ASSUME NEW m \in Int, a \div d < m PROVE a < m * d
        <2>1. ((a \div d) * d) + d <= m * d /\ m * d \in Int
            BY <1>1, <1>2, Multiples
        <2> QED BY <1>1, <2>1
    <1>3. ASSUME NEW m \in Int, m * d <= a PROVE m <= a \div d
        <2>1. ~ (a < m * d)
            BY <1>3, Multiples
        <2>2. ~ (a \div d < m)
            BY <1>2, <2>1
        <2> QED BY <1>1, <2>2
    <1> QED BY <1>1, <1>2, <1>3

LEMMA FloorAscends ==
    ASSUME NEW a \in Int, NEW b \in Int, a <= b, NEW d \in Nat \ {0}
    PROVE  a \div d <= b \div d /\ Floor(a, d) <= Floor(b, d)
    <1>1. /\ a \div d \in Int /\ b \div d \in Int
          /\ Floor(a, d) = (a \div d) * d /\ Floor(b, d) = (b \div d) * d
          /\ Floor(a, d) \in Int /\ Floor(a, d) <= a
        BY DivIs, FloorIs
    <1>2. (a \div d) * d <= b
        BY <1>1
    <1>3. a \div d <= b \div d
        BY <1>1, <1>2, FloorIs
    <1> QED BY <1>1, <1>3, Multiples

\* Of two instants with a local time the first, before the clocks change; none
\* where the clocks skip it.
LEMMA MidnightIs ==
    ASSUME NEW zone \in ZoneType, NEW t \in Int, NEW local \in Int
    PROVE  MidnightOf(zone, t, local) =
               IF local - zone.before < zone.at THEN local - zone.before
               ELSE IF local - zone.after >= zone.at THEN local - zone.after
               ELSE Floor(t, Day)
    <1> DEFINE p == local - zone.before
               q == local - zone.after
               found == Instants(zone, local)
    <1>1. /\ zone.at \in Int /\ zone.before \in Int /\ zone.after \in Int
          /\ p \in Int /\ q \in Int /\ p + zone.before = local /\ q + zone.after = local
        BY DEF ZoneType
    <1>2. found = {x \in {p, q} : (x + (IF x < zone.at THEN zone.before ELSE zone.after)) = local}
        BY DEF Instants, Local, Offset
    <1>3. MidnightOf(zone, t, local) =
              IF found = {} THEN Floor(t, Day) ELSE CHOOSE i \in found : \A j \in found : i <= j
        BY DEF MidnightOf
    <1>4. ASSUME NEW i \in found, i \in Int, \A j \in found : j \in Int /\ i <= j
          PROVE  MidnightOf(zone, t, local) = i
        <2> HIDE DEF found
        <2>1. \A k \in found : (\A j \in found : k <= j) => k = i
            BY <1>4
        <2> QED BY <1>3, <1>4, <2>1
    <1> HIDE DEF p, q, found
    <1>5. CASE p < zone.at
        <2>1. p \in found /\ \A j \in found : j \in Int /\ p <= j
            BY <1>1, <1>2, <1>5
        <2> QED BY <1>1, <1>4, <1>5, <2>1 DEF p
    <1>6. CASE ~ (p < zone.at) /\ q >= zone.at
        <2>1. q \in found /\ \A j \in found : j \in Int /\ q <= j
            BY <1>1, <1>2, <1>6
        <2> QED BY <1>1, <1>4, <1>6, <2>1 DEF p, q
    <1>7. CASE ~ (p < zone.at) /\ ~ (q >= zone.at)
        <2>1. found = {}
            BY <1>1, <1>2, <1>7
        <2> QED BY <1>3, <1>7, <2>1 DEF p, q
    <1> QED BY <1>5, <1>6, <1>7

\* When the clocks change no local date comes back and no midnight is skipped.
DatesGoOn(zone) ==
    /\ (zone.at - 1 + zone.before) \div Day <= (zone.at + zone.after) \div Day
    /\ \A date \in Int :
           ~ (zone.at + zone.before <= date * Day /\ date * Day < zone.at + zone.after)

\* Midnights of local dates come in the order of the dates.
LEMMA MidnightsAscend ==
    ASSUME NEW zone \in ZoneType, DatesGoOn(zone),
           NEW s \in Int, NEW t \in Int, s <= t, NEW m \in Int, NEW n \in Int, m <= n,
           m * Day <= Local(zone, s), n * Day <= Local(zone, t),
           m < n => Local(zone, s) < n * Day
    PROVE  MidnightOf(zone, s, m * Day) <= MidnightOf(zone, t, n * Day)
    <1> DEFINE d == m * Day
               e == n * Day
    <1>1. /\ zone.at \in Int /\ zone.before \in Int /\ zone.after \in Int
          /\ Day \in Nat \ {0}
        BY DayAssumption DEF ZoneType
    <1>2. d \in Int /\ e \in Int /\ (m < n => d + Day <= e) /\ (m = n => d = e)
        BY <1>1, Multiples
    <1>3. /\ MidnightOf(zone, s, d) = IF d - zone.before < zone.at THEN d - zone.before
                                      ELSE IF d - zone.after >= zone.at THEN d - zone.after
                                      ELSE Floor(s, Day)
          /\ MidnightOf(zone, t, e) = IF e - zone.before < zone.at THEN e - zone.before
                                      ELSE IF e - zone.after >= zone.at THEN e - zone.after
                                      ELSE Floor(t, Day)
        <2> HIDE DEF d, e
        <2> QED BY <1>2, MidnightIs
    <1>4. /\ Floor(s, Day) \in Int /\ Floor(t, Day) \in Int
          /\ Floor(s, Day) <= Floor(t, Day)
        BY <1>1, FloorIs, FloorAscends
    <1>5. ~ (zone.at + zone.before <= e /\ e < zone.at + zone.after)
        BY DEF DatesGoOn
    <1>9. ~ (zone.at + zone.before <= d /\ d < zone.at + zone.after)
        BY DEF DatesGoOn
    <1>6. /\ s + (IF s < zone.at THEN zone.before ELSE zone.after) >= d
          /\ t + (IF t < zone.at THEN zone.before ELSE zone.after) >= e
          /\ m < n => s + (IF s < zone.at THEN zone.before ELSE zone.after) < e
        BY <1>1, <1>2 DEF Local, Offset
    <1> DEFINE first == MidnightOf(zone, s, d)
               second == MidnightOf(zone, t, e)
    <1> HIDE DEF d, e, first, second
    <1>7. ASSUME m = n PROVE first <= second
        BY <1>1, <1>2, <1>3, <1>4, <1>7 DEF first, second
    <1>8. ASSUME m < n PROVE first <= second
        <2>1. CASE d - zone.before < zone.at
            <3>1. d + Day <= e /\ first = d - zone.before
                BY <1>2, <1>3, <1>8, <2>1 DEF first
            <3>2. CASE e - zone.before < zone.at
                BY <1>1, <1>2, <1>3, <3>1, <3>2 DEF second
            <3>3. CASE ~ (e - zone.before < zone.at) /\ e - zone.after >= zone.at
                BY <1>1, <1>2, <1>3, <2>1, <3>1, <3>3 DEF second
            <3>4. CASE ~ (e - zone.before < zone.at) /\ ~ (e - zone.after >= zone.at)
                BY <1>1, <1>2, <1>5, <3>4
            <3> QED BY <3>2, <3>3, <3>4
        <2>2. CASE d - zone.before >= zone.at /\ d - zone.after >= zone.at
            <3>1. first = d - zone.after /\ d + Day <= e
                BY <1>1, <1>2, <1>3, <1>8, <2>2 DEF first
            <3>2. second = e - zone.after
                BY <1>1, <1>2, <1>3, <2>2, <3>1 DEF second
            <3> QED BY <1>1, <1>2, <3>1, <3>2
        <2>3. CASE d - zone.before >= zone.at /\ d - zone.after < zone.at
            BY <1>1, <1>2, <1>9, <2>3
        <2> QED BY <1>1, <1>2, <2>1, <2>2, <2>3
    <1> QED BY <1>7, <1>8 DEF d, e, first, second

\* The date goes on with time.
LEMMA DatesAscend ==
    ASSUME NEW zone \in ZoneType, DatesGoOn(zone), NEW s \in Int, NEW t \in Int, s <= t
    PROVE  Local(zone, s) \div Day <= Local(zone, t) \div Day
    <1>1. /\ zone.at \in Int /\ zone.before \in Int /\ zone.after \in Int
          /\ Day \in Nat \ {0}
        BY DayAssumption DEF ZoneType
    <1>2. \A x \in Int : Local(zone, x) = x + (IF x < zone.at THEN zone.before ELSE zone.after)
        BY DEF Local, Offset
    <1>3. CASE s < zone.at /\ t >= zone.at
        <2>1. Local(zone, s) <= zone.at - 1 + zone.before /\ zone.at + zone.after <= Local(zone, t)
            BY <1>1, <1>2, <1>3
        <2>2. Local(zone, s) \in Int /\ Local(zone, t) \in Int
            BY <1>1, <1>2
        <2>3. /\ Local(zone, s) \div Day <= (zone.at - 1 + zone.before) \div Day
              /\ (zone.at + zone.after) \div Day <= Local(zone, t) \div Day
            BY <1>1, <2>1, <2>2, FloorAscends
        <2>4. /\ Local(zone, s) \div Day \in Int /\ (zone.at - 1 + zone.before) \div Day \in Int
              /\ (zone.at + zone.after) \div Day \in Int /\ Local(zone, t) \div Day \in Int
            <3>1. zone.at - 1 + zone.before \in Int /\ zone.at + zone.after \in Int
                BY <1>1
            <3> QED BY <1>1, <2>2, <3>1, DivIs
        <2>5. (zone.at - 1 + zone.before) \div Day <= (zone.at + zone.after) \div Day
            BY Zenon DEF DatesGoOn
        <2> QED BY <2>3, <2>4, <2>5
    <1>4. CASE ~ (s < zone.at /\ t >= zone.at)
        <2>1. Local(zone, s) <= Local(zone, t) /\ Local(zone, s) \in Int /\ Local(zone, t) \in Int
            BY <1>1, <1>2, <1>4
        <2> QED BY <1>1, <2>1, FloorAscends
    <1> QED BY <1>3, <1>4

\* A week starts on one of its dates and they follow one another.
LEMMA WeekStartIs ==
    ASSUME NEW a \in Int, NEW b \in Int, a \div Day <= b \div Day
    PROVE  LET m == Floor((a \div Day) + 3, 7) - 3
               n == Floor((b \div Day) + 3, 7) - 3
           IN  /\ m \in Int /\ n \in Int /\ m <= n
               /\ WeekStart(a) = m * Day /\ WeekStart(b) = n * Day
               /\ m * Day <= a /\ n * Day <= b /\ (m < n => a < n * Day)
    <1> DEFINE p == a \div Day
               q == b \div Day
               m == Floor(p + 3, 7) - 3
               n == Floor(q + 3, 7) - 3
    <1>1. p \in Int /\ q \in Int
        BY DayAssumption, DivIs
    <1>2. /\ WeekStart(a) = m * Day /\ WeekStart(b) = n * Day
        BY DEF WeekStart
    <1>3. /\ p * Day <= a /\ q * Day <= b
          /\ \A k \in Int : p < k => a < k * Day
        BY DayAssumption, FloorIs
    <1> HIDE DEF p, q
    <1>4. /\ Floor(p + 3, 7) \in Int /\ Floor(q + 3, 7) \in Int
          /\ Floor(p + 3, 7) <= Floor(q + 3, 7)
          /\ Floor(p + 3, 7) <= p + 3 /\ Floor(q + 3, 7) <= q + 3
        <2>1. p + 3 \in Int /\ q + 3 \in Int /\ p + 3 <= q + 3 /\ 7 \in Nat \ {0}
            BY <1>1 DEF p, q
        <2> QED BY <2>1, FloorIs, FloorAscends
    <1>5. Floor(p + 3, 7) < Floor(q + 3, 7) => p + 3 < Floor(q + 3, 7)
        BY <1>1 DEF Floor
    <1>6. m \in Int /\ n \in Int /\ m <= n /\ m <= p /\ n <= q
        BY <1>1, <1>4
    <1>7. m < n => p < n
        BY <1>1, <1>4, <1>5
    <1> HIDE DEF m, n
    <1>8. m * Day <= a /\ n * Day <= b
        <2>1. m * Day <= p * Day /\ n * Day <= q * Day
            BY <1>1, <1>6, DayAssumption, Multiples
        <2>2. m * Day \in Int /\ n * Day \in Int /\ p * Day \in Int /\ q * Day \in Int
            BY <1>1, <1>6, DayAssumption, Multiples
        <2> QED BY <1>3, <2>1, <2>2
    <1> QED BY <1>2, <1>3, <1>6, <1>7, <1>8 DEF m, n, p, q

-----------------------------------------------------------------------------
(* Buckets of minutes *)

\* the local time at which the bucket of a local time begins
LocalBucket(step, local) == Floor(local, Day) + Floor(local % Day, step)

LEMMA LocalBucketAscends ==
    ASSUME NEW step \in Nat \ {0}, NEW a \in Int, NEW b \in Int, a <= b
    PROVE  /\ LocalBucket(step, a) \in Int /\ LocalBucket(step, b) \in Int
           /\ LocalBucket(step, a) <= a /\ LocalBucket(step, b) <= b
           /\ LocalBucket(step, a) <= LocalBucket(step, b)
    <1> DEFINE A == Floor(a, Day)
               B == Floor(b, Day)
               x == a % Day
               y == b % Day
    <1>1. /\ A \in Int /\ B \in Int /\ x \in Nat /\ y \in Nat
          /\ a = A + x /\ b = B + y /\ A <= B
          /\ A # B => a < B
        <2>1. /\ A = (a \div Day) * Day /\ B = (b \div Day) * Day /\ A \in Int /\ B \in Int
              /\ a \div Day \in Int /\ b \div Day \in Int /\ a \div Day <= b \div Day /\ A <= B
            BY DayAssumption, FloorIs, FloorAscends, DivIs
        <2>2. a = ((a \div Day) * Day) + x /\ b = ((b \div Day) * Day) + y /\ x \in Nat /\ y \in Nat
            <3>1. /\ x \in 0..(Day - 1) /\ a = ((a \div Day) * Day) + x
                  /\ y \in 0..(Day - 1) /\ b = ((b \div Day) * Day) + y
                BY DayAssumption, DivIs
            <3> HIDE DEF x, y
            <3> QED BY <3>1, DayAssumption
        <2>3. A # B => a < B
            <3>1. A # B => a \div Day < b \div Day
                BY <2>1
            <3> QED BY <2>1, <3>1, DayAssumption, FloorIs
        <2> HIDE DEF A, B, x, y
        <2> QED BY <2>1, <2>2, <2>3
    <1>2. /\ Floor(x, step) \in Int /\ Floor(y, step) \in Int
          /\ Floor(x, step) <= x /\ Floor(y, step) <= y
          /\ x <= y => Floor(x, step) <= Floor(y, step)
          /\ 0 <= Floor(y, step)
        <2>1. x \in Int /\ y \in Int /\ 0 <= y
            BY <1>1
        <2>2. Floor(0, step) = 0
            BY DEF Floor
        <2> HIDE DEF x, y
        <2>3. /\ Floor(x, step) \in Int /\ Floor(y, step) \in Int
              /\ Floor(x, step) <= x /\ Floor(y, step) <= y
            BY <2>1, FloorIs
        <2>4. x <= y => Floor(x, step) <= Floor(y, step)
            BY <2>1, FloorAscends
        <2>5. Floor(0, step) <= Floor(y, step)
            BY <2>1, FloorAscends
        <2> QED BY <2>2, <2>3, <2>4, <2>5
    <1>3. LocalBucket(step, a) = A + Floor(x, step) /\ LocalBucket(step, b) = B + Floor(y, step)
        BY DEF LocalBucket
    <1> HIDE DEF A, B, x, y
    <1>4. CASE A = B
        BY <1>1, <1>2, <1>3, <1>4
    <1>5. CASE A # B
        BY <1>1, <1>2, <1>3, <1>5
    <1> QED BY <1>4, <1>5

LEMMA CardinalityOneIs ==
    ASSUME NEW S, Cardinality(S) = 1, NEW x \in S, IsFiniteSet(S)
    PROVE  S = {x}
    <1>1. PICK y : S = {y}
        BY FS_Singleton
    <1> QED BY <1>1

\* When the clocks change, a bucket begins.
InStep(zone, step) ==
    LocalBucket(step, zone.at + zone.after) = zone.at + zone.after

\* A bucket then begins on the same side of the change as its times.
LEMMA MinuteBucketIs ==
    ASSUME NEW meta \in MetaType, HasZone(meta), NEW step \in Nat \ {0}, InStep(meta.zone, step),
           NEW t \in Int
    PROVE  MinuteBucket(meta, step, t) =
               LocalBucket(step, Local(meta.zone, t)) - Offset(meta.zone, t)
    <1> DEFINE zone == meta.zone
               local == Local(zone, t)
               bucket == LocalBucket(step, local)
               found == Instants(zone, bucket)
               i == bucket - Offset(zone, t)
    <1>1. /\ zone \in ZoneType /\ zone.at \in Int /\ zone.before \in Int /\ zone.after \in Int
        BY DEF MetaType, HasZone, ZoneType
    <1>2. local = t + Offset(zone, t) /\ local \in Int
          /\ Offset(zone, t) = (IF t < zone.at THEN zone.before ELSE zone.after)
        BY <1>1 DEF Local, Offset
    <1>3. bucket \in Int /\ bucket <= local /\ (zone.at + zone.after <= local => zone.at + zone.after <= bucket)
        <2> HIDE DEF local
        <2>1. zone.at + zone.after \in Int
            BY <1>1
        <2>2. InStep(zone, step)
            OBVIOUS
        <2> HIDE DEF zone
        <2> QED BY <1>2, <2>1, <2>2, LocalBucketAscends DEF InStep
    <1>4. MinuteBucket(meta, step, t) =
              CASE found = {} -> Floor(t, step)
                [] Cardinality(found) = 1 -> CHOOSE j \in found : TRUE
                [] OTHER -> CHOOSE j \in found : Offset(zone, j) = Offset(zone, t)
        BY DEF MinuteBucket, LocalBucket
    <1> HIDE DEF zone, local, bucket
    <1>5. i \in Int /\ (i < zone.at <=> t < zone.at) /\ Offset(zone, i) = Offset(zone, t)
        <2>1. CASE t < zone.at
            BY <1>1, <1>2, <1>3, <2>1 DEF Offset
        <2>2. CASE ~ (t < zone.at)
            BY <1>1, <1>2, <1>3, <2>2 DEF Offset
        <2> QED BY <2>1, <2>2
    <1>6. i \in found
        <2>1. Local(zone, i) = bucket
            BY <1>1, <1>2, <1>3, <1>5 DEF Local
        <2>2. i \in {bucket - zone.before, bucket - zone.after}
            BY <1>2
        <2> QED BY <2>1, <2>2 DEF Instants
    <1>7. \A j \in found : Offset(zone, j) = Offset(zone, t) => j = i
        <2> TAKE j \in found
        <2>1. j \in Int /\ j + Offset(zone, j) = bucket
            BY <1>1, <1>3 DEF Instants, Local
        <2> QED BY <1>1, <1>2, <1>3, <2>1
    <1> HIDE DEF found, i
    <1>8. ASSUME Cardinality(found) = 1 PROVE MinuteBucket(meta, step, t) = i
        <2>1. found = {i}
            <3> DEFINE both == {bucket - zone.before, bucket - zone.after}
            <3>1. IsFiniteSet(both)
                <4>1. both = {bucket - zone.before} \union {bucket - zone.after}
                    OBVIOUS
                <4>2. IsFiniteSet({bucket - zone.before}) /\ IsFiniteSet({bucket - zone.after})
                    BY FS_Singleton
                <4> HIDE DEF both
                <4> QED BY <4>1, <4>2, FS_Union
            <3>2. found \in SUBSET both
                BY DEF found, Instants
            <3> HIDE DEF both
            <3>3. IsFiniteSet(found)
                BY <3>1, <3>2, FS_Subset
            <3> QED BY <1>6, <1>8, <3>3, CardinalityOneIs
        <2> QED BY <1>4, <1>8, <2>1
    <1>9. ASSUME Cardinality(found) # 1 PROVE MinuteBucket(meta, step, t) = i
        <2>1. MinuteBucket(meta, step, t) = CHOOSE j \in found : Offset(zone, j) = Offset(zone, t)
            <3>1. found # {}
                BY <1>6
            <3> QED BY <1>4, <1>9, <3>1
        <2> QED BY <1>5, <1>6, <1>7, <2>1
    <1> QED BY <1>8, <1>9 DEF zone, local, bucket, i

-----------------------------------------------------------------------------
(* The buckets of the code are those of the clock on the wall *)

\* A date's Monday, counted from a Thursday or from a Monday.
LEMMA MondayIs ==
    ASSUME NEW date \in Int
    PROVE  Floor(date + 3, 7) - 3 = date - ((date - 4) % 7)
    <1>1. (date + 3) % 7 = (date - 4) % 7
        OBVIOUS
    <1>2. (date + 3) % 7 \in Int
        OBVIOUS
    <1> QED BY <1>1, <1>2 DEF Floor

LEMMA WallInt ==
    ASSUME NEW meta \in MetaType, NEW t \in Int
    PROVE  /\ Wall(meta, t) \in Int /\ FixedOffset(meta) \in Int
           /\ HasZone(meta) => meta.zone \in ZoneType /\ Wall(meta, t) = Local(meta.zone, t)
           /\ ~HasZone(meta) => Wall(meta, t) = t + FixedOffset(meta)
    <1>1. FixedOffset(meta) \in Int
        BY DEF FixedOffset, MetaType
    <1>2. HasZone(meta) => meta.zone \in ZoneType
        BY DEF HasZone, MetaType
    <1>3. HasZone(meta) => Local(meta.zone, t) \in Int
        BY <1>2, ZoneInts
    <1> QED BY <1>1, <1>2, <1>3 DEF Wall

\* Where a bucket begins, in the terms of Bucket; and it begins in itself.
LEMMA BeginningIs ==
    ASSUME NEW plan \in PlanType, NEW meta \in MetaType, NEW t \in Int
    PROVE  LET wall == Wall(meta, t)
               begin == Beginning(plan, meta, t)
           IN  /\ begin \in Int
               /\ plan.unit = "daily" => begin = Floor(wall, Day)
               /\ plan.unit = "weekly" => begin = WeekStart(wall)
               /\ plan.unit = "minutes" =>
                     begin = IF HasZone(meta)
                             THEN Floor(wall, Day) + Floor(wall % Day, plan.minutes)
                             ELSE Floor(wall, plan.minutes)
    <1> DEFINE wall == Wall(meta, t)
               date == wall \div Day
    <1>1. wall \in Int /\ date \in Int /\ Floor(wall, Day) = date * Day /\ (wall % Day) \in Int
          /\ Floor(wall, Day) \in Int
        <2>1. wall \in Int
            BY WallInt
        <2> HIDE DEF wall
        <2>2. Floor(wall, Day) = (wall \div Day) * Day /\ Floor(wall, Day) \in Int
            BY <2>1, DayAssumption, FloorIs
        <2>3. (wall \div Day) \in Int /\ (wall % Day) \in 0..(Day - 1)
            BY <2>1, DayAssumption, DivIs
        <2>4. 0..(Day - 1) \subseteq Int
            BY DayAssumption
        <2> QED BY <2>1, <2>2, <2>3, <2>4
    <1>2. plan.unit = "daily" => Beginning(plan, meta, t) = date * Day
        BY DEF Beginning
    <1>3. plan.unit = "weekly" => Beginning(plan, meta, t) = (date - ((date - 4) % 7)) * Day
        BY DEF Beginning
    <1>4. plan.unit = "minutes" =>
              Beginning(plan, meta, t) =
                  IF HasZone(meta) THEN (date * Day) + Floor(wall % Day, plan.minutes)
                  ELSE Floor(wall, plan.minutes)
        BY DEF Beginning, Floor
    <1>5. WeekStart(wall) = (Floor(date + 3, 7) - 3) * Day
        BY DEF WeekStart
    <1> HIDE DEF wall, date
    <1>6. Floor(date + 3, 7) - 3 = date - ((date - 4) % 7)
        BY <1>1, MondayIs
    <1>7. WeekStart(wall) \in Int
        BY <1>1, WeekStartInt
    <1>8. plan.unit = "minutes" =>
              Floor(wall % Day, plan.minutes) \in Int /\ Floor(wall, plan.minutes) \in Int
        <2> SUFFICES ASSUME plan.unit = "minutes"
                     PROVE  Floor(wall % Day, plan.minutes) \in Int /\ Floor(wall, plan.minutes) \in Int
            OBVIOUS
        <2>1. plan.minutes \in Nat \ {0}
            BY DEF PlanType
        <2> QED BY <1>1, <2>1, FloorInt
    <1>9. plan.unit \in {"daily", "weekly", "minutes"}
        BY DEF PlanType
    <1>10. CASE plan.unit = "daily"
        BY <1>1, <1>2, <1>10 DEF wall
    <1>11. CASE plan.unit = "weekly"
        BY <1>1, <1>3, <1>5, <1>6, <1>7, <1>11 DEF wall
    <1>12. CASE plan.unit = "minutes"
        BY <1>1, <1>4, <1>8, <1>12 DEF wall
    <1> QED BY <1>9, <1>10, <1>11, <1>12

\* A multiple is its own floor, also with less than a step on top.
LEMMA FloorOf ==
    ASSUME NEW q \in Int, NEW d \in Nat \ {0}, NEW r \in 0..(d - 1)
    PROVE  (q * d) + r \in Int /\ ((q * d) + r) \div d = q /\ ((q * d) + r) % d = r
    <1> DEFINE a == (q * d) + r
    <1>1. q * d \in Int /\ a \in Int
        BY Multiples
    <1>2. /\ a \div d \in Int /\ (a % d) \in 0..(d - 1) /\ a = ((a \div d) * d) + (a % d)
        <2> HIDE DEF a
        <2> QED BY <1>1, DivIs
    <1>3. q * d <= a /\ a < (q * d) + d
        BY <1>1
    <1>4. q <= a \div d
        <2> HIDE DEF a
        <2> QED BY <1>1, <1>3, FloorIs
    <1>5. ~ (q < a \div d)
        <2> SUFFICES ASSUME q < a \div d PROVE FALSE
            OBVIOUS
        <2>1. (q * d) + d <= (a \div d) * d /\ (a \div d) * d \in Int
            <3> HIDE DEF a
            <3> QED BY <1>2, Multiples
        <2> HIDE DEF a
        <2> QED BY <1>1, <1>2, <1>3, <2>1
    <1>6. a \div d = q
        <2> DEFINE x == a \div d
        <2>1. x \in Int /\ q <= x /\ ~ (q < x)
            BY <1>2, <1>4, <1>5
        <2> HIDE DEF x
        <2>2. x = q
            BY <2>1
        <2> QED BY <2>2 DEF x
    <1>7. a % d = r
        BY <1>1, <1>2, <1>6
    <1> QED BY <1>1, <1>6, <1>7

LEMMA FloorStays ==
    ASSUME NEW a \in Int, NEW d \in Nat \ {0}
    PROVE  Floor(Floor(a, d), d) = Floor(a, d)
    <1> DEFINE q == a \div d
    <1>1. q \in Int /\ Floor(a, d) = q * d /\ q * d \in Int
        BY FloorIs, DivIs
    <1>2. 0 \in 0..(d - 1) /\ (q * d) + 0 = q * d
        BY <1>1
    <1> HIDE DEF q
    <1>3. (q * d) % d = 0
        BY <1>1, <1>2, FloorOf
    <1> QED BY <1>1, <1>3 DEF Floor

\* A time whose clock shows the beginning of a bucket is in that bucket.
LEMMA BeginningStays ==
    ASSUME NEW plan \in PlanType, NEW meta \in MetaType, NEW t \in Int, NEW u \in Int,
           Wall(meta, u) = Beginning(plan, meta, t)
    PROVE  Beginning(plan, meta, u) = Beginning(plan, meta, t)
    <1> DEFINE wall == Wall(meta, t)
               begin == Beginning(plan, meta, t)
               date == wall \div Day
    <1>1. /\ begin \in Int /\ wall \in Int
          /\ plan.unit = "daily" => begin = Floor(wall, Day)
          /\ plan.unit = "weekly" => begin = WeekStart(wall)
          /\ plan.unit = "minutes" =>
                begin = IF HasZone(meta)
                        THEN Floor(wall, Day) + Floor(wall % Day, plan.minutes)
                        ELSE Floor(wall, plan.minutes)
        BY BeginningIs, WallInt
    <1>2. /\ plan.unit = "daily" => Beginning(plan, meta, u) = Floor(begin, Day)
          /\ plan.unit = "weekly" => Beginning(plan, meta, u) = WeekStart(begin)
          /\ plan.unit = "minutes" =>
                Beginning(plan, meta, u) = IF HasZone(meta)
                        THEN Floor(begin, Day) + Floor(begin % Day, plan.minutes)
                        ELSE Floor(begin, plan.minutes)
        BY BeginningIs
    <1> HIDE DEF wall, begin
    <1>3. date \in Int /\ Floor(wall, Day) = date * Day
        BY <1>1, DayAssumption, FloorIs, DivIs
    <1> HIDE DEF date
    <1>4. CASE plan.unit = "daily"
        BY <1>1, <1>2, <1>4, DayAssumption, FloorStays DEF begin
    <1>5. CASE plan.unit = "weekly"
        <2> DEFINE monday == Floor((wall \div Day) + 3, 7) - 3
        <2>1. begin = monday * Day
            BY <1>1, <1>5 DEF WeekStart
        <2>2. (wall \div Day) + 3 \in Int
            BY <1>1, DayAssumption, DivIs
        <2>3. monday \in Int /\ monday + 3 = Floor((wall \div Day) + 3, 7)
            <3>1. Floor((wall \div Day) + 3, 7) \in Int
                BY <2>2, FloorInt
            <3> QED BY <3>1
        <2>4. Floor(monday + 3, 7) = monday + 3
            BY <2>2, <2>3, FloorStays
        <2> HIDE DEF monday
        <2>5. begin \div Day = monday
            <3>1. 0 \in 0..(Day - 1) /\ begin = (monday * Day) + 0
                BY <1>1, <2>1, DayAssumption
            <3> QED BY <2>3, <3>1, DayAssumption, FloorOf
        <2>6. Floor((begin \div Day) + 3, 7) - 3 = monday
            BY <2>3, <2>4, <2>5
        <2>7. WeekStart(begin) = (Floor((begin \div Day) + 3, 7) - 3) * Day
            BY DEF WeekStart
        <2> QED BY <1>2, <1>5, <2>1, <2>6, <2>7 DEF begin
    <1>6. CASE plan.unit = "minutes" /\ HasZone(meta)
        <2> DEFINE slot == Floor(wall % Day, plan.minutes)
        <2>1. plan.minutes \in Nat \ {0} /\ (wall % Day) \in 0..(Day - 1)
            BY <1>1, <1>6, DayAssumption, DivIs DEF PlanType
        <2>2. slot \in 0..(Day - 1)
            <3> DEFINE x == wall % Day
            <3> HIDE DEF x
            <3>1. x \in 0..(Day - 1)
                BY <2>1 DEF x
            <3>2. x \in Int /\ 0 \in Int /\ 0 <= x /\ x < Day
                BY <3>1, DayAssumption
            <3>3. Floor(x, plan.minutes) \in Int /\ Floor(x, plan.minutes) <= x
                BY <2>1, <3>2, FloorIs
            <3>4. Floor(0, plan.minutes) <= Floor(x, plan.minutes)
                BY <2>1, <3>2, FloorAscends
            <3>5. Floor(0, plan.minutes) = 0
                BY <2>1 DEF Floor
            <3>6. slot = Floor(x, plan.minutes)
                BY DEF x
            <3> HIDE DEF slot
            <3> QED BY <3>2, <3>3, <3>4, <3>5, <3>6, DayAssumption
        <2>3. Floor(slot, plan.minutes) = slot
            <3>1. wall % Day \in Int
                BY <2>1, DayAssumption
            <3> QED BY <2>1, <3>1, FloorStays
        <2>4. begin = (date * Day) + slot
            BY <1>1, <1>3, <1>6
        <2> HIDE DEF slot
        <2>5. begin \div Day = date /\ begin % Day = slot
            BY <1>3, <2>2, <2>4, DayAssumption, FloorOf
        <2>6. Floor(begin, Day) = date * Day
            BY <1>1, <2>5, DayAssumption, FloorIs
        <2> QED BY <1>2, <1>6, <2>3, <2>4, <2>5, <2>6 DEF begin
    <1>7. CASE plan.unit = "minutes" /\ ~HasZone(meta)
        <2>1. plan.minutes \in Nat \ {0}
            BY <1>7 DEF PlanType
        <2> QED BY <1>1, <1>2, <1>7, <2>1, FloorStays DEF begin
    <1> QED BY <1>4, <1>5, <1>6, <1>7 DEF PlanType

\* Of a local time that exists, its instants.
LEMMA InstantsAre ==
    ASSUME NEW zone \in ZoneType, NEW local \in Int
    PROVE  /\ \A i \in Instants(zone, local) : i \in Int /\ Local(zone, i) = local
           /\ Repeated(zone, local) => Cardinality(Instants(zone, local)) # 1
           /\ Instants(zone, local) # {} /\ Cardinality(Instants(zone, local)) # 1
                  => Repeated(zone, local)
    <1> DEFINE a == local - zone.before
               b == local - zone.after
               found == Instants(zone, local)
    <1>1. a \in Int /\ b \in Int /\ (a = b <=> zone.before = zone.after)
          /\ zone.before \in Int /\ zone.after \in Int
        BY DEF ZoneType
    <1>2. /\ found \subseteq {a, b}
          /\ \A i \in found : Local(zone, i) = local
          /\ \A i \in {a, b} : Local(zone, i) = local => i \in found
        BY DEF Instants
    <1>3. Repeated(zone, local) <=>
              Local(zone, a) = local /\ Local(zone, b) = local /\ zone.before # zone.after
        BY DEF Repeated
    <1> HIDE DEF a, b, found
    <1>4. IsFiniteSet(found)
        <2>1. {a, b} = {a} \union {b} /\ IsFiniteSet({a}) /\ IsFiniteSet({b})
            BY FS_Singleton
        <2>2. IsFiniteSet({a, b})
            BY <2>1, FS_Union
        <2> QED BY <1>2, <2>2, FS_Subset
    <1>5. ASSUME Repeated(zone, local), Cardinality(found) = 1 PROVE FALSE
        <2>1. a \in found /\ b \in found /\ a # b
            BY <1>1, <1>2, <1>3, <1>5
        <2>2. found = {a}
            BY <1>4, <1>5, <2>1, CardinalityOneIs
        <2> QED BY <2>1, <2>2
    <1>6. ASSUME found # {}, Cardinality(found) # 1 PROVE Repeated(zone, local)
        <2>1. \A x : found # {x}
            BY <1>6, FS_Singleton
        <2>2. a \in found /\ b \in found /\ a # b
            <3>1. found # {a} /\ found # {b} /\ found # {}
                BY <1>6, <2>1
            <3> QED BY <1>2, <3>1
        <2>3. Local(zone, a) = local /\ Local(zone, b) = local
            BY <1>2, <2>2
        <2>4. zone.before # zone.after
            BY <1>1, <2>2
        <2> QED BY <1>3, <2>3, <2>4
    <1> QED BY <1>1, <1>2, <1>5, <1>6 DEF found

\* The code's bucket is an instant at which the clock shows its beginning; of
\* two, the one with the offset of t, for slots.
LEMMA BucketBegins ==
    ASSUME NEW plan \in PlanType, NEW meta \in MetaType, NEW t \in Int,
           ~Skipped(meta, Beginning(plan, meta, t))
    PROVE  LET bucket == Bucket(plan, meta, t)
               begin == Beginning(plan, meta, t)
           IN  /\ bucket \in Int
               /\ Wall(meta, bucket) = begin
               /\ plan.unit = "minutes" /\ HasZone(meta) /\ Repeated(meta.zone, begin) =>
                     Offset(meta.zone, bucket) = Offset(meta.zone, t)
    <1> DEFINE bucket == Bucket(plan, meta, t)
               begin == Beginning(plan, meta, t)
               wall == Wall(meta, t)
               off == FixedOffset(meta)
               zone == meta.zone
    <1>1. /\ begin \in Int /\ wall \in Int /\ off \in Int
          /\ plan.unit = "daily" => begin = Floor(wall, Day)
          /\ plan.unit = "weekly" => begin = WeekStart(wall)
          /\ plan.unit = "minutes" =>
                begin = IF HasZone(meta)
                        THEN Floor(wall, Day) + Floor(wall % Day, plan.minutes)
                        ELSE Floor(wall, plan.minutes)
        BY BeginningIs, WallInt
    <1>2. bucket \in Int
        BY BucketInt
    <1>3. CASE ~HasZone(meta)
        <2>1. wall = t + off /\ Wall(meta, bucket) = bucket + off
            BY <1>2, <1>3, WallInt
        <2>2. bucket = begin - off
            BY <1>1, <1>3, <2>1 DEF Bucket, DayBucket, WeekBucket, MinuteBucket, PlanType
        <2> HIDE DEF bucket, begin, off
        <2>3. Wall(meta, bucket) = begin
            BY <1>1, <1>2, <2>1, <2>2
        <2> QED BY <1>2, <1>3, <2>3 DEF bucket, begin
    <1>4. CASE HasZone(meta)
        <2> DEFINE found == Instants(zone, begin)
        <2>1. /\ zone \in ZoneType /\ wall = Local(zone, t) /\ Wall(meta, bucket) = Local(zone, bucket)
            BY <1>2, <1>4, WallInt
        <2>2. found # {}
            BY <1>4 DEF Skipped
        <2>3. /\ \A i \in found : i \in Int /\ Local(zone, i) = begin
              /\ Repeated(zone, begin) => Cardinality(found) # 1
            BY <1>1, <2>1, InstantsAre
        <2>4. CASE plan.unit \in {"daily", "weekly"}
            <3>1. bucket = MidnightOf(zone, t, begin)
                BY <1>1, <1>4, <2>1, <2>4 DEF Bucket, DayBucket, WeekBucket
            <3>2. \E i \in found : \A j \in found : i <= j
                BY <1>1, <2>1, <2>2, FirstInstant
            <3>3. bucket \in found
                <4>1. bucket = CHOOSE i \in found : \A j \in found : i <= j
                    BY <2>2, <3>1 DEF MidnightOf
                <4> HIDE DEF found, bucket
                <4> QED BY <3>2, <4>1
            <3>4. Wall(meta, bucket) = begin
                BY <2>1, <2>3, <3>3
            <3>5. plan.unit # "minutes"
                BY <2>4
            <3> QED BY <1>2, <3>4, <3>5
        <2>5. CASE plan.unit = "minutes"
            <3>1. bucket = CASE found = {} -> Floor(t, plan.minutes)
                             [] Cardinality(found) = 1 -> CHOOSE i \in found : TRUE
                             [] OTHER -> CHOOSE i \in found : Offset(zone, i) = Offset(zone, t)
                BY <1>1, <1>4, <2>1, <2>5 DEF Bucket, MinuteBucket
            <3>2. Cardinality(found) # 1 => \E i \in found : Offset(zone, i) = Offset(zone, t)
                BY <1>1, <2>1, <2>2, InstantOfOffset
            <3> HIDE DEF found, bucket
            <3>3. CASE Cardinality(found) = 1
                <4>1. bucket = CHOOSE i \in found : TRUE
                    BY <2>2, <3>1, <3>3
                <4>2. bucket \in found
                    BY <2>2, <4>1
                <4>3. Local(zone, bucket) = begin /\ ~Repeated(zone, begin)
                    BY <2>3, <3>3, <4>2
                <4> QED BY <1>2, <2>1, <4>3 DEF bucket
            <3>4. CASE Cardinality(found) # 1
                <4>1. bucket = CHOOSE i \in found : Offset(zone, i) = Offset(zone, t)
                    BY <2>2, <3>1, <3>4
                <4>2. bucket \in found /\ Offset(zone, bucket) = Offset(zone, t)
                    BY <3>2, <3>4, <4>1
                <4>3. Local(zone, bucket) = begin
                    BY <2>3, <4>2
                <4> QED BY <1>2, <2>1, <4>2, <4>3 DEF bucket
            <3> QED BY <3>3, <3>4
        <2> QED BY <2>4, <2>5 DEF PlanType
    <1> QED BY <1>3, <1>4

\* Times of one bucket have one bucket in the code.
LEMMA BucketFollows ==
    ASSUME NEW plan \in PlanType, NEW meta \in MetaType, NEW t \in Int, NEW u \in Int,
           ~Skipped(meta, Beginning(plan, meta, t)), SameBucket(plan, meta, t, u)
    PROVE  Bucket(plan, meta, t) = Bucket(plan, meta, u)
    <1> DEFINE begin == Beginning(plan, meta, t)
               zone == meta.zone
               off == FixedOffset(meta)
    <1>1. /\ Beginning(plan, meta, u) = begin
          /\ plan.unit = "minutes" /\ HasZone(meta) /\ Repeated(zone, begin) =>
                Offset(zone, t) = Offset(zone, u)
        BY DEF SameBucket
    <1>2. /\ begin \in Int
          /\ plan.unit = "daily" => begin = Floor(Wall(meta, t), Day)
                                    /\ begin = Floor(Wall(meta, u), Day)
          /\ plan.unit = "weekly" => begin = WeekStart(Wall(meta, t))
                                     /\ begin = WeekStart(Wall(meta, u))
          /\ plan.unit = "minutes" =>
                /\ begin = IF HasZone(meta)
                           THEN Floor(Wall(meta, t), Day) + Floor(Wall(meta, t) % Day, plan.minutes)
                           ELSE Floor(Wall(meta, t), plan.minutes)
                /\ begin = IF HasZone(meta)
                           THEN Floor(Wall(meta, u), Day) + Floor(Wall(meta, u) % Day, plan.minutes)
                           ELSE Floor(Wall(meta, u), plan.minutes)
        <2>1. /\ begin \in Int
              /\ plan.unit = "daily" => begin = Floor(Wall(meta, t), Day)
              /\ plan.unit = "weekly" => begin = WeekStart(Wall(meta, t))
              /\ plan.unit = "minutes" =>
                    begin = IF HasZone(meta)
                            THEN Floor(Wall(meta, t), Day) + Floor(Wall(meta, t) % Day, plan.minutes)
                            ELSE Floor(Wall(meta, t), plan.minutes)
            BY BeginningIs
        <2>2. /\ plan.unit = "daily" => begin = Floor(Wall(meta, u), Day)
              /\ plan.unit = "weekly" => begin = WeekStart(Wall(meta, u))
              /\ plan.unit = "minutes" =>
                    begin = IF HasZone(meta)
                            THEN Floor(Wall(meta, u), Day) + Floor(Wall(meta, u) % Day, plan.minutes)
                            ELSE Floor(Wall(meta, u), plan.minutes)
            BY <1>1, BeginningIs
        <2> HIDE DEF begin
        <2> QED BY <2>1, <2>2
    <1>3. CASE ~HasZone(meta)
        <2>1. Wall(meta, t) = t + off /\ Wall(meta, u) = u + off
            BY <1>3, WallInt
        <2>2. Bucket(plan, meta, t) = begin - off
            BY <1>2, <1>3, <2>1 DEF Bucket, DayBucket, WeekBucket, MinuteBucket, PlanType
        <2>3. Bucket(plan, meta, u) = begin - off
            BY <1>2, <1>3, <2>1 DEF Bucket, DayBucket, WeekBucket, MinuteBucket, PlanType
        <2> QED BY <2>2, <2>3
    <1>4. CASE HasZone(meta)
        <2> DEFINE found == Instants(zone, begin)
        <2>1. zone \in ZoneType /\ Wall(meta, t) = Local(zone, t) /\ Wall(meta, u) = Local(zone, u)
            BY <1>4, WallInt
        <2>2. found # {}
            BY <1>4 DEF Skipped
        <2>3. CASE plan.unit \in {"daily", "weekly"}
            <3>1. /\ Bucket(plan, meta, t) = MidnightOf(zone, t, begin)
                  /\ Bucket(plan, meta, u) = MidnightOf(zone, u, begin)
                BY <1>2, <1>4, <2>1, <2>3 DEF Bucket, DayBucket, WeekBucket
            <3> QED BY <2>2, <3>1 DEF MidnightOf
        <2>4. CASE plan.unit = "minutes"
            <3>1. Bucket(plan, meta, t) =
                      CASE found = {} -> Floor(t, plan.minutes)
                        [] Cardinality(found) = 1 -> CHOOSE i \in found : TRUE
                        [] OTHER -> CHOOSE i \in found : Offset(zone, i) = Offset(zone, t)
                BY <1>2, <1>4, <2>1, <2>4 DEF Bucket, MinuteBucket
            <3>2. Bucket(plan, meta, u) =
                      CASE found = {} -> Floor(u, plan.minutes)
                        [] Cardinality(found) = 1 -> CHOOSE i \in found : TRUE
                        [] OTHER -> CHOOSE i \in found : Offset(zone, i) = Offset(zone, u)
                BY <1>2, <1>4, <2>1, <2>4 DEF Bucket, MinuteBucket
            <3>3. Cardinality(found) # 1 => Offset(zone, t) = Offset(zone, u)
                BY <1>1, <1>2, <1>4, <2>1, <2>2, <2>4, InstantsAre
            <3> HIDE DEF found
            <3>4. CASE Cardinality(found) = 1
                BY <2>2, <3>1, <3>2, <3>4
            <3>5. CASE Cardinality(found) # 1
                BY <2>2, <3>1, <3>2, <3>3, <3>5
            <3> QED BY <3>4, <3>5
        <2> QED BY <2>3, <2>4 DEF PlanType
    <1> QED BY <1>3, <1>4

\* The code's buckets tell the times of different buckets apart, and only them.
LEMMA SameBucketIs ==
    ASSUME NEW plan \in PlanType, NEW meta \in MetaType, NEW t \in Int, NEW u \in Int,
           ~Skipped(meta, Beginning(plan, meta, t)), ~Skipped(meta, Beginning(plan, meta, u))
    PROVE  /\ SameBucket(plan, meta, Bucket(plan, meta, t), u)
                  <=> Bucket(plan, meta, u) = Bucket(plan, meta, t)
           /\ SameBucket(plan, meta, Bucket(plan, meta, t), Bucket(plan, meta, u))
                  <=> Bucket(plan, meta, u) = Bucket(plan, meta, t)
    <1> DEFINE zone == meta.zone
               b == Bucket(plan, meta, t)
               c == Bucket(plan, meta, u)
               Begin(x) == Beginning(plan, meta, x)
               told(x) == plan.unit = "minutes" /\ HasZone(meta) /\ Repeated(zone, Begin(x))
    <1>1. /\ b \in Int /\ Wall(meta, b) = Begin(t) /\ (told(t) => Offset(zone, b) = Offset(zone, t))
          /\ c \in Int /\ Wall(meta, c) = Begin(u) /\ (told(u) => Offset(zone, c) = Offset(zone, u))
        <2>1. b \in Int /\ Wall(meta, b) = Begin(t) /\ (told(t) => Offset(zone, b) = Offset(zone, t))
            BY BucketBegins
        <2>2. c \in Int /\ Wall(meta, c) = Begin(u) /\ (told(u) => Offset(zone, c) = Offset(zone, u))
            BY BucketBegins
        <2> QED BY <2>1, <2>2
    <1> HIDE DEF b, c
    <1>2. Begin(b) = Begin(t) /\ Begin(c) = Begin(u)
        <2>1. Begin(b) = Begin(t)
            BY <1>1, BeginningStays
        <2>2. Begin(c) = Begin(u)
            BY <1>1, BeginningStays
        <2> QED BY <2>1, <2>2
    <1>3. \A x, y : SameBucket(plan, meta, x, y) <=>
                        Begin(y) = Begin(x) /\ (told(x) => Offset(zone, x) = Offset(zone, y))
        BY DEF SameBucket
    <1>4. SameBucket(plan, meta, t, u) => c = b
        BY BucketFollows DEF b, c
    <1> HIDE DEF Begin
    <1>5. ASSUME c = b
          PROVE  SameBucket(plan, meta, b, u) /\ SameBucket(plan, meta, b, c)
        <2>1. told(b) => told(t) /\ told(u)
            BY <1>2, <1>5
        <2> HIDE DEF told
        <2> QED BY <1>1, <1>2, <1>3, <1>5, <2>1
    <1>6. ASSUME SameBucket(plan, meta, b, u) \/ SameBucket(plan, meta, b, c)
          PROVE  c = b
        <2>1. Begin(u) = Begin(t)
            BY <1>2, <1>3, <1>6
        <2>2. told(t) => told(b) /\ told(u)
            BY <1>2, <2>1
        <2> HIDE DEF told
        <2>3. told(t) => Offset(zone, t) = Offset(zone, u)
            BY <1>1, <1>3, <1>6, <2>2
        <2> QED BY <1>3, <1>4, <2>1, <2>3
    <1> QED BY <1>5, <1>6 DEF b, c

\* Grouped by the code's buckets is resampled, if the clocks skip no beginning.
LEMMA GroupingIsResample ==
    ASSUME NEW plan \in PlanType, NEW meta \in MetaType, NEW candles \in Seq(CandleType),
           NEW out \in Seq(CandleType), IsGrouping(out, plan, meta, candles),
           NoneSkipped(plan, meta, candles)
    PROVE  IsResampleOf(out, plan, meta, candles)
    <1> DEFINE s == ByTime(candles)
               bucketOf(t) == Bucket(plan, meta, t)
               within(k) == {i \in DOMAIN s : SameBucket(plan, meta, out[k].ts, s[i].ts)}
               volumes(k) == {i \in within(k) : s[i].vol # None}
               groups(b) == {i \in DOMAIN s : bucketOf(s[i].ts) = b}
    <1>1. /\ Times(out) = {bucketOf(t) : t \in Times(candles)}
          /\ \A i, j \in DOMAIN out : i < j => out[i].ts < out[j].ts
          /\ \A k \in DOMAIN out :
                LET w == groups(out[k].ts)
                    v == {i \in w : s[i].vol # None}
                IN  /\ \E i \in w : out[k].open = s[i].open /\ \A j \in w : i <= j
                    /\ \E i \in w : out[k].close = s[i].close /\ \A j \in w : j <= i
                    /\ \E i \in w : out[k].high = s[i].high
                    /\ \A j \in w : s[j].high.amt <= out[k].high.amt
                    /\ \E i \in w : out[k].low = s[i].low
                    /\ \A j \in w : s[j].low.amt >= out[k].low.amt
                    /\ out[k].vol = IF v = {} THEN None ELSE TotalVolume(s, v)
                    /\ ~out[k].raw
        BY DEF IsGrouping
    <1>2. /\ DOMAIN s = DOMAIN candles
          /\ \A i \in DOMAIN candles : \E k \in DOMAIN candles : s[i] = candles[k]
        BY ByTimeIs
    <1> HIDE DEF s
    <1>3. \A t \in Times(candles) : t \in Int /\ ~Skipped(meta, Beginning(plan, meta, t))
        <2>1. \A i \in DOMAIN candles : candles[i] \in CandleType
            OBVIOUS
        <2>2. \A i \in DOMAIN candles : candles[i].ts \in Int
            BY <2>1 DEF CandleType
        <2> QED BY <2>2 DEF Times, NoneSkipped
    <1>4. \A i \in DOMAIN s : s[i].ts \in Times(candles)
        BY <1>2 DEF Times
    <1>5. \A k \in DOMAIN out : \E t \in Times(candles) : out[k].ts = bucketOf(t)
        <2> TAKE k \in DOMAIN out
        <2>1. out[k].ts \in Times(out)
            BY DEF Times
        <2> QED BY <1>1, <2>1
    <1>6. \A i \in DOMAIN s : \E k \in DOMAIN out : out[k].ts = bucketOf(s[i].ts)
        <2> TAKE i \in DOMAIN s
        <2>1. bucketOf(s[i].ts) \in Times(out)
            BY <1>1, <1>4
        <2> QED BY <2>1 DEF Times
    <1>7. \A t, u \in Times(candles) :
              /\ SameBucket(plan, meta, bucketOf(t), u) <=> bucketOf(u) = bucketOf(t)
              /\ SameBucket(plan, meta, bucketOf(t), bucketOf(u)) <=> bucketOf(u) = bucketOf(t)
              /\ Wall(meta, bucketOf(t)) = Beginning(plan, meta, bucketOf(t))
        <2> TAKE t, u \in Times(candles)
        <2>1. t \in Int /\ u \in Int /\ ~Skipped(meta, Beginning(plan, meta, t))
              /\ ~Skipped(meta, Beginning(plan, meta, u))
            BY <1>3
        <2>2. bucketOf(t) \in Int /\ Wall(meta, bucketOf(t)) = Beginning(plan, meta, t)
            BY <2>1, BucketBegins
        <2>3. Beginning(plan, meta, bucketOf(t)) = Beginning(plan, meta, t)
            BY <2>1, <2>2, BeginningStays
        <2>4. /\ SameBucket(plan, meta, bucketOf(t), u) <=> bucketOf(u) = bucketOf(t)
              /\ SameBucket(plan, meta, bucketOf(t), bucketOf(u)) <=> bucketOf(u) = bucketOf(t)
            BY <2>1, SameBucketIs
        <2> QED BY <2>2, <2>3, <2>4
    <1> HIDE DEF bucketOf
    <1>8. \A k \in DOMAIN out : within(k) = groups(out[k].ts)
        <2> TAKE k \in DOMAIN out
        <2>1. PICK t \in Times(candles) : out[k].ts = bucketOf(t)
            BY <1>5
        <2>2. \A i \in DOMAIN s : SameBucket(plan, meta, out[k].ts, s[i].ts)
                                      <=> bucketOf(s[i].ts) = out[k].ts
            BY <1>4, <1>7, <2>1
        <2> QED BY <2>2
    <1>9. \A i \in DOMAIN s : \E k \in DOMAIN out : i \in within(k)
        BY <1>6, <1>8
    <1>10. ASSUME NEW j \in DOMAIN out, NEW k \in DOMAIN out, j # k
           PROVE  ~SameBucket(plan, meta, out[j].ts, out[k].ts)
        <2>1. PICK t \in Times(candles) : out[j].ts = bucketOf(t)
            BY <1>5
        <2>2. PICK u \in Times(candles) : out[k].ts = bucketOf(u)
            BY <1>5
        <2>3. out[j].ts # out[k].ts
            <3>1. \A i \in DOMAIN out : i \in Int /\ out[i] \in CandleType
                OBVIOUS
            <3>2. \A i \in DOMAIN out : out[i].ts \in Int
                BY <3>1 DEF CandleType
            <3>3. j < k \/ k < j
                BY <1>10, <3>1
            <3> QED BY <1>1, <3>2, <3>3
        <2> QED BY <1>7, <2>1, <2>2, <2>3
    <1>11. \A k \in DOMAIN out : Wall(meta, out[k].ts) = Beginning(plan, meta, out[k].ts)
        BY <1>5, <1>7
    <1>12. ASSUME NEW k \in DOMAIN out
           PROVE  LET w == within(k)
                  IN  /\ Wall(meta, out[k].ts) = Beginning(plan, meta, out[k].ts)
                      /\ \E i \in w : out[k].open = s[i].open /\ \A j \in w : i <= j
                      /\ \E i \in w : out[k].close = s[i].close /\ \A j \in w : j <= i
                      /\ \E i \in w : out[k].high = s[i].high
                      /\ \A j \in w : s[j].high.amt <= out[k].high.amt
                      /\ \E i \in w : out[k].low = s[i].low
                      /\ \A j \in w : s[j].low.amt >= out[k].low.amt
                      /\ out[k].vol = IF volumes(k) = {} THEN None ELSE TotalVolume(s, volumes(k))
                      /\ ~out[k].raw
        <2>1. within(k) = groups(out[k].ts)
            BY <1>8
        <2>2. volumes(k) = {i \in groups(out[k].ts) : s[i].vol # None}
            BY <2>1
        <2>3. LET w == groups(out[k].ts)
                  v == {i \in w : s[i].vol # None}
              IN  /\ \E i \in w : out[k].open = s[i].open /\ \A j \in w : i <= j
                  /\ \E i \in w : out[k].close = s[i].close /\ \A j \in w : j <= i
                  /\ \E i \in w : out[k].high = s[i].high
                  /\ \A j \in w : s[j].high.amt <= out[k].high.amt
                  /\ \E i \in w : out[k].low = s[i].low
                  /\ \A j \in w : s[j].low.amt >= out[k].low.amt
                  /\ out[k].vol = IF v = {} THEN None ELSE TotalVolume(s, v)
                  /\ ~out[k].raw
            BY <1>1
        <2>4. Wall(meta, out[k].ts) = Beginning(plan, meta, out[k].ts)
            BY <1>11
        <2> HIDE DEF within, groups, volumes
        <2> QED BY <2>1, <2>2, <2>3, <2>4
    <1> HIDE DEF within
    <1>13. \A j, k \in DOMAIN out : j # k => ~SameBucket(plan, meta, out[j].ts, out[k].ts)
        BY <1>10
    <1> QED BY <1>1, <1>9, <1>12, <1>13 DEF IsResampleOf, s, within

-----------------------------------------------------------------------------
(* Buckets of regular zones *)

\* What the zones of a response have to be like for a plan's buckets.
RegularFor(plan, meta) ==
    HasZone(meta) => IF plan.unit = "minutes" THEN InStep(meta.zone, plan.minutes)
                     ELSE DatesGoOn(meta.zone)

LEMMA BucketsAscend ==
    ASSUME NEW plan \in PlanType, NEW meta \in MetaType, RegularFor(plan, meta),
           NEW s \in Int, NEW t \in Int, s <= t
    PROVE  Bucket(plan, meta, s) <= Bucket(plan, meta, t)
    <1> DEFINE zone == meta.zone
               off == FixedOffset(meta)
    <1>1. /\ off \in Int /\ Day \in Nat \ {0}
          /\ s + off \in Int /\ t + off \in Int /\ s + off <= t + off
        <2>1. off \in Int
            BY DEF FixedOffset, MetaType
        <2> HIDE DEF off
        <2> QED BY <2>1, DayAssumption
    <1>2. HasZone(meta) =>
              /\ zone \in ZoneType /\ Local(zone, s) \in Int /\ Local(zone, t) \in Int
        <2>1. HasZone(meta) => zone \in ZoneType
            BY DEF MetaType, HasZone
        <2> HIDE DEF zone
        <2> QED BY <2>1, ZoneInts
    <1>3. CASE plan.unit = "daily"
        <2>1. CASE HasZone(meta)
            <3> DEFINE a == Local(zone, s)
                       b == Local(zone, t)
                       m == a \div Day
                       n == b \div Day
            <3>1. m <= n /\ DatesGoOn(zone)
                BY <1>2, <1>3, <2>1, DatesAscend DEF RegularFor
            <3>2. a \in Int /\ b \in Int
                BY <1>2, <2>1
            <3>3. /\ Bucket(plan, meta, s) = MidnightOf(zone, s, Floor(a, Day))
                  /\ Bucket(plan, meta, t) = MidnightOf(zone, t, Floor(b, Day))
                BY <1>3, <2>1 DEF Bucket, DayBucket
            <3> HIDE DEF a, b, zone
            <3>4. /\ m \in Int /\ n \in Int /\ Floor(a, Day) = m * Day /\ Floor(b, Day) = n * Day
                  /\ m * Day <= a /\ n * Day <= b /\ (m < n => a < n * Day)
                <4>1. m \in Int /\ n \in Int
                    BY <1>1, <3>2, DivIs
                <4>2. /\ Floor(a, Day) = m * Day /\ Floor(b, Day) = n * Day
                      /\ Floor(a, Day) <= a /\ Floor(b, Day) <= b
                    BY <1>1, <3>2, FloorIs
                <4>3. m < n => a < n * Day
                    BY <1>1, <3>2, <4>1, FloorIs
                <4> QED BY <4>1, <4>2, <4>3
            <3> HIDE DEF m, n
            <3>5. MidnightOf(zone, s, m * Day) <= MidnightOf(zone, t, n * Day)
                BY <1>2, <2>1, <3>1, <3>4, MidnightsAscend DEF a, b
            <3> QED BY <3>3, <3>4, <3>5
        <2>2. CASE ~HasZone(meta)
            <3>1. /\ Bucket(plan, meta, s) = Floor(s + off, Day) - off
                  /\ Bucket(plan, meta, t) = Floor(t + off, Day) - off
                BY <1>3, <2>2 DEF Bucket, DayBucket
            <3>2. /\ Floor(s + off, Day) <= Floor(t + off, Day)
                  /\ Floor(s + off, Day) \in Int /\ Floor(t + off, Day) \in Int
                BY <1>1, FloorAscends, FloorIs
            <3> QED BY <1>1, <3>1, <3>2
        <2> QED BY <2>1, <2>2
    <1>4. CASE plan.unit = "weekly"
        <2>1. CASE HasZone(meta)
            <3> DEFINE a == Local(zone, s)
                       b == Local(zone, t)
            <3>1. a \div Day <= b \div Day /\ DatesGoOn(zone)
                BY <1>2, <1>4, <2>1, DatesAscend DEF RegularFor
            <3>2. a \in Int /\ b \in Int
                BY <1>2, <2>1
            <3>3. /\ Bucket(plan, meta, s) = MidnightOf(zone, s, WeekStart(a))
                  /\ Bucket(plan, meta, t) = MidnightOf(zone, t, WeekStart(b))
                BY <1>4, <2>1 DEF Bucket, WeekBucket
            <3> HIDE DEF a, b, zone
            <3>4. PICK m \in Int, n \in Int :
                      /\ m <= n /\ WeekStart(a) = m * Day /\ WeekStart(b) = n * Day
                      /\ m * Day <= a /\ n * Day <= b /\ (m < n => a < n * Day)
                BY <3>1, <3>2, WeekStartIs
            <3>5. MidnightOf(zone, s, m * Day) <= MidnightOf(zone, t, n * Day)
                BY <1>2, <2>1, <3>1, <3>4, MidnightsAscend DEF a, b
            <3> QED BY <3>3, <3>4, <3>5
        <2>2. CASE ~HasZone(meta)
            <3>1. /\ Bucket(plan, meta, s) = WeekStart(s + off) - off
                  /\ Bucket(plan, meta, t) = WeekStart(t + off) - off
                BY <1>4, <2>2 DEF Bucket, WeekBucket
            <3>2. (s + off) \div Day <= (t + off) \div Day
                BY <1>1, FloorAscends
            <3>3. PICK m \in Int, n \in Int :
                      m <= n /\ WeekStart(s + off) = m * Day /\ WeekStart(t + off) = n * Day
                BY <1>1, <3>2, WeekStartIs
            <3>4. m * Day <= n * Day /\ m * Day \in Int /\ n * Day \in Int
                BY <1>1, <3>3, Multiples
            <3> QED BY <1>1, <3>1, <3>3, <3>4
        <2> QED BY <2>1, <2>2
    <1>5. CASE plan.unit = "minutes"
        <2> DEFINE step == plan.minutes
        <2>1. step \in Nat \ {0}
            BY <1>5 DEF PlanType
        <2>2. CASE HasZone(meta)
            <3>1. InStep(zone, step)
                BY <1>5, <2>2 DEF RegularFor
            <3>2. /\ Bucket(plan, meta, s) = LocalBucket(step, Local(zone, s)) - Offset(zone, s)
                  /\ Bucket(plan, meta, t) = LocalBucket(step, Local(zone, t)) - Offset(zone, t)
                BY <1>5, <2>1, <2>2, <3>1, MinuteBucketIs DEF Bucket
            <3> DEFINE c == zone.at + zone.after
            <3>3. /\ zone.at \in Int /\ zone.before \in Int /\ zone.after \in Int /\ c \in Int
                  /\ Local(zone, s) = s + Offset(zone, s) /\ Local(zone, t) = t + Offset(zone, t)
                  /\ Offset(zone, s) = (IF s < zone.at THEN zone.before ELSE zone.after)
                  /\ Offset(zone, t) = (IF t < zone.at THEN zone.before ELSE zone.after)
                BY <1>2, <2>2 DEF ZoneType, Local, Offset
            <3>4. /\ LocalBucket(step, Local(zone, s)) \in Int
                  /\ LocalBucket(step, Local(zone, t)) \in Int
                  /\ LocalBucket(step, Local(zone, s)) <= Local(zone, s)
                  /\ Local(zone, s) <= Local(zone, t) =>
                        LocalBucket(step, Local(zone, s)) <= LocalBucket(step, Local(zone, t))
                  /\ c <= Local(zone, t) => c <= LocalBucket(step, Local(zone, t))
                <4>1. LocalBucket(step, c) = c
                    BY <3>1 DEF InStep
                <4> HIDE DEF c, zone, step
                <4>2. Local(zone, s) \in Int /\ Local(zone, t) \in Int
                    BY <1>2, <2>2
                <4>3. /\ LocalBucket(step, Local(zone, s)) \in Int
                      /\ LocalBucket(step, Local(zone, t)) \in Int
                      /\ LocalBucket(step, Local(zone, s)) <= Local(zone, s)
                    <5>1. Local(zone, s) <= Local(zone, s) /\ Local(zone, t) <= Local(zone, t)
                        BY <4>2
                    <5> QED BY <2>1, <4>2, <5>1, LocalBucketAscends
                <4>4. Local(zone, s) <= Local(zone, t) =>
                          LocalBucket(step, Local(zone, s)) <= LocalBucket(step, Local(zone, t))
                    BY <2>1, <4>2, LocalBucketAscends
                <4>5. c <= Local(zone, t) => c <= LocalBucket(step, Local(zone, t))
                    BY <2>1, <3>3, <4>1, <4>2, LocalBucketAscends
                <4> QED BY <4>3, <4>4, <4>5
            <3> HIDE DEF zone, step
            <3>5. CASE s < zone.at /\ t >= zone.at
                BY <3>2, <3>3, <3>4, <3>5
            <3>6. CASE ~ (s < zone.at /\ t >= zone.at)
                BY <3>2, <3>3, <3>4, <3>6
            <3> QED BY <3>5, <3>6
        <2>3. CASE ~HasZone(meta)
            <3>1. /\ Bucket(plan, meta, s) = Floor(s + off, step) - off
                  /\ Bucket(plan, meta, t) = Floor(t + off, step) - off
                BY <1>5, <2>3 DEF Bucket, MinuteBucket
            <3>2. /\ Floor(s + off, step) <= Floor(t + off, step)
                  /\ Floor(s + off, step) \in Int /\ Floor(t + off, step) \in Int
                BY <1>1, <2>1, FloorAscends, FloorIs
            <3> QED BY <1>1, <3>1, <3>2
        <2> QED BY <2>2, <2>3
    <1> QED BY <1>3, <1>4, <1>5 DEF PlanType
\* No bucket of a regular zone begins at a time that the clocks skip.
LEMMA RegularBegins ==
    ASSUME NEW plan \in PlanType, NEW meta \in MetaType, RegularFor(plan, meta), NEW t \in Int
    PROVE  ~Skipped(meta, Beginning(plan, meta, t))
    <1> DEFINE zone == meta.zone
               wall == Wall(meta, t)
               begin == Beginning(plan, meta, t)
    <1> SUFFICES ASSUME HasZone(meta) PROVE Instants(zone, begin) # {}
        BY DEF Skipped
    <1>1. /\ zone \in ZoneType /\ zone.at \in Int /\ zone.before \in Int /\ zone.after \in Int
        BY DEF MetaType, HasZone, ZoneType
    <1>2. /\ begin \in Int /\ wall \in Int /\ wall = Local(zone, t)
          /\ plan.unit = "daily" => begin = Floor(wall, Day)
          /\ plan.unit = "weekly" => begin = WeekStart(wall)
          /\ plan.unit = "minutes" => begin = LocalBucket(plan.minutes, wall)
        BY BeginningIs, WallInt DEF LocalBucket
    <1> HIDE DEF wall, begin
    <1>3. CASE plan.unit \in {"daily", "weekly"}
        <2>1. \E date \in Int : begin = date * Day
            <3>1. CASE plan.unit = "daily"
                <4>1. begin = (wall \div Day) * Day /\ wall \div Day \in Int
                    BY <1>2, <3>1, DayAssumption, FloorIs, DivIs
                <4> QED BY <4>1
            <3>2. CASE plan.unit = "weekly"
                <4>1. (wall \div Day) + 3 \in Int
                    <5>1. wall \div Day \in Int
                        BY <1>2, DayAssumption, DivIs
                    <5> QED BY <5>1
                <4>2. Floor((wall \div Day) + 3, 7) - 3 \in Int
                    <5>1. Floor((wall \div Day) + 3, 7) \in Int
                        BY <4>1, FloorInt
                    <5> QED BY <5>1
                <4>3. begin = (Floor((wall \div Day) + 3, 7) - 3) * Day
                    BY <1>2, <3>2 DEF WeekStart
                <4> QED BY <4>2, <4>3
            <3> QED BY <1>3, <3>1, <3>2
        <2>2. DatesGoOn(zone)
            BY <1>3 DEF RegularFor
        <2>3. PICK date \in Int : begin = date * Day
            BY <2>1
        <2>4. ~ (zone.at + zone.before <= date * Day /\ date * Day < zone.at + zone.after)
            BY <2>2 DEF DatesGoOn
        <2>5. begin - zone.before < zone.at \/ begin - zone.after >= zone.at
            BY <1>1, <1>2, <2>3, <2>4
        <2>6. \/ Local(zone, begin - zone.before) = begin
              \/ Local(zone, begin - zone.after) = begin
            BY <1>1, <1>2, <2>5 DEF Local, Offset
        <2> QED BY <2>6 DEF Instants
    <1>4. CASE plan.unit = "minutes"
        <2> DEFINE c == zone.at + zone.after
        <2>1. plan.minutes \in Nat \ {0} /\ LocalBucket(plan.minutes, c) = c /\ c \in Int
            BY <1>1, <1>4 DEF PlanType, RegularFor, InStep
        <2>2. begin = LocalBucket(plan.minutes, wall)
            BY <1>2, <1>4
        <2>3. begin <= wall /\ (c <= wall => c <= begin)
            <3> HIDE DEF c
            <3>1. begin <= wall
                <4>1. wall <= wall
                    BY <1>2
                <4> QED BY <1>2, <2>1, <2>2, <4>1, LocalBucketAscends
            <3>2. c <= wall => c <= begin
                BY <1>2, <2>1, <2>2, LocalBucketAscends
            <3> QED BY <3>1, <3>2
        <2>4. wall = t + (IF t < zone.at THEN zone.before ELSE zone.after)
            BY <1>2 DEF Local, Offset
        <2>5. begin - zone.before < zone.at \/ begin - zone.after >= zone.at
            BY <1>1, <1>2, <2>3, <2>4
        <2>6. \/ Local(zone, begin - zone.before) = begin
              \/ Local(zone, begin - zone.after) = begin
            BY <1>1, <1>2, <2>5 DEF Local, Offset
        <2> QED BY <2>6 DEF Instants
    <1> QED BY <1>3, <1>4 DEF PlanType
-----------------------------------------------------------------------------
(* The calls of the history router *)

\* the plans that a request may need
Plans ==
    {None, Daily, Weekly} \union {Plan("minutes", r.minutes) : r \in Intraday(Requests)}

LEMMA PlansAre ==
    ASSUME NEW plan \in Plans
    PROVE  plan = None \/ plan \in PlanType
    <1>1. Daily \in PlanType /\ Weekly \in PlanType
        BY DEF Daily, Weekly, Plan, PlanType
    <1>2. ASSUME NEW r \in Intraday(Requests) PROVE Plan("minutes", r.minutes) \in PlanType
        BY RequestsAssumption DEF Intraday, Plan, PlanType
    <1> QED BY <1>1, <1>2 DEF Plans

LEMMA CollectedType ==
    ASSUME NEW plan \in Plans, NEW r \in Responses
    PROVE  /\ Collected(plan, r).response \in ResponseType
           /\ Collected(plan, r).mixed \in BOOLEAN
           /\ r.candles # <<>> /\ ~Collected(plan, r).mixed =>
                  Collected(plan, r).response.candles # <<>>
    <1>1. r \in ResponseType
        BY ResponsesAssumption
    <1>2. CASE plan = None
        BY <1>1, <1>2 DEF Collected
    <1>3. CASE plan # None
        <2> DEFINE out == Resampled(plan, r.meta, r.candles).out
        <2>1. /\ out \in Seq(CandleType) /\ Resampled(plan, r.meta, r.candles).mixed \in BOOLEAN
              /\ r.candles # <<>> /\ ~Resampled(plan, r.meta, r.candles).mixed => out # <<>>
            <3>1. plan \in PlanType /\ r.meta \in MetaType /\ r.candles \in Seq(CandleType)
                BY <1>1, <1>3, PlansAre DEF ResponseType
            <3> QED BY <3>1, ResampledType
        <2>2. Collected(plan, r) = [mixed |-> Resampled(plan, r.meta, r.candles).mixed,
                                    response |-> [r EXCEPT !.candles = out]]
            BY <1>3 DEF Collected
        <2> HIDE DEF out
        <2> DEFINE mixed == Resampled(plan, r.meta, r.candles).mixed
                   x == [r EXCEPT !.candles = out]
        <2>3. x \in ResponseType /\ x.candles = out
            BY <1>1, <2>1 DEF ResponseType
        <2>4. Collected(plan, r).response = x /\ Collected(plan, r).mixed = mixed
            BY <2>2
        <2> HIDE DEF x, mixed
        <2> QED BY <2>1, <2>3, <2>4 DEF mixed
    <1> QED BY <1>2, <1>3

\* The plan of a task is one that the request may need.
LEMMA EffectivePlan ==
    ASSUME NEW S, NEW r \in Requests, Effective(S, r) # None
    PROVE  Effective(S, r).plan \in Plans
    <1>1. Daily \in Plans /\ Weekly \in Plans /\ None \in Plans
        BY DEF Plans
    <1>2. r.kind = "intraday" => Plan("minutes", r.minutes) \in Plans
        BY DEF Intraday, Plans
    <1> DEFINE ask(i, p) == [interval |-> i, plan |-> p]
               from(T, p) == IF T = {} THEN None ELSE ask(Coarsest(T), p)
    <1>3. ASSUME NEW T, NEW p \in Plans PROVE from(T, p) = None \/ from(T, p).plan \in Plans
        OBVIOUS
    <1>4. ASSUME NEW i, NEW p \in Plans PROVE ask(i, p).plan \in Plans
        OBVIOUS
    <1>5. \/ Effective(S, r) = ask(r, None)
          \/ r.kind = "intraday" /\ Effective(S, r) = from(Divisors(S, r), Plan("minutes", r.minutes))
          \/ Effective(S, r) = from(Intraday(S), Daily)
          \/ \E d : Effective(S, r) = ask(d, Weekly)
          \/ Effective(S, r) = from(Intraday(S), Weekly)
        <2> HIDE DEF ask, from
        <2>1. CASE r \in S
            BY <2>1 DEF Effective, ask
        <2>2. CASE r \notin S /\ r.kind = "intraday"
            BY <2>2 DEF Effective, ask, from
        <2>3. CASE r \notin S /\ r.kind = "D1"
            BY <2>3 DEF Effective, ask, from
        <2>4. CASE r \notin S /\ r.kind = "W1"
            BY <2>4 DEF Effective, ask, from
        <2>5. CASE r \notin S /\ r.kind \notin {"intraday", "D1", "W1"}
            BY <2>5 DEF Effective, ask, from
        <2> QED BY <2>1, <2>2, <2>3, <2>4, <2>5
    <1> HIDE DEF ask, from
    <1> QED BY <1>1, <1>2, <1>3, <1>4, <1>5

Finals == {Settled(kind) : kind \in Errors \union {"notfound"}}

TaskOK(t) ==
    \/ t = Idle
    \/ t.kind = "asked" /\ t.plan \in Plans
    \/ t \in Finals
    \/ /\ t.kind = "series" /\ t.plan \in Plans /\ t.response \in Responses
       /\ t.provided = Collected(t.plan, t.response)

TasksOK ==
    /\ tasks = [c \in Connectors |-> tasks[c]]
    /\ \A c \in Connectors : TaskOK(tasks[c]) /\ (c \notin eligible => tasks[c] = Idle)

\* Fallback asks a connector when those before it have ended without candles.
InTurn ==
    ~config.deep => \A c, d \in eligible :
        d < c /\ tasks[c] # Idle => d \notin Open /\ ~HasCandles(d)

Over == Open = {} \/ (~config.deep /\ \E c \in eligible : HasCandles(c))

ResultOK ==
    result # None => result.kind = "request_timeout" \/ (Over /\ result \in Outcomes)

CallOK ==
    /\ config \in Configs /\ request \in Requests /\ eligible \in Eligibles
    /\ TasksOK /\ InTurn /\ ResultOK

LEMMA TaskKind ==
    ASSUME NEW t, TaskOK(t)
    PROVE  /\ t.kind \in TaskKinds
           /\ t.kind = "idle" <=> t = Idle
           /\ t.kind = "asked" => t.plan \in Plans
           /\ t.kind = "series" => /\ t.plan \in Plans /\ t.response \in Responses
                                   /\ t.provided = Collected(t.plan, t.response)
    BY DEF TaskOK, TaskKinds, Finals, Settled, Errors, Idle

LEMMA EligiblesAre ==
    ASSUME eligible \in Eligibles
    PROVE  eligible \subseteq Connectors /\ Connectors \subseteq Nat /\ IsFiniteSet(eligible)
    <1>1. eligible \subseteq Connectors /\ IsFiniteSet(Connectors)
        BY ConnectorsAssumption
    <1>2. Cardinality(Connectors) \in Nat
        BY <1>1, FS_CardinalityType
    <1>3. 1..Cardinality(Connectors) \subseteq Nat
        BY <1>2
    <1>4. IsFiniteSet(eligible)
        BY <1>1, FS_Subset
    <1> QED BY <1>1, <1>3, <1>4, ConnectorsAssumption

\* The task of an open connector changes, and none is left idle.
LEMMA TaskStep ==
    ASSUME CallOK, result = None, UNCHANGED <<config, request, eligible, result>>,
           NEW c \in eligible, NEW t, tasks' = [tasks EXCEPT ![c] = t],
           TaskOK(t), t # Idle,
           \/ tasks[c].kind = "asked"
           \/ /\ tasks[c] = Idle /\ t.kind # "series"
              /\ ~config.deep => \A d \in eligible : d < c => d \notin Open /\ ~HasCandles(d)
    PROVE  CallOK'
    <1>1. eligible \subseteq Connectors /\ Connectors \subseteq Nat
        BY EligiblesAre DEF CallOK
    <1>2. /\ DOMAIN tasks = Connectors
          /\ \A d \in Connectors : tasks'[d] = IF d = c THEN t ELSE tasks[d]
          /\ tasks' = [d \in Connectors |-> tasks'[d]]
        BY <1>1 DEF CallOK, TasksOK
    <1>3. TasksOK'
        <2>1. \A d \in Connectors : TaskOK(tasks'[d])
            BY <1>2 DEF CallOK, TasksOK
        <2>2. \A d \in Connectors : d \notin eligible' => tasks'[d] = Idle
            BY <1>2 DEF CallOK, TasksOK
        <2> QED BY <1>2, <2>1, <2>2 DEF TasksOK
    <1>4. c \in Open
        BY DEF Open, Idle
    <1>5. ASSUME NEW d \in eligible, d # c
          PROVE  /\ d \in Open' <=> d \in Open
                 /\ HasCandles(d)' <=> HasCandles(d)
        BY <1>1, <1>2, <1>5 DEF Open, HasCandles
    <1>6. ASSUME ~config.deep, NEW a \in eligible, NEW d \in eligible, d < a, tasks'[a] # Idle
          PROVE  d \notin Open' /\ ~HasCandles(d)'
        <2>1. CASE d = c
            <3>1. a # c /\ tasks[a] # Idle
                BY <1>1, <1>2, <1>6, <2>1
            <3> QED BY <1>4, <1>6, <2>1, <3>1 DEF CallOK, InTurn
        <2>2. CASE d # c /\ a = c
            <3>1. d \notin Open /\ ~HasCandles(d)
                <4>1. CASE tasks[c].kind = "asked"
                    BY <1>6, <2>2, <4>1 DEF CallOK, InTurn, Idle
                <4>2. CASE \A e \in eligible : e < c => e \notin Open /\ ~HasCandles(e)
                    BY <1>6, <2>2, <4>2
                <4> QED BY <1>6, <4>1, <4>2
            <3> QED BY <1>5, <2>2, <3>1
        <2>3. CASE d # c /\ a # c
            <3>1. tasks[a] # Idle
                BY <1>1, <1>2, <1>6, <2>3
            <3>2. d \notin Open /\ ~HasCandles(d)
                BY <1>6, <3>1 DEF CallOK, InTurn
            <3> QED BY <1>5, <2>3, <3>2
        <2> QED BY <2>1, <2>2, <2>3
    <1>7. InTurn'
        BY <1>6 DEF InTurn
    <1>8. ResultOK'
        BY DEF ResultOK
    <1> QED BY <1>3, <1>7, <1>8 DEF CallOK

LEMMA CallInit == Init => CallOK
    <1> SUFFICES ASSUME Init PROVE CallOK
        OBVIOUS
    <1>1. eligible \subseteq Connectors
        BY ConnectorsAssumption DEF Init
    <1>2. TasksOK
        BY DEF Init, TasksOK, TaskOK
    <1>3. InTurn
        BY <1>1 DEF Init, InTurn
    <1> QED BY <1>2, <1>3 DEF Init, CallOK, ResultOK

LEMMA CallStep == CallOK /\ [Next]_vars => CallOK'
    <1> SUFFICES ASSUME CallOK, [Next]_vars PROVE CallOK'
        OBVIOUS
    <1>0. eligible \subseteq Connectors
        BY EligiblesAre DEF CallOK
    <1>1. ASSUME NEW c \in Connectors, Ask(c) PROVE CallOK'
        <2> DEFINE e == Effective(Supports[c], request)
                   t == IF e = None THEN Settled("unsupported")
                        ELSE [kind |-> "asked", plan |-> e.plan]
        <2>1. TaskOK(t) /\ t # Idle /\ t.kind # "series"
            <3>1. e # None => e.plan \in Plans
                BY EffectivePlan DEF CallOK
            <3> HIDE DEF e
            <3> QED BY <3>1 DEF TaskOK, Finals, Settled, Errors, Idle
        <2>2. /\ result = None /\ c \in eligible /\ tasks[c] = Idle
              /\ ~config.deep => \A d \in eligible : d < c => d \notin Open /\ ~HasCandles(d)
              /\ tasks' = [tasks EXCEPT ![c] = t]
              /\ UNCHANGED <<config, request, eligible, result>>
            BY <1>1 DEF Ask
        <2> HIDE DEF t
        <2> QED BY <2>1, <2>2, TaskStep
    <1>2. ASSUME NEW c \in Connectors, tasks[c].kind = "asked"
          PROVE  c \in eligible /\ tasks[c].plan \in Plans /\ tasks = [d \in Connectors |-> tasks[d]]
        <2>1. tasks[c] # Idle /\ TaskOK(tasks[c])
            BY <1>2 DEF Idle, CallOK, TasksOK
        <2> QED BY <1>2, <2>1, TaskKind DEF CallOK, TasksOK
    <1>3. ASSUME NEW c \in Connectors, Answer(c) PROVE CallOK'
        <2>1. c \in eligible /\ tasks[c].plan \in Plans /\ tasks = [d \in Connectors |-> tasks[d]]
            BY <1>2, <1>3 DEF Answer
        <2>2. ASSUME NEW r \in Responses,
                     tasks' = [tasks EXCEPT ![c] = [kind |-> "series", plan |-> @.plan,
                                                    response |-> r,
                                                    provided |-> Collected(@.plan, r)]]
              PROVE  CallOK'
            <3> DEFINE t == [kind |-> "series", plan |-> tasks[c].plan, response |-> r,
                             provided |-> Collected(tasks[c].plan, r)]
            <3>1. tasks' = [tasks EXCEPT ![c] = t]
                BY <2>1, <2>2
            <3>2. TaskOK(t) /\ t # Idle
                BY <2>1 DEF TaskOK, Idle
            <3> HIDE DEF t
            <3> QED BY <1>3, <2>1, <3>1, <3>2, TaskStep DEF Answer
        <2>3. ASSUME NEW error \in {"notfound", "failed"},
                     tasks' = [tasks EXCEPT ![c] = Settled(error)]
              PROVE  CallOK'
            <3>1. TaskOK(Settled(error)) /\ Settled(error) # Idle
                BY DEF TaskOK, Finals, Settled, Errors, Idle
            <3> QED BY <1>3, <2>1, <2>3, <3>1, TaskStep DEF Answer
        <2> QED BY <1>3, <2>2, <2>3 DEF Answer
    <1>4. ASSUME NEW c \in Connectors, TimeOut(c) PROVE CallOK'
        <2>1. TaskOK(Settled("timeout")) /\ Settled("timeout") # Idle
            BY DEF TaskOK, Finals, Settled, Errors, Idle
        <2>2. c \in eligible
            BY <1>2, <1>4 DEF TimeOut
        <2> QED BY <1>4, <2>1, <2>2, TaskStep DEF TimeOut
    <1>5. CASE Deadline
        BY <1>5 DEF Deadline, CallOK, TasksOK, InTurn, ResultOK, Open, HasCandles
    <1>6. ASSUME UNCHANGED <<config, request, eligible, tasks>>
          PROVE  /\ (CallOK /\ (result' # None => Over /\ result' \in Outcomes)) => CallOK'
                 /\ Open' = Open
        <2>1. Open' = Open /\ \A c : HasCandles(c)' <=> HasCandles(c)
            BY <1>6 DEF Open, HasCandles
        <2>2. Over' <=> Over
            BY <1>6, <2>1 DEF Over
        <2>3. Outcomes' = Outcomes
            <3>1. Joined' = Joined /\ Usable' = Usable /\ Failing' = Failing /\ Used' = Used
                BY <1>6 DEF Joined, Usable, Failing, Used, HasCandles, Provided
            <3>2. Succeeding' = Succeeding
                BY <1>6, <3>1 DEF Succeeding, Provided, Merging, Resolved, FinalPlan
            <3> QED BY <1>6, <3>1, <3>2 DEF Outcomes
        <2> QED BY <1>6, <2>1, <2>2, <2>3 DEF CallOK, TasksOK, InTurn, ResultOK
    <1>7. CASE Finish
        <2>1. UNCHANGED <<config, request, eligible, tasks>> /\ Over /\ result' \in Outcomes
            BY <1>7 DEF Finish, Over
        <2> QED BY <1>6, <2>1
    <1>8. CASE UNCHANGED vars
        <2>1. UNCHANGED <<config, request, eligible, tasks>> /\ result' = result
            BY <1>8 DEF vars
        <2>2. Open' = Open /\ \A c : HasCandles(c)' <=> HasCandles(c)
            BY <2>1 DEF Open, HasCandles
        <2>3. CASE result = None
            BY <1>6, <2>1, <2>3
        <2>4. CASE result # None /\ result.kind = "request_timeout"
            BY <2>1, <2>2, <2>4 DEF CallOK, TasksOK, InTurn, ResultOK
        <2>5. CASE result # None /\ result.kind # "request_timeout"
            BY <1>6, <2>1, <2>5 DEF CallOK, ResultOK
        <2> QED BY <2>3, <2>4, <2>5
    <1> QED BY <1>1, <1>3, <1>4, <1>5, <1>7, <1>8 DEF Next, Returned
-----------------------------------------------------------------------------
(* Errors are true *)

LEMMA ResolvedKind ==
    ASSUME NEW merged, NEW spans
    PROVE  Resolved(merged, spans).kind \in {"series", "data"}
    BY DEF Resolved

LEMMA SucceedingKinds ==
    ASSUME NEW o \in Succeeding
    PROVE  o.kind \in {"series", "data", "mixed"}
    <1> DEFINE used == [k \in DOMAIN Used |->
                           [name |-> Used[k], response |-> Provided(Used[k]).response]]
               one == Resolved(used[1].response,
                        Attribution(<<[name |-> used[1].name,
                                       candles |-> used[1].response.candles]>>))
    <1>1. \/ Len(used) = 1 /\ o = one
          \/ Len(used) # 1 /\ o \in Merging(used)
        BY SMTT(30) DEF Succeeding
    <1>2. CASE o = one
        BY <1>2, ResolvedKind
    <1>3. CASE o \in Merging(used)
        <2> HIDE DEF used
        <2> DEFINE m == Merged([k \in DOMAIN used |-> used[k].response])
                   names == [k \in DOMAIN used |->
                               [name |-> used[k].name, candles |-> used[k].response.candles]]
        <2>1. \/ \E k \in Blamed(names) : o = [kind |-> "mixed", blamed |-> used[k].name]
              \/ o = Resolved(MergedResponse(m), Attribution(names))
            <3> HIDE DEF names
            <3> QED BY <1>3 DEF Merging, names
        <2> HIDE DEF m, names
        <2> QED BY <2>1, ResolvedKind
    <1> QED BY <1>1, <1>2, <1>3

\* Where the call is over nobody that was asked has still to answer.
LEMMA OverMeansAnswered ==
    ASSUME CallOK, Over
    PROVE  /\ \A c \in Joined : tasks[c].kind \in TaskKinds \ {"idle", "asked"}
           /\ eligible # {} => Joined # {}
           /\ config.deep => Joined = eligible
    <1>1. eligible \subseteq Connectors /\ Connectors \subseteq Nat
        BY EligiblesAre DEF CallOK
    <1>2. \A c \in eligible : /\ tasks[c].kind \in TaskKinds
                              /\ tasks[c].kind = "idle" <=> tasks[c] = Idle
        BY <1>1, TaskKind DEF CallOK, TasksOK
    <1>3. CASE Open = {}
        <2>1. \A c \in eligible : tasks[c].kind \notin {"idle", "asked"}
            BY <1>3 DEF Open
        <2> QED BY <1>2, <2>1 DEF Joined
    <1>4. CASE ~config.deep /\ \E c \in eligible : HasCandles(c)
        <2>1. PICK c \in eligible : HasCandles(c)
            BY <1>4
        <2>2. tasks[c].kind = "series" /\ c \in Joined /\ c \notin Open
            BY <1>2, <2>1 DEF HasCandles, Joined, Open
        <2>3. ASSUME NEW d \in Joined PROVE tasks[d].kind \notin {"idle", "asked"}
            <3>1. d \in eligible /\ tasks[d] # Idle /\ c \in Int /\ d \in Int
                BY <1>1 DEF Joined
            <3>2. CASE d = c
                BY <2>2, <3>2
            <3>3. CASE c < d
                BY <1>4, <2>1, <3>1, <3>3 DEF CallOK, InTurn
            <3>4. CASE d < c
                <4>1. tasks[c] # Idle
                    BY <2>2 DEF Joined
                <4>2. d \notin Open
                    BY <1>4, <3>1, <3>4, <4>1 DEF CallOK, InTurn
                <4> QED BY <3>1, <4>2 DEF Open
            <3> QED BY <3>1, <3>2, <3>3, <3>4
        <2> QED BY <1>2, <1>4, <2>2, <2>3 DEF Joined
    <1> QED BY <1>3, <1>4 DEF Over

\* The error returned says what the connectors answered.
LEMMA ErrorsAreTrue ==
    ASSUME CallOK, result # None, result.kind \in {"notfound", "all_timed_out", "all_failed"},
           NEW found, found = [c \in Joined |-> /\ tasks[c].kind \in {"notfound", "series"}
                                                /\ ~HasCandles(c)]
    PROVE  /\ config.deep => Joined = eligible
           /\ result.kind = "notfound" <=> \A c \in Joined : found[c]
           /\ result.kind = "all_timed_out" <=> \A c \in Joined : tasks[c].kind = "timeout"
           /\ result.kind = "all_failed" => result.failing = {c \in Joined : ~found[c]}
           /\ Usable = {}
    <1>1. Over /\ result \in Outcomes
        BY DEF CallOK, ResultOK
    <1>2. eligible # {} /\ Usable = {}
        <2>1. CASE eligible = {}
            BY <1>1, <2>1 DEF Outcomes
        <2>2. CASE eligible # {} /\ Usable # {}
            <3>1. result \in Succeeding
                BY <1>1, <2>2 DEF Outcomes
            <3> QED BY <3>1, SucceedingKinds
        <2> QED BY <2>1, <2>2
    <1>3. /\ \A c \in Joined : tasks[c].kind \in TaskKinds \ {"idle", "asked"}
          /\ Joined # {}
          /\ config.deep => Joined = eligible
        BY <1>1, <1>2, OverMeansAnswered
    <1>4. \A c \in Joined : HasCandles(c) => tasks[c].kind = "series"
        BY DEF HasCandles
    <1>5. Failing = {c \in Joined : ~found[c]}
        <2>1. ASSUME NEW c \in Joined
              PROVE  (\/ tasks[c].kind \in Errors
                      \/ HasCandles(c) /\ c \notin Usable) <=> ~found[c]
            <3>1. found[c] = (tasks[c].kind \in {"notfound", "series"} /\ ~HasCandles(c))
                OBVIOUS
            <3>2. c \notin Usable
                BY <1>2
            <3>3. tasks[c].kind \in {"unsupported", "failed", "timeout", "notfound", "series"}
                BY <1>3 DEF TaskKinds, Errors
            <3>4. CASE HasCandles(c)
                BY <3>1, <3>2, <3>4
            <3>5. CASE ~HasCandles(c)
                BY <3>1, <3>3, <3>5 DEF Errors
            <3> QED BY <3>4, <3>5
        <2> QED BY <2>1 DEF Failing
    <1>6. \A c \in Joined : tasks[c].kind = "timeout" => ~found[c]
        OBVIOUS
    <1>7. CASE Failing = {}
        <2>1. result = [kind |-> "notfound"]
            BY <1>1, <1>2, <1>7 DEF Outcomes
        <2>2. \A c \in Joined : found[c]
            BY <1>5, <1>7
        <2> QED BY <1>2, <1>3, <1>6, <2>1, <2>2
    <1>8. CASE Failing # {}
        <2>1. result \in IF \A c \in Joined : tasks[c].kind = "timeout"
                         THEN {[kind |-> "all_timed_out"]}
                         ELSE {[kind |-> "all_failed", failing |-> Failing]}
            BY <1>1, <1>2, <1>8 DEF Outcomes
        <2>2. ~ \A c \in Joined : found[c]
            BY <1>5, <1>8
        <2>3. CASE \A c \in Joined : tasks[c].kind = "timeout"
            <3>1. result = [kind |-> "all_timed_out"]
                BY <2>1, <2>3
            <3> QED BY <1>2, <1>3, <2>2, <2>3, <3>1
        <2>4. CASE ~ \A c \in Joined : tasks[c].kind = "timeout"
            <3>1. result = [kind |-> "all_failed", failing |-> Failing]
                BY <2>1, <2>4
            <3> QED BY <1>2, <1>3, <1>5, <2>2, <2>4, <3>1
        <2> QED BY <2>3, <2>4
    <1> QED BY <1>7, <1>8
-----------------------------------------------------------------------------
(* The connectors used *)

\* Those used are the usable ones of one kind of adjustedness.
UsedAs(U, a) ==
    /\ a \in BOOLEAN /\ U = {c \in Usable : Provided(c).response.adjusted = a}
    /\ U # {} /\ Used = Ascending(U)

LEMMA UsableIs ==
    ASSUME CallOK, NEW c \in Usable
    PROVE  /\ c \in eligible /\ c \in Connectors /\ c \in Nat
           /\ Provided(c).response \in ResponseType
           /\ Provided(c).response.candles # <<>>
    <1>1. eligible \subseteq Connectors /\ Connectors \subseteq Nat
        BY EligiblesAre DEF CallOK
    <1>2. c \in eligible /\ HasCandles(c) /\ ~Provided(c).mixed
        BY DEF Usable, Joined
    <1>3. TaskOK(tasks[c]) /\ tasks[c].kind = "series" /\ tasks[c].response.candles # <<>>
        BY <1>1, <1>2 DEF CallOK, TasksOK, HasCandles
    <1>4. /\ tasks[c].plan \in Plans /\ tasks[c].response \in Responses
          /\ tasks[c].provided = Collected(tasks[c].plan, tasks[c].response)
        BY <1>3, TaskKind
    <1> QED BY <1>1, <1>2, <1>3, <1>4, CollectedType DEF Provided

LEMMA UsedIs ==
    ASSUME CallOK, Usable # {}
    PROVE  \E U, a : UsedAs(U, a)
    <1> DEFINE adjusted == {c \in Usable : Provided(c).response.adjusted}
               first == CHOOSE c \in Usable : \A d \in Usable : c <= d
    <1>1. \A c \in Usable : Provided(c).response.adjusted \in BOOLEAN
        BY UsableIs DEF ResponseType
    <1>2. /\ adjusted = {c \in Usable : Provided(c).response.adjusted = TRUE}
          /\ Usable \ adjusted = {c \in Usable : Provided(c).response.adjusted = FALSE}
        BY <1>1
    <1>3. first \in Usable
        <2>1. Usable \in SUBSET Nat
            BY UsableIs
        <2>2. \E c \in Usable : \A d \in Usable : c <= d
            BY <2>1, LeastNatural
        <2> QED BY <2>2
    <1>4. Used = Ascending(CASE config.prefer_adjusted /\ adjusted # {} -> adjusted
                             [] config.prefer_adjusted /\ adjusted = {} -> Usable
                             [] OTHER -> IF first \in adjusted THEN adjusted ELSE Usable \ adjusted)
        BY DEF Used
    <1> HIDE DEF adjusted, first
    <1>5. CASE config.prefer_adjusted /\ adjusted # {}
        <2>1. Used = Ascending(adjusted)
            BY <1>4, <1>5
        <2>2. UsedAs(adjusted, TRUE)
            BY <1>2, <1>5, <2>1 DEF UsedAs
        <2> QED BY <2>2
    <1>6. CASE config.prefer_adjusted /\ adjusted = {}
        <2>1. Used = Ascending(Usable)
            BY <1>4, <1>6
        <2>2. UsedAs(Usable, FALSE)
            BY <1>2, <1>6, <2>1 DEF UsedAs
        <2> QED BY <2>2
    <1>7. CASE ~config.prefer_adjusted /\ first \in adjusted
        <2>1. Used = Ascending(adjusted)
            BY <1>4, <1>7
        <2>2. UsedAs(adjusted, TRUE)
            BY <1>2, <1>7, <2>1 DEF UsedAs
        <2> QED BY <2>2
    <1>8. CASE ~config.prefer_adjusted /\ first \notin adjusted
        <2>1. Used = Ascending(Usable \ adjusted)
            BY <1>4, <1>8
        <2>2. UsedAs(Usable \ adjusted, FALSE)
            BY <1>2, <1>3, <1>8, <2>1 DEF UsedAs
        <2> QED BY <2>2
    <1> QED BY <1>5, <1>6, <1>7, <1>8

LEMMA UsedList ==
    ASSUME CallOK, NEW U, NEW a, UsedAs(U, a)
    PROVE  /\ U \subseteq Usable /\ IsFiniteSet(U) /\ U \in SUBSET Nat
           /\ Used \in Seq(U) /\ Used # <<>> /\ Len(Used) = Cardinality(U)
           /\ DOMAIN Used = 1..Len(Used)
           /\ \A i, j \in DOMAIN Used : i < j => Used[i] < Used[j]
           /\ \A c \in U : \E k \in DOMAIN Used : Used[k] = c
    <1>1. U \subseteq Usable
        BY DEF UsedAs
    <1>2. U \in SUBSET Nat /\ IsFiniteSet(U) /\ U \in SUBSET Int
        <2>1. U \subseteq eligible /\ U \in SUBSET Nat
            BY <1>1, UsableIs
        <2>2. IsFiniteSet(eligible)
            BY EligiblesAre DEF CallOK
        <2>3. IsFiniteSet(U)
            BY <2>1, <2>2, FS_Subset
        <2> QED BY <2>1, <2>3
    <1>3. /\ Ascending(U) \in [1..Cardinality(U) -> U]
          /\ \A i, j \in 1..Cardinality(U) : i < j => Ascending(U)[i] < Ascending(U)[j]
          /\ \A x \in U : \E k \in 1..Cardinality(U) : Ascending(U)[k] = x
        BY <1>2, AscendingIs
    <1>4. Used = Ascending(U) /\ U # {}
        BY DEF UsedAs
    <1>5. Cardinality(U) \in Nat
        BY <1>2, FS_CardinalityType
    <1>6. Used \in [1..Cardinality(U) -> U]
        BY <1>3, <1>4
    <1>7. Used \in Seq(U) /\ Len(Used) = Cardinality(U) /\ DOMAIN Used = 1..Cardinality(U)
        BY <1>5, <1>6
    <1>8. \A i, j \in DOMAIN Used : i < j => Used[i] < Used[j]
        BY <1>3, <1>4, <1>7
    <1>9. \A c \in U : \E k \in DOMAIN Used : Used[k] = c
        BY <1>3, <1>4, <1>7
    <1>10. Used # <<>>
        BY <1>4, <1>7, <1>9
    <1> QED BY <1>1, <1>2, <1>7, <1>8, <1>9, <1>10
-----------------------------------------------------------------------------
(* Merging *)

MapType == UNION {[D -> CandleType] : D \in SUBSET Int}

MergeType ==
    [map : MapType, cur : STRING \union {None}, mixed : BOOLEAN, adjusted : BOOLEAN,
     meta : MetaType, fallback : MetaType, actions : SUBSET ActionType]

LEMMA MapIs ==
    ASSUME NEW f \in MapType
    PROVE  DOMAIN f \in SUBSET Int /\ f \in [DOMAIN f -> CandleType]
    BY DEF MapType

LEMMA MapIsType ==
    ASSUME NEW D \in SUBSET Int, NEW f \in [D -> CandleType]
    PROVE  f \in MapType
    BY DEF MapType

LEMMA NothingMergedType == NothingMerged \in MergeType
    <1>1. <<>> \in [{} -> CandleType]
        OBVIOUS
    <1>2. <<>> \in MapType
        BY <1>1, MapIsType
    <1>3. None \in MetaType
        BY DEF MetaType
    <1> QED BY <1>2, <1>3 DEF NothingMerged, MergeType

\* all prices of a candle are in this currency
PricedIn(c, cur) == {c.open.cur, c.high.cur, c.low.cur, c.close.cur} = {cur}

\* A candle is taken for a new time only, and what was there stays.
LEMMA MergeCandleIs ==
    ASSUME NEW m \in MergeType, NEW c \in CandleType, NEW n, n = MergeCandle(m, c)
    PROVE  /\ n \in MergeType
           /\ n.adjusted = m.adjusted /\ n.meta = m.meta
           /\ n.fallback = m.fallback /\ n.actions = m.actions
           /\ ~n.mixed => ~m.mixed /\ DOMAIN n.map = DOMAIN m.map \union {c.ts}
           /\ \A t \in DOMAIN m.map : t \in DOMAIN n.map /\ n.map[t] = m.map[t]
           /\ \A t \in DOMAIN n.map \ DOMAIN m.map : t = c.ts /\ n.map[t] = c
           /\ \A cur : PricedIn(c, cur) /\ ~m.mixed /\ m.cur \in {None, cur} =>
                           ~n.mixed /\ n.cur \in {None, cur}
    <1> DEFINE D == DOMAIN m.map \union {c.ts}
               map == [t \in D |-> IF t = c.ts THEN c ELSE m.map[t]]
               spoilt == [m EXCEPT !.mixed = TRUE]
               grown == [m EXCEPT !.map = map, !.cur = c.open.cur]
    <1>1. m.map \in MapType /\ c.ts \in Int /\ c.open.cur \in STRING
        BY DEF MergeType, CandleType, Price
    <1>2. DOMAIN m.map \in SUBSET Int /\ m.map \in [DOMAIN m.map -> CandleType]
        BY <1>1, MapIs
    <1>3. D \in SUBSET Int /\ map \in [D -> CandleType]
        BY <1>1, <1>2
    <1>4. map \in MapType
        <2> HIDE DEF map, D
        <2> QED BY <1>3, MapIsType
    <1>5. CASE m.mixed \/ c.ts \in DOMAIN m.map
        <2>1. n = m
            BY <1>5 DEF MergeCandle
        <2> QED BY <1>5, <2>1
    <1>6. CASE ~ (m.mixed \/ c.ts \in DOMAIN m.map) /\ (~Uniform(c) \/ m.cur \notin {None, c.open.cur})
        <2>1. n = spoilt
            BY <1>6 DEF MergeCandle
        <2>2. spoilt \in MergeType /\ spoilt.mixed /\ spoilt.map = m.map
            BY DEF MergeType
        <2>3. /\ n.adjusted = m.adjusted /\ n.meta = m.meta
              /\ n.fallback = m.fallback /\ n.actions = m.actions
            BY <2>1 DEF MergeType
        <2>4. \A cur : PricedIn(c, cur) => Uniform(c) /\ cur = c.open.cur
            BY DEF PricedIn, Uniform
        <2> HIDE DEF spoilt
        <2> QED BY <1>6, <2>1, <2>2, <2>3, <2>4
    <1>7. CASE ~ (m.mixed \/ c.ts \in DOMAIN m.map) /\ Uniform(c) /\ m.cur \in {None, c.open.cur}
        <2>1. n = grown
            BY <1>7 DEF MergeCandle
        <2> HIDE DEF map
        <2>2. grown \in MergeType /\ grown.mixed = m.mixed /\ grown.map = map /\ grown.cur = c.open.cur
            BY <1>1, <1>4 DEF MergeType
        <2>3. /\ n.adjusted = m.adjusted /\ n.meta = m.meta
              /\ n.fallback = m.fallback /\ n.actions = m.actions
            BY <2>1 DEF MergeType
        <2>4. \A cur : PricedIn(c, cur) => cur = c.open.cur
            BY DEF PricedIn
        <2>5. /\ DOMAIN map = D
              /\ \A t \in DOMAIN m.map : map[t] = m.map[t]
              /\ map[c.ts] = c
            BY <1>7 DEF map
        <2> HIDE DEF grown
        <2> QED BY <1>7, <2>1, <2>2, <2>3, <2>4, <2>5
    <1> QED BY <1>5, <1>6, <1>7

\* The function of the turns that the inner loop of merge_history computes.
CandleTurns(f, m, candles) ==
    f = [i \in 0..Len(candles) |-> IF i = 0 THEN m ELSE MergeCandle(f[i - 1], candles[i])]

LEMMA CandleTurnsExist ==
    ASSUME NEW m \in MergeType, NEW candles \in Seq(CandleType)
    PROVE  \E f : CandleTurns(f, m, candles)
    <1> DEFINE n == Len(candles)
               step == [i \in 1..n |-> [x \in MergeType |-> MergeCandle(x, candles[i])]]
    <1>1. n \in Nat /\ \A i \in 1..n : candles[i] \in CandleType
        OBVIOUS
    <1> HIDE DEF n
    <1>2. step \in [1..n -> [MergeType -> MergeType]]
        BY <1>1, MergeCandleIs
    <1>3. \A i \in 1..n, x \in MergeType : step[i][x] = MergeCandle(x, candles[i])
        OBVIOUS
    <1> HIDE DEF step
    <1>4. PICK f : IsLoop(f, n, MergeType, m, step)
        BY <1>1, <1>2, LoopFunction
    <1>5. \A i \in 0..n : f[i] = IF i = 0 THEN m ELSE MergeCandle(f[i - 1], candles[i])
        <2> TAKE i \in 0..n
        <2>1. CASE i = 0
            BY <1>4, <2>1 DEF IsLoop
        <2>2. CASE i # 0
            <3>1. i \in 1..n /\ i - 1 \in 0..n
                BY <1>1, <2>2
            <3> QED BY <1>3, <1>4, <2>2, <3>1 DEF IsLoop
        <2> QED BY <2>1, <2>2
    <1>6. f = [i \in 0..n |-> f[i]]
        BY <1>4 DEF IsLoop
    <1>7. f = [i \in 0..n |-> IF i = 0 THEN m ELSE MergeCandle(f[i - 1], candles[i])]
        BY <1>5, <1>6
    <1> QED BY <1>7 DEF CandleTurns, n

\* What the inner loop has done after i candles, from m on.
Gathered(x, m, candles, i) ==
    /\ x \in MergeType
    /\ x.adjusted = m.adjusted /\ x.meta = m.meta
    /\ x.fallback = m.fallback /\ x.actions = m.actions
    /\ ~x.mixed => ~m.mixed /\ DOMAIN x.map = DOMAIN m.map \union {candles[k].ts : k \in 1..i}
    /\ \A t \in DOMAIN m.map : t \in DOMAIN x.map /\ x.map[t] = m.map[t]
    /\ \A t \in DOMAIN x.map \ DOMAIN m.map : \E k \in 1..i : candles[k] = x.map[t] /\ candles[k].ts = t
    /\ \A cur : (\A k \in 1..i : PricedIn(candles[k], cur)) /\ ~m.mixed /\ m.cur \in {None, cur} =>
                    ~x.mixed /\ x.cur \in {None, cur}

LEMMA GatheredStart ==
    ASSUME NEW m \in MergeType, NEW candles
    PROVE  Gathered(m, m, candles, 0)
    <1>1. {candles[k].ts : k \in 1..0} = {}
        OBVIOUS
    <1> QED BY <1>1 DEF Gathered

LEMMA GatheredTurn ==
    ASSUME NEW m \in MergeType, NEW candles \in Seq(CandleType), NEW i \in 1..Len(candles),
           NEW x, Gathered(x, m, candles, i - 1), NEW y, y = MergeCandle(x, candles[i])
    PROVE  Gathered(y, m, candles, i)
    <1> DEFINE c == candles[i]
               timesTo(j) == {candles[k].ts : k \in 1..j}
    <1>1. x \in MergeType /\ c \in CandleType /\ y = MergeCandle(x, c)
        BY DEF Gathered
    <1> HIDE DEF c
    <1>2. /\ y \in MergeType
          /\ y.adjusted = x.adjusted /\ y.meta = x.meta
          /\ y.fallback = x.fallback /\ y.actions = x.actions
          /\ ~y.mixed => ~x.mixed /\ DOMAIN y.map = DOMAIN x.map \union {c.ts}
          /\ \A t \in DOMAIN x.map : t \in DOMAIN y.map /\ y.map[t] = x.map[t]
          /\ \A t \in DOMAIN y.map \ DOMAIN x.map : t = c.ts /\ y.map[t] = c
          /\ \A cur : PricedIn(c, cur) /\ ~x.mixed /\ x.cur \in {None, cur} =>
                          ~y.mixed /\ y.cur \in {None, cur}
        BY <1>1, MergeCandleIs
    <1>3. i \in 1..i /\ 1..i = (1..(i - 1)) \union {i}
        OBVIOUS
    <1>4. timesTo(i) = timesTo(i - 1) \union {c.ts}
        BY <1>3 DEF c
    <1> HIDE DEF timesTo
    <1>5. ~y.mixed => ~m.mixed /\ DOMAIN y.map = DOMAIN m.map \union timesTo(i)
        BY <1>2, <1>4 DEF Gathered, timesTo
    <1>6. \A t \in DOMAIN m.map : t \in DOMAIN y.map /\ y.map[t] = m.map[t]
        BY <1>2 DEF Gathered
    <1>7. ASSUME NEW t \in DOMAIN y.map \ DOMAIN m.map
          PROVE  \E k \in 1..i : candles[k] = y.map[t] /\ candles[k].ts = t
        <2>1. CASE t \in DOMAIN x.map
            <3>1. PICK k \in 1..(i - 1) : candles[k] = x.map[t] /\ candles[k].ts = t
                BY <1>7, <2>1 DEF Gathered
            <3> QED BY <1>2, <1>3, <2>1, <3>1
        <2>2. CASE t \notin DOMAIN x.map
            BY <1>2, <1>3, <1>7, <2>2 DEF c
        <2> QED BY <2>1, <2>2
    <1>8. ASSUME NEW cur, \A k \in 1..i : PricedIn(candles[k], cur), ~m.mixed, m.cur \in {None, cur}
          PROVE  ~y.mixed /\ y.cur \in {None, cur}
        <2>1. ~x.mixed /\ x.cur \in {None, cur}
            <3>1. \A k \in 1..(i - 1) : PricedIn(candles[k], cur)
                BY <1>3, <1>8
            <3> QED BY <1>8, <3>1 DEF Gathered
        <2>2. PricedIn(c, cur)
            BY <1>3, <1>8 DEF c
        <2> QED BY <1>2, <2>1, <2>2
    <1> QED BY <1>2, <1>5, <1>6, <1>7, <1>8 DEF Gathered, timesTo

\* What a response adds to what has been merged.
LEMMA MergeResponseIs ==
    ASSUME NEW m \in MergeType, NEW r \in ResponseType
    PROVE  \E x : /\ Gathered(x, m, r.candles, Len(r.candles))
                  /\ MergeResponse(m, r) =
                       [x EXCEPT !.adjusted = @ /\ (DOMAIN x.map # DOMAIN m.map => r.adjusted),
                                 !.meta = IF DOMAIN x.map # DOMAIN m.map /\ @ = None
                                          THEN r.meta ELSE @,
                                 !.fallback = IF @ = None THEN r.meta ELSE @,
                                 !.actions = @ \union ToSet(r.actions)]
    <1> DEFINE candles == r.candles
               n == Len(candles)
               after == CHOOSE f : CandleTurns(f, m, candles)
               T == {i \in 0..n : Gathered(after[i], m, candles, i)}
    <1>1. candles \in Seq(CandleType) /\ n \in Nat
        BY DEF ResponseType
    <1>2. CandleTurns(after, m, candles)
        BY <1>1, CandleTurnsExist
    <1>3. MergeResponse(m, r) =
            LET x == after[n]
            IN  [x EXCEPT !.adjusted = @ /\ (DOMAIN x.map # DOMAIN m.map => r.adjusted),
                          !.meta = IF DOMAIN x.map # DOMAIN m.map /\ @ = None
                                   THEN r.meta ELSE @,
                          !.fallback = IF @ = None THEN r.meta ELSE @,
                          !.actions = @ \union ToSet(r.actions)]
        BY DEF MergeResponse, CandleTurns
    <1> HIDE DEF after, candles, n
    <1>4. /\ after[0] = m
          /\ \A i \in 1..n : after[i] = MergeCandle(after[i - 1], candles[i])
        <2>1. \A i \in 1..n : i \in 0..n /\ i # 0
            BY <1>1
        <2>2. 0 \in 0..n
            BY <1>1
        <2> QED BY <1>2, <2>1, <2>2 DEF CandleTurns, n
    <1>5. 0 \in T
        BY <1>1, <1>4, GatheredStart
    <1>6. ASSUME NEW i \in 1..n, i - 1 \in T PROVE i \in T
        BY <1>1, <1>4, <1>6, GatheredTurn DEF n
    <1>7. n \in T
        <2> HIDE DEF T
        <2>1. 0..n \subseteq T
            BY <1>1, <1>5, <1>6, IntervalInduction
        <2> QED BY <1>1, <2>1
    <1>8. Gathered(after[n], m, r.candles, Len(r.candles))
        BY <1>7 DEF candles, n
    <1> HIDE DEF T
    <1> QED BY <1>3, <1>8
\* What merge_history has done after i responses.
FoundIn(r, t, c) == \E j \in DOMAIN r.candles : r.candles[j] = c /\ c.ts = t

MergedTo(m, responses, i) ==
    /\ m \in MergeType
    /\ ~m.mixed =>
          /\ DOMAIN m.map = UNION {Times(responses[k].candles) : k \in 1..i}
          /\ \A t \in DOMAIN m.map : \E k \in 1..i :
                /\ FoundIn(responses[k], t, m.map[t])
                /\ \A l \in 1..(k - 1) : t \notin Times(responses[l].candles)
    /\ m.actions = UNION {ToSet(responses[k].actions) : k \in 1..i}
    /\ \A a \in BOOLEAN : (\A k \in 1..i : responses[k].adjusted = a) =>
          m.adjusted = IF DOMAIN m.map = {} THEN TRUE ELSE a
    /\ \A cur : (\A k \in 1..i : \A j \in DOMAIN responses[k].candles :
                     PricedIn(responses[k].candles[j], cur)) =>
          ~m.mixed /\ m.cur \in {None, cur}

LEMMA MergedToStart ==
    ASSUME NEW responses
    PROVE  MergedTo(NothingMerged, responses, 0)
    <1>1. /\ NothingMerged \in MergeType /\ NothingMerged.cur = None
          /\ NothingMerged.mixed = FALSE /\ NothingMerged.adjusted = TRUE
          /\ NothingMerged.actions = {} /\ NothingMerged.map = <<>>
        BY NothingMergedType DEF NothingMerged
    <1>2. DOMAIN NothingMerged.map = {}
        BY <1>1
    <1>3. /\ UNION {Times(responses[k].candles) : k \in 1..0} = {}
          /\ UNION {ToSet(responses[k].actions) : k \in 1..0} = {}
        OBVIOUS
    <1> HIDE DEF NothingMerged
    <1> QED BY <1>1, <1>2, <1>3 DEF MergedTo

LEMMA MergedToTurn ==
    ASSUME NEW responses \in Seq(ResponseType), NEW i \in 1..Len(responses),
           NEW m, MergedTo(m, responses, i - 1), NEW y, y = MergeResponse(m, responses[i])
    PROVE  MergedTo(y, responses, i)
    <1> DEFINE r == responses[i]
               n == Len(r.candles)
               times == {r.candles[k].ts : k \in 1..n}
    <1>1. m \in MergeType /\ r \in ResponseType /\ y = MergeResponse(m, r)
        BY DEF MergedTo
    <1>2. /\ r.candles \in Seq(CandleType) /\ n \in Nat /\ DOMAIN r.candles = 1..n
          /\ r.adjusted \in BOOLEAN /\ r.meta \in MetaType /\ ToSet(r.actions) \subseteq ActionType
        <2>1. /\ r.candles \in Seq(CandleType) /\ r.adjusted \in BOOLEAN /\ r.meta \in MetaType
              /\ r.actions \in Seq(ActionType)
            BY <1>1 DEF ResponseType
        <2> QED BY <2>1 DEF ToSet
    <1>3. times = Times(r.candles)
        BY <1>2 DEF Times
    <1>4. /\ \A k \in 1..i : k \in 1..Len(responses)
          /\ 1..i = (1..(i - 1)) \union {i} /\ i \in Nat \ {0} /\ i <= Len(responses)
          /\ Len(responses) \in Nat
        OBVIOUS
    <1> HIDE DEF r, n, times
    <1>5. PICK x : /\ Gathered(x, m, r.candles, Len(r.candles))
                   /\ MergeResponse(m, r) =
                        [x EXCEPT !.adjusted = @ /\ (DOMAIN x.map # DOMAIN m.map => r.adjusted),
                                  !.meta = IF DOMAIN x.map # DOMAIN m.map /\ @ = None
                                           THEN r.meta ELSE @,
                                  !.fallback = IF @ = None THEN r.meta ELSE @,
                                  !.actions = @ \union ToSet(r.actions)]
        BY <1>1, MergeResponseIs
    <1>6. /\ x \in MergeType /\ x.adjusted = m.adjusted /\ x.actions = m.actions
          /\ ~x.mixed => ~m.mixed /\ DOMAIN x.map = DOMAIN m.map \union times
          /\ \A t \in DOMAIN m.map : t \in DOMAIN x.map /\ x.map[t] = m.map[t]
          /\ \A t \in DOMAIN x.map \ DOMAIN m.map :
                \E k \in 1..n : r.candles[k] = x.map[t] /\ r.candles[k].ts = t
          /\ \A cur : (\A k \in 1..n : PricedIn(r.candles[k], cur)) /\ ~m.mixed /\ m.cur \in {None, cur} =>
                          ~x.mixed /\ x.cur \in {None, cur}
        BY <1>5 DEF Gathered, times, n
    <1>7. /\ y \in MergeType /\ y.map = x.map /\ y.mixed = x.mixed /\ y.cur = x.cur
          /\ y.adjusted = (m.adjusted /\ (DOMAIN x.map # DOMAIN m.map => r.adjusted))
          /\ y.actions = m.actions \union ToSet(r.actions)
        <2> DEFINE adjusted == x.adjusted /\ (DOMAIN x.map # DOMAIN m.map => r.adjusted)
                   meta == IF DOMAIN x.map # DOMAIN m.map /\ x.meta = None THEN r.meta ELSE x.meta
                   fallback == IF x.fallback = None THEN r.meta ELSE x.fallback
                   actions == x.actions \union ToSet(r.actions)
        <2>1. adjusted \in BOOLEAN /\ meta \in MetaType /\ fallback \in MetaType
              /\ actions \in SUBSET ActionType
            BY <1>2, <1>6 DEF MergeType
        <2>2. x = [map |-> x.map, cur |-> x.cur, mixed |-> x.mixed, adjusted |-> x.adjusted,
                   meta |-> x.meta, fallback |-> x.fallback, actions |-> x.actions]
            BY <1>6 DEF MergeType
        <2>3. y = [map |-> x.map, cur |-> x.cur, mixed |-> x.mixed, adjusted |-> adjusted,
                   meta |-> meta, fallback |-> fallback, actions |-> actions]
            BY <1>1, <1>5, <2>2
        <2>4. x.map \in MapType /\ x.cur \in STRING \union {None} /\ x.mixed \in BOOLEAN
            BY <1>6 DEF MergeType
        <2>5. adjusted = (m.adjusted /\ (DOMAIN x.map # DOMAIN m.map => r.adjusted))
              /\ actions = m.actions \union ToSet(r.actions)
            BY <1>6
        <2> HIDE DEF adjusted, meta, fallback, actions
        <2> QED BY <2>1, <2>3, <2>4, <2>5 DEF MergeType
    <1>8. y.actions = UNION {ToSet(responses[k].actions) : k \in 1..i}
        <2>1. m.actions = UNION {ToSet(responses[k].actions) : k \in 1..(i - 1)}
            BY DEF MergedTo
        <2> QED BY <1>4, <1>7, <2>1 DEF r
    <1>9. ASSUME ~y.mixed
          PROVE  /\ DOMAIN y.map = UNION {Times(responses[k].candles) : k \in 1..i}
                 /\ \A t \in DOMAIN y.map : \E k \in 1..i :
                        /\ FoundIn(responses[k], t, y.map[t])
                        /\ \A l \in 1..(k - 1) : t \notin Times(responses[l].candles)
        <2>1. ~x.mixed /\ ~m.mixed
            BY <1>6, <1>7, <1>9
        <2>2. /\ DOMAIN m.map = UNION {Times(responses[k].candles) : k \in 1..(i - 1)}
              /\ \A t \in DOMAIN m.map : \E k \in 1..(i - 1) :
                    /\ FoundIn(responses[k], t, m.map[t])
                    /\ \A l \in 1..(k - 1) : t \notin Times(responses[l].candles)
            BY <2>1 DEF MergedTo
        <2>3. DOMAIN y.map = DOMAIN m.map \union Times(r.candles)
            BY <1>3, <1>6, <1>7, <2>1
        <2>4. DOMAIN y.map = UNION {Times(responses[k].candles) : k \in 1..i}
            BY <1>4, <2>2, <2>3 DEF r
        <2>5. ASSUME NEW t \in DOMAIN y.map
              PROVE  \E k \in 1..i :
                        /\ FoundIn(responses[k], t, y.map[t])
                        /\ \A l \in 1..(k - 1) : t \notin Times(responses[l].candles)
            <3>1. CASE t \in DOMAIN m.map
                <4>1. PICK k \in 1..(i - 1) :
                        /\ FoundIn(responses[k], t, m.map[t])
                        /\ \A l \in 1..(k - 1) : t \notin Times(responses[l].candles)
                    BY <2>2, <3>1
                <4>2. y.map[t] = m.map[t] /\ k \in 1..i
                    BY <1>4, <1>6, <1>7, <3>1
                <4> QED BY <4>1, <4>2
            <3>2. CASE t \notin DOMAIN m.map
                <4>1. PICK k \in 1..n : r.candles[k] = y.map[t] /\ r.candles[k].ts = t
                    BY <1>6, <1>7, <3>2
                <4>2. FoundIn(responses[i], t, y.map[t])
                    <5>1. k \in DOMAIN r.candles /\ y.map[t].ts = t
                        BY <1>2, <4>1
                    <5> QED BY <4>1, <5>1 DEF FoundIn, r
                <4>3. \A l \in 1..(i - 1) : t \notin Times(responses[l].candles)
                    BY <2>2, <3>2
                <4>4. i \in 1..i
                    BY <1>4
                <4> QED BY <4>2, <4>3, <4>4
            <3> QED BY <3>1, <3>2
        <2> QED BY <2>4, <2>5
    <1>10. ASSUME NEW a \in BOOLEAN, \A k \in 1..i : responses[k].adjusted = a
           PROVE  y.adjusted = IF DOMAIN y.map = {} THEN TRUE ELSE a
        <2>1. m.adjusted = IF DOMAIN m.map = {} THEN TRUE ELSE a
            BY <1>4, <1>10 DEF MergedTo
        <2>2. r.adjusted = a
            BY <1>4, <1>10 DEF r
        <2>3. DOMAIN m.map \subseteq DOMAIN x.map
            BY <1>6
        <2> QED BY <1>7, <2>1, <2>2, <2>3
    <1>11. ASSUME NEW cur, \A k \in 1..i : \A j \in DOMAIN responses[k].candles :
                     PricedIn(responses[k].candles[j], cur)
           PROVE  ~y.mixed /\ y.cur \in {None, cur}
        <2>1. ~m.mixed /\ m.cur \in {None, cur}
            BY <1>4, <1>11 DEF MergedTo
        <2>2. \A k \in 1..n : PricedIn(r.candles[k], cur)
            BY <1>2, <1>4, <1>11 DEF r
        <2> QED BY <1>6, <1>7, <2>1, <2>2
    <1> QED BY <1>7, <1>8, <1>9, <1>10, <1>11 DEF MergedTo

\* The function of the turns that the outer loop of merge_history computes.
ResponseTurns(f, responses) ==
    f = [i \in 0..Len(responses) |->
            IF i = 0 THEN NothingMerged ELSE MergeResponse(f[i - 1], responses[i])]

LEMMA MergeResponseType ==
    ASSUME NEW m \in MergeType, NEW r \in ResponseType
    PROVE  MergeResponse(m, r) \in MergeType
    <1>1. PICK x : /\ Gathered(x, m, r.candles, Len(r.candles))
                   /\ MergeResponse(m, r) =
                       [x EXCEPT !.adjusted = @ /\ (DOMAIN x.map # DOMAIN m.map => r.adjusted),
                                 !.meta = IF DOMAIN x.map # DOMAIN m.map /\ @ = None
                                          THEN r.meta ELSE @,
                                 !.fallback = IF @ = None THEN r.meta ELSE @,
                                 !.actions = @ \union ToSet(r.actions)]
        BY MergeResponseIs
    <1> DEFINE adjusted == x.adjusted /\ (DOMAIN x.map # DOMAIN m.map => r.adjusted)
               meta == IF DOMAIN x.map # DOMAIN m.map /\ x.meta = None THEN r.meta ELSE x.meta
               fallback == IF x.fallback = None THEN r.meta ELSE x.fallback
               actions == x.actions \union ToSet(r.actions)
    <1>2. x \in MergeType
        BY <1>1 DEF Gathered
    <1>3. r.adjusted \in BOOLEAN /\ r.meta \in MetaType /\ r.actions \in Seq(ActionType)
        BY DEF ResponseType
    <1>4. ToSet(r.actions) \subseteq ActionType
        BY <1>3 DEF ToSet
    <1>5. /\ adjusted \in BOOLEAN /\ meta \in MetaType /\ fallback \in MetaType
          /\ actions \in SUBSET ActionType
        BY <1>2, <1>3, <1>4 DEF MergeType
    <1>6. x = [map |-> x.map, cur |-> x.cur, mixed |-> x.mixed, adjusted |-> x.adjusted,
               meta |-> x.meta, fallback |-> x.fallback, actions |-> x.actions]
        BY <1>2 DEF MergeType
    <1>7. MergeResponse(m, r) =
            [map |-> x.map, cur |-> x.cur, mixed |-> x.mixed, adjusted |-> adjusted,
             meta |-> meta, fallback |-> fallback, actions |-> actions]
        BY <1>1, <1>6
    <1>8. x.map \in MapType /\ x.cur \in STRING \union {None} /\ x.mixed \in BOOLEAN
        BY <1>2 DEF MergeType
    <1> HIDE DEF adjusted, meta, fallback, actions
    <1> QED BY <1>5, <1>7, <1>8 DEF MergeType

LEMMA ResponseTurnsExist ==
    ASSUME NEW responses \in Seq(ResponseType)
    PROVE  \E f : ResponseTurns(f, responses)
    <1> DEFINE n == Len(responses)
               step == [i \in 1..n |-> [m \in MergeType |-> MergeResponse(m, responses[i])]]
    <1>1. n \in Nat /\ \A i \in 1..n : responses[i] \in ResponseType
        OBVIOUS
    <1> HIDE DEF n
    <1>2. step \in [1..n -> [MergeType -> MergeType]]
        BY <1>1, MergeResponseType
    <1>3. \A i \in 1..n, m \in MergeType : step[i][m] = MergeResponse(m, responses[i])
        OBVIOUS
    <1> HIDE DEF step
    <1>4. PICK f : IsLoop(f, n, MergeType, NothingMerged, step)
        BY <1>1, <1>2, NothingMergedType, LoopFunction
    <1>5. \A i \in 0..n : f[i] = IF i = 0 THEN NothingMerged ELSE MergeResponse(f[i - 1], responses[i])
        <2> TAKE i \in 0..n
        <2>1. CASE i = 0
            BY <1>4, <2>1 DEF IsLoop
        <2>2. CASE i # 0
            <3>1. i \in 1..n /\ i - 1 \in 0..n
                BY <1>1, <2>2
            <3> QED BY <1>3, <1>4, <2>2, <3>1 DEF IsLoop
        <2> QED BY <2>1, <2>2
    <1>6. f = [i \in 0..n |-> f[i]]
        BY <1>4 DEF IsLoop
    <1>7. f = [i \in 0..n |-> IF i = 0 THEN NothingMerged ELSE MergeResponse(f[i - 1], responses[i])]
        BY <1>5, <1>6
    <1> QED BY <1>7 DEF ResponseTurns, n

\* What merging several responses yields: each time once, from the first
\* response that has it.
LEMMA MergedIs ==
    ASSUME NEW responses \in Seq(ResponseType)
    PROVE  MergedTo(Merged(responses), responses, Len(responses))
    <1> DEFINE n == Len(responses)
               after == CHOOSE f : ResponseTurns(f, responses)
               T == {i \in 0..n : MergedTo(after[i], responses, i)}
    <1>1. n \in Nat
        OBVIOUS
    <1>2. ResponseTurns(after, responses)
        BY ResponseTurnsExist
    <1>3. Merged(responses) = after[n]
        BY DEF Merged, ResponseTurns
    <1> HIDE DEF after
    <1>4. /\ after[0] = NothingMerged
          /\ \A i \in 1..n : after[i] = MergeResponse(after[i - 1], responses[i])
        <2>1. \A i \in 1..n : i \in 0..n /\ i # 0
            BY <1>1
        <2>2. 0 \in 0..n
            BY <1>1
        <2> QED BY <1>2, <2>1, <2>2 DEF ResponseTurns
    <1>5. 0 \in T
        BY <1>1, <1>4, MergedToStart
    <1>6. ASSUME NEW i \in 1..n, i - 1 \in T PROVE i \in T
        BY <1>1, <1>4, <1>6, MergedToTurn
    <1>7. n \in T
        <2> HIDE DEF T, n
        <2>1. 0..n \subseteq T
            BY <1>1, <1>5, <1>6, IntervalInduction
        <2> QED BY <1>1, <2>1
    <1> QED BY <1>3, <1>7
-----------------------------------------------------------------------------
(* Blame *)

\* What is made of the elements of a finite set is finite.
LEMMA FiniteRange ==
    ASSUME NEW S, IsFiniteSet(S), NEW T, NEW f \in [S -> T], \A t \in T : \E x \in S : f[x] = t
    PROVE  IsFiniteSet(T)
    <1>1. f \in Surjection(S, T)
        BY DEF Surjection
    <1> QED BY <1>1, FS_Surjection

LEMMA TimesFinite ==
    ASSUME NEW candles \in Seq(CandleType)
    PROVE  Times(candles) \in SUBSET Int /\ IsFiniteSet(Times(candles))
    <1>1. IsFiniteSet(DOMAIN candles)
        BY FS_Interval
    <1>2. \A i \in DOMAIN candles : candles[i].ts \in Int
        <2>1. \A i \in DOMAIN candles : candles[i] \in CandleType
            OBVIOUS
        <2> QED BY <2>1 DEF CandleType
    <1> DEFINE f == [i \in DOMAIN candles |-> candles[i].ts]
    <1>3. /\ f \in [DOMAIN candles -> Times(candles)]
          /\ \A t \in Times(candles) : \E i \in DOMAIN candles : f[i] = t
        BY DEF Times
    <1> HIDE DEF f
    <1>4. IsFiniteSet(Times(candles))
        BY <1>1, <1>3, FiniteRange
    <1> QED BY <1>2, <1>4 DEF Times

LEMMA FourFinite ==
    ASSUME NEW a, NEW b, NEW c, NEW d
    PROVE  IsFiniteSet({a, b, c, d})
    <1>1. IsFiniteSet({a})
        BY FS_Singleton
    <1>2. IsFiniteSet({a} \union {b})
        BY <1>1, FS_AddElement
    <1>3. IsFiniteSet(({a} \union {b}) \union {c})
        BY <1>2, FS_AddElement
    <1>4. IsFiniteSet((({a} \union {b}) \union {c}) \union {d})
        BY <1>3, FS_AddElement
    <1>5. {a, b, c, d} = (({a} \union {b}) \union {c}) \union {d}
        OBVIOUS
    <1> QED BY <1>4, <1>5

LEMMA CurrenciesFinite ==
    ASSUME NEW candles \in Seq(CandleType)
    PROVE  IsFiniteSet(Currencies(candles))
    <1> DEFINE of(i) == {candles[i].open.cur, candles[i].high.cur,
                         candles[i].low.cur, candles[i].close.cur}
               T == {of(i) : i \in DOMAIN candles}
               f == [i \in DOMAIN candles |-> of(i)]
    <1>1. IsFiniteSet(DOMAIN candles)
        BY FS_Interval
    <1>2. ASSUME NEW i PROVE IsFiniteSet(of(i))
        BY FourFinite
    <1> HIDE DEF of
    <1>3. f \in [DOMAIN candles -> T] /\ \A t \in T : \E i \in DOMAIN candles : f[i] = t
        OBVIOUS
    <1>4. \A t \in T : IsFiniteSet(t)
        BY <1>2
    <1>5. Currencies(candles) = UNION T
        BY DEF Currencies, of
    <1> HIDE DEF f, T
    <1>6. IsFiniteSet(T)
        BY <1>1, <1>3, FiniteRange
    <1> QED BY <1>4, <1>5, <1>6, FS_UNION

\* Candles of one currency at most are consistent.
LEMMA ConsistentIs ==
    ASSUME NEW candles \in Seq(CandleType), ~Inconsistent(candles),
           NEW x \in Currencies(candles)
    PROVE  Currencies(candles) = {x}
    <1>1. IsFiniteSet(Currencies(candles))
        BY CurrenciesFinite
    <1>2. Cardinality(Currencies(candles)) \in Nat /\ ~ (Cardinality(Currencies(candles)) > 1)
        BY <1>1, FS_CardinalityType DEF Inconsistent
    <1>3. Cardinality(Currencies(candles)) # 0
        BY <1>1, FS_EmptySet
    <1>4. Cardinality(Currencies(candles)) = 1
        BY <1>2, <1>3
    <1> QED BY <1>1, <1>4, FS_Singleton

LEMMA PricedInIs ==
    ASSUME NEW candles, NEW cur, Currencies(candles) \subseteq {cur}, NEW i \in DOMAIN candles
    PROVE  PricedIn(candles[i], cur)
    <1>1. {candles[i].open.cur, candles[i].high.cur, candles[i].low.cur, candles[i].close.cur}
              \subseteq Currencies(candles)
        BY DEF Currencies
    <1> QED BY <1>1 DEF PricedIn

\* One of the series merged is to blame if the merge fails for its currencies:
\* series of one currency, the same for all, do merge.
LEMMA BlameIsTrue ==
    ASSUME CallOK, result # None, result.kind = "mixed"
    PROVE  /\ result.blamed \in ToSet(Used)
           /\ \/ Inconsistent(Provided(result.blamed).response.candles)
              \/ Currencies(Provided(result.blamed).response.candles)
                     # Currencies(Provided(Used[1]).response.candles)
    <1> DEFINE of(k) == Provided(Used[k]).response.candles
               used == [k \in DOMAIN Used |->
                           [name |-> Used[k], response |-> Provided(Used[k]).response]]
               names == [k \in DOMAIN used |->
                           [name |-> used[k].name, candles |-> used[k].response.candles]]
               responses == [k \in DOMAIN used |-> used[k].response]
               m == Merged(responses)
               bad == {k \in DOMAIN names : Inconsistent(names[k].candles)}
               differing == {k \in DOMAIN names :
                                Currencies(names[k].candles) # Currencies(names[1].candles)}
    <1>1. Over /\ result \in Outcomes
        BY DEF CallOK, ResultOK
    <1>2. Usable # {} /\ result \in Succeeding
        BY <1>1 DEF Outcomes
    <1>3. PICK U, a : UsedAs(U, a)
        BY <1>2, UsedIs
    <1>4. /\ U \subseteq Usable /\ Used \in Seq(U) /\ Used # <<>> /\ DOMAIN Used = 1..Len(Used)
          /\ Len(Used) \in Nat
        BY <1>3, UsedList
    <1>5. \A k \in DOMAIN Used : Used[k] \in Usable /\ Provided(Used[k]).response \in ResponseType
        BY <1>4, UsableIs
    <1>6. \A k \in DOMAIN Used : of(k) \in Seq(CandleType)
        BY <1>5 DEF ResponseType
    <1>7. responses = [k \in 1..Len(Used) |-> Provided(Used[k]).response]
          /\ responses \in Seq(ResponseType) /\ Len(responses) = Len(Used)
        BY <1>4, <1>5
    <1>8. /\ DOMAIN used = DOMAIN Used /\ DOMAIN names = DOMAIN Used
          /\ \A k \in DOMAIN Used : used[k].name = Used[k] /\ names[k].candles = of(k)
        OBVIOUS
    <1>9. result \in Merging(used)
        <2> DEFINE one == Resolved(used[1].response,
                        Attribution(<<[name |-> used[1].name,
                                       candles |-> used[1].response.candles]>>))
        <2>1. result = one \/ result \in Merging(used)
            BY <1>2 DEF Succeeding
        <2>2. one.kind # "mixed"
            <3> HIDE DEF used
            <3>1. one.kind \in {"series", "data"}
                BY ResolvedKind
            <3> QED BY <3>1
        <2> HIDE DEF one
        <2> QED BY <2>1, <2>2
    <1> HIDE DEF used
    <1>10. m.mixed /\ \E k \in Blamed(names) : result.blamed = used[k].name
        <2>1. result \in IF m.mixed
                         THEN {[kind |-> "mixed", blamed |-> used[k].name] : k \in Blamed(names)}
                         ELSE {Resolved(MergedResponse(m), Attribution(names))}
            BY <1>9 DEF Merging
        <2> HIDE DEF m, names
        <2>2. Resolved(MergedResponse(m), Attribution(names)).kind # "mixed"
            <3>1. Resolved(MergedResponse(m), Attribution(names)).kind \in {"series", "data"}
                BY ResolvedKind
            <3> QED BY <3>1
        <2> QED BY <2>1, <2>2
    <1>11. PICK k \in Blamed(names) : result.blamed = used[k].name
        BY <1>10
    <1>12. Blamed(names) = CASE bad # {} -> bad
              [] bad = {} /\ differing # {} -> {CHOOSE i \in differing : \A j \in differing : i <= j}
              [] OTHER -> {Len(names)}
        BY DEF Blamed
    <1>13. bad = {i \in DOMAIN Used : Inconsistent(of(i))}
        BY <1>8
    <1>14. differing = {i \in DOMAIN Used : Currencies(of(i)) # Currencies(of(1))}
        <2>1. 1 \in DOMAIN Used
            BY <1>4
        <2> QED BY <1>8, <2>1
    <1>15. ASSUME bad = {}, differing = {} PROVE FALSE
        <2>1. \A i \in DOMAIN Used : ~Inconsistent(of(i)) /\ Currencies(of(i)) = Currencies(of(1))
            BY <1>13, <1>14, <1>15
        <2>2. 1 \in DOMAIN Used
            BY <1>4
        <2>3. \E cur : Currencies(of(1)) \subseteq {cur}
            <3>1. CASE Currencies(of(1)) = {}
                BY <3>1
            <3>2. CASE Currencies(of(1)) # {}
                BY <1>6, <2>1, <2>2, <3>2, ConsistentIs
            <3> QED BY <3>1, <3>2
        <2>4. PICK cur : Currencies(of(1)) \subseteq {cur}
            BY <2>3
        <2>5. \A i \in DOMAIN Used : \A j \in DOMAIN of(i) : PricedIn(of(i)[j], cur)
            BY <2>1, <2>4, PricedInIs
        <2>6. MergedTo(m, responses, Len(responses))
            <3> HIDE DEF responses
            <3> QED BY <1>7, MergedIs
        <2>7. \A i \in 1..Len(responses) : \A j \in DOMAIN responses[i].candles :
                     PricedIn(responses[i].candles[j], cur)
            BY <1>4, <1>7, <2>5
        <2> HIDE DEF m, responses
        <2>8. ~m.mixed
            BY <2>6, <2>7 DEF MergedTo
        <2> QED BY <1>10, <2>8
    <1> HIDE DEF bad, differing, of, m, names, responses
    <1>16. CASE bad # {}
        <2>1. k \in bad
            BY <1>11, <1>12, <1>16
        <2>2. k \in DOMAIN Used /\ Inconsistent(of(k))
            BY <1>13, <2>1
        <2>3. result.blamed = Used[k]
            BY <1>8, <1>11, <2>2
        <2> QED BY <2>2, <2>3 DEF of, ToSet
    <1>17. CASE bad = {} /\ differing # {}
        <2>1. differing \in SUBSET Nat
            BY <1>4, <1>14
        <2>2. \E i \in differing : \A j \in differing : i <= j
            BY <1>17, <2>1, LeastNatural
        <2>3. k = CHOOSE i \in differing : \A j \in differing : i <= j
            BY <1>11, <1>12, <1>17
        <2>4. k \in differing
            BY <2>2, <2>3
        <2>5. k \in DOMAIN Used /\ Currencies(of(k)) # Currencies(of(1))
            BY <1>14, <2>4
        <2>6. result.blamed = Used[k]
            BY <1>8, <1>11, <2>5
        <2> QED BY <2>5, <2>6 DEF of, ToSet
    <1> QED BY <1>15, <1>16, <1>17
\* The error returned is true, whoever answered what and in which order.
LEMMA CallMeansTrueOutcome ==
    ASSUME CallOK PROVE OutcomeIsTrue
    <1>1. ASSUME result # None, result.kind \in {"notfound", "all_timed_out", "all_failed"}
          PROVE  LET found(c) == tasks[c].kind \in {"notfound", "series"} /\ ~HasCandles(c)
                 IN  /\ config.deep => Joined = eligible
                     /\ result.kind = "notfound" <=> \A c \in Joined : found(c)
                     /\ result.kind = "all_timed_out" <=> \A c \in Joined : tasks[c].kind = "timeout"
                     /\ result.kind = "all_failed" => result.failing = {c \in Joined : ~found(c)}
                     /\ Usable = {}
        <2> DEFINE found(c) == tasks[c].kind \in {"notfound", "series"} /\ ~HasCandles(c)
                   f == [c \in Joined |-> found(c)]
        <2>1. f = [c \in Joined |-> tasks[c].kind \in {"notfound", "series"} /\ ~HasCandles(c)]
            OBVIOUS
        <2>2. \A c \in Joined : f[c] = found(c)
            OBVIOUS
        <2> HIDE DEF f
        <2>3. /\ config.deep => Joined = eligible
              /\ result.kind = "notfound" <=> \A c \in Joined : f[c]
              /\ result.kind = "all_timed_out" <=> \A c \in Joined : tasks[c].kind = "timeout"
              /\ result.kind = "all_failed" => result.failing = {c \in Joined : ~f[c]}
              /\ Usable = {}
            BY <1>1, <2>1, ErrorsAreTrue
        <2>4. {c \in Joined : ~f[c]} = {c \in Joined : ~found(c)}
            BY <2>2
        <2> QED BY <2>2, <2>3, <2>4
    <1>2. ASSUME result # None, result.kind = "mixed"
          PROVE  LET candles(c) == Provided(c).response.candles
                 IN  /\ result.blamed \in ToSet(Used)
                     /\ \/ Inconsistent(candles(result.blamed))
                        \/ Currencies(candles(result.blamed)) # Currencies(candles(Used[1]))
        BY <1>2, BlameIsTrue
    <1> QED BY <1>1, <1>2 DEF OutcomeIsTrue

-----------------------------------------------------------------------------
(* The history call within the calls of the router *)

HistoryOK ==
    /\ op = "history" => CallOK /\ query = None /\ calls = None
    /\ op # "history" => result = None

LEMMA HistoryInit == FanInit => HistoryOK
    <1> SUFFICES ASSUME FanInit PROVE HistoryOK
        OBVIOUS
    <1>1. CASE HistoryCall
        BY <1>1, CallInit DEF FanInit, HistoryCall, HistoryOK
    <1>2. CASE OtherCall
        BY <1>2 DEF OtherCall, HistoryOK
    <1> QED BY <1>1, <1>2 DEF FanInit

\* Whatever the call, the history router's state is its own.
LEMMA OthersStep ==
    ASSUME HistoryOK, [FanNext]_allVars
    PROVE  \/ op = "history" /\ Next /\ UNCHANGED fanVars
           \/ UNCHANGED vars /\ op' = op /\ (op = "history" => UNCHANGED fanVars)
    BY DEF FanNext, allVars, fanVars, vars, Building, Configure, SetInstruments, SetRange,
           SetPeriod, Run, Return, JoinDeadline, Enrich, Join, HistoryOK

LEMMA HistoryStep == HistoryOK /\ [FanNext]_allVars => HistoryOK'
    <1> SUFFICES ASSUME HistoryOK, [FanNext]_allVars PROVE HistoryOK'
        OBVIOUS
    <1>1. CASE op = "history" /\ Next /\ UNCHANGED fanVars
        BY <1>1, CallStep DEF HistoryOK, fanVars
    <1>2. CASE UNCHANGED vars /\ op' = op /\ (op = "history" => UNCHANGED fanVars)
        <2>1. op = "history" => CallOK'
            BY <1>2, CallStep DEF HistoryOK
        <2>2. op # "history" => result' = None
            BY <1>2 DEF HistoryOK, vars
        <2> QED BY <1>2, <2>1, <2>2 DEF HistoryOK, fanVars
    <1> QED BY <1>1, <1>2, OthersStep

\* Errors of the history router are true, for any connectors and responses.
THEOREM OutcomesTrue == FanSpec => []OutcomeIsTrue
    <1>1. HistoryOK => OutcomeIsTrue
        <2> SUFFICES ASSUME HistoryOK PROVE OutcomeIsTrue
            OBVIOUS
        <2>1. CASE op = "history"
            BY <2>1, CallMeansTrueOutcome DEF HistoryOK
        <2>2. CASE op # "history"
            BY <2>2 DEF HistoryOK, OutcomeIsTrue
        <2> QED BY <2>1, <2>2
    <1> QED BY HistoryInit, HistoryStep, <1>1, PTL DEF FanSpec
-----------------------------------------------------------------------------
(* Attribution *)

NamedType == [name : Nat, candles : Seq(CandleType)]
SpanType == [name : Nat, start : Int, end : Int]

AllTimes(used) == UNION {Times(used[k].candles) : k \in DOMAIN used}

\* Of those that have a time its owner comes first.
LEMMA OwnerIs ==
    ASSUME NEW used \in Seq(NamedType), NEW t \in AllTimes(used)
    PROVE  \E k \in DOMAIN used : /\ t \in Times(used[k].candles)
                                  /\ \A l \in DOMAIN used : t \in Times(used[l].candles) => k <= l
                                  /\ Owner(used, t) = used[k].name /\ Owner(used, t) \in Nat
    <1> DEFINE having == {k \in DOMAIN used : t \in Times(used[k].candles)}
               first == CHOOSE k \in having : \A j \in having : k <= j
    <1>1. having # {} /\ having \in SUBSET Nat
        BY DEF AllTimes
    <1>2. Owner(used, t) = used[first].name
        BY DEF Owner
    <1>3. first \in having /\ \A j \in having : first <= j
        <2> HIDE DEF having
        <2>1. \E k \in having : \A j \in having : k <= j
            BY <1>1, LeastNatural
        <2> QED BY <2>1
    <1> HIDE DEF first
    <1>4. used[first] \in NamedType
        BY <1>3
    <1>5. used[first].name \in Nat
        BY <1>4 DEF NamedType
    <1> QED BY <1>2, <1>3, <1>5

LEMMA TimesListed ==
    ASSUME NEW used \in Seq(NamedType)
    PROVE  /\ AllTimes(used) \in SUBSET Int /\ IsFiniteSet(AllTimes(used))
           /\ Ascending(AllTimes(used)) \in Seq(AllTimes(used))
           /\ \A i, j \in DOMAIN Ascending(AllTimes(used)) :
                  i < j => Ascending(AllTimes(used))[i] < Ascending(AllTimes(used))[j]
           /\ \A t \in AllTimes(used) :
                  \E k \in DOMAIN Ascending(AllTimes(used)) : Ascending(AllTimes(used))[k] = t
    <1> DEFINE all == AllTimes(used)
               T == {Times(used[k].candles) : k \in DOMAIN used}
               f == [k \in DOMAIN used |-> Times(used[k].candles)]
    <1>1. \A k \in DOMAIN used : used[k].candles \in Seq(CandleType)
        <2>1. \A k \in DOMAIN used : used[k] \in NamedType
            OBVIOUS
        <2> QED BY <2>1 DEF NamedType
    <1>2. \A t \in T : t \in SUBSET Int /\ IsFiniteSet(t)
        BY <1>1, TimesFinite
    <1>3. IsFiniteSet(DOMAIN used)
        BY FS_Interval
    <1>4. f \in [DOMAIN used -> T] /\ \A t \in T : \E k \in DOMAIN used : f[k] = t
        OBVIOUS
    <1>5. all = UNION T
        BY DEF AllTimes
    <1> HIDE DEF f, T, all
    <1>6. IsFiniteSet(T)
        BY <1>3, <1>4, FiniteRange
    <1>7. all \in SUBSET Int /\ IsFiniteSet(all)
        BY <1>2, <1>5, <1>6, FS_UNION
    <1>8. /\ Ascending(all) \in [1..Cardinality(all) -> all]
          /\ \A i, j \in 1..Cardinality(all) : i < j => Ascending(all)[i] < Ascending(all)[j]
          /\ \A x \in all : \E k \in 1..Cardinality(all) : Ascending(all)[k] = x
        BY <1>7, AscendingIs
    <1>9. Cardinality(all) \in Nat
        BY <1>7, FS_CardinalityType
    <1>10. Ascending(all) \in Seq(all) /\ DOMAIN Ascending(all) = 1..Cardinality(all)
        BY <1>8, <1>9
    <1> QED BY <1>7, <1>8, <1>10 DEF all

Covers(s, t) == s.start <= t /\ t <= s.end

\* What build_attribution has done after i of the times.
RunsTo(spans, used, times, i) ==
    /\ spans \in Seq(SpanType)
    /\ i = 0 <=> spans = <<>>
    /\ i > 0 => spans[Len(spans)].end = times[i]
    /\ \A k \in DOMAIN spans : \E a, b \in 1..i : spans[k].start = times[a] /\ spans[k].end = times[b]
    /\ \A j \in 1..i : \E k \in DOMAIN spans : Covers(spans[k], times[j])
    /\ \A j \in 1..i : \A k \in DOMAIN spans :
          Covers(spans[k], times[j]) => spans[k].name = Owner(used, times[j])

LEMMA RunsTurn ==
    ASSUME NEW used \in Seq(NamedType), NEW times \in Seq(AllTimes(used)),
           \A i, j \in DOMAIN times : i < j => times[i] < times[j],
           NEW i \in 1..Len(times), NEW spans, RunsTo(spans, used, times, i - 1)
    PROVE  RunsTo(ExtendRun(used, spans, times[i]), used, times, i)
    <1> DEFINE t == times[i]
               o == Owner(used, t)
               L == Len(spans)
               y == ExtendRun(used, spans, t)
    <1>1. t \in Int /\ o \in Nat /\ AllTimes(used) \subseteq Int
        <2>1. t \in AllTimes(used)
            OBVIOUS
        <2>2. AllTimes(used) \in SUBSET Int
            BY TimesListed
        <2> HIDE DEF t
        <2> QED BY <2>1, <2>2, OwnerIs
    <1>2. /\ spans \in Seq(SpanType) /\ L \in Nat /\ DOMAIN spans = 1..L
          /\ \A k \in 1..L : spans[k] \in SpanType
        <2>1. spans \in Seq(SpanType)
            BY DEF RunsTo
        <2> QED BY <2>1
    <1>3. i - 1 \in Nat /\ 1..i = (1..(i - 1)) \union {i} /\ i \in 1..i /\ Len(times) \in Nat
          /\ i \in Int /\ i > 0
        OBVIOUS
    <1>4. \A j \in 1..(i - 1) : times[j] < t /\ times[j] \in Int /\ j \in 1..i
        <2> TAKE j \in 1..(i - 1)
        <2>1. j \in DOMAIN times /\ i \in DOMAIN times /\ j < i
            OBVIOUS
        <2> QED BY <1>1, <2>1
    <1>5. \A k \in 1..L : /\ spans[k].name \in Nat /\ spans[k].start \in Int /\ spans[k].end \in Int
                          /\ spans[k] = [name |-> spans[k].name, start |-> spans[k].start,
                                         end |-> spans[k].end]
        BY <1>2 DEF SpanType
    <1>6. CASE spans = <<>> \/ spans[L].name # o
        <2> DEFINE s == [name |-> o, start |-> t, end |-> t]
        <2>1. y = Append(spans, s)
            BY <1>6 DEF ExtendRun
        <2>2. s \in SpanType
            BY <1>1 DEF SpanType
        <2>3. /\ y \in Seq(SpanType) /\ Len(y) = L + 1 /\ DOMAIN y = 1..(L + 1)
              /\ \A k \in 1..L : y[k] = spans[k]
              /\ y[L + 1] = s
            <3> HIDE DEF s, y
            <3> QED BY <1>2, <2>1, <2>2
        <2>4. y # <<>>
            BY <1>2, <2>3
        <2>5. 1..(L + 1) = (1..L) \union {L + 1}
            BY <1>2
        <2>6. s.end = t /\ s.start = t /\ s.name = o
            OBVIOUS
        <2> HIDE DEF s, y, t, o, L
        <2>7. \A k \in DOMAIN y : \E a, b \in 1..i : y[k].start = times[a] /\ y[k].end = times[b]
            <3>1. ASSUME NEW k \in 1..L
                  PROVE  \E a, b \in 1..i : y[k].start = times[a] /\ y[k].end = times[b]
                <4>1. PICK a, b \in 1..(i - 1) : spans[k].start = times[a] /\ spans[k].end = times[b]
                    BY <1>2 DEF RunsTo
                <4> QED BY <1>4, <2>3, <4>1
            <3>2. y[L + 1].start = times[i] /\ y[L + 1].end = times[i]
                BY <2>3, <2>6 DEF t
            <3> QED BY <1>3, <2>3, <2>5, <3>1, <3>2
        <2>8. \A j \in 1..i : \E k \in DOMAIN y : Covers(y[k], times[j])
            <3>1. \A j \in 1..(i - 1) : \E k \in 1..L : Covers(y[k], times[j])
                BY <1>2, <2>3 DEF RunsTo
            <3>2. Covers(y[L + 1], times[i])
                BY <1>1, <2>3, <2>6 DEF Covers, t
            <3> QED BY <1>3, <2>3, <2>5, <3>1, <3>2
        <2>9. ASSUME NEW j \in 1..i, NEW k \in DOMAIN y, Covers(y[k], times[j])
              PROVE  y[k].name = Owner(used, times[j])
            <3>1. CASE j = i /\ k = L + 1
                BY <2>3, <2>6, <3>1 DEF o, t
            <3>2. CASE j # i /\ k = L + 1
                <4>1. times[j] < t /\ times[j] \in Int
                    BY <1>3, <1>4, <3>2
                <4>2. t <= times[j]
                    BY <2>3, <2>6, <2>9, <3>2 DEF Covers
                <4> QED BY <1>1, <4>1, <4>2
            <3>3. CASE j = i /\ k # L + 1
                <4>1. k \in 1..L
                    BY <2>3, <2>5, <3>3
                <4>2. PICK b \in 1..(i - 1) : spans[k].end = times[b]
                    BY <1>2, <4>1 DEF RunsTo
                <4>3. spans[k].end < t /\ spans[k].end \in Int
                    BY <1>4, <4>2
                <4>4. t <= spans[k].end
                    BY <2>3, <2>9, <3>3, <4>1 DEF Covers, t
                <4> QED BY <1>1, <4>3, <4>4
            <3>4. CASE j # i /\ k # L + 1
                <4>1. k \in 1..L /\ j \in 1..(i - 1) /\ y[k] = spans[k]
                    BY <1>3, <2>3, <2>5, <3>4
                <4> QED BY <1>2, <2>9, <4>1 DEF RunsTo
            <3> QED BY <3>1, <3>2, <3>3, <3>4
        <2>10. y[Len(y)].end = times[i]
            BY <2>3, <2>6 DEF t
        <2> QED BY <1>3, <2>3, <2>4, <2>7, <2>8, <2>9, <2>10 DEF RunsTo, y, t
    <1>7. CASE spans # <<>> /\ spans[L].name = o
        <2> DEFINE s == [name |-> o, start |-> spans[L].start, end |-> t]
        <2>1. L \in 1..L
            BY <1>2, <1>7
        <2>2. y = [spans EXCEPT ![L] = s]
            <3>1. y = [spans EXCEPT ![L].end = t]
                BY <1>7 DEF ExtendRun
            <3>2. [spans[L] EXCEPT !.end = t] = s
                <4>1. spans[L].name = o /\ spans[L] = [name |-> spans[L].name, start |-> spans[L].start,
                                                       end |-> spans[L].end]
                    BY <1>5, <1>7, <2>1
                <4> HIDE DEF L, t, o
                <4> QED BY <4>1
            <3> HIDE DEF s, y, L, t
            <3> QED BY <3>1, <3>2
        <2>3. s \in SpanType
            BY <1>1, <1>5, <2>1 DEF SpanType
        <2>4. /\ y \in Seq(SpanType) /\ Len(y) = L /\ DOMAIN y = 1..L
              /\ \A k \in 1..L : k # L => y[k] = spans[k]
              /\ y[L] = s /\ y # <<>>
            <3> HIDE DEF s, y
            <3> QED BY <1>2, <1>7, <2>1, <2>2, <2>3
        <2>5. s.end = t /\ s.start = spans[L].start /\ s.name = o
            OBVIOUS
        <2>6. i - 1 > 0 /\ spans[L].end = times[i - 1] /\ i - 1 \in 1..(i - 1)
            BY <1>3, <1>7 DEF RunsTo
        <2> HIDE DEF s, y, t, o, L
        <2>7. PICK a \in 1..(i - 1) : spans[L].start = times[a]
            BY <1>2, <2>1 DEF RunsTo
        <2>8. \A j \in 1..(i - 1) : Covers(y[L], times[j]) <=> Covers(spans[L], times[j])
            <3> TAKE j \in 1..(i - 1)
            <3>1. times[j] < t /\ times[j] \in Int /\ times[i - 1] \in Int
                BY <1>4, <2>6
            <3>2. times[j] <= times[i - 1]
                <4>1. j \in DOMAIN times /\ i - 1 \in DOMAIN times /\ (j = i - 1 \/ j < i - 1)
                    BY <1>3
                <4> QED BY <3>1, <4>1
            <3>3. times[j] <= spans[L].end /\ times[j] <= y[L].end
                BY <1>1, <2>4, <2>5, <2>6, <3>1, <3>2
            <3> QED BY <2>4, <2>5, <3>3 DEF Covers
        <2>9. \A k \in DOMAIN y : \E c, b \in 1..i : y[k].start = times[c] /\ y[k].end = times[b]
            <3>1. ASSUME NEW k \in 1..L, k # L
                  PROVE  \E c, b \in 1..i : y[k].start = times[c] /\ y[k].end = times[b]
                <4>1. PICK c, b \in 1..(i - 1) : spans[k].start = times[c] /\ spans[k].end = times[b]
                    BY <1>2 DEF RunsTo
                <4> QED BY <1>4, <2>4, <3>1, <4>1
            <3>2. y[L].start = times[a] /\ y[L].end = times[i] /\ a \in 1..i
                BY <1>4, <2>4, <2>5, <2>7 DEF t
            <3> QED BY ZenonT(40), <1>3, <2>4, <3>1, <3>2
        <2>10. \A j \in 1..i : \E k \in DOMAIN y : Covers(y[k], times[j])
            <3>1. ASSUME NEW j \in 1..(i - 1) PROVE \E k \in 1..L : Covers(y[k], times[j])
                <4>1. PICK k \in 1..L : Covers(spans[k], times[j])
                    BY <1>2 DEF RunsTo
                <4> QED BY <2>4, <2>8, <4>1
            <3>2. Covers(y[L], times[i])
                <4>1. times[a] < t /\ times[a] \in Int
                    BY <1>4, <2>7
                <4> QED BY SMTT(30), <1>1, <2>4, <2>5, <2>7, <4>1 DEF Covers, t
            <3> QED BY <1>3, <2>1, <2>4, <3>1, <3>2
        <2>11. ASSUME NEW j \in 1..i, NEW k \in DOMAIN y, Covers(y[k], times[j])
               PROVE  y[k].name = Owner(used, times[j])
            <3>1. CASE j = i /\ k = L
                BY <2>4, <2>5, <3>1 DEF o, t
            <3>2. CASE j # i /\ k = L
                <4>1. j \in 1..(i - 1) /\ Covers(spans[L], times[j])
                    BY <1>3, <2>8, <2>11, <3>2
                <4>2. spans[L].name = Owner(used, times[j])
                    BY <1>2, <2>1, <4>1 DEF RunsTo
                <4> QED BY <1>7, <2>4, <2>5, <3>2, <4>2
            <3>3. CASE j = i /\ k # L
                <4>1. k \in 1..L
                    BY <2>4
                <4>2. PICK b \in 1..(i - 1) : spans[k].end = times[b]
                    BY <1>2, <4>1 DEF RunsTo
                <4>3. spans[k].end < t /\ spans[k].end \in Int
                    BY <1>4, <4>2
                <4>4. t <= spans[k].end
                    BY <2>4, <2>11, <3>3, <4>1 DEF Covers, t
                <4> QED BY <1>1, <4>3, <4>4
            <3>4. CASE j # i /\ k # L
                <4>1. k \in 1..L /\ j \in 1..(i - 1) /\ y[k] = spans[k]
                    BY <1>3, <2>4, <3>4
                <4> QED BY <1>2, <2>11, <4>1 DEF RunsTo
            <3> QED BY <3>1, <3>2, <3>3, <3>4
        <2>12. y[Len(y)].end = times[i]
            BY <2>4, <2>5 DEF t
        <2>13. RunsTo(y, used, times, i)
            <3>1. y \in Seq(SpanType) /\ (i = 0 <=> y = <<>>) /\ (i > 0 => y[Len(y)].end = times[i])
                BY <1>3, <2>4, <2>12
            <3>2. \A j \in 1..i : \A k \in DOMAIN y :
                     Covers(y[k], times[j]) => y[k].name = Owner(used, times[j])
                BY <2>11
            <3> QED BY <2>9, <2>10, <3>1, <3>2 DEF RunsTo
        <2> QED BY <2>13 DEF y, t
    <1> QED BY <1>6, <1>7
RunTurns(f, used, times) ==
    f = [i \in 0..Len(times) |-> IF i = 0 THEN <<>> ELSE ExtendRun(used, f[i - 1], times[i])]

LEMMA ExtendRunType ==
    ASSUME NEW used \in Seq(NamedType), NEW t \in AllTimes(used), NEW spans \in Seq(SpanType)
    PROVE  ExtendRun(used, spans, t) \in Seq(SpanType)
    <1> DEFINE o == Owner(used, t)
               L == Len(spans)
               s == [name |-> o, start |-> t, end |-> t]
    <1>1. o \in Nat
        BY OwnerIs
    <1>2. t \in Int
        <2>1. AllTimes(used) \in SUBSET Int
            BY TimesListed
        <2> QED BY <2>1
    <1> HIDE DEF o
    <1>3. s \in SpanType
        BY <1>1, <1>2 DEF SpanType
    <1> HIDE DEF s
    <1>4. CASE spans = <<>> \/ spans[L].name # o
        <2>1. ExtendRun(used, spans, t) = Append(spans, s)
            BY <1>4 DEF ExtendRun, o, s
        <2> QED BY <1>3, <2>1
    <1>5. CASE spans # <<>> /\ spans[L].name = o
        <2>1. ExtendRun(used, spans, t) = [spans EXCEPT ![L].end = t]
            BY <1>5 DEF ExtendRun, o
        <2>2. L \in DOMAIN spans /\ spans[L] \in SpanType
            BY <1>5
        <2>3. [spans[L] EXCEPT !.end = t] \in SpanType
            BY <1>2, <2>2 DEF SpanType
        <2> DEFINE e == [spans[L] EXCEPT !.end = t]
        <2>4. ExtendRun(used, spans, t) = [spans EXCEPT ![L] = e]
            BY <2>1
        <2> HIDE DEF e
        <2> QED BY <2>2, <2>3, <2>4 DEF e
    <1> QED BY <1>4, <1>5

LEMMA RunTurnsExist ==
    ASSUME NEW used \in Seq(NamedType), NEW times \in Seq(AllTimes(used))
    PROVE  \E f : RunTurns(f, used, times)
    <1> DEFINE n == Len(times)
               S == Seq(SpanType)
               step == [i \in 1..n |-> [x \in S |-> ExtendRun(used, x, times[i])]]
    <1>1. n \in Nat /\ \A i \in 1..n : times[i] \in AllTimes(used)
        OBVIOUS
    <1>2. <<>> \in S
        OBVIOUS
    <1>3. \A i \in 1..n, x \in S : ExtendRun(used, x, times[i]) \in S
        BY <1>1, ExtendRunType
    <1> HIDE DEF n, S
    <1>4. step \in [1..n -> [S -> S]]
        BY <1>3
    <1>5. \A i \in 1..n, x \in S : step[i][x] = ExtendRun(used, x, times[i])
        OBVIOUS
    <1> HIDE DEF step
    <1>6. PICK f : IsLoop(f, n, S, <<>>, step)
        BY <1>1, <1>2, <1>4, LoopFunction
    <1>7. \A i \in 0..n : f[i] = IF i = 0 THEN <<>> ELSE ExtendRun(used, f[i - 1], times[i])
        <2> TAKE i \in 0..n
        <2>1. CASE i = 0
            BY <1>6, <2>1 DEF IsLoop
        <2>2. CASE i # 0
            <3>1. i \in 1..n /\ i - 1 \in 0..n
                BY <1>1, <2>2
            <3> QED BY <1>5, <1>6, <2>2, <3>1 DEF IsLoop
        <2> QED BY <2>1, <2>2
    <1>8. f = [i \in 0..n |-> f[i]]
        BY <1>6 DEF IsLoop
    <1>9. f = [i \in 0..n |-> IF i = 0 THEN <<>> ELSE ExtendRun(used, f[i - 1], times[i])]
        BY <1>7, <1>8
    <1> QED BY <1>9 DEF RunTurns, n

\* Every time is in a span, a span that covers a time names its owner, and
\* spans begin and end with a time.
LEMMA AttributionIs ==
    ASSUME NEW used \in Seq(NamedType), NEW spans, spans = Attribution(used)
    PROVE  /\ spans \in Seq(SpanType)
           /\ \A k \in DOMAIN spans : {spans[k].start, spans[k].end} \subseteq AllTimes(used)
           /\ \A t \in AllTimes(used) : \E k \in DOMAIN spans : Covers(spans[k], t)
           /\ \A t \in AllTimes(used) : \A k \in DOMAIN spans :
                  Covers(spans[k], t) => spans[k].name = Owner(used, t)
    <1> DEFINE times == Ascending(AllTimes(used))
               n == Len(times)
               after == CHOOSE f : RunTurns(f, used, times)
               T == {i \in 0..n : RunsTo(after[i], used, times, i)}
    <1>1. /\ times \in Seq(AllTimes(used))
          /\ \A i, j \in DOMAIN times : i < j => times[i] < times[j]
          /\ \A t \in AllTimes(used) : \E k \in DOMAIN times : times[k] = t
        BY TimesListed
    <1>2. spans = after[n]
        BY DEF Attribution, RunTurns, AllTimes
    <1> HIDE DEF times
    <1>3. n \in Nat /\ DOMAIN times = 1..n
        BY <1>1
    <1>4. RunTurns(after, used, times)
        BY <1>1, RunTurnsExist
    <1> HIDE DEF after
    <1>5. after[0] = <<>> /\ \A i \in 1..n : after[i] = ExtendRun(used, after[i - 1], times[i])
        <2>1. \A i \in 1..n : i \in 0..n /\ i # 0
            BY <1>3
        <2>2. 0 \in 0..n
            BY <1>3
        <2> QED BY <1>4, <2>1, <2>2 DEF RunTurns
    <1>6. 0 \in T
        <2>1. RunsTo(<<>>, used, times, 0)
            BY DEF RunsTo
        <2> QED BY <1>3, <1>5, <2>1
    <1>7. ASSUME NEW i \in 1..n, i - 1 \in T PROVE i \in T
        <2>1. RunsTo(ExtendRun(used, after[i - 1], times[i]), used, times, i)
            BY <1>1, <1>7, RunsTurn
        <2> QED BY <1>3, <1>5, <2>1
    <1>8. n \in T
        <2> HIDE DEF T, n
        <2>1. 0..n \subseteq T
            BY <1>3, <1>6, <1>7, IntervalInduction
        <2> QED BY <1>3, <2>1
    <1>9. RunsTo(spans, used, times, n)
        BY <1>2, <1>8
    <1> HIDE DEF T, n
    <1>10. \A j \in 1..n : times[j] \in AllTimes(used)
        BY <1>1, <1>3
    <1>11. \A k \in DOMAIN spans : {spans[k].start, spans[k].end} \subseteq AllTimes(used)
        BY <1>9, <1>10 DEF RunsTo
    <1>12. ASSUME NEW t \in AllTimes(used)
           PROVE  /\ \E k \in DOMAIN spans : Covers(spans[k], t)
                  /\ \A k \in DOMAIN spans : Covers(spans[k], t) => spans[k].name = Owner(used, t)
        <2>1. PICK j \in 1..n : times[j] = t
            BY <1>1, <1>3
        <2> QED BY <1>9, <2>1 DEF RunsTo
    <1>13. spans \in Seq(SpanType)
        BY <1>9 DEF RunsTo
    <1> QED BY <1>11, <1>12, <1>13
-----------------------------------------------------------------------------
(* The series merged *)

\* Actions are listed once each, in the order of time.
LEMMA DedupIs ==
    ASSUME NEW S \in SUBSET ActionType, IsFiniteSet(S)
    PROVE  /\ ToSet(DedupActions(S)) = S
           /\ \A i, j \in DOMAIN DedupActions(S) : i < j =>
                  /\ DedupActions(S)[i] # DedupActions(S)[j]
                  /\ DedupActions(S)[i].ts <= DedupActions(S)[j].ts
    <1> DEFINE R == {p \in S \X S : ActionUpTo(p[1], p[2])}
               d == DedupActions(S)
    <1>1. \A x, y \in S : <<x, y>> \in R <=> ActionUpTo(x, y)
        OBVIOUS
    <1>2. \A x \in S : /\ x.ts \in Int /\ x.kind \in Nat /\ x.payload \in Int
                       /\ x = [ts |-> x.ts, kind |-> x.kind, payload |-> x.payload]
        BY DEF ActionType
    <1>3. d = InOrder(S, R)
        BY DEF DedupActions
    <1> HIDE DEF R, d
    <1>4. Orders(R, S)
        <2>1. \A x, y \in S : <<x, y>> \in R /\ <<y, x>> \in R => x = y
            <3> TAKE x, y \in S
            <3> HAVE <<x, y>> \in R /\ <<y, x>> \in R
            <3>1. x.ts = y.ts /\ x.kind = y.kind /\ x.payload = y.payload
                BY <1>1, <1>2 DEF ActionUpTo
            <3> QED BY <1>2, <3>1
        <2>2. \A x, y \in S : <<x, y>> \in R \/ <<y, x>> \in R
            <3> TAKE x, y \in S
            <3>1. ActionUpTo(x, y) \/ ActionUpTo(y, x)
                BY <1>2 DEF ActionUpTo
            <3> QED BY <1>1, <3>1
        <2>3. \A x, y, z \in S : <<x, y>> \in R /\ <<y, z>> \in R => <<x, z>> \in R
            <3> TAKE x, y, z \in S
            <3> HAVE <<x, y>> \in R /\ <<y, z>> \in R
            <3>1. ActionUpTo(x, y) /\ ActionUpTo(y, z)
                BY <1>1
            <3>2. ActionUpTo(x, z)
                BY <1>2, <3>1 DEF ActionUpTo
            <3> QED BY <1>1, <3>2
        <2> QED BY <2>1, <2>2, <2>3 DEF Orders
    <1>5. /\ d \in [1..Cardinality(S) -> S]
          /\ \A i, j \in 1..Cardinality(S) : i < j => d[i] # d[j] /\ <<d[i], d[j]>> \in R
          /\ \A x \in S : \E k \in 1..Cardinality(S) : d[k] = x
        BY <1>3, <1>4, InOrderIs
    <1>6. ToSet(d) = S
        BY <1>5 DEF ToSet
    <1>7. ASSUME NEW i \in DOMAIN d, NEW j \in DOMAIN d, i < j
          PROVE  d[i] # d[j] /\ d[i].ts <= d[j].ts
        <2>1. d[i] \in S /\ d[j] \in S /\ d[i] # d[j] /\ <<d[i], d[j]>> \in R
            BY <1>5, <1>7
        <2> QED BY <1>1, <1>2, <2>1 DEF ActionUpTo
    <1> QED BY <1>6, <1>7 DEF d

LEMMA ActionsFinite ==
    ASSUME NEW responses \in Seq(ResponseType)
    PROVE  IsFiniteSet(UNION {ToSet(responses[k].actions) : k \in DOMAIN responses})
    <1> DEFINE T == {ToSet(responses[k].actions) : k \in DOMAIN responses}
               f == [k \in DOMAIN responses |-> ToSet(responses[k].actions)]
    <1>1. ASSUME NEW k \in DOMAIN responses PROVE IsFiniteSet(ToSet(responses[k].actions))
        <2> DEFINE s == responses[k].actions
        <2>1. responses[k] \in ResponseType
            OBVIOUS
        <2>2. s \in Seq(ActionType)
            BY <2>1 DEF ResponseType
        <2> HIDE DEF s
        <2>3. IsFiniteSet(DOMAIN s)
            BY <2>2, FS_Interval
        <2>4. s \in [DOMAIN s -> ToSet(s)] /\ \A t \in ToSet(s) : \E i \in DOMAIN s : s[i] = t
            BY <2>2 DEF ToSet
        <2>5. IsFiniteSet(ToSet(s))
            BY <2>3, <2>4, FiniteRange
        <2> QED BY <2>5 DEF s
    <1>2. \A t \in T : IsFiniteSet(t)
        BY <1>1
    <1>3. IsFiniteSet(DOMAIN responses)
        BY FS_Interval
    <1>4. f \in [DOMAIN responses -> T] /\ \A t \in T : \E k \in DOMAIN responses : f[k] = t
        OBVIOUS
    <1> HIDE DEF f, T
    <1>5. IsFiniteSet(T)
        BY <1>3, <1>4, FiniteRange
    <1>6. IsFiniteSet(UNION T)
        BY <1>2, <1>5, FS_UNION
    <1> QED BY <1>6 DEF T

LEMMA ResponseTimesFinite ==
    ASSUME NEW responses \in Seq(ResponseType)
    PROVE  /\ IsFiniteSet(UNION {Times(responses[k].candles) : k \in DOMAIN responses})
           /\ UNION {Times(responses[k].candles) : k \in DOMAIN responses} \in SUBSET Int
    <1> DEFINE T == {Times(responses[k].candles) : k \in DOMAIN responses}
               f == [k \in DOMAIN responses |-> Times(responses[k].candles)]
    <1>1. \A k \in DOMAIN responses : responses[k].candles \in Seq(CandleType)
        <2>1. \A k \in DOMAIN responses : responses[k] \in ResponseType
            OBVIOUS
        <2> QED BY <2>1 DEF ResponseType
    <1>2. \A t \in T : t \in SUBSET Int /\ IsFiniteSet(t)
        BY <1>1, TimesFinite
    <1>3. IsFiniteSet(DOMAIN responses)
        BY FS_Interval
    <1>4. f \in [DOMAIN responses -> T] /\ \A t \in T : \E k \in DOMAIN responses : f[k] = t
        OBVIOUS
    <1> HIDE DEF f, T
    <1>5. IsFiniteSet(T)
        BY <1>3, <1>4, FiniteRange
    <1>6. IsFiniteSet(UNION T) /\ UNION T \in SUBSET Int
        BY <1>2, <1>5, FS_UNION
    <1> QED BY <1>6 DEF T

\* What the series x merged from these responses is.
MergeYields(x, responses) ==
    /\ x.candles \in Seq(CandleType)
    /\ \A i, j \in DOMAIN x.candles : i < j => x.candles[i].ts < x.candles[j].ts
    /\ Times(x.candles) = UNION {Times(responses[k].candles) : k \in DOMAIN responses}
    /\ \A i \in DOMAIN x.candles : \E k \in DOMAIN responses :
           /\ \A l \in 1..(k - 1) : x.candles[i].ts \notin Times(responses[l].candles)
           /\ \E j \in DOMAIN responses[k].candles :
                 /\ [responses[k].candles[j] EXCEPT !.raw = FALSE] = x.candles[i]
                 /\ x.candles[i].ts \in Times(responses[k].candles)
    /\ \A i \in DOMAIN x.candles : ~x.candles[i].raw
    /\ \A a \in BOOLEAN : /\ \A k \in DOMAIN responses : responses[k].adjusted = a
                          /\ Times(x.candles) # {}
                          => x.adjusted = a
    /\ ToSet(x.actions) = UNION {ToSet(responses[k].actions) : k \in DOMAIN responses}
    /\ \A i, j \in DOMAIN x.actions :
           i < j => x.actions[i] # x.actions[j] /\ x.actions[i].ts <= x.actions[j].ts

\* The response made of what was merged: every time of the responses once and
\* in order, with the candle of the first response that has the time.
LEMMA MergedResponseIs ==
    ASSUME NEW responses \in Seq(ResponseType), NEW m, m = Merged(responses), ~m.mixed,
           NEW x, x = MergedResponse(m)
    PROVE  MergeYields(x, responses)
    <1> DEFINE n == Len(responses)
               D == DOMAIN m.map
               order == Ascending(D)
               all == UNION {Times(responses[k].candles) : k \in DOMAIN responses}
               picked == [k \in DOMAIN order |-> m.map[order[k]]]
    <1>1. MergedTo(m, responses, n) /\ n \in Nat /\ DOMAIN responses = 1..n
        BY MergedIs
    <1>2. /\ m \in MergeType /\ D = all
          /\ \A t \in D : \E k \in 1..n :
                /\ FoundIn(responses[k], t, m.map[t])
                /\ \A l \in 1..(k - 1) : t \notin Times(responses[l].candles)
          /\ m.actions = UNION {ToSet(responses[k].actions) : k \in DOMAIN responses}
          /\ \A a \in BOOLEAN : (\A k \in 1..n : responses[k].adjusted = a) =>
                m.adjusted = IF D = {} THEN TRUE ELSE a
        BY <1>1 DEF MergedTo
    <1>3. IsFiniteSet(D) /\ D \in SUBSET Int
        BY <1>2, ResponseTimesFinite
    <1>4. m.map \in [D -> CandleType]
        <2>1. m.map \in MapType
            BY <1>2 DEF MergeType
        <2> QED BY <2>1, MapIs
    <1>5. x = [candles |-> Stripped(picked),
               adjusted |-> m.map # <<>> /\ m.adjusted,
               meta |-> IF m.map = <<>> /\ m.meta = None THEN m.fallback ELSE m.meta,
               actions |-> DedupActions(m.actions)]
        BY DEF MergedResponse
    <1> HIDE DEF D, all, n
    <1>6. /\ order \in [1..Cardinality(D) -> D]
          /\ \A i, j \in 1..Cardinality(D) : i < j => order[i] < order[j]
          /\ \A t \in D : \E k \in 1..Cardinality(D) : order[k] = t
          /\ Cardinality(D) \in Nat
        <2>1. /\ order \in [1..Cardinality(D) -> D]
              /\ \A i, j \in 1..Cardinality(D) : i < j => order[i] < order[j]
              /\ \A t \in D : \E k \in 1..Cardinality(D) : order[k] = t
            BY <1>3, AscendingIs
        <2>2. Cardinality(D) \in Nat
            BY <1>3, FS_CardinalityType
        <2> QED BY <2>1, <2>2
    <1> HIDE DEF order
    <1>7. /\ x.candles = [k \in 1..Cardinality(D) |-> [m.map[order[k]] EXCEPT !.raw = FALSE]]
          /\ \A k \in 1..Cardinality(D) : order[k] \in D /\ m.map[order[k]] \in CandleType
        BY <1>4, <1>5, <1>6 DEF Stripped
    <1>8. \A c \in CandleType : [c EXCEPT !.raw = FALSE] \in CandleType /\ [c EXCEPT !.raw = FALSE].ts = c.ts
                                /\ ~ [c EXCEPT !.raw = FALSE].raw
        BY DEF CandleType
    <1>9. x.candles \in Seq(CandleType) /\ DOMAIN x.candles = 1..Cardinality(D)
          /\ \A i \in DOMAIN x.candles : ~x.candles[i].raw
        <2>1. \A k \in 1..Cardinality(D) : [m.map[order[k]] EXCEPT !.raw = FALSE] \in CandleType
            BY <1>7, <1>8
        <2>2. x.candles \in Seq(CandleType) /\ DOMAIN x.candles = 1..Cardinality(D)
            BY <1>6, <1>7, <2>1
        <2>3. ASSUME NEW i \in DOMAIN x.candles PROVE ~x.candles[i].raw
            <3>1. i \in 1..Cardinality(D)
                BY <2>2
            <3>2. m.map[order[i]] \in CandleType /\ x.candles[i] = [m.map[order[i]] EXCEPT !.raw = FALSE]
                BY <1>7, <3>1
            <3> QED BY <1>8, <3>2
        <2> QED BY <2>2, <2>3
    <1>10. \A i \in DOMAIN x.candles :
              /\ x.candles[i] = [m.map[order[i]] EXCEPT !.raw = FALSE] /\ order[i] \in D
              /\ x.candles[i].ts = order[i]
        <2> TAKE i \in DOMAIN x.candles
        <2>1. /\ x.candles[i] = [m.map[order[i]] EXCEPT !.raw = FALSE] /\ order[i] \in D
              /\ m.map[order[i]] \in CandleType
            BY <1>7, <1>9
        <2>2. m.map[order[i]].ts = order[i]
            BY <1>2, <2>1 DEF FoundIn
        <2> QED BY <1>8, <2>1, <2>2
    <1>11. Times(x.candles) = D
        <2>1. Times(x.candles) = {x.candles[i].ts : i \in DOMAIN x.candles}
            BY DEF Times
        <2>2. \A i \in DOMAIN x.candles : x.candles[i].ts \in D
            BY <1>10
        <2>3. ASSUME NEW t \in D PROVE \E i \in DOMAIN x.candles : x.candles[i].ts = t
            <3>1. PICK i \in DOMAIN x.candles : order[i] = t
                BY <1>6, <1>9
            <3> QED BY <1>10, <3>1
        <2> QED BY <2>1, <2>2, <2>3
    <1>12. ASSUME NEW i \in DOMAIN x.candles, NEW j \in DOMAIN x.candles, i < j
           PROVE  x.candles[i].ts < x.candles[j].ts
        <2>1. x.candles[i].ts = order[i] /\ x.candles[j].ts = order[j]
            BY <1>10
        <2>2. i \in 1..Cardinality(D) /\ j \in 1..Cardinality(D)
            BY <1>9
        <2>3. order[i] < order[j]
            BY <1>6, <1>12, <2>2
        <2> QED BY <2>1, <2>3
    <1>13. ASSUME NEW i \in DOMAIN x.candles
           PROVE \E k \in DOMAIN responses :
                  /\ \A l \in 1..(k - 1) : x.candles[i].ts \notin Times(responses[l].candles)
                  /\ \E j \in DOMAIN responses[k].candles :
                        /\ [responses[k].candles[j] EXCEPT !.raw = FALSE] = x.candles[i]
                        /\ x.candles[i].ts \in Times(responses[k].candles)
        <2> DEFINE t == order[i]
        <2>1. t \in D /\ x.candles[i].ts = t /\ x.candles[i] = [m.map[t] EXCEPT !.raw = FALSE]
            BY <1>10
        <2> HIDE DEF t
        <2>2. PICK k \in 1..n : /\ FoundIn(responses[k], t, m.map[t])
                                /\ \A l \in 1..(k - 1) : t \notin Times(responses[l].candles)
            BY <1>2, <2>1
        <2>3. PICK j \in DOMAIN responses[k].candles : responses[k].candles[j] = m.map[t]
                                                       /\ m.map[t].ts = t
            BY <2>2 DEF FoundIn
        <2>4. t \in Times(responses[k].candles)
            BY <2>3 DEF Times
        <2>5. [responses[k].candles[j] EXCEPT !.raw = FALSE] = x.candles[i]
            BY <2>1, <2>3
        <2>6. k \in DOMAIN responses
            BY <1>1
        <2> QED BY <2>1, <2>2, <2>4, <2>5, <2>6
    <1>14. ASSUME NEW a \in BOOLEAN, \A k \in DOMAIN responses : responses[k].adjusted = a,
                  Times(x.candles) # {}
           PROVE  x.adjusted = a
        <2>1. m.adjusted = a /\ D # {}
            BY <1>1, <1>2, <1>11, <1>14
        <2>2. m.map # <<>>
            <3>1. DOMAIN <<>> = {}
                OBVIOUS
            <3> QED BY <2>1, <3>1 DEF D
        <2> QED BY <1>5, <2>1, <2>2
    <1>15. /\ ToSet(x.actions) = UNION {ToSet(responses[k].actions) : k \in DOMAIN responses}
           /\ \A i, j \in DOMAIN x.actions :
                  i < j => x.actions[i] # x.actions[j] /\ x.actions[i].ts <= x.actions[j].ts
        <2>1. x.actions = DedupActions(m.actions)
            BY <1>5
        <2>2. m.actions \in SUBSET ActionType /\ IsFiniteSet(m.actions)
            BY <1>2, ActionsFinite DEF MergeType
        <2>3. /\ ToSet(DedupActions(m.actions)) = m.actions
              /\ \A i, j \in DOMAIN DedupActions(m.actions) : i < j =>
                    /\ DedupActions(m.actions)[i] # DedupActions(m.actions)[j]
                    /\ DedupActions(m.actions)[i].ts <= DedupActions(m.actions)[j].ts
            BY <2>2, DedupIs
        <2> QED BY <1>2, <2>1, <2>3
    <1> QED BY <1>2, <1>9, <1>11, <1>12, <1>13, <1>14, <1>15 DEF all, MergeYields
-----------------------------------------------------------------------------
(* Attribution of what is returned *)

AnswerOf(c) == Provided(c).response
NamesUsed == [k \in DOMAIN Used |-> [name |-> Used[k], candles |-> AnswerOf(Used[k]).candles]]
ResponsesUsed == [k \in DOMAIN Used |-> AnswerOf(Used[k])]

LEMMA ResolvedSeries ==
    ASSUME NEW merged, NEW spans, Resolved(merged, spans).kind = "series"
    PROVE  Resolved(merged, spans).merged = merged /\ Resolved(merged, spans).spans = spans
    BY DEF Resolved

\* The answer of one connector is returned as it is; several are merged.
LEMMA SuccessIs ==
    ASSUME CallOK, IsSeries
    PROVE  /\ Usable # {} /\ result.spans = Attribution(NamesUsed)
           /\ result = Resolved(result.merged, result.spans)
           /\ \/ Len(Used) = 1 /\ result.merged = ResponsesUsed[1]
              \/ /\ Len(Used) # 1 /\ ~Merged(ResponsesUsed).mixed
                 /\ result.merged = MergedResponse(Merged(ResponsesUsed))
    <1> DEFINE used == [k \in DOMAIN Used |->
                           [name |-> Used[k], response |-> Provided(Used[k]).response]]
               names == [k \in DOMAIN used |->
                           [name |-> used[k].name, candles |-> used[k].response.candles]]
               responses == [k \in DOMAIN used |-> used[k].response]
               m == Merged(ResponsesUsed)
    <1>1. Over /\ result \in Outcomes /\ result.kind = "series"
        BY DEF CallOK, ResultOK, IsSeries
    <1>2. Usable # {} /\ result \in Succeeding
        BY <1>1 DEF Outcomes
    <1>3. PICK U, a : UsedAs(U, a)
        BY <1>2, UsedIs
    <1>4. Used \in Seq(U) /\ Used # <<>> /\ DOMAIN Used = 1..Len(Used)
        BY <1>3, UsedList
    <1>5. names = NamesUsed /\ responses = ResponsesUsed
        BY DEF NamesUsed, ResponsesUsed, AnswerOf
    <1>6. CASE Len(used) = 1
        <2>1. DOMAIN used = 1..1 /\ Len(Used) = 1
            <3>1. Len(used) = Len(Used)
                BY <1>4
            <3> QED BY <1>4, <1>6, <3>1
        <2> DEFINE first == <<[name |-> used[1].name, candles |-> used[1].response.candles]>>
        <2>2. first = names
            <3> HIDE DEF used
            <3> QED BY <2>1
        <2>3. used[1].response = responses[1]
            <3> HIDE DEF used
            <3> QED BY <2>1
        <2>4. result = Resolved(responses[1], Attribution(names))
            <3>1. result = Resolved(used[1].response, Attribution(first))
                BY <1>2, <1>6 DEF Succeeding
            <3> HIDE DEF first, names, used, responses
            <3> QED BY <2>2, <2>3, <3>1
        <2> HIDE DEF names, responses, used, first
        <2>5. result.merged = responses[1] /\ result.spans = Attribution(names)
            BY <1>1, <2>4, ResolvedSeries
        <2> QED BY <1>2, <1>5, <2>1, <2>4, <2>5
    <1>7. CASE Len(used) # 1
        <2>1. Len(Used) # 1
            BY <1>4, <1>7
        <2>2. result \in Merging(used)
            BY <1>2, <1>7 DEF Succeeding
        <2>3. result \in IF Merged(responses).mixed
                         THEN {[kind |-> "mixed", blamed |-> used[k].name] : k \in Blamed(names)}
                         ELSE {Resolved(MergedResponse(Merged(responses)), Attribution(names))}
            <3> HIDE DEF used
            <3> QED BY <2>2 DEF Merging
        <2> HIDE DEF names, responses, used
        <2>4. ~Merged(responses).mixed
              /\ result = Resolved(MergedResponse(Merged(responses)), Attribution(names))
            BY <1>1, <2>3
        <2>5. result.merged = MergedResponse(Merged(responses)) /\ result.spans = Attribution(names)
            BY <1>1, <2>4, ResolvedSeries
        <2> QED BY <1>2, <1>5, <2>1, <2>4, <2>5
    <1> QED BY <1>6, <1>7

\* What the connectors used are, and what is merged of their answers.
LEMMA AnswersAre ==
    ASSUME CallOK, IsSeries, NEW U, NEW a, UsedAs(U, a)
    PROVE  /\ ResponsesUsed \in Seq(ResponseType) /\ NamesUsed \in Seq(NamedType)
           /\ DOMAIN ResponsesUsed = DOMAIN Used /\ DOMAIN NamesUsed = DOMAIN Used
           /\ DOMAIN Used = 1..Len(Used) /\ Len(Used) \in Nat \ {0}
           /\ \A k \in DOMAIN Used : /\ Used[k] \in U /\ Used[k] \in Nat
                                     /\ ResponsesUsed[k] = AnswerOf(Used[k])
                                     /\ ResponsesUsed[k].adjusted = a
                                     /\ NamesUsed[k].name = Used[k]
                                     /\ NamesUsed[k].candles = AnswerOf(Used[k]).candles
           /\ \A c \in U : /\ AnswerOf(c) \in ResponseType /\ AnswerOf(c).candles # <<>>
                           /\ AnswerOf(c).candles \in Seq(CandleType) /\ c \in Nat
                           /\ AnswerOf(c).adjusted = a
    <1>1. /\ U \subseteq Usable /\ U \in SUBSET Nat
          /\ Used \in Seq(U) /\ Used # <<>> /\ DOMAIN Used = 1..Len(Used)
        BY UsedList
    <1>2. \A c \in U : /\ AnswerOf(c) \in ResponseType /\ AnswerOf(c).candles # <<>> /\ c \in Nat
        BY <1>1, UsableIs DEF AnswerOf
    <1>3. \A c \in U : AnswerOf(c).candles \in Seq(CandleType)
        BY <1>2 DEF ResponseType
    <1>4. \A c \in U : AnswerOf(c).adjusted = a
        BY DEF UsedAs, AnswerOf
    <1>5. \A k \in DOMAIN Used : Used[k] \in U
        BY <1>1
    <1>6. Len(Used) \in Nat \ {0}
        BY <1>1
    <1>7. ResponsesUsed \in Seq(ResponseType)
        <2>1. \A k \in 1..Len(Used) : AnswerOf(Used[k]) \in ResponseType
            BY <1>1, <1>2, <1>5
        <2>2. ResponsesUsed = [k \in 1..Len(Used) |-> AnswerOf(Used[k])]
            BY <1>1 DEF ResponsesUsed
        <2> QED BY <1>6, <2>1, <2>2
    <1>8. NamesUsed \in Seq(NamedType)
        <2>1. \A k \in DOMAIN Used : [name |-> Used[k], candles |-> AnswerOf(Used[k]).candles] \in NamedType
            BY <1>2, <1>3, <1>5 DEF NamedType
        <2> QED BY <1>1, <1>6, <2>1 DEF NamesUsed
    <1>9. DOMAIN ResponsesUsed = DOMAIN Used /\ DOMAIN NamesUsed = DOMAIN Used
        BY DEF ResponsesUsed, NamesUsed
    <1>10. \A k \in DOMAIN Used : /\ ResponsesUsed[k] = AnswerOf(Used[k])
                                  /\ NamesUsed[k].name = Used[k]
                                  /\ NamesUsed[k].candles = AnswerOf(Used[k]).candles
        BY DEF ResponsesUsed, NamesUsed
    <1> QED BY <1>1, <1>2, <1>3, <1>4, <1>5, <1>6, <1>7, <1>8, <1>9, <1>10

\* The connector that a time is attributed to is the rightful one.
LEMMA OwnerIsRightful ==
    ASSUME CallOK, IsSeries, NEW U, NEW a, UsedAs(U, a), result.merged.adjusted = a,
           NEW t \in AllTimes(NamesUsed)
    PROVE  /\ RightfulOwner(t) = Owner(NamesUsed, t)
           /\ \E k \in DOMAIN Used : /\ Used[k] = RightfulOwner(t)
                                     /\ t \in Times(AnswerOf(Used[k]).candles)
                                     /\ \A l \in DOMAIN Used :
                                          t \in Times(AnswerOf(Used[l]).candles) => k <= l
    <1> DEFINE having == {c \in Usable : /\ Provided(c).response.adjusted = result.merged.adjusted
                                         /\ t \in Times(Provided(c).response.candles)}
    <1>1. /\ NamesUsed \in Seq(NamedType) /\ DOMAIN NamesUsed = DOMAIN Used
          /\ \A k \in DOMAIN Used : /\ Used[k] \in U /\ Used[k] \in Nat
                                    /\ NamesUsed[k].name = Used[k]
                                    /\ NamesUsed[k].candles = AnswerOf(Used[k]).candles
        BY AnswersAre
    <1>2. PICK k \in DOMAIN Used :
              /\ t \in Times(AnswerOf(Used[k]).candles)
              /\ \A l \in DOMAIN Used : t \in Times(AnswerOf(Used[l]).candles) => k <= l
              /\ Owner(NamesUsed, t) = Used[k]
        <2>1. PICK k \in DOMAIN NamesUsed :
                  /\ t \in Times(NamesUsed[k].candles)
                  /\ \A l \in DOMAIN NamesUsed : t \in Times(NamesUsed[l].candles) => k <= l
                  /\ Owner(NamesUsed, t) = NamesUsed[k].name
            BY <1>1, OwnerIs
        <2> QED BY <1>1, <2>1
    <1>3. having = {c \in U : t \in Times(AnswerOf(c).candles)}
        BY DEF UsedAs, AnswerOf
    <1>4. RightfulOwner(t) = CHOOSE c \in having : \A d \in having : c <= d
        BY DEF RightfulOwner
    <1> HIDE DEF having
    <1>5. /\ DOMAIN Used = 1..Len(Used) /\ U \in SUBSET Nat
          /\ \A i, j \in DOMAIN Used : i < j => Used[i] < Used[j]
          /\ \A c \in U : \E l \in DOMAIN Used : Used[l] = c
        BY UsedList
    <1>6. Used[k] \in having
        BY <1>1, <1>2, <1>3
    <1>7. ASSUME NEW d \in having PROVE Used[k] <= d
        <2>1. PICK l \in DOMAIN Used : Used[l] = d
            BY <1>3, <1>5
        <2>2. k <= l
            BY <1>2, <1>3, <2>1
        <2>3. k = l \/ k < l
            BY <1>5, <2>2
        <2> QED BY <1>1, <1>5, <2>1, <2>3
    <1>8. having \subseteq Nat
        BY <1>3, <1>5
    <1>9. ASSUME NEW c \in having, \A d \in having : c <= d PROVE c = Used[k]
        <2>1. c <= Used[k] /\ Used[k] <= c
            BY <1>6, <1>7, <1>9
        <2>2. c \in Nat /\ Used[k] \in Nat
            BY <1>1, <1>8
        <2> QED BY <2>1, <2>2
    <1>10. RightfulOwner(t) = Used[k]
        BY SMTT(30), <1>4, <1>6, <1>7, <1>9
    <1> QED BY <1>2, <1>10
\* The series returned has the times of the answers used, the candle of each
\* time being that of its rightful owner.
LEMMA MergedSeriesIs ==
    ASSUME CallOK, IsSeries, NEW U, NEW a, UsedAs(U, a)
    PROVE  /\ result.merged.adjusted = a
           /\ Times(result.merged.candles) = AllTimes(NamesUsed)
           /\ \A i \in DOMAIN result.merged.candles :
                 \E k \in DOMAIN AnswerOf(RightfulOwner(result.merged.candles[i].ts)).candles :
                    [AnswerOf(RightfulOwner(result.merged.candles[i].ts)).candles[k]
                        EXCEPT !.raw = result.merged.candles[i].raw] = result.merged.candles[i]
           /\ Len(Used) > 1 =>
                 LET candles == result.merged.candles
                     actions == result.merged.actions
                 IN  /\ \A i \in DOMAIN candles : ~candles[i].raw
                     /\ \A i, j \in DOMAIN candles : i < j => candles[i].ts < candles[j].ts
                     /\ ToSet(actions) = UNION {ToSet(ResponsesUsed[k].actions) : k \in DOMAIN Used}
                     /\ \A i, j \in DOMAIN actions :
                           i < j => actions[i] # actions[j] /\ actions[i].ts <= actions[j].ts
    <1> DEFINE x == result.merged
    <1>1. /\ ResponsesUsed \in Seq(ResponseType) /\ NamesUsed \in Seq(NamedType)
          /\ DOMAIN ResponsesUsed = DOMAIN Used /\ DOMAIN NamesUsed = DOMAIN Used
          /\ DOMAIN Used = 1..Len(Used) /\ Len(Used) \in Nat \ {0}
          /\ \A k \in DOMAIN Used : /\ Used[k] \in U /\ Used[k] \in Nat
                                    /\ ResponsesUsed[k] = AnswerOf(Used[k])
                                    /\ ResponsesUsed[k].adjusted = a
                                    /\ NamesUsed[k].name = Used[k]
                                    /\ NamesUsed[k].candles = AnswerOf(Used[k]).candles
          /\ \A c \in U : /\ AnswerOf(c) \in ResponseType /\ AnswerOf(c).candles # <<>>
                          /\ AnswerOf(c).candles \in Seq(CandleType) /\ c \in Nat
                          /\ AnswerOf(c).adjusted = a
        BY AnswersAre
    <1>2. 1 \in DOMAIN Used /\ a \in BOOLEAN
        BY <1>1 DEF UsedAs
    <1>3. AllTimes(NamesUsed) = UNION {Times(AnswerOf(Used[k]).candles) : k \in DOMAIN Used}
        <2>1. DOMAIN NamesUsed = DOMAIN Used
            BY <1>1
        <2>2. \A k \in DOMAIN Used :
                 Times(NamesUsed[k].candles) = Times(AnswerOf(Used[k]).candles)
            <3> TAKE k \in DOMAIN Used
            <3>1. NamesUsed[k].candles = AnswerOf(Used[k]).candles
                BY <1>1
            <3> QED BY <3>1
        <2>3. AllTimes(NamesUsed) = UNION {Times(NamesUsed[k].candles) : k \in DOMAIN Used}
            BY <2>1 DEF AllTimes
        <2> HIDE DEF NamesUsed, Used
        <2> QED BY <2>2, <2>3
    <1>4. \A t \in AllTimes(NamesUsed) : x.adjusted = a =>
             \E k \in DOMAIN Used : /\ Used[k] = RightfulOwner(t)
                                    /\ t \in Times(AnswerOf(Used[k]).candles)
                                    /\ \A l \in DOMAIN Used :
                                          t \in Times(AnswerOf(Used[l]).candles) => k <= l
        BY SMTT(30), OwnerIsRightful
    <1>5. CASE Len(Used) = 1 /\ x = ResponsesUsed[1]
        <2>1. x = AnswerOf(Used[1]) /\ x.adjusted = a /\ x.candles \in Seq(CandleType)
            BY <1>1, <1>2, <1>5
        <2>2. DOMAIN Used = {1}
            BY <1>1, <1>5
        <2>3. Times(x.candles) = AllTimes(NamesUsed)
            BY SMTT(30), <1>3, <2>1, <2>2
        <2>4. ASSUME NEW i \in DOMAIN x.candles
              PROVE  \E k \in DOMAIN AnswerOf(RightfulOwner(x.candles[i].ts)).candles :
                        [AnswerOf(RightfulOwner(x.candles[i].ts)).candles[k]
                            EXCEPT !.raw = x.candles[i].raw] = x.candles[i]
            <3> DEFINE c == x.candles[i]
            <3>1. c.ts \in Times(x.candles)
                BY DEF Times
            <3>2. RightfulOwner(c.ts) = Used[1]
                BY <1>4, <2>1, <2>2, <2>3, <3>1
            <3>3. c \in CandleType
                BY <2>1
            <3>4. [c EXCEPT !.raw = c.raw] = c
                BY <3>3 DEF CandleType
            <3>5. AnswerOf(RightfulOwner(c.ts)).candles[i] = c
                BY <2>1, <3>2
            <3> HIDE DEF c
            <3>6. i \in DOMAIN AnswerOf(RightfulOwner(c.ts)).candles
                BY <2>1, <3>2
            <3> QED BY <3>4, <3>5, <3>6 DEF c
        <2> HIDE DEF x
        <2>5. ~ (Len(Used) > 1)
            BY SMTT(30), <1>5
        <2> QED BY <2>1, <2>3, <2>4, <2>5 DEF x
    <1>6. CASE Len(Used) # 1 /\ ~Merged(ResponsesUsed).mixed /\ x = MergedResponse(Merged(ResponsesUsed))
        <2> DEFINE m == Merged(ResponsesUsed)
        <2>0. m = Merged(ResponsesUsed) /\ ~m.mixed /\ x = MergedResponse(m)
            BY <1>6
        <2> HIDE DEF x, m
        <2>7. ResponsesUsed \in Seq(ResponseType)
            BY <1>1
        <2>8. MergeYields(x, ResponsesUsed)
            BY <2>0, <2>7, MergedResponseIs
        <2>1. /\ x.candles \in Seq(CandleType)
              /\ \A i, j \in DOMAIN x.candles : i < j => x.candles[i].ts < x.candles[j].ts
              /\ Times(x.candles) = UNION {Times(ResponsesUsed[k].candles) : k \in DOMAIN ResponsesUsed}
              /\ \A i \in DOMAIN x.candles : \E k \in DOMAIN ResponsesUsed :
                     /\ \A l \in 1..(k - 1) : x.candles[i].ts \notin Times(ResponsesUsed[l].candles)
                     /\ \E j \in DOMAIN ResponsesUsed[k].candles :
                           /\ [ResponsesUsed[k].candles[j] EXCEPT !.raw = FALSE] = x.candles[i]
                           /\ x.candles[i].ts \in Times(ResponsesUsed[k].candles)
              /\ \A i \in DOMAIN x.candles : ~x.candles[i].raw
              /\ \A b \in BOOLEAN : /\ \A k \in DOMAIN ResponsesUsed : ResponsesUsed[k].adjusted = b
                                    /\ Times(x.candles) # {}
                                    => x.adjusted = b
              /\ ToSet(x.actions) = UNION {ToSet(ResponsesUsed[k].actions) : k \in DOMAIN ResponsesUsed}
              /\ \A i, j \in DOMAIN x.actions :
                     i < j => x.actions[i] # x.actions[j] /\ x.actions[i].ts <= x.actions[j].ts
            BY <2>8 DEF MergeYields
        <2>2. Times(x.candles) = AllTimes(NamesUsed)
            BY <1>1, <1>3, <2>1
        <2>3. Times(x.candles) # {}
            <3>1. AnswerOf(Used[1]).candles \in Seq(CandleType) /\ AnswerOf(Used[1]).candles # <<>>
                BY <1>1, <1>2
            <3>2. 1 \in DOMAIN AnswerOf(Used[1]).candles
                BY <3>1
            <3>3. AnswerOf(Used[1]).candles[1].ts \in Times(AnswerOf(Used[1]).candles)
                BY <3>2 DEF Times
            <3> QED BY <1>2, <1>3, <2>2, <3>3
        <2>4. x.adjusted = a
            BY <1>1, <1>2, <2>1, <2>3
        <2>5. ASSUME NEW i \in DOMAIN x.candles
              PROVE  \E k \in DOMAIN AnswerOf(RightfulOwner(x.candles[i].ts)).candles :
                        [AnswerOf(RightfulOwner(x.candles[i].ts)).candles[k]
                            EXCEPT !.raw = x.candles[i].raw] = x.candles[i]
            <3> DEFINE c == x.candles[i]
            <3>1. PICK k \in DOMAIN Used :
                     /\ \A l \in 1..(k - 1) : c.ts \notin Times(AnswerOf(Used[l]).candles)
                     /\ \E j \in DOMAIN AnswerOf(Used[k]).candles :
                           /\ [AnswerOf(Used[k]).candles[j] EXCEPT !.raw = FALSE] = c
                           /\ c.ts \in Times(AnswerOf(Used[k]).candles)
                <4>1. PICK k \in DOMAIN ResponsesUsed :
                     /\ \A l \in 1..(k - 1) : c.ts \notin Times(ResponsesUsed[l].candles)
                     /\ \E j \in DOMAIN ResponsesUsed[k].candles :
                           /\ [ResponsesUsed[k].candles[j] EXCEPT !.raw = FALSE] = c
                           /\ c.ts \in Times(ResponsesUsed[k].candles)
                    BY <2>1
                <4>2. k \in DOMAIN Used /\ \A l \in 1..(k - 1) : l \in DOMAIN Used
                    BY <1>1
                <4> HIDE DEF c
                <4> QED BY <1>1, <4>1, <4>2
            <3>2. c \in CandleType /\ ~c.raw
                BY <2>1
            <3>3. c.raw = FALSE
                BY <3>2 DEF CandleType
            <3>4. c.ts \in AllTimes(NamesUsed)
                BY <1>3, <3>1
            <3> HIDE DEF c
            <3>5. PICK o \in DOMAIN Used :
                     /\ Used[o] = RightfulOwner(c.ts)
                     /\ c.ts \in Times(AnswerOf(Used[o]).candles)
                     /\ \A l \in DOMAIN Used : c.ts \in Times(AnswerOf(Used[l]).candles) => o <= l
                BY <1>4, <2>4, <3>4
            <3>6. o = k
                <4>1. o <= k
                    BY <3>1, <3>5
                <4>2. o \notin 1..(k - 1)
                    BY <3>1, <3>5
                <4> QED BY <1>1, <4>1, <4>2
            <3>7. RightfulOwner(c.ts) = Used[k]
                BY <3>5, <3>6
            <3> QED BY <3>1, <3>3, <3>7 DEF c
        <2>6. ToSet(x.actions) = UNION {ToSet(ResponsesUsed[k].actions) : k \in DOMAIN Used}
            BY SMTT(30), <1>1, <2>1
        <2> QED BY <2>1, <2>2, <2>4, <2>5, <2>6 DEF x
    <1> QED BY <1>5, <1>6, SuccessIs

\* What is returned is attributed, candle by candle, to whom it came from.
LEMMA CallMeansAttributed ==
    ASSUME CallOK PROVE MergeIsAttributed
    <1> SUFFICES ASSUME IsSeries PROVE MergeIsAttributed
        BY DEF MergeIsAttributed
    <1> DEFINE candles == result.merged.candles
               spans == result.spans
               actions == result.merged.actions
               answer(c) == Provided(c).response
               several == Len(Used) > 1
    <1>1. Usable # {} /\ spans = Attribution(NamesUsed)
        BY SuccessIs
    <1>2. PICK U, a : UsedAs(U, a)
        BY <1>1, UsedIs
    <1>3. /\ NamesUsed \in Seq(NamedType)
          /\ DOMAIN ResponsesUsed = DOMAIN Used /\ DOMAIN NamesUsed = DOMAIN Used
          /\ \A k \in DOMAIN Used : /\ Used[k] \in U
                                    /\ ResponsesUsed[k] = AnswerOf(Used[k])
                                    /\ NamesUsed[k].candles = AnswerOf(Used[k]).candles
        BY SMTT(30), <1>2, AnswersAre
    <1>4. /\ result.merged.adjusted = a
          /\ Times(candles) = AllTimes(NamesUsed)
          /\ \A i \in DOMAIN candles : \E k \in DOMAIN AnswerOf(RightfulOwner(candles[i].ts)).candles :
                [AnswerOf(RightfulOwner(candles[i].ts)).candles[k] EXCEPT !.raw = candles[i].raw]
                    = candles[i]
          /\ several =>
                /\ \A i \in DOMAIN candles : ~candles[i].raw
                /\ \A i, j \in DOMAIN candles : i < j => candles[i].ts < candles[j].ts
                /\ ToSet(actions) = UNION {ToSet(ResponsesUsed[k].actions) : k \in DOMAIN Used}
                /\ \A i, j \in DOMAIN actions :
                      i < j => actions[i] # actions[j] /\ actions[i].ts <= actions[j].ts
        BY <1>2, MergedSeriesIs
    <1>5. /\ spans \in Seq(SpanType)
          /\ \A k \in DOMAIN spans : {spans[k].start, spans[k].end} \subseteq AllTimes(NamesUsed)
          /\ \A t \in AllTimes(NamesUsed) : \E k \in DOMAIN spans : Covers(spans[k], t)
          /\ \A t \in AllTimes(NamesUsed) : \A k \in DOMAIN spans :
                 Covers(spans[k], t) => spans[k].name = Owner(NamesUsed, t)
        BY <1>1, <1>3, AttributionIs
    <1> HIDE DEF candles, spans, actions, several
    <1>6. ASSUME NEW i \in DOMAIN candles
          PROVE  LET c == candles[i]
                     owner == RightfulOwner(c.ts)
                 IN  /\ \E k \in DOMAIN answer(owner).candles :
                           [answer(owner).candles[k] EXCEPT !.raw = c.raw] = c
                     /\ \A s \in ToSet(spans) : s.start <= c.ts /\ c.ts <= s.end => s.name = owner
                     /\ \E s \in ToSet(spans) : s.start <= c.ts /\ c.ts <= s.end
                     /\ several => ~c.raw
        <2> DEFINE c == candles[i]
                   owner == RightfulOwner(c.ts)
        <2>1. c.ts \in AllTimes(NamesUsed)
            <3>1. c.ts \in Times(candles)
                BY DEF Times
            <3> QED BY <1>4, <3>1
        <2>2. \E k \in DOMAIN answer(owner).candles : [answer(owner).candles[k] EXCEPT !.raw = c.raw] = c
            BY <1>4 DEF AnswerOf
        <2>3. several => ~c.raw
            BY <1>4
        <2> HIDE DEF c
        <2>4. owner = Owner(NamesUsed, c.ts)
            BY <1>2, <1>4, <2>1, OwnerIsRightful
        <2> HIDE DEF owner
        <2>5. \A s \in ToSet(spans) : s.start <= c.ts /\ c.ts <= s.end => s.name = owner
            BY <1>5, <2>1, <2>4 DEF ToSet, Covers
        <2>6. \E s \in ToSet(spans) : s.start <= c.ts /\ c.ts <= s.end
            BY <1>5, <2>1 DEF ToSet, Covers
        <2> QED BY <2>2, <2>3, <2>5, <2>6 DEF c, owner
    <1>7. ASSUME NEW c \in Usable, answer(c).adjusted = result.merged.adjusted
          PROVE  Times(answer(c).candles) \subseteq Times(candles)
        <2>1. c \in U
            BY <1>2, <1>4, <1>7 DEF UsedAs
        <2>2. \E k \in DOMAIN Used : Used[k] = c
            BY <1>2, <2>1, UsedList
        <2> QED BY <1>3, <1>4, <2>2 DEF AllTimes, AnswerOf
    <1>8. \A s \in ToSet(spans) : {s.start, s.end} \subseteq Times(candles)
        BY <1>4, <1>5 DEF ToSet
    <1>9. several => /\ ToSet(actions) = UNION {ToSet(answer(c).actions) : c \in ToSet(Used)}
                     /\ \A i, j \in DOMAIN actions :
                           i < j => actions[i] # actions[j] /\ actions[i].ts <= actions[j].ts
        <2>1. UNION {ToSet(ResponsesUsed[k].actions) : k \in DOMAIN Used}
                = UNION {ToSet(answer(c).actions) : c \in ToSet(Used)}
            BY <1>3 DEF AnswerOf, ToSet
        <2> QED BY <1>4, <2>1
    <1> QED BY ZenonT(40), <1>4, <1>6, <1>7, <1>8, <1>9 DEF MergeIsAttributed, candles, spans, actions, several

\* Each candle returned is the one of the best ranked connector that has its
\* time, and is attributed to that connector, for any number of connectors
\* whose series overlap in any way.
THEOREM MergesAttributed == FanSpec => []MergeIsAttributed
    <1>1. HistoryOK => MergeIsAttributed
        <2> SUFFICES ASSUME HistoryOK PROVE MergeIsAttributed
            OBVIOUS
        <2>1. CASE op = "history"
            BY SMTT(30), <2>1, CallMeansAttributed DEF HistoryOK
        <2>2. CASE op # "history"
            BY <2>2 DEF HistoryOK, MergeIsAttributed, IsSeries
        <2> QED BY <2>1, <2>2
    <1> QED BY HistoryInit, HistoryStep, <1>1, PTL DEF FanSpec

-----------------------------------------------------------------------------
(* What the history router resamples *)

LEMMA FinalPlanIs ==
    ASSUME NEW candles
    PROVE  FinalPlan(candles) \in {None, Daily, Weekly}
    BY DEF FinalPlan

\* A series returned is what was merged, resampled to the final plan.
LEMMA ResolvedByPlan ==
    ASSUME NEW merged, NEW spans, Resolved(merged, spans).kind = "series",
           merged = [candles |-> merged.candles, adjusted |-> merged.adjusted,
                     meta |-> merged.meta, actions |-> merged.actions]
    PROVE  LET r == Resolved(merged, spans)
               resampled == Resampled(r.plan, merged.meta, merged.candles)
           IN  /\ r.merged = merged /\ r.plan = FinalPlan(merged.candles)
               /\ r.plan # None => ~resampled.mixed /\ r.response.candles = resampled.out
    <1> DEFINE plan == FinalPlan(merged.candles)
               out == Resampled(plan, merged.meta, merged.candles).out
               series(m) == [kind |-> "series", response |-> m, spans |-> spans,
                             plan |-> plan, merged |-> merged]
    <1>1. [merged EXCEPT !.candles = out].candles = out
        OBVIOUS
    <1>2. Resolved(merged, spans) =
            IF plan = None THEN series(merged)
            ELSE IF Resampled(plan, merged.meta, merged.candles).mixed THEN [kind |-> "data"]
            ELSE series([merged EXCEPT !.candles = out])
        BY DEF Resolved
    <1>3. CASE plan = None
        <2>1. Resolved(merged, spans) = series(merged)
            BY <1>2, <1>3
        <2> QED BY <1>3, <2>1
    <1>4. CASE plan # None
        <2>1. ~Resampled(plan, merged.meta, merged.candles).mixed
            <3> HIDE DEF plan, out, series
            <3> QED BY <1>2, <1>4
        <2>2. Resolved(merged, spans) = series([merged EXCEPT !.candles = out])
            <3> HIDE DEF plan, out, series
            <3> QED BY <1>2, <1>4, <2>1
        <2> HIDE DEF out
        <2>3. Resolved(merged, spans).plan = plan /\ Resolved(merged, spans).merged = merged
              /\ Resolved(merged, spans).response.candles = out
            BY <1>1, <2>2
        <2> QED BY <1>4, <2>1, <2>3 DEF out
    <1> QED BY <1>3, <1>4

\* The metas kept while merging are those of responses.
MetasOf(m, responses, i) ==
    /\ m \in MergeType
    /\ {m.meta, m.fallback} \subseteq {None} \union {responses[k].meta : k \in 1..i}

LEMMA MetasTurn ==
    ASSUME NEW responses \in Seq(ResponseType), NEW i \in 1..Len(responses),
           NEW m, MetasOf(m, responses, i - 1)
    PROVE  MetasOf(MergeResponse(m, responses[i]), responses, i)
    <1> DEFINE r == responses[i]
    <1>1. m \in MergeType /\ r \in ResponseType /\ i \in 1..i
        BY DEF MetasOf
    <1>2. PICK x : /\ Gathered(x, m, r.candles, Len(r.candles))
                   /\ MergeResponse(m, r) =
                       [x EXCEPT !.adjusted = @ /\ (DOMAIN x.map # DOMAIN m.map => r.adjusted),
                                 !.meta = IF DOMAIN x.map # DOMAIN m.map /\ @ = None
                                          THEN r.meta ELSE @,
                                 !.fallback = IF @ = None THEN r.meta ELSE @,
                                 !.actions = @ \union ToSet(r.actions)]
        BY <1>1, MergeResponseIs
    <1>3. MergeResponse(m, r) \in MergeType
        BY <1>1, MergeResponseType
    <1>4. x \in MergeType /\ x.meta = m.meta /\ x.fallback = m.fallback
        BY <1>2 DEF Gathered
    <1>5. MergeResponse(m, r).meta \in {m.meta, r.meta}
          /\ MergeResponse(m, r).fallback \in {m.fallback, r.meta}
        BY <1>2, <1>4 DEF MergeType
    <1>6. r.meta \in {responses[k].meta : k \in 1..i}
        BY <1>1
    <1>7. {m.meta, m.fallback} \subseteq {None} \union {responses[k].meta : k \in 1..i}
        BY DEF MetasOf
    <1> QED BY <1>3, <1>5, <1>6, <1>7 DEF MetasOf

LEMMA MergedMetas ==
    ASSUME NEW responses \in Seq(ResponseType)
    PROVE  MetasOf(Merged(responses), responses, Len(responses))
    <1> DEFINE n == Len(responses)
               after == CHOOSE f : ResponseTurns(f, responses)
               T == {i \in 0..n : MetasOf(after[i], responses, i)}
    <1>1. n \in Nat
        OBVIOUS
    <1>2. ResponseTurns(after, responses)
        BY ResponseTurnsExist
    <1>3. Merged(responses) = after[n]
        BY DEF Merged, ResponseTurns
    <1> HIDE DEF after
    <1>4. /\ after[0] = NothingMerged
          /\ \A i \in 1..n : after[i] = MergeResponse(after[i - 1], responses[i])
        <2>1. \A i \in 1..n : i \in 0..n /\ i # 0
            BY <1>1
        <2>2. 0 \in 0..n
            BY <1>1
        <2> QED BY <1>2, <2>1, <2>2 DEF ResponseTurns
    <1>5. 0 \in T
        <2>1. MetasOf(NothingMerged, responses, 0)
            BY NothingMergedType DEF MetasOf, NothingMerged
        <2> QED BY <1>1, <1>4, <2>1
    <1>6. ASSUME NEW i \in 1..n, i - 1 \in T PROVE i \in T
        BY <1>1, <1>4, <1>6, MetasTurn
    <1>7. n \in T
        <2> HIDE DEF T, n
        <2>1. 0..n \subseteq T
            BY <1>1, <1>5, <1>6, IntervalInduction
        <2> QED BY <1>1, <2>1
    <1> QED BY <1>3, <1>7

\* The answer of a connector that is used has the meta of its response.
LEMMA UsableAnswer ==
    ASSUME CallOK, NEW c \in Usable
    PROVE  /\ tasks[c].response \in Responses /\ tasks[c].plan \in Plans
           /\ Provided(c) = Collected(tasks[c].plan, tasks[c].response)
           /\ ~Provided(c).mixed
           /\ Provided(c).response.meta = tasks[c].response.meta
    <1>1. c \in Connectors
        BY UsableIs
    <1>2. HasCandles(c) /\ ~Provided(c).mixed
        BY DEF Usable
    <1>3. TaskOK(tasks[c]) /\ tasks[c].kind = "series"
        BY <1>1, <1>2 DEF CallOK, TasksOK, HasCandles
    <1>4. /\ tasks[c].plan \in Plans /\ tasks[c].response \in Responses
          /\ tasks[c].provided = Collected(tasks[c].plan, tasks[c].response)
        BY <1>3, TaskKind
    <1>5. ASSUME NEW plan, NEW r \in ResponseType PROVE Collected(plan, r).response.meta = r.meta
        BY DEF Collected, ResponseType
    <1> QED BY <1>2, <1>4, <1>5, ResponsesAssumption DEF Provided

\* What was merged is a response, with the meta of a connector's or none.
LEMMA MergedIsResponse ==
    ASSUME CallOK, IsSeries
    PROVE  /\ result.merged.candles \in Seq(CandleType)
           /\ result.merged.meta \in MetaType
           /\ result.merged.meta # None =>
                  \E r \in Responses : r.meta = result.merged.meta
           /\ result.plan \in {None, Daily, Weekly}
           /\ result.plan # None =>
                LET resampled == Resampled(result.plan, result.merged.meta, result.merged.candles)
                IN  ~resampled.mixed /\ result.response.candles = resampled.out
    <1>1. /\ Usable # {} /\ result = Resolved(result.merged, result.spans)
          /\ result.kind = "series"
          /\ \/ Len(Used) = 1 /\ result.merged = ResponsesUsed[1]
             \/ /\ Len(Used) # 1 /\ ~Merged(ResponsesUsed).mixed
                /\ result.merged = MergedResponse(Merged(ResponsesUsed))
        BY SuccessIs DEF IsSeries
    <1>2. PICK U, a : UsedAs(U, a)
        BY <1>1, UsedIs
    <1>3. /\ ResponsesUsed \in Seq(ResponseType) /\ DOMAIN ResponsesUsed = DOMAIN Used
          /\ DOMAIN Used = 1..Len(Used) /\ Len(Used) \in Nat \ {0}
          /\ \A k \in DOMAIN Used : Used[k] \in U /\ ResponsesUsed[k] = AnswerOf(Used[k])
        BY <1>2, AnswersAre
    <1>4. \A k \in DOMAIN Used : \E r \in Responses : r.meta = ResponsesUsed[k].meta
        <2> TAKE k \in DOMAIN Used
        <2>1. Used[k] \in Usable
            BY <1>2, <1>3 DEF UsedAs
        <2>2. /\ tasks[Used[k]].response \in Responses
              /\ Provided(Used[k]).response.meta = tasks[Used[k]].response.meta
            BY <2>1, UsableAnswer
        <2> QED BY <1>3, <2>2 DEF AnswerOf
    <1> DEFINE x == result.merged
    <1>5. /\ x.candles \in Seq(CandleType) /\ x.meta \in MetaType
          /\ x.meta # None => \E r \in Responses : r.meta = x.meta
          /\ x = [candles |-> x.candles, adjusted |-> x.adjusted,
                  meta |-> x.meta, actions |-> x.actions]
        <2>1. CASE Len(Used) = 1 /\ x = ResponsesUsed[1]
            <3>1. 1 \in DOMAIN Used /\ x \in ResponseType
                BY <1>3, <2>1
            <3>2. x.candles \in Seq(CandleType) /\ x.meta \in MetaType
                  /\ x = [candles |-> x.candles, adjusted |-> x.adjusted,
                          meta |-> x.meta, actions |-> x.actions]
                BY <3>1 DEF ResponseType
            <3> QED BY <1>4, <2>1, <3>1, <3>2
        <2>2. CASE ~Merged(ResponsesUsed).mixed /\ x = MergedResponse(Merged(ResponsesUsed))
            <3> DEFINE m == Merged(ResponsesUsed)
            <3>1. MetasOf(m, ResponsesUsed, Len(ResponsesUsed))
                BY <1>3, MergedMetas
            <3>2. m.meta \in MetaType /\ m.fallback \in MetaType
                BY <3>1 DEF MetasOf, MergeType
            <3>3. x.candles \in Seq(CandleType)
                BY <1>3, <2>2, MergedResponseIs DEF MergeYields
            <3>4. x.meta \in {m.meta, m.fallback}
                  /\ x = [candles |-> x.candles, adjusted |-> x.adjusted,
                          meta |-> x.meta, actions |-> x.actions]
                <4> HIDE DEF m
                <4>1. x = MergedResponse(m)
                    BY <2>2 DEF m
                <4> HIDE DEF x
                <4> QED BY <4>1 DEF MergedResponse
            <3>5. Len(ResponsesUsed) = Len(Used)
                BY <1>3
            <3> HIDE DEF m, x
            <3>6. x.meta = None \/ \E k \in DOMAIN Used : x.meta = ResponsesUsed[k].meta
                BY <1>3, <3>1, <3>4, <3>5 DEF MetasOf
            <3> QED BY <1>4, <3>2, <3>3, <3>4, <3>6
        <2> QED BY <1>1, <2>1, <2>2
    <1>6. /\ result.plan = FinalPlan(x.candles)
          /\ result.plan # None =>
                LET resampled == Resampled(result.plan, x.meta, x.candles)
                IN  ~resampled.mixed /\ result.response.candles = resampled.out
        <2>1. Resolved(x, result.spans).kind = "series"
            BY <1>1
        <2> DEFINE r == Resolved(x, result.spans)
        <2>2. /\ r.plan = FinalPlan(x.candles)
              /\ r.plan # None => /\ ~Resampled(r.plan, x.meta, x.candles).mixed
                                  /\ r.response.candles = Resampled(r.plan, x.meta, x.candles).out
            <3> HIDE DEF x
            <3> QED BY <1>5, <2>1, ResolvedByPlan
        <2>3. result = r
            BY <1>1
        <2> HIDE DEF r, x
        <2> QED BY <2>2, <2>3
    <1> QED BY <1>5, <1>6, FinalPlanIs

\* Where buckets come in the order of time: of what was merged, in the final
\* plan, and of the answers, in the plans of their connectors.
InOrderOfTime ==
    IsSeries =>
        /\ result.plan # None =>
              Ascends(result.plan, result.merged.meta, result.merged.candles)
        /\ \A c \in Usable : tasks[c].plan # None =>
              Ascends(tasks[c].plan, tasks[c].response.meta, tasks[c].response.candles)

LEMMA ResampledIs ==
    ASSUME NEW plan \in PlanType, NEW meta \in MetaType, NEW candles \in Seq(CandleType),
           Ascends(plan, meta, candles), NoneSkipped(plan, meta, candles),
           ~Resampled(plan, meta, candles).mixed
    PROVE  IsResampleOf(Resampled(plan, meta, candles).out, plan, meta, candles)
    <1>1. IsGrouping(Resampled(plan, meta, candles).out, plan, meta, candles)
        BY ResampledGroups
    <1>2. Resampled(plan, meta, candles).out \in Seq(CandleType)
        BY ResampledType
    <1> QED BY <1>1, <1>2, GroupingIsResample

LEMMA CallResamples ==
    ASSUME CallOK, InOrderOfTime
    PROVE  ResampleIsByBuckets
    <1> SUFFICES ASSUME IsSeries PROVE ResampleIsByBuckets
        BY DEF ResampleIsByBuckets
    <1>1. ASSUME result.plan # None,
                 NoneSkipped(result.plan, result.merged.meta, result.merged.candles)
          PROVE  IsResampleOf(result.response.candles, result.plan, result.merged.meta,
                              result.merged.candles)
        <2> DEFINE r == Resampled(result.plan, result.merged.meta, result.merged.candles)
        <2>1. /\ result.merged.candles \in Seq(CandleType) /\ result.merged.meta \in MetaType
              /\ result.plan \in {None, Daily, Weekly}
              /\ ~r.mixed /\ result.response.candles = r.out
            BY <1>1, MergedIsResponse
        <2>2. result.plan \in PlanType
            <3>1. result.plan \in Plans
                BY <2>1 DEF Plans
            <3> QED BY <1>1, <3>1, PlansAre
        <2>3. Ascends(result.plan, result.merged.meta, result.merged.candles)
            BY <1>1 DEF InOrderOfTime
        <2> QED BY <1>1, <2>1, <2>2, <2>3, ResampledIs
    <1>2. ASSUME NEW c \in Usable, tasks[c].plan # None,
                 NoneSkipped(tasks[c].plan, tasks[c].response.meta, tasks[c].response.candles)
          PROVE  IsResampleOf(Provided(c).response.candles, tasks[c].plan, tasks[c].response.meta,
                              tasks[c].response.candles)
        <2> DEFINE plan == tasks[c].plan
                   r == tasks[c].response
                   resampled == Resampled(plan, r.meta, r.candles)
        <2>1. r \in ResponseType /\ plan \in PlanType
            BY <1>2, UsableAnswer, PlansAre, ResponsesAssumption
        <2>2. r.meta \in MetaType /\ r.candles \in Seq(CandleType)
            BY <2>1 DEF ResponseType
        <2>3. Provided(c) = Collected(plan, r) /\ ~Provided(c).mixed
            BY UsableAnswer
        <2>4. Ascends(plan, r.meta, r.candles)
            BY <1>2 DEF InOrderOfTime
        <2>5. ~resampled.mixed /\ Provided(c).response.candles = resampled.out
            <3>1. plan # None
                BY <1>2
            <3> HIDE DEF plan, r
            <3> DEFINE x == [r EXCEPT !.candles = resampled.out]
            <3>2. Collected(plan, r) = [mixed |-> resampled.mixed, response |-> x]
                BY <3>1 DEF Collected
            <3>3. x.candles = resampled.out
                BY <2>1 DEF ResponseType
            <3>4. resampled.mixed \in BOOLEAN
                BY <2>1, <2>2, ResampledType
            <3> HIDE DEF resampled, x
            <3>5. Collected(plan, r).mixed = resampled.mixed /\ Collected(plan, r).response = x
                BY <3>2, <3>4
            <3> QED BY <2>3, <3>3, <3>4, <3>5
        <2>6. IsResampleOf(resampled.out, plan, r.meta, r.candles)
            <3>1. NoneSkipped(plan, r.meta, r.candles)
                BY <1>2
            <3> HIDE DEF plan, r
            <3> QED BY <2>1, <2>2, <2>4, <2>5, <3>1, ResampledIs
        <2> QED BY <2>5, <2>6
    <1> QED BY <1>1, <1>2 DEF ResampleIsByBuckets

\* What is resampled, of one answer or of the merged series, has one candle
\* per bucket, made of all its candles, wherever the buckets of the candles
\* come in the order of time.
THEOREM ResamplesByBuckets == FanSpec => [](InOrderOfTime => ResampleIsByBuckets)
    <1>1. HistoryOK => (InOrderOfTime => ResampleIsByBuckets)
        <2> SUFFICES ASSUME HistoryOK, InOrderOfTime PROVE ResampleIsByBuckets
            OBVIOUS
        <2>1. CASE op = "history"
            BY <2>1, CallResamples DEF HistoryOK
        <2>2. CASE op # "history"
            BY <2>2 DEF HistoryOK, ResampleIsByBuckets, IsSeries
        <2> QED BY <2>1, <2>2
    <1> QED BY HistoryInit, HistoryStep, <1>1, PTL DEF FanSpec

\* The zones of the connectors: when their clocks change no local date comes
\* back, no midnight is skipped, and a bucket of the minutes asked for begins.
RegularZones ==
    \A r \in Responses : HasZone(r.meta) =>
        /\ DatesGoOn(r.meta.zone)
        /\ \A i \in Intraday(Requests) : InStep(r.meta.zone, i.minutes)

LEMMA RegularPlan ==
    ASSUME RegularZones, NEW plan \in Plans, plan # None, NEW r \in Responses
    PROVE  RegularFor(plan, r.meta)
    <1> SUFFICES ASSUME HasZone(r.meta) PROVE RegularFor(plan, r.meta)
        BY DEF RegularFor
    <1>1. CASE plan \in {Daily, Weekly}
        <2>1. plan.unit # "minutes"
            BY <1>1 DEF Daily, Weekly, Plan
        <2> QED BY <2>1 DEF RegularFor, RegularZones
    <1>2. ASSUME NEW i \in Intraday(Requests), plan = Plan("minutes", i.minutes)
          PROVE  RegularFor(plan, r.meta)
        <2>1. plan.unit = "minutes" /\ plan.minutes = i.minutes
            BY <1>2 DEF Plan
        <2> QED BY <2>1 DEF RegularFor, RegularZones
    <1> QED BY <1>1, <1>2 DEF Plans

LEMMA RegularAscends ==
    ASSUME NEW plan \in PlanType, NEW meta \in MetaType, NEW candles \in Seq(CandleType),
           RegularFor(plan, meta)
    PROVE  Ascends(plan, meta, candles) /\ NoneSkipped(plan, meta, candles)
    <1>1. \A i \in DOMAIN candles : candles[i].ts \in Int
        <2>1. \A i \in DOMAIN candles : candles[i] \in CandleType
            OBVIOUS
        <2> QED BY <2>1 DEF CandleType
    <1>2. ASSUME NEW i \in DOMAIN candles, NEW j \in DOMAIN candles,
                 candles[i].ts <= candles[j].ts
          PROVE  Bucket(plan, meta, candles[i].ts) <= Bucket(plan, meta, candles[j].ts)
        BY <1>1, <1>2, BucketsAscend
    <1>3. \A t \in Times(candles) : ~Skipped(meta, Beginning(plan, meta, t))
        BY <1>1, RegularBegins DEF Times
    <1> QED BY <1>2, <1>3 DEF Ascends, NoneSkipped

\* No candle that is resampled lies in a bucket whose beginning the clocks skip.
NothingSkipped ==
    IsSeries =>
        /\ result.plan # None =>
              NoneSkipped(result.plan, result.merged.meta, result.merged.candles)
        /\ \A c \in Usable : tasks[c].plan # None =>
              NoneSkipped(tasks[c].plan, tasks[c].response.meta, tasks[c].response.candles)

LEMMA RegularInOrder ==
    ASSUME RegularZones, CallOK
    PROVE  InOrderOfTime /\ NothingSkipped
    <1> SUFFICES ASSUME IsSeries PROVE InOrderOfTime /\ NothingSkipped
        BY DEF InOrderOfTime, NothingSkipped
    <1>1. ASSUME result.plan # None
          PROVE  /\ Ascends(result.plan, result.merged.meta, result.merged.candles)
                 /\ NoneSkipped(result.plan, result.merged.meta, result.merged.candles)
        <2>1. /\ result.merged.candles \in Seq(CandleType) /\ result.merged.meta \in MetaType
              /\ result.merged.meta # None => \E r \in Responses : r.meta = result.merged.meta
              /\ result.plan \in Plans
            BY MergedIsResponse DEF Plans
        <2>2. result.plan \in PlanType
            BY <1>1, <2>1, PlansAre
        <2>3. RegularFor(result.plan, result.merged.meta)
            <3>1. CASE result.merged.meta = None
                BY <3>1 DEF RegularFor, HasZone
            <3>2. CASE result.merged.meta # None
                BY <1>1, <2>1, <3>2, RegularPlan
            <3> QED BY <3>1, <3>2
        <2> QED BY <2>1, <2>2, <2>3, RegularAscends
    <1>2. ASSUME NEW c \in Usable, tasks[c].plan # None
          PROVE  /\ Ascends(tasks[c].plan, tasks[c].response.meta, tasks[c].response.candles)
                 /\ NoneSkipped(tasks[c].plan, tasks[c].response.meta, tasks[c].response.candles)
        <2>1. /\ tasks[c].response \in Responses /\ tasks[c].plan \in Plans
              /\ tasks[c].response \in ResponseType /\ tasks[c].plan \in PlanType
            BY <1>2, UsableAnswer, PlansAre, ResponsesAssumption
        <2>2. /\ tasks[c].response.meta \in MetaType
              /\ tasks[c].response.candles \in Seq(CandleType)
            BY <2>1 DEF ResponseType
        <2>3. RegularFor(tasks[c].plan, tasks[c].response.meta)
            BY <1>2, <2>1, RegularPlan
        <2> QED BY <2>1, <2>2, <2>3, RegularAscends
    <1> QED BY <1>1, <1>2 DEF InOrderOfTime, NothingSkipped

\* Where the zones are regular, everything resampled, without exception, has one
\* candle per bucket of local time: no bucket begins at a time that is skipped.
THEOREM RegularZonesResample ==
    ASSUME RegularZones
    PROVE  FanSpec => [](ResampleIsByBuckets /\ NothingSkipped)
    <1>1. HistoryOK => ResampleIsByBuckets /\ NothingSkipped
        <2> SUFFICES ASSUME HistoryOK
                     PROVE  ResampleIsByBuckets /\ NothingSkipped
            OBVIOUS
        <2>1. CASE op = "history"
            BY <2>1, RegularInOrder, CallResamples DEF HistoryOK
        <2>2. CASE op # "history"
            BY <2>2 DEF HistoryOK, ResampleIsByBuckets, NothingSkipped, IsSeries
        <2> QED BY <2>1, <2>2
    <1> QED BY HistoryInit, HistoryStep, <1>1, PTL DEF FanSpec
-----------------------------------------------------------------------------
(* Calls joined *)

\* How the i-th call may end.
Ends(i, c) ==
    \/ \E v \in Values(i) : c = Ok(v)
    \/ \E e \in Failures : c = Err(e)
    \/ op = "search" /\ c = Ok(<<>>)

WarningsOf(cs) == FlattenSeq([i \in DOMAIN cs |-> ActionableOf(cs[i])])

\* the query of the second phase of info, from the answers of the first
EnrichedFrom(base) ==
    [parts |-> Enrichments,
     name |-> OrElse(NameOf(Part(base[2])), NameOf(Part(base[1]))),
     isin |-> OrElse(Part(base[3]),
                     IF Part(base[1]) = None THEN None ELSE Part(base[1]).isin),
     base |-> base,
     warnings |-> WarningsOf(base)]

Methods == {"history", "quotes", "download", "search", "info", "fast_info"}

DownloadOK ==
    /\ query \in [insts : Seq(Instruments), range : {None, "6m", "1m"},
                  period : {None, "valid", "invalid"}]
    /\ Unique(query.insts)
    /\ query.range = None <=> query.period # None

InfoOK ==
    \/ query = [parts |-> BaseParts]
    \/ /\ query = EnrichedFrom(query.base)
       /\ query.base = [i \in 1..3 |-> query.base[i]]
       /\ \A i \in 1..3 : Ends(i, query.base[i])

QueryOK ==
    /\ op = "quotes" => query.insts \in Seq(Instruments)
    /\ op = "download" => DownloadOK
    /\ op = "search" => query.kind \in Kinds /\ query.limit \in Limits
    /\ op = "info" => InfoOK

CallsOK ==
    calls # None =>
        /\ op # "history"
        /\ calls = [i \in 1..Width |-> calls[i]]
        /\ \A i \in 1..Width : calls[i] = Waiting \/ Ends(i, calls[i])

\* What is returned is from the calls as they are, and all have ended.
ReportOK ==
    report # None =>
        \/ report.kind = "invalid_arg" /\ calls = None
        \/ /\ report.kind = "request_timeout"
           /\ calls # None /\ Pending # {}
           /\ op \in {"quotes", "download", "search"}
        \/ calls # None /\ Pending = {} /\ report \in Joins

FanOK == op \in Methods /\ QueryOK /\ CallsOK /\ ReportOK

LEMMA FanStart == FanInit => FanOK
    <1> SUFFICES ASSUME FanInit PROVE FanOK
        OBVIOUS
    <1>1. ASSUME NEW insts \in Batches PROVE insts \in Seq(Instruments)
        BY BatchAssumption DEF Batches
    <1>2. CASE HistoryCall
        BY <1>2 DEF FanInit, HistoryCall, FanOK, Methods, QueryOK, CallsOK, ReportOK
    <1>3. CASE OtherCall
        <2>1. op \in Methods
            BY <1>3 DEF OtherCall, Methods
        <2>2. op = "quotes" => query.insts \in Seq(Instruments)
            BY <1>1, <1>3 DEF OtherCall
        <2>3. op = "download" => DownloadOK
            <3> SUFFICES ASSUME op = "download" PROVE DownloadOK
                OBVIOUS
            <3>1. query = [insts |-> <<>>, range |-> "6m", period |-> None]
                BY <1>3 DEF OtherCall, NewDownload
            <3>2. query.insts = <<>> /\ query.range = "6m" /\ query.period = None
                BY <3>1
            <3>3. Unique(query.insts)
                BY <3>2 DEF Unique
            <3>4. None # "6m"
                BY ValuesAssumption
            <3> QED BY <3>1, <3>2, <3>3, <3>4 DEF DownloadOK
        <2>4. /\ op = "search" => query.kind \in Kinds /\ query.limit \in Limits
              /\ op = "info" => InfoOK
            BY <1>3 DEF OtherCall, InfoOK
        <2> QED BY <2>1, <2>2, <2>3, <2>4 DEF FanInit, FanOK, QueryOK, CallsOK, ReportOK
    <1> QED BY <1>2, <1>3 DEF FanInit

\* The steps that leave the query leave what depends on it.
LEMMA QueryStays ==
    ASSUME UNCHANGED <<op, query>>
    PROVE  /\ QueryOK' <=> QueryOK
           /\ Width' = Width
           /\ \A i, c : Ends(i, c)' <=> Ends(i, c)
    <1>1. \A i : Values(i)' = Values(i)
        BY DEF Values
    <1>2. \A i, c : Ends(i, c)' <=> Ends(i, c)
        BY <1>1 DEF Ends
    <1>3. InfoOK' <=> InfoOK
        BY <1>2 DEF InfoOK, EnrichedFrom, WarningsOf, OrElse, NameOf, Part, ActionableOf
    <1>4. DownloadOK' <=> DownloadOK
        BY DEF DownloadOK, Unique
    <1> QED BY <1>2, <1>3, <1>4 DEF QueryOK, Width

\* and the steps that leave the calls too, what is made of them
LEMMA JoinsStay ==
    ASSUME UNCHANGED <<op, query, calls>>
    PROVE  Joins' = Joins /\ Pending' = Pending
    <1>1. Oks' = Oks /\ Errs' = Errs /\ Warnings' = Warnings /\ Pending' = Pending
        BY DEF Oks, Errs, Warnings, Pending
    <1>2. QuotesResult' = QuotesResult /\ DownloadResult' = DownloadResult
        BY <1>1 DEF QuotesResult, DownloadResult
    <1>3. SearchResult' = SearchResult
        <2>1. \A r : ExchangeKey(r)' = ExchangeKey(r)
            BY DEF ExchangeKey
        <2>2. \A found, group : BestOf(found, group)' = BestOf(found, group)
            BY <2>1 DEF BestOf
        <2>3. \A found : Deduplicated(found)' = Deduplicated(found)
            BY <2>2 DEF Deduplicated
        <2>4. \A c : Attempted(c)' <=> Attempted(c)
            BY DEF Attempted
        <2> QED BY <1>1, <2>3, <2>4 DEF SearchResult
    <1>4. InfoResult' = InfoResult /\ FastInfoResults' = FastInfoResults
        BY <1>1 DEF InfoResult, FastInfoResults
    <1> QED BY <1>1, <1>2, <1>3, <1>4 DEF Joins
LEMMA WidthIs ==
    ASSUME op \in Methods, op # "history", QueryOK
    PROVE  Width \in Nat
    <1>1. CASE op = "quotes" \/ op = "download"
        <2>1. query.insts \in Seq(Instruments)
            BY <1>1 DEF QueryOK, DownloadOK
        <2> QED BY <1>1, <2>1 DEF Width
    <1>2. CASE op = "search"
        BY <1>2, ConnectorsAssumption, FS_CardinalityType DEF Width
    <1>3. CASE op = "info" \/ op = "fast_info"
        BY <1>3 DEF Width
    <1> QED BY <1>1, <1>2, <1>3 DEF Methods

\* A builder's setters keep the download as it must be.
LEMMA ConfigureStep ==
    ASSUME FanOK, op = "download", Building, Configure
    PROVE  FanOK'
    <1>1. DownloadOK
        BY DEF FanOK, QueryOK
    <1>2. ASSUME NEW insts \in Seq(Instruments), SetInstruments(insts)
          PROVE  FanOK'
        <2>1. CASE Unique(insts)
            <3>1. /\ query' = [query EXCEPT !.insts = insts]
                  /\ op' = op /\ calls' = None /\ report' = None
                BY <1>2, <2>1 DEF SetInstruments, Building
            <3>2. query' \in [insts : Seq(Instruments), range : {None, "6m", "1m"},
                              period : {None, "valid", "invalid"}]
                BY <1>1, <3>1 DEF DownloadOK
            <3>3. query'.insts = insts /\ query'.range = query.range /\ query'.period = query.period
                BY <1>1, <3>1 DEF DownloadOK
            <3>4. DownloadOK'
                BY <1>1, <2>1, <3>2, <3>3 DEF DownloadOK, Unique
            <3> QED BY <3>1, <3>4 DEF FanOK, QueryOK, CallsOK, ReportOK
        <2>2. CASE ~Unique(insts)
            <3>1. UNCHANGED <<op, query>> /\ calls' = None /\ report' = [kind |-> "invalid_arg"]
                BY <1>2, <2>2 DEF SetInstruments, Building, Refuse
            <3> QED BY <3>1, QueryStays DEF FanOK, CallsOK, ReportOK
        <2> QED BY <2>1, <2>2
    <1>3. ASSUME NEW r \in {None, "1m"}, NEW p \in {None, "valid", "invalid"},
                 r = None <=> p # None,
                 query' = [query EXCEPT !.range = r, !.period = p],
                 op' = op, calls' = None, report' = None
          PROVE  FanOK'
        <2>1. query' \in [insts : Seq(Instruments), range : {None, "6m", "1m"},
                          period : {None, "valid", "invalid"}]
            BY <1>1, <1>3 DEF DownloadOK
        <2>2. query'.insts = query.insts /\ query'.range = r /\ query'.period = p
            BY <1>1, <1>3 DEF DownloadOK
        <2>3. DownloadOK'
            BY <1>1, <1>3, <2>1, <2>2 DEF DownloadOK, Unique
        <2> QED BY <1>3, <2>3 DEF FanOK, QueryOK, CallsOK, ReportOK
    <1>4. CASE \E insts \in Batches : SetInstruments(insts)
        <2>1. ASSUME NEW insts \in Batches PROVE insts \in Seq(Instruments)
            BY BatchAssumption DEF Batches
        <2> QED BY <1>2, <1>4, <2>1
    <1>5. CASE \E i \in Instruments : SetInstruments(Append(query.insts, i))
        <2>1. query.insts \in Seq(Instruments)
            BY <1>1 DEF DownloadOK
        <2>2. ASSUME NEW i \in Instruments PROVE Append(query.insts, i) \in Seq(Instruments)
            BY <2>1
        <2> QED BY <1>2, <1>5, <2>2
    <1>6. CASE SetRange
        <2>1. "1m" # None
            BY ValuesAssumption
        <2>2. /\ query' = [query EXCEPT !.range = "1m", !.period = None]
              /\ op' = op /\ calls' = None /\ report' = None
            BY <1>6 DEF SetRange, Building
        <2> QED BY <1>3, <2>1, <2>2
    <1>7. ASSUME NEW p \in {"valid", "invalid"}, SetPeriod(p) PROVE FanOK'
        <2>1. p # None
            BY ValuesAssumption
        <2>2. /\ query' = [query EXCEPT !.range = None, !.period = p]
              /\ op' = op /\ calls' = None /\ report' = None
            BY <1>7 DEF SetPeriod, Building
        <2> QED BY <1>3, <2>1, <2>2
    <1> QED BY <1>4, <1>5, <1>6, <1>7 DEF Configure

\* A call that ends fills its place, and no other.
LEMMA ReturnStep ==
    ASSUME FanOK, NEW i \in DOMAIN calls, Return(i)
    PROVE  FanOK'
    <1>1. UNCHANGED <<op, query, report>> /\ calls # None /\ report = None
        BY DEF Return
    <1>2. /\ calls = [j \in 1..Width |-> calls[j]] /\ op # "history"
          /\ \A j \in 1..Width : calls[j] = Waiting \/ Ends(j, calls[j])
        BY <1>1 DEF FanOK, CallsOK
    <1>3. i \in 1..Width
        BY <1>2
    <1>4. PICK c : calls' = [calls EXCEPT ![i] = c] /\ Ends(i, c)
        BY DEF Return, Ends
    <1>5. /\ calls' = [j \in 1..Width |-> calls'[j]]
          /\ \A j \in 1..Width : calls'[j] = IF j = i THEN c ELSE calls[j]
        BY <1>2, <1>3, <1>4
    <1>6. \A j \in 1..Width : calls'[j] = Waiting \/ Ends(j, calls'[j])
        BY <1>2, <1>4, <1>5
    <1>7. CallsOK'
        BY <1>1, <1>2, <1>5, <1>6, QueryStays DEF CallsOK
    <1> QED BY <1>1, <1>7, QueryStays DEF FanOK, ReportOK

\* The second phase of info starts from what the first has found.
LEMMA EnrichStep ==
    ASSUME FanOK, Enrich
    PROVE  FanOK'
    <1>1. /\ op = "info" /\ op' = op /\ calls # None /\ Pending = {}
          /\ report = None /\ report' = None
          /\ query' = EnrichedFrom(calls)
          /\ calls' = [i \in 1..3 |-> Waiting]
        BY DEF Enrich, EnrichedFrom, Warnings, WarningsOf
    <1>2. /\ calls = [j \in 1..3 |-> calls[j]]
          /\ \A j \in 1..3 : calls[j] = Waiting \/ Ends(j, calls[j])
        BY <1>1 DEF FanOK, CallsOK, Width
    <1>3. \A j \in 1..3 : Ends(j, calls[j])
        BY <1>1, <1>2 DEF Pending
    <1>4. \A j, c : Ends(j, c)' <=> Ends(j, c)
        <2>1. \A j : Values(j)' = Values(j)
            BY <1>1 DEF Values
        <2> QED BY <1>1, <2>1 DEF Ends
    <1>5. query'.base = calls
        BY <1>1 DEF EnrichedFrom
    <1>6. query' = EnrichedFrom(query.base)'
        BY <1>1, <1>5 DEF EnrichedFrom, WarningsOf, OrElse, NameOf, Part, ActionableOf
    <1>7. InfoOK'
        BY <1>2, <1>3, <1>4, <1>5, <1>6 DEF InfoOK
    <1>8. CallsOK'
        BY <1>1 DEF CallsOK, Width
    <1> QED BY <1>1, <1>7, <1>8 DEF FanOK, QueryOK, ReportOK

\* The other steps leave the query, and the calls once there are any.
LEMMA OtherStep ==
    ASSUME FanOK, Run \/ JoinDeadline \/ Join \/ UNCHANGED fanVars
    PROVE  FanOK'
    <1>1. UNCHANGED <<op, query>>
        BY DEF Run, JoinDeadline, Join, fanVars
    <1>2. op' \in Methods /\ QueryOK'
        BY <1>1, QueryStays DEF FanOK
    <1>3. CASE Run /\ calls' # calls
        <2>1. /\ calls' = [i \in 1..Width |-> Started(i)] /\ op # "history"
              /\ report' = None
            BY <1>3 DEF Run
        <2>2. \A i \in 1..Width : Started(i) = Waiting \/ Ends(i, Started(i))
            BY DEF Started, Ends
        <2>3. CallsOK'
            BY <1>1, <2>1, <2>2, QueryStays DEF CallsOK
        <2> QED BY <1>2, <2>1, <2>3 DEF FanOK, ReportOK
    <1>4. CASE calls' = calls
        <2>1. CallsOK'
            BY <1>1, <1>4, QueryStays DEF CallsOK, FanOK
        <2>2. ReportOK'
            <3>1. CASE UNCHANGED report
                BY <1>1, <1>4, <3>1, JoinsStay DEF FanOK, ReportOK
            <3>2. CASE report' # report
                <4>1. CASE Run
                    BY <1>4, <3>2, <4>1 DEF Run, Refuse, ReportOK
                <4>2. CASE JoinDeadline
                    <5>1. Pending' = Pending
                        BY <1>1, <1>4, JoinsStay
                    <5> QED BY <1>1, <1>4, <4>2, <5>1 DEF JoinDeadline, ReportOK
                <4>3. CASE Join
                    <5>1. calls # None /\ Pending = {} /\ report' \in Joins
                        BY <4>3 DEF Join
                    <5> QED BY <1>1, <1>4, <5>1, JoinsStay DEF ReportOK
                <4> QED BY <3>2, <4>1, <4>2, <4>3 DEF fanVars
            <3> QED BY <3>1, <3>2
        <2> QED BY <1>2, <2>1, <2>2 DEF FanOK
    <1> QED BY <1>3, <1>4 DEF JoinDeadline, Join, fanVars

LEMMA FanStep == FanOK /\ [FanNext]_allVars => FanOK'
    <1> SUFFICES ASSUME FanOK, [FanNext]_allVars PROVE FanOK'
        OBVIOUS
    <1>1. CASE op = "download" /\ Building /\ Configure
        BY <1>1, ConfigureStep
    <1>2. ASSUME NEW i \in DOMAIN calls, Return(i) PROVE FanOK'
        BY <1>2, ReturnStep
    <1>3. CASE Enrich
        BY <1>3, EnrichStep
    <1>4. CASE Run \/ JoinDeadline \/ Join \/ UNCHANGED fanVars
        BY <1>4, OtherStep
    <1> QED BY <1>1, <1>2, <1>3, <1>4 DEF FanNext, allVars, fanVars
LEMMA OutcomeKinds ==
    ASSUME NEW o \in Outcomes
    PROVE  o.kind \in {"series", "mixed", "data", "notfound", "all_timed_out",
                       "all_failed", "unsupported"}
    <1>1. CASE o \in Succeeding
        BY <1>1, SucceedingKinds
    <1>2. CASE o \notin Succeeding
        BY <1>2 DEF Outcomes
    <1> QED BY <1>1, <1>2

LEMMA CallTypes == CallOK => TypeOK
    <1> SUFFICES ASSUME CallOK PROVE TypeOK
        OBVIOUS
    <1>1. ASSUME NEW c \in Connectors
          PROVE  /\ tasks[c].kind \in TaskKinds
                 /\ tasks[c].kind = "series" => tasks[c].response \in Responses
                 /\ c \notin eligible => tasks[c] = Idle
        <2>1. TaskOK(tasks[c])
            BY DEF CallOK, TasksOK
        <2> QED BY <2>1, TaskKind DEF CallOK, TasksOK
    <1>2. result # None => result.kind \in {"series", "mixed", "data", "notfound", "all_timed_out",
                                            "all_failed", "unsupported", "request_timeout"}
        BY OutcomeKinds DEF CallOK, ResultOK
    <1> QED BY <1>1, <1>2 DEF CallOK, TypeOK

LEMMA JoinKinds ==
    ASSUME op \in Methods \ {"history"}, NEW r \in Joins
    PROVE  /\ r.kind \in {"quotes", "download", "search", "info", "fast_info", "data", "failed",
                          "unsupported", "all_failed", "all_timed_out"}
           /\ r.kind = "quotes" <=> op = "quotes"
           /\ r.kind = "download" <=> op = "download"
           /\ r.kind = "info" <=> op = "info"
           /\ op = "quotes" => r = QuotesResult
           /\ op = "download" => r = DownloadResult
           /\ op = "search" => r = SearchResult
           /\ op = "info" => r = InfoResult /\ query.parts = Enrichments
           /\ r.kind \in {"search", "all_failed", "all_timed_out"} => op = "search"
    <1>1. CASE op = "quotes"
        BY <1>1 DEF Joins, QuotesResult
    <1>2. CASE op = "download"
        BY <1>2 DEF Joins, DownloadResult
    <1>3. CASE op = "search"
        <2>1. r = SearchResult
            BY <1>3 DEF Joins
        <2>2. r.kind \in {"search", "unsupported", "all_failed", "all_timed_out"}
            BY <2>1 DEF SearchResult
        <2> QED BY <1>3, <2>1, <2>2
    <1>4. CASE op = "info"
        <2>1. query.parts = Enrichments /\ r = InfoResult
            BY <1>4 DEF Joins
        <2>2. r.kind = "info"
            BY <2>1 DEF InfoResult
        <2> QED BY <1>4, <2>1, <2>2
    <1>5. CASE op = "fast_info"
        <2>1. r \in FastInfoResults
            BY <1>5 DEF Joins
        <2>2. r.kind \in {"failed", "fast_info", "data"}
            BY <2>1 DEF FastInfoResults
        <2> QED BY <1>5, <2>2
    <1> QED BY <1>1, <1>2, <1>3, <1>4, <1>5 DEF Methods

LEMMA FanTypes == HistoryOK /\ FanOK => FanTypeOK
    <1> SUFFICES ASSUME HistoryOK, FanOK PROVE FanTypeOK
        OBVIOUS
    <1>1. op = "history" => TypeOK /\ query = None /\ calls = None
        BY CallTypes DEF HistoryOK
    <1>2. op = "download" => Unique(query.insts) /\ (query.range = None <=> query.period # None)
        BY DEF FanOK, QueryOK, DownloadOK
    <1>3. calls # None => \A i \in DOMAIN calls : calls[i].kind \in {"waiting", "ok", "err"}
        BY DEF FanOK, CallsOK, Ends, Waiting, Ok, Err
    <1>4. report # None =>
              report.kind \in {"quotes", "download", "search", "info", "fast_info", "data", "failed",
                               "invalid_arg", "unsupported", "all_failed", "all_timed_out",
                               "request_timeout"}
        <2>1. op \in Methods /\ (report # None =>
                  \/ report.kind \in {"request_timeout", "invalid_arg"}
                  \/ op # "history" /\ report \in Joins)
            BY DEF FanOK, ReportOK, CallsOK
        <2> QED BY <2>1, JoinKinds
    <1> QED BY <1>1, <1>2, <1>3, <1>4 DEF FanTypeOK, FanOK, Methods

\* The state keeps its types for any instruments, connectors and answers, and
\* a download being built its instruments apart and its range or its period.
THEOREM FanTypesKept == FanSpec => []FanTypeOK
    <1>1. FanInit => HistoryOK /\ FanOK
        BY HistoryInit, FanStart
    <1>2. (HistoryOK /\ FanOK) /\ [FanNext]_allVars => (HistoryOK /\ FanOK)'
        BY HistoryStep, FanStep
    <1>3. HistoryOK /\ FanOK => FanTypeOK
        BY FanTypes
    <1> QED BY <1>1, <1>2, <1>3, PTL DEF FanSpec
-----------------------------------------------------------------------------
(* Sequences joined *)

FlattenTurns(f, seqs) ==
    f = [i \in 1..Len(seqs) |-> IF i = 1 THEN seqs[i] ELSE f[i - 1] \o seqs[i]]

LEMMA FlattenTurnsExist ==
    ASSUME NEW T, NEW seqs \in Seq(Seq(T)), seqs # <<>>
    PROVE  \E f : FlattenTurns(f, seqs)
    <1> DEFINE n == Len(seqs)
               step == [i \in 2..n |-> [s \in Seq(T) |-> s \o seqs[i]]]
    <1>1. n \in Nat \ {0} /\ \A i \in 1..n : seqs[i] \in Seq(T)
        OBVIOUS
    <1>2. \A i \in 2..n, s \in Seq(T) : s \o seqs[i] \in Seq(T)
        BY <1>1
    <1>3. step \in [2..n -> [Seq(T) -> Seq(T)]]
        BY <1>2
    <1>4. \A i \in 2..n, s \in Seq(T) : step[i][s] = s \o seqs[i]
        OBVIOUS
    <1>5. seqs[1] \in Seq(T)
        BY <1>1
    <1> HIDE DEF step
    <1>6. PICK f : IsLoopFromOne(f, n, Seq(T), seqs[1], step)
        BY <1>1, <1>3, <1>5, LoopFromOne
    <1>7. \A i \in 1..n : f[i] = IF i = 1 THEN seqs[i] ELSE f[i - 1] \o seqs[i]
        <2> TAKE i \in 1..n
        <2>1. CASE i = 1
            BY <1>6, <2>1 DEF IsLoopFromOne
        <2>2. CASE i # 1
            <3>1. i \in 2..n /\ i - 1 \in 1..n
                BY <2>2
            <3> QED BY <1>4, <1>6, <2>2, <3>1 DEF IsLoopFromOne
        <2> QED BY <2>1, <2>2
    <1>8. f = [i \in 1..n |-> f[i]]
        BY <1>6 DEF IsLoopFromOne
    <1>9. f = [i \in 1..n |-> IF i = 1 THEN seqs[i] ELSE f[i - 1] \o seqs[i]]
        BY <1>7, <1>8
    <1> QED BY <1>9 DEF FlattenTurns

\* FlattenSeq puts the first sequences together, then the next after them.
LEMMA FlattenLoop ==
    ASSUME NEW T, NEW seqs \in Seq(Seq(T)), seqs # <<>>
    PROVE  \E f : /\ f[1] = seqs[1]
                  /\ \A i \in 2..Len(seqs) : f[i] = f[i - 1] \o seqs[i]
                  /\ FlattenSeq(seqs) = f[Len(seqs)]
    <1> DEFINE after == CHOOSE f : FlattenTurns(f, seqs)
    <1>1. FlattenSeq(seqs) = after[Len(seqs)]
        BY DEF FlattenSeq, FlattenTurns
    <1>2. FlattenTurns(after, seqs)
        BY FlattenTurnsExist
    <1> HIDE DEF after
    <1> WITNESS after
    <1>3. Len(seqs) \in Nat /\ Len(seqs) # 0
        OBVIOUS
    <1>4. 1 \in 1..Len(seqs) /\ \A i \in 2..Len(seqs) : i \in 1..Len(seqs) /\ i # 1
        BY <1>3
    <1>5. after[1] = seqs[1]
        BY <1>2, <1>4 DEF FlattenTurns
    <1>6. \A i \in 2..Len(seqs) : after[i] = after[i - 1] \o seqs[i]
        BY <1>2, <1>4 DEF FlattenTurns
    <1> QED BY <1>1, <1>5, <1>6

LEMMA JoinedIs ==
    ASSUME NEW T, NEW s \in Seq(T), NEW t \in Seq(T)
    PROVE  s \o t \in Seq(T) /\ ToSet(s \o t) = ToSet(s) \union ToSet(t)
    <1>1. /\ Len(s) \in Nat /\ Len(t) \in Nat
          /\ DOMAIN s = 1..Len(s) /\ DOMAIN t = 1..Len(t)
          /\ DOMAIN (s \o t) = 1..(Len(s) + Len(t))
          /\ \A k \in 1..Len(s) : (s \o t)[k] = s[k]
          /\ \A k \in 1..Len(t) : (s \o t)[Len(s) + k] = t[k]
          /\ s \o t \in Seq(T)
        OBVIOUS
    <1>2. ASSUME NEW k \in 1..(Len(s) + Len(t))
          PROVE  (s \o t)[k] \in ToSet(s) \union ToSet(t)
        <2>1. CASE k \in 1..Len(s)
            BY <1>1, <2>1 DEF ToSet
        <2>2. CASE k \notin 1..Len(s)
            <3>1. k - Len(s) \in 1..Len(t) /\ Len(s) + (k - Len(s)) = k
                BY <1>1, <2>2
            <3> QED BY <1>1, <3>1 DEF ToSet
        <2> QED BY <2>1, <2>2
    <1>3. ASSUME NEW k \in 1..Len(t)
          PROVE  t[k] \in ToSet(s \o t)
        <2>1. Len(s) + k \in 1..(Len(s) + Len(t))
            BY <1>1
        <2> QED BY <1>1, <2>1 DEF ToSet
    <1>4. ASSUME NEW k \in 1..Len(s)
          PROVE  s[k] \in ToSet(s \o t)
        <2>1. k \in 1..(Len(s) + Len(t))
            BY <1>1
        <2> QED BY <1>1, <2>1 DEF ToSet
    <1>5. ToSet(s \o t) \subseteq ToSet(s) \union ToSet(t)
        BY <1>1, <1>2 DEF ToSet
    <1>6. ToSet(s) \subseteq ToSet(s \o t)
        BY <1>1, <1>4 DEF ToSet
    <1>7. ToSet(t) \subseteq ToSet(s \o t)
        BY <1>1, <1>3 DEF ToSet
    <1>8. s \o t \in Seq(T)
        BY <1>1
    <1> QED BY <1>5, <1>6, <1>7, <1>8

\* What is in a flattened sequence.
LEMMA FlattenIs ==
    ASSUME NEW T, NEW seqs \in Seq(Seq(T))
    PROVE  /\ FlattenSeq(seqs) \in Seq(T)
           /\ ToSet(FlattenSeq(seqs)) = UNION {ToSet(seqs[i]) : i \in DOMAIN seqs}
    <1> DEFINE n == Len(seqs)
    <1>1. n \in Nat /\ DOMAIN seqs = 1..n /\ \A i \in 1..n : seqs[i] \in Seq(T)
        OBVIOUS
    <1>2. CASE seqs = <<>>
        <2>1. FlattenSeq(seqs) = <<>> /\ DOMAIN seqs = {}
            BY <1>2 DEF FlattenSeq
        <2> QED BY <2>1 DEF ToSet
    <1>3. CASE seqs # <<>>
        <2>1. PICK f : /\ f[1] = seqs[1]
                       /\ \A i \in 2..n : f[i] = f[i - 1] \o seqs[i]
                       /\ FlattenSeq(seqs) = f[n]
            BY <1>3, FlattenLoop
        <2>2. n # 0
            BY <1>3
        <2> HIDE DEF n
        <2> DEFINE Good(i) == /\ f[i] \in Seq(T)
                              /\ \A x : x \in ToSet(f[i]) <=> \E j \in 1..i : x \in ToSet(seqs[j])
                   G == {i \in 0..n : i = 0 \/ Good(i)}
        <2>3. 0 \in G
            BY <1>1
        <2>4. ASSUME NEW i \in 1..n, i - 1 \in G
              PROVE  i \in G
            <3>1. i \in Nat /\ i \in 0..n /\ seqs[i] \in Seq(T)
                BY <1>1
            <3>2. CASE i = 1
                BY <2>1, <3>1, <3>2
            <3>3. CASE i # 1
                <4>1. Good(i - 1)
                    BY <2>4, <3>3
                <4>2. i \in 2..n
                    BY <3>3
                <4>3. f[i] = f[i - 1] \o seqs[i]
                    BY <2>1, <4>2
                <4>4. f[i] \in Seq(T) /\ ToSet(f[i]) = ToSet(f[i - 1]) \union ToSet(seqs[i])
                    BY <3>1, <4>1, <4>3, JoinedIs
                <4>5. \A j : j \in 1..i <=> j \in 1..(i - 1) \/ j = i
                    BY <3>1
                <4> QED BY <3>1, <4>1, <4>4, <4>5
            <3> QED BY <3>2, <3>3
        <2>5. n \in 0..n /\ n \in Nat
            BY <1>1
        <2> HIDE DEF G
        <2>6. n \in G
            BY <2>3, <2>4, <2>5, IntervalInduction
        <2>7. Good(n)
            BY <2>2, <2>6 DEF G
        <2> DEFINE sets == {ToSet(seqs[i]) : i \in DOMAIN seqs}
        <2>8. \A x : x \in ToSet(f[n]) <=> x \in UNION sets
            BY <1>1, <2>7
        <2> QED BY <2>1, <2>7, <2>8
    <1> QED BY <1>2, <1>3
PlacesOf(s, x) == {i \in DOMAIN s : s[i] = x}

LEMMA CountIs ==
    ASSUME NEW T, NEW s \in Seq(T), NEW x
    PROVE  /\ Count(s, x) = Cardinality(PlacesOf(s, x)) /\ Count(s, x) \in Nat
           /\ IsFiniteSet(PlacesOf(s, x))
    <1>1. Count(s, x) = Cardinality(PlacesOf(s, x))
        BY DEF Count, PlacesOf
    <1>2. IsFiniteSet(1..Len(s)) /\ PlacesOf(s, x) \in SUBSET (1..Len(s))
        <2>1. Len(s) \in Int /\ DOMAIN s = 1..Len(s)
            OBVIOUS
        <2> QED BY <2>1, FS_Interval DEF PlacesOf
    <1>3. IsFiniteSet(PlacesOf(s, x))
        BY <1>2, FS_Subset
    <1> QED BY <1>1, <1>3, FS_CardinalityType

\* What two sequences hold of something, both together hold.
LEMMA CountJoined ==
    ASSUME NEW T, NEW s \in Seq(T), NEW t \in Seq(T), NEW x
    PROVE  Count(s \o t, x) = Count(s, x) + Count(t, x)
    <1> DEFINE u == s \o t
               n == Len(s)
               A == PlacesOf(s, x)
               B == PlacesOf(t, x)
               U == PlacesOf(u, x)
               later == [k \in B |-> n + k]
    <1>1. /\ n \in Nat /\ Len(t) \in Nat /\ u \in Seq(T)
          /\ DOMAIN s = 1..n /\ DOMAIN t = 1..Len(t) /\ DOMAIN u = 1..(n + Len(t))
          /\ \A k \in 1..n : u[k] = s[k]
          /\ \A k \in 1..Len(t) : u[n + k] = t[k]
        OBVIOUS
    <1> HIDE DEF u, n
    <1>2. A \subseteq U
        BY <1>1 DEF PlacesOf
    <1>3. \A k \in B : n + k \in U \ A
        BY <1>1 DEF PlacesOf
    <1>4. ASSUME NEW i \in U \ A
          PROVE  i - n \in B /\ n + (i - n) = i
        <2>1. i \in 1..(n + Len(t)) /\ i \notin 1..n
            BY <1>1, <1>4 DEF PlacesOf
        <2>2. i - n \in 1..Len(t) /\ n + (i - n) = i
            BY <1>1, <2>1
        <2>3. u[i] = t[i - n]
            BY <1>1, <2>2
        <2> QED BY <1>1, <2>2, <2>3 DEF PlacesOf
    <1>5. B \subseteq Nat
        BY <1>1 DEF PlacesOf
    <1> HIDE DEF A, B, U
    <1>6. later \in Bijection(B, U \ A)
        <2>1. \A k \in B : later[k] = n + k
            OBVIOUS
        <2>2. later \in [B -> U \ A]
            BY <1>3
        <2> HIDE DEF later
        <2>3. \A a, b \in B : a # b => later[a] # later[b]
            BY <1>1, <1>5, <2>1
        <2>4. \A i \in U \ A : \E k \in B : later[k] = i
            BY <1>4, <2>1
        <2>5. later \in Injection(B, U \ A)
            BY <2>2, <2>3 DEF Injection, IsInjective
        <2>6. later \in Surjection(B, U \ A)
            BY <2>2, <2>4 DEF Surjection
        <2> QED BY <2>5, <2>6 DEF Bijection
    <1>7. IsFiniteSet(A) /\ IsFiniteSet(B) /\ IsFiniteSet(U)
        BY <1>1, CountIs DEF A, B, U
    <1>8. Cardinality(U \ A) = Cardinality(B)
        <2>1. ExistsBijection(B, U \ A)
            BY <1>6 DEF ExistsBijection
        <2> QED BY <1>7, <2>1, FS_Bijection
    <1>9. Cardinality(U \ A) = Cardinality(U) - Cardinality(A)
        <2>1. U \cap A = A
            BY <1>2
        <2> QED BY <1>7, <2>1, FS_Difference
    <1>10. Count(u, x) = Cardinality(U) /\ Count(s, x) = Cardinality(A) /\ Count(t, x) = Cardinality(B)
        BY <1>1, CountIs DEF A, B, U
    <1>11. Cardinality(U) \in Nat /\ Cardinality(A) \in Nat
        BY <1>7, FS_CardinalityType
    <1> QED BY <1>8, <1>9, <1>10, <1>11 DEF u
-----------------------------------------------------------------------------
(* Every call is accounted for *)

\* the places of the calls that ended well, and of the others
OkPlaces == {i \in DOMAIN calls : IsOk(calls[i])}
ErrPlaces == {i \in DOMAIN calls : IsErr(calls[i])}

\* calls that have all ended, n of them
AllEnded(cs, n) ==
    /\ n \in Nat /\ cs = [i \in 1..n |-> cs[i]]
    /\ \A i \in 1..n : Ends(i, cs[i])

LEMMA EndedIs ==
    ASSUME NEW n, NEW cs, AllEnded(cs, n), NEW i \in 1..n
    PROVE  /\ IsOk(cs[i]) <=> ~IsErr(cs[i])
           /\ IsErr(cs[i]) => cs[i].leaves \in Failures /\ cs[i].leaves \in Seq(STRING)
           /\ IsOk(cs[i]) => cs[i].value \in Values(i) \/ (op = "search" /\ cs[i].value = <<>>)
           /\ IsOk(cs[i]) <=> cs[i].kind = "ok"
           /\ IsErr(cs[i]) <=> cs[i].kind = "err"
    BY FailuresAssumption DEF AllEnded, Ends, Ok, Err, IsOk, IsErr

LEMMA JoinedCalls ==
    ASSUME FanOK, calls # None, Pending = {}
    PROVE  AllEnded(calls, Width) /\ op \in Methods \ {"history"}
    <1>1. /\ op # "history" /\ op \in Methods /\ QueryOK
          /\ calls = [i \in 1..Width |-> calls[i]]
          /\ \A i \in 1..Width : calls[i] = Waiting \/ Ends(i, calls[i])
        BY DEF FanOK, CallsOK
    <1>2. \A i \in 1..Width : calls[i] # Waiting
        BY <1>1 DEF Pending
    <1> QED BY <1>1, <1>2, WidthIs DEF AllEnded

\* The calls at the places P, which are those of a kind, in their order: each at
\* the place that the number of its like up to it gives.
ListedAs(list, P, kind) ==
    /\ IsFiniteSet(P) /\ Cardinality(P) \in Nat
    /\ list \in Seq(ToSet(calls)) /\ Len(list) = Cardinality(P)
    /\ \A i \in P : /\ Upto(i, kind) \in 1..Len(list)
                    /\ list[Upto(i, kind)] = calls[i]
                    /\ Ascending(P)[Upto(i, kind)] = i
    /\ \A k \in 1..Len(list) : Ascending(P)[k] \in P /\ list[k] = calls[Ascending(P)[k]]

\* Successes and errors are listed in the order of the calls.
LEMMA SplitIs ==
    ASSUME AllEnded(calls, Width), NEW n, n = Width
    PROVE  /\ OkPlaces \in SUBSET (1..n) /\ ErrPlaces \in SUBSET (1..n)
           /\ IsFiniteSet(OkPlaces) /\ IsFiniteSet(ErrPlaces)
           /\ Cardinality(OkPlaces) \in Nat /\ Cardinality(ErrPlaces) \in Nat
           /\ Cardinality(OkPlaces) + Cardinality(ErrPlaces) = n
           /\ Oks \in Seq(ToSet(calls)) /\ Len(Oks) = Cardinality(OkPlaces)
           /\ Errs \in Seq(ToSet(calls)) /\ Len(Errs) = Cardinality(ErrPlaces)
           /\ \A i \in OkPlaces : /\ Upto(i, "ok") \in 1..Len(Oks)
                                  /\ Oks[Upto(i, "ok")] = calls[i]
                                  /\ Ascending(OkPlaces)[Upto(i, "ok")] = i
           /\ \A i \in ErrPlaces : /\ Upto(i, "err") \in 1..Len(Errs)
                                   /\ Errs[Upto(i, "err")] = calls[i]
                                   /\ Ascending(ErrPlaces)[Upto(i, "err")] = i
           /\ \A k \in 1..Len(Oks) : Ascending(OkPlaces)[k] \in OkPlaces
                                     /\ Oks[k] = calls[Ascending(OkPlaces)[k]]
           /\ \A k \in 1..Len(Errs) : Ascending(ErrPlaces)[k] \in ErrPlaces
                                      /\ Errs[k] = calls[Ascending(ErrPlaces)[k]]
    <1>1. n \in Nat /\ calls = [i \in 1..n |-> calls[i]] /\ DOMAIN calls = 1..n
        BY DEF AllEnded
    <1>2. calls \in Seq(ToSet(calls)) /\ Len(calls) = n
        <2>1. \A i \in 1..n : calls[i] \in ToSet(calls)
            BY <1>1 DEF ToSet
        <2> DEFINE T == ToSet(calls)
        <2> HIDE DEF T
        <2>2. calls \in [1..n -> T]
            BY <1>1, <2>1 DEF T
        <2>3. calls \in Seq(T) /\ Len(calls) = n
            BY <1>1, <2>2
        <2> QED BY <2>3 DEF T
    <1>3. OkPlaces \in SUBSET (1..n) /\ ErrPlaces \in SUBSET (1..n)
        BY <1>1 DEF OkPlaces, ErrPlaces
    <1>4. ASSUME NEW P \in SUBSET (1..n), NEW kind, NEW list, list = Selected(calls, P),
                 \A i \in 1..n : i \in P <=> calls[i].kind = kind
          PROVE  ListedAs(list, P, kind)
        <2>1. /\ list \in Seq(ToSet(calls)) /\ Len(list) = Cardinality(P)
              /\ IsFiniteSet(P) /\ Cardinality(P) \in Nat
              /\ Ascending(P) \in [1..Cardinality(P) -> P]
              /\ \A k \in 1..Cardinality(P) : list[k] = calls[Ascending(P)[k]]
            <3>1. P \in SUBSET (1..Len(calls))
                BY <1>2
            <3> DEFINE T == ToSet(calls)
            <3>2. calls \in Seq(T)
                BY <1>2
            <3> HIDE DEF T
            <3>3. /\ Selected(calls, P) \in Seq(T) /\ Len(Selected(calls, P)) = Cardinality(P)
                  /\ IsFiniteSet(P) /\ Cardinality(P) \in Nat
                  /\ Ascending(P) \in [1..Cardinality(P) -> P]
                  /\ \A k \in 1..Cardinality(P) : Selected(calls, P)[k] = calls[Ascending(P)[k]]
                BY ZenonT(40), <3>1, <3>2, SelectedIs
            <3> QED BY <1>4, <3>3 DEF T
        <2>2. ASSUME NEW i \in P
              PROVE  /\ Upto(i, kind) \in 1..Cardinality(P)
                     /\ Ascending(P)[Upto(i, kind)] = i
            <3>1. Upto(i, kind) = Cardinality({j \in P : j <= i})
                <4>1. {j \in 1..i : calls[j].kind = kind} = {j \in P : j <= i}
                    BY <1>1, <1>4
                <4> QED BY <4>1 DEF Upto
            <3>2. P \in SUBSET Int
                BY <1>1
            <3> QED BY <2>1, <3>1, <3>2, PlaceIs
        <2> QED BY <2>1, <2>2 DEF ListedAs
    <1>5. /\ \A i \in 1..n : i \in OkPlaces <=> calls[i].kind = "ok"
          /\ \A i \in 1..n : i \in ErrPlaces <=> calls[i].kind = "err"
          /\ \A i \in 1..n : i \in OkPlaces <=> i \notin ErrPlaces
        BY <1>1, EndedIs DEF OkPlaces, ErrPlaces
    <1>6. Oks = Selected(calls, OkPlaces) /\ Errs = Selected(calls, ErrPlaces)
        BY DEF Oks, Errs, OkPlaces, ErrPlaces
    <1>7. Cardinality(OkPlaces) + Cardinality(ErrPlaces) = n
        <2>1. IsFiniteSet(1..n) /\ Cardinality(1..n) = n
            <3>1. 1 \in Int /\ n \in Int
                BY <1>1
            <3>2. IsFiniteSet(1..n) /\ Cardinality(1..n) = IF 1 > n THEN 0 ELSE n - 1 + 1
                BY <3>1, FS_Interval
            <3> QED BY <1>1, <3>2
        <2>2. ErrPlaces = (1..n) \ OkPlaces /\ (1..n) \cap OkPlaces = OkPlaces
            BY <1>3, <1>5
        <2>3. Cardinality(ErrPlaces) = n - Cardinality(OkPlaces)
            <3> DEFINE S == 1..n
            <3>1. IsFiniteSet(S)
                BY <2>1
            <3> HIDE DEF S
            <3>2. Cardinality(S \ OkPlaces) = Cardinality(S) - Cardinality(S \cap OkPlaces)
                BY <3>1, FS_Difference
            <3> QED BY <2>1, <2>2, <3>2 DEF S
        <2>4. Cardinality(OkPlaces) \in Nat
            BY <1>3, <2>1, FS_Subset, FS_CardinalityType
        <2> QED BY <1>1, <2>3, <2>4
    <1>8. ListedAs(Oks, OkPlaces, "ok")
        <2>1. \A i \in 1..n : i \in OkPlaces <=> calls[i].kind = "ok"
            BY <1>5
        <2> QED BY <1>3, <1>4, <1>6, <2>1
    <1>9. ListedAs(Errs, ErrPlaces, "err")
        <2>1. \A i \in 1..n : i \in ErrPlaces <=> calls[i].kind = "err"
            BY <1>5
        <2> QED BY <1>3, <1>4, <1>6, <2>1
    <1> QED BY <1>3, <1>7, <1>8, <1>9 DEF ListedAs

\* Every quote asked for is in the report or its failure is.
LEMMA QuotesAccounted ==
    ASSUME FanOK, calls # None, Pending = {}, op = "quotes", report = QuotesResult
    PROVE  /\ Len(report.quotes) + Len(report.failures) = Len(query.insts)
           /\ \A i \in DOMAIN calls :
                 IF IsOk(calls[i]) THEN report.quotes[Upto(i, "ok")] = query.insts[i]
                                   ELSE report.failures[Upto(i, "err")] = query.insts[i]
    <1>1. AllEnded(calls, Width) /\ Width = Len(query.insts) /\ DOMAIN calls = 1..Width
        BY JoinedCalls DEF Width, AllEnded
    <1>2. /\ report.quotes = ValuesOf(Oks)
          /\ report.failures = [k \in 1..Cardinality(ErrPlaces) |->
                                   query.insts[Ascending(ErrPlaces)[k]]]
        BY DEF QuotesResult, ErrPlaces
    <1>3. /\ Cardinality(OkPlaces) \in Nat /\ Cardinality(ErrPlaces) \in Nat
          /\ Cardinality(OkPlaces) + Cardinality(ErrPlaces) = Width
          /\ Oks \in Seq(ToSet(calls)) /\ Len(Oks) = Cardinality(OkPlaces)
          /\ Len(Errs) = Cardinality(ErrPlaces)
          /\ \A i \in OkPlaces : /\ Upto(i, "ok") \in 1..Len(Oks)
                                 /\ Oks[Upto(i, "ok")] = calls[i]
          /\ \A i \in ErrPlaces : /\ Upto(i, "err") \in 1..Len(Errs)
                                  /\ Ascending(ErrPlaces)[Upto(i, "err")] = i
        BY <1>1, SplitIs
    <1>4. /\ DOMAIN Oks = 1..Len(Oks) /\ Len(report.quotes) = Len(Oks)
          /\ \A k \in 1..Len(Oks) : report.quotes[k] = Oks[k].value
        BY <1>2, <1>3 DEF ValuesOf
    <1>5. /\ Len(report.failures) = Cardinality(ErrPlaces)
          /\ \A k \in 1..Cardinality(ErrPlaces) :
                report.failures[k] = query.insts[Ascending(ErrPlaces)[k]]
        BY <1>2, <1>3
    <1>6. ASSUME NEW i \in DOMAIN calls
          PROVE  IF IsOk(calls[i]) THEN report.quotes[Upto(i, "ok")] = query.insts[i]
                                   ELSE report.failures[Upto(i, "err")] = query.insts[i]
        <2>1. CASE IsOk(calls[i])
            <3>1. i \in OkPlaces
                BY <2>1 DEF OkPlaces
            <3>2. calls[i].value \in Values(i)
                BY <1>1, <2>1, EndedIs
            <3>3. calls[i].value = query.insts[i]
                BY <3>2 DEF Values
            <3> QED BY <1>3, <1>4, <2>1, <3>1, <3>3
        <2>2. CASE ~IsOk(calls[i])
            <3>1. i \in ErrPlaces
                BY <1>1, <2>2, EndedIs DEF ErrPlaces
            <3> QED BY <1>3, <1>5, <2>2, <3>1
        <2> QED BY <2>1, <2>2
    <1> QED BY <1>1, <1>3, <1>4, <1>5, <1>6

LEMMA DownloadAccounted ==
    ASSUME FanOK, calls # None, Pending = {}, op = "download", report = DownloadResult
    PROVE  /\ report.entries = None <=> \A i \in DOMAIN calls : IsErr(calls[i])
           /\ \A i \in DOMAIN calls :
                 IF IsOk(calls[i]) THEN report.entries[Upto(i, "ok")] = query.insts[i]
                                   ELSE report.warnings[Upto(i, "err")] = calls[i].leaves
           /\ Len(report.warnings) = Upto(Len(calls), "err")
    <1>1. /\ AllEnded(calls, Width) /\ Width = Len(query.insts) /\ DOMAIN calls = 1..Width
          /\ Width \in Nat /\ Len(calls) = Width
        <2>1. AllEnded(calls, Width) /\ Width = Len(query.insts)
            BY JoinedCalls DEF Width
        <2>2. Width \in Nat /\ calls = [i \in 1..Width |-> calls[i]]
            BY <2>1 DEF AllEnded
        <2> QED BY <2>1, <2>2
    <1>2. /\ report.entries = IF Oks = <<>> THEN None ELSE ValuesOf(Oks)
          /\ report.warnings = [i \in DOMAIN Errs |-> Errs[i].leaves]
        BY DEF DownloadResult
    <1>3. /\ Oks \in Seq(ToSet(calls)) /\ Errs \in Seq(ToSet(calls))
          /\ OkPlaces \in SUBSET (1..Width) /\ ErrPlaces \in SUBSET (1..Width)
          /\ Len(Oks) = Cardinality(OkPlaces) /\ Len(Errs) = Cardinality(ErrPlaces)
          /\ \A i \in OkPlaces : /\ Upto(i, "ok") \in 1..Len(Oks)
                                 /\ Oks[Upto(i, "ok")] = calls[i]
          /\ \A i \in ErrPlaces : /\ Upto(i, "err") \in 1..Len(Errs)
                                  /\ Errs[Upto(i, "err")] = calls[i]
          /\ \A k \in 1..Len(Oks) : Ascending(OkPlaces)[k] \in OkPlaces
                                    /\ Oks[k] = calls[Ascending(OkPlaces)[k]]
        BY <1>1, SplitIs
    <1>4. \A i \in 1..Width : /\ IsOk(calls[i]) <=> i \in OkPlaces
                              /\ IsErr(calls[i]) <=> i \in ErrPlaces
                              /\ IsOk(calls[i]) <=> ~IsErr(calls[i])
                              /\ IsErr(calls[i]) <=> calls[i].kind = "err"
        BY <1>1, EndedIs DEF OkPlaces, ErrPlaces
    <1>5. \A i \in 1..Width : IsOk(calls[i]) => calls[i].value = query.insts[i]
        <2> TAKE i \in 1..Width
        <2> HAVE IsOk(calls[i])
        <2>1. calls[i].value \in Values(i)
            BY <1>1, EndedIs
        <2> QED BY <2>1 DEF Values
    <1>6. /\ Len(Oks) \in Nat /\ DOMAIN Oks = 1..Len(Oks) /\ Oks = <<>> <=> Len(Oks) = 0
          /\ Len(Errs) \in Nat /\ DOMAIN Errs = 1..Len(Errs)
        BY <1>3
    <1>7. \A k \in 1..Len(Oks) : Oks[k].value \in Instruments
        <2> TAKE k \in 1..Len(Oks)
        <2>1. query.insts \in Seq(Instruments)
            BY DEF FanOK, QueryOK, DownloadOK
        <2> DEFINE i == Ascending(OkPlaces)[k]
        <2>2. i \in 1..Width /\ IsOk(calls[i]) /\ Oks[k] = calls[i]
            BY <1>3, <1>4
        <2> QED BY <1>1, <1>5, <2>1, <2>2
    <1>8. ValuesOf(Oks) # None
        <2>1. ValuesOf(Oks) = [k \in 1..Len(Oks) |-> Oks[k].value]
            BY <1>6 DEF ValuesOf
        <2>2. ValuesOf(Oks) \in Seq(Instruments)
            BY <1>6, <1>7, <2>1
        <2> QED BY <2>2, ValuesAssumption
    <1>9. report.entries = None <=> Oks = <<>>
        BY <1>2, <1>8
    <1>10. Oks = <<>> <=> \A i \in DOMAIN calls : IsErr(calls[i])
        <2>1. Oks = <<>> <=> OkPlaces = {}
            <3>1. CASE Oks = <<>>
                BY <1>3, <1>6, <3>1
            <3>2. CASE Oks # <<>>
                <4>1. 1 \in 1..Len(Oks)
                    BY <1>6, <3>2
                <4> QED BY <1>3, <3>2, <4>1
            <3> QED BY <3>1, <3>2
        <2> QED BY <1>1, <1>3, <1>4, <2>1
    <1>11. ASSUME NEW i \in DOMAIN calls
           PROVE  IF IsOk(calls[i]) THEN report.entries[Upto(i, "ok")] = query.insts[i]
                                    ELSE report.warnings[Upto(i, "err")] = calls[i].leaves
        <2>1. CASE IsOk(calls[i])
            <3>1. i \in OkPlaces
                BY <1>1, <1>4, <2>1
            <3>2. Upto(i, "ok") \in DOMAIN Oks /\ Oks[Upto(i, "ok")] = calls[i]
                BY <1>3, <1>6, <3>1
            <3>3. report.entries = ValuesOf(Oks)
                BY <1>2, <1>6, <3>2
            <3>4. report.entries[Upto(i, "ok")] = calls[i].value
                BY <3>2, <3>3 DEF ValuesOf
            <3> QED BY <1>1, <1>5, <2>1, <3>4
        <2>2. CASE ~IsOk(calls[i])
            <3>1. i \in ErrPlaces
                BY <1>1, <1>4, <2>2
            <3>2. Upto(i, "err") \in DOMAIN Errs /\ Errs[Upto(i, "err")] = calls[i]
                BY <1>3, <1>6, <3>1
            <3> QED BY <1>2, <2>2, <3>2
        <2> QED BY <2>1, <2>2
    <1>12. Len(report.warnings) = Upto(Len(calls), "err")
        <2>1. {i \in 1..Len(calls) : calls[i].kind = "err"} = ErrPlaces
            BY <1>1, <1>3, <1>4
        <2>2. Upto(Len(calls), "err") = Cardinality(ErrPlaces)
            BY <2>1 DEF Upto
        <2>3. Len(report.warnings) = Len(Errs)
            BY <1>2, <1>6
        <2> QED BY <1>3, <2>2, <2>3
    <1> QED BY <1>9, <1>10, <1>11, <1>12
LEMMA ActionableIs ==
    ASSUME NEW n, NEW cs, AllEnded(cs, n), NEW i \in 1..n
    PROVE  /\ ActionableOf(cs[i]) \in Seq(STRING)
           /\ IsOk(cs[i]) => ActionableOf(cs[i]) = <<>>
           /\ IsErr(cs[i]) =>
                 ToSet(ActionableOf(cs[i])) = {leaf \in ToSet(cs[i].leaves) : Actionable(leaf)}
    <1>1. CASE IsOk(cs[i])
        <2>1. ~IsErr(cs[i])
            BY <1>1, EndedIs
        <2> QED BY <1>1, <2>1 DEF ActionableOf
    <1>2. CASE IsErr(cs[i])
        <2> DEFINE leaves == cs[i].leaves
                   P == {k \in DOMAIN leaves : Actionable(leaves[k])}
                   T == STRING
        <2>1. leaves \in Seq(T) /\ ~IsOk(cs[i])
            BY <1>2, EndedIs
        <2>2. ActionableOf(cs[i]) = Selected(leaves, P)
            BY <1>2 DEF ActionableOf
        <2>3. /\ P \in SUBSET (1..Len(leaves)) /\ P \subseteq DOMAIN leaves
              /\ \A k \in P : Actionable(leaves[k])
              /\ \A k \in DOMAIN leaves : Actionable(leaves[k]) => k \in P
            BY <2>1
        <2> HIDE DEF leaves, P, T
        <2> DEFINE s == Selected(leaves, P)
        <2>4. /\ s \in Seq(T) /\ Len(s) = Cardinality(P)
              /\ Cardinality(P) \in Nat
              /\ Ascending(P) \in [1..Cardinality(P) -> P]
              /\ \A x \in P : \E k \in 1..Cardinality(P) : Ascending(P)[k] = x
              /\ \A k \in 1..Cardinality(P) : s[k] = leaves[Ascending(P)[k]]
            <3>1. leaves \in Seq(T)
                BY <2>1
            <3>2. P \in SUBSET (1..Len(leaves))
                BY <2>3
            <3> QED BY <3>1, <3>2, SelectedIs
        <2> HIDE DEF s
        <2>5. DOMAIN s = 1..Cardinality(P)
            BY <2>4
        <2>6. ASSUME NEW k \in DOMAIN s
              PROVE  s[k] \in ToSet(leaves) /\ Actionable(s[k])
            <3>1. Ascending(P)[k] \in P /\ s[k] = leaves[Ascending(P)[k]]
                BY <2>4, <2>5
            <3>2. Ascending(P)[k] \in DOMAIN leaves
                BY <2>1, <2>3, <3>1
            <3> QED BY <2>3, <3>1, <3>2 DEF ToSet
        <2>7. ASSUME NEW j \in DOMAIN leaves, Actionable(leaves[j])
              PROVE  leaves[j] \in ToSet(s)
            <3>1. j \in P
                BY <2>3, <2>7
            <3>2. PICK k \in 1..Cardinality(P) : Ascending(P)[k] = j
                BY <2>4, <3>1
            <3>3. s[k] = leaves[j]
                BY <2>4, <3>2
            <3> QED BY <2>5, <3>2, <3>3 DEF ToSet
        <2>8. ToSet(s) = {leaf \in ToSet(leaves) : Actionable(leaf)}
            BY <2>6, <2>7 DEF ToSet
        <2> QED BY <2>1, <2>2, <2>4, <2>8 DEF s, leaves, T
    <1> QED BY <1>1, <1>2, EndedIs

\* The warnings of three calls hold each leaf as often as the calls do.
LEMMA WarningsCounted ==
    ASSUME NEW cs, AllEnded(cs, 3), NEW leaf
    PROVE  /\ WarningsOf(cs) \in Seq(STRING)
           /\ Count(WarningsOf(cs), leaf) = Count(ActionableOf(cs[1]), leaf)
                 + Count(ActionableOf(cs[2]), leaf) + Count(ActionableOf(cs[3]), leaf)
           /\ \A i \in 1..3 : Count(ActionableOf(cs[i]), leaf) \in Nat
    <1> DEFINE T == STRING
               seqs == [i \in DOMAIN cs |-> ActionableOf(cs[i])]
    <1>1. DOMAIN cs = 1..3
        BY DEF AllEnded
    <1>2. \A i \in 1..3 : ActionableOf(cs[i]) \in Seq(T)
        BY ActionableIs
    <1>3. WarningsOf(cs) = FlattenSeq(seqs)
        BY DEF WarningsOf
    <1> HIDE DEF T
    <1>4. /\ seqs \in Seq(Seq(T)) /\ seqs # <<>> /\ Len(seqs) = 3
          /\ \A i \in 1..3 : seqs[i] = ActionableOf(cs[i])
        BY <1>1, <1>2
    <1> HIDE DEF seqs
    <1>5. PICK f : /\ f[1] = seqs[1]
                   /\ \A i \in 2..Len(seqs) : f[i] = f[i - 1] \o seqs[i]
                   /\ FlattenSeq(seqs) = f[Len(seqs)]
        BY <1>4, FlattenLoop
    <1> DEFINE a == ActionableOf(cs[1])
               b == ActionableOf(cs[2])
               c == ActionableOf(cs[3])
    <1>6. a \in Seq(T) /\ b \in Seq(T) /\ c \in Seq(T)
        BY <1>2
    <1>7. WarningsOf(cs) = (a \o b) \o c
        <2>1. 2 \in 2..Len(seqs) /\ 3 \in 2..Len(seqs) /\ 2 - 1 = 1 /\ 3 - 1 = 2
            BY <1>4
        <2>2. f[2] = f[2 - 1] \o seqs[2] /\ f[3] = f[3 - 1] \o seqs[3]
            BY <1>5, <2>1
        <2>3. f[2] = seqs[1] \o seqs[2] /\ f[3] = f[2] \o seqs[3]
            BY <1>5, <2>1, <2>2
        <2> QED BY <1>3, <1>4, <1>5, <2>3
    <1> HIDE DEF a, b, c
    <1>8. a \o b \in Seq(T) /\ (a \o b) \o c \in Seq(T)
        BY <1>6
    <1>9. Count((a \o b) \o c, leaf) = Count(a \o b, leaf) + Count(c, leaf)
        BY <1>6, <1>8, CountJoined
    <1>10. Count(a \o b, leaf) = Count(a, leaf) + Count(b, leaf)
        BY <1>6, CountJoined
    <1>11. \A i \in 1..3 : Count(ActionableOf(cs[i]), leaf) \in Nat
        BY <1>2, CountIs
    <1> QED BY <1>7, <1>8, <1>9, <1>10, <1>11 DEF a, b, c, T

LEMMA InfoAccounted ==
    ASSUME FanOK, calls # None, Pending = {}, op = "info",
           query.parts = Enrichments, report = InfoResult
    PROVE  LET six == query.base \o calls
               of(leaf, i) == Count(ActionableOf(six[i]), leaf)
               total(leaf) == of(leaf, 1) + of(leaf, 2) + of(leaf, 3)
                              + of(leaf, 4) + of(leaf, 5) + of(leaf, 6)
               had(i, field) == IsOk(six[i]) /\ six[i].value[field] # None
           IN  /\ \A leaf \in UNION {ToSet(e) : e \in Failures} :
                     Count(report.warnings, leaf) = total(leaf)
               /\ report.name # None <=> had(1, "name") \/ had(2, "name")
               /\ report.isin # None <=> had(1, "isin") \/ Part(six[3]) # None
    <1> DEFINE base == query.base
               six == base \o calls
    <1>1. AllEnded(calls, 3)
        BY JoinedCalls DEF Width
    <1>2. query = EnrichedFrom(base) /\ AllEnded(base, 3)
        <2>1. InfoOK
            BY DEF FanOK, QueryOK
        <2>2. query # [parts |-> BaseParts]
            BY DEF BaseParts, Enrichments
        <2> QED BY <2>1, <2>2 DEF InfoOK, AllEnded
    <1> HIDE DEF base
    <1>3. /\ report.name = OrElse(NameOf(Part(base[2])), NameOf(Part(base[1])))
          /\ report.isin = OrElse(Part(base[3]),
                                  IF Part(base[1]) = None THEN None ELSE Part(base[1]).isin)
          /\ report.warnings = WarningsOf(base) \o WarningsOf(calls)
        <2>1. /\ query.name = OrElse(NameOf(Part(base[2])), NameOf(Part(base[1])))
              /\ query.isin = OrElse(Part(base[3]),
                                     IF Part(base[1]) = None THEN None ELSE Part(base[1]).isin)
              /\ query.warnings = WarningsOf(base)
            BY <1>2 DEF EnrichedFrom
        <2>2. Warnings = WarningsOf(calls)
            BY DEF Warnings, WarningsOf
        <2> QED BY <2>1, <2>2 DEF InfoResult
    <1>4. /\ six[1] = base[1] /\ six[2] = base[2] /\ six[3] = base[3]
          /\ six[4] = calls[1] /\ six[5] = calls[2] /\ six[6] = calls[3]
        <2> DEFINE T == {base[i] : i \in 1..3} \union {calls[i] : i \in 1..3}
        <2>1. base = [i \in 1..3 |-> base[i]] /\ calls = [i \in 1..3 |-> calls[i]]
            BY <1>1, <1>2 DEF AllEnded
        <2>2. \A i \in 1..3 : base[i] \in T /\ calls[i] \in T
            OBVIOUS
        <2> HIDE DEF T
        <2>3. base \in Seq(T) /\ Len(base) = 3 /\ calls \in Seq(T) /\ Len(calls) = 3
            BY <2>1, <2>2
        <2>4. ASSUME NEW s \in Seq(T), NEW t \in Seq(T), Len(s) = 3, Len(t) = 3
              PROVE  /\ (s \o t)[1] = s[1] /\ (s \o t)[2] = s[2] /\ (s \o t)[3] = s[3]
                     /\ (s \o t)[4] = t[1] /\ (s \o t)[5] = t[2] /\ (s \o t)[6] = t[3]
            <3>1. /\ \A k \in 1..Len(s) : (s \o t)[k] = s[k]
                  /\ \A k \in 1..Len(t) : (s \o t)[Len(s) + k] = t[k]
                OBVIOUS
            <3>2. 1 \in 1..3 /\ 2 \in 1..3 /\ 3 \in 1..3 /\ 3 + 1 = 4 /\ 3 + 2 = 5 /\ 3 + 3 = 6
                OBVIOUS
            <3>3. (s \o t)[1] = s[1] /\ (s \o t)[2] = s[2] /\ (s \o t)[3] = s[3]
                BY <2>4, <3>1, <3>2
            <3>4. (s \o t)[3 + 1] = t[1] /\ (s \o t)[3 + 2] = t[2] /\ (s \o t)[3 + 3] = t[3]
                BY <2>4, <3>1, <3>2
            <3> QED BY <3>2, <3>3, <3>4
        <2> QED BY <2>3, <2>4
    <1> HIDE DEF six
    <1>5. ASSUME NEW leaf
          PROVE  Count(report.warnings, leaf) =
                    Count(ActionableOf(six[1]), leaf) + Count(ActionableOf(six[2]), leaf)
                    + Count(ActionableOf(six[3]), leaf) + Count(ActionableOf(six[4]), leaf)
                    + Count(ActionableOf(six[5]), leaf) + Count(ActionableOf(six[6]), leaf)
        <2> DEFINE u == WarningsOf(base)
                   v == WarningsOf(calls)
                   T == STRING
        <2>1. /\ u \in Seq(T)
              /\ Count(u, leaf) = Count(ActionableOf(base[1]), leaf)
                    + Count(ActionableOf(base[2]), leaf) + Count(ActionableOf(base[3]), leaf)
              /\ \A i \in 1..3 : Count(ActionableOf(base[i]), leaf) \in Nat
            BY <1>2, WarningsCounted
        <2>2. /\ v \in Seq(T)
              /\ Count(v, leaf) = Count(ActionableOf(calls[1]), leaf)
                    + Count(ActionableOf(calls[2]), leaf) + Count(ActionableOf(calls[3]), leaf)
              /\ \A i \in 1..3 : Count(ActionableOf(calls[i]), leaf) \in Nat
            BY <1>1, WarningsCounted
        <2>3. report.warnings = u \o v
            BY <1>3
        <2> HIDE DEF u, v, T
        <2>4. Count(u \o v, leaf) = Count(u, leaf) + Count(v, leaf)
            BY <2>1, <2>2, CountJoined
        <2>5. 1 \in 1..3 /\ 2 \in 1..3 /\ 3 \in 1..3
            OBVIOUS
        <2> DEFINE of(x) == Count(ActionableOf(x), leaf)
        <2>6. /\ of(base[1]) \in Nat /\ of(base[2]) \in Nat /\ of(base[3]) \in Nat
              /\ of(calls[1]) \in Nat /\ of(calls[2]) \in Nat /\ of(calls[3]) \in Nat
            BY <2>1, <2>2, <2>5
        <2>7. /\ Count(u, leaf) = of(base[1]) + of(base[2]) + of(base[3])
              /\ Count(v, leaf) = of(calls[1]) + of(calls[2]) + of(calls[3])
            BY <2>1, <2>2
        <2> HIDE DEF of
        <2>8. Count(report.warnings, leaf)
                = of(base[1]) + of(base[2]) + of(base[3]) + of(calls[1]) + of(calls[2]) + of(calls[3])
            BY <2>3, <2>4, <2>6, <2>7
        <2> QED BY <1>4, <2>8 DEF of
    <1>6. /\ IsOk(base[1]) => base[1].value \in Profiles
          /\ IsOk(base[2]) => base[2].value \in Quotes
        <2>1. 1 \in 1..3 /\ 2 \in 1..3
            OBVIOUS
        <2>2. Values(1) = Profiles /\ Values(2) = Quotes
            BY DEF Values
        <2> QED BY <1>2, <2>1, <2>2, EndedIs
    <1>7. /\ NameOf(Part(base[1])) = IF IsOk(base[1]) THEN base[1].value.name ELSE None
          /\ NameOf(Part(base[2])) = IF IsOk(base[2]) THEN base[2].value.name ELSE None
          /\ Part(base[1]) = None <=> ~IsOk(base[1])
          /\ IsOk(base[1]) => Part(base[1]) = base[1].value
        BY <1>6, ValuesAssumption DEF NameOf, Part
    <1>8. report.name # None <=> \/ IsOk(six[1]) /\ six[1].value.name # None
                                 \/ IsOk(six[2]) /\ six[2].value.name # None
        BY <1>3, <1>4, <1>7 DEF OrElse
    <1>9. report.isin # None <=> \/ IsOk(six[1]) /\ six[1].value.isin # None
                                 \/ Part(six[3]) # None
        BY <1>3, <1>4, <1>7 DEF OrElse
    <1>10. /\ \A leaf \in UNION {ToSet(e) : e \in Failures} :
                 Count(report.warnings, leaf) =
                    Count(ActionableOf(six[1]), leaf) + Count(ActionableOf(six[2]), leaf)
                    + Count(ActionableOf(six[3]), leaf) + Count(ActionableOf(six[4]), leaf)
                    + Count(ActionableOf(six[5]), leaf) + Count(ActionableOf(six[6]), leaf)
        BY <1>5
    <1> QED BY <1>8, <1>9, <1>10 DEF six, base

\* Partial success is not silence, for any batch, connectors and failures.
THEOREM CallsAccounted == FanSpec => []EveryCallIsAccounted
    <1>1. FanInit => FanOK
        BY FanStart
    <1>2. FanOK /\ [FanNext]_allVars => FanOK'
        BY FanStep
    <1>3. FanOK => EveryCallIsAccounted
        <2> SUFFICES ASSUME FanOK PROVE EveryCallIsAccounted
            OBVIOUS
        <2>1. ASSUME Ended("quotes") \/ Ended("download") \/ Ended("info")
              PROVE  /\ calls # None /\ Pending = {}
                     /\ Ended("quotes") => op = "quotes" /\ report = QuotesResult
                     /\ Ended("download") => op = "download" /\ report = DownloadResult
                     /\ Ended("info") => /\ op = "info" /\ report = InfoResult
                                         /\ query.parts = Enrichments
            <3>1. calls # None /\ Pending = {} /\ report \in Joins
                BY <2>1 DEF FanOK, ReportOK, Ended
            <3>2. op \in Methods \ {"history"}
                BY <3>1, JoinedCalls
            <3> QED BY <3>1, <3>2, JoinKinds DEF Ended
        <2> DEFINE InTime ==
                report # None /\ calls # None =>
                    IF Ended("request_timeout")
                    THEN op \in {"quotes", "download", "search"} /\ Pending # {}
                    ELSE Pending = {}
        <2>6. InTime
            <3> SUFFICES ASSUME report # None, calls # None PROVE InTime
                OBVIOUS
            <3>1. CASE Ended("request_timeout")
                <4>1. CASE report \in Joins /\ Pending = {}
                    <5>1. op \in Methods \ {"history"}
                        BY JoinedCalls, <4>1
                    <5> QED BY <3>1, <4>1, <5>1, JoinKinds DEF Ended
                <4>2. CASE ~ (report \in Joins /\ Pending = {})
                    BY <3>1, <4>2 DEF FanOK, ReportOK, Ended
                <4> QED BY <4>1, <4>2
            <3>2. CASE ~Ended("request_timeout")
                BY <3>2 DEF FanOK, ReportOK, Ended
            <3> QED BY <3>1, <3>2
        <2>2. CASE Ended("quotes")
            BY <2>6, <2>1, <2>2, QuotesAccounted DEF EveryCallIsAccounted, Ended
        <2>3. CASE Ended("download")
            BY <2>6, <2>1, <2>3, DownloadAccounted DEF EveryCallIsAccounted, Ended
        <2>4. CASE Ended("info")
            BY <2>6, <2>1, <2>4, InfoAccounted DEF EveryCallIsAccounted, Ended
        <2>5. CASE ~ (Ended("quotes") \/ Ended("download") \/ Ended("info"))
            BY <2>6, <2>5 DEF EveryCallIsAccounted
        <2> QED BY <2>2, <2>3, <2>4, <2>5
    <1> QED BY <1>1, <1>2, <1>3, PTL DEF FanSpec
-----------------------------------------------------------------------------
(* Search *)

\* what connectors' searches find
Hits == UNION {ToSet(found) : found \in Results}

\* An exchange has a rank by any preferences, and with it a result a key.
LEMMA KeyIs ==
    ASSUME NEW r
    PROVE  ExchangeKey(r) \in Nat
    <1> DEFINE kind == IF query.kind = None THEN r.kind ELSE query.kind
               list == RankMap(r.symbol, kind)
    <1>1. list \in Seq(STRING)
        <2>1. CASE r.symbol \in DOMAIN Preferences.symbol
            BY <2>1, SearchAssumption DEF RankMap
        <2>2. CASE r.symbol \notin DOMAIN Preferences.symbol /\ kind \in DOMAIN Preferences.kind
            <3> HIDE DEF kind
            <3> QED BY <2>2, SearchAssumption DEF RankMap
        <2>3. CASE r.symbol \notin DOMAIN Preferences.symbol /\ kind \notin DOMAIN Preferences.kind
            <3> HIDE DEF kind
            <3> QED BY <2>3, SearchAssumption DEF RankMap
        <2> QED BY <2>1, <2>2, <2>3
    <1>2. ExchangeKey(r) = CASE r.exchange = None -> Len(list) + 2
                             [] r.exchange # None /\ r.exchange \in ToSet(list) ->
                                    RankIn(list, r.exchange)
                             [] OTHER -> Len(list) + 1
        BY DEF ExchangeKey
    <1> HIDE DEF list
    <1>3. ASSUME NEW x \in ToSet(list) PROVE RankIn(list, x) \in Nat
        <2> DEFINE S == {i \in DOMAIN list : list[i] = x}
        <2>1. S \in SUBSET Nat /\ S # {}
            BY <1>1 DEF ToSet
        <2> HIDE DEF S
        <2>2. PICK i \in S : \A j \in S : i <= j
            BY <2>1, LeastNatural
        <2>3. i \in DOMAIN list /\ list[i] = x /\ \A j \in 1..(i - 1) : list[j] # x
            <3>1. i \in DOMAIN list /\ list[i] = x /\ DOMAIN list = 1..Len(list) /\ Len(list) \in Nat
                BY <1>1 DEF S
            <3>2. ASSUME NEW j \in 1..(i - 1), list[j] = x PROVE FALSE
                <4>1. j \in DOMAIN list /\ ~ (i <= j)
                    BY <3>1
                <4> QED BY <2>2, <3>2, <4>1 DEF S
            <3> QED BY <3>1, <3>2
        <2>4. RankIn(list, x) \in DOMAIN list
            BY <2>3 DEF RankIn
        <2> QED BY <1>1, <2>4
    <1>4. Len(list) \in Nat
        BY <1>1
    <1> QED BY <1>2, <1>3, <1>4

LEMMA BestIs ==
    ASSUME NEW found, NEW group \in SUBSET Nat, group # {}
    PROVE  /\ BestOf(found, group) \in group
           /\ \A j \in group :
                 ExchangeKey(found[BestOf(found, group)]) <= ExchangeKey(found[j])
    <1> DEFINE key(i) == ExchangeKey(found[i])
               K == {key(i) : i \in group}
    <1>1. \A i \in group : key(i) \in Nat
        BY KeyIs
    <1>2. K \in SUBSET Nat /\ K # {}
        BY <1>1
    <1> HIDE DEF K
    <1>3. PICK m \in K : \A k \in K : m <= k
        BY <1>2, LeastNatural
    <1> DEFINE G == {i \in group : key(i) = m}
    <1>4. G \in SUBSET Nat /\ G # {}
        BY <1>3 DEF K
    <1> HIDE DEF G
    <1>5. PICK b \in G : \A j \in G : b <= j
        BY <1>4, LeastNatural
    <1>6. b \in group /\ key(b) = m /\ \A j \in group : key(j) = m => b <= j
        BY <1>5 DEF G
    <1>7. \A j \in group : key(j) \in K
        BY DEF K
    <1> HIDE DEF key
    <1>8. \A j \in group : key(b) < key(j) \/ (key(b) = key(j) /\ b <= j)
        <2> TAKE j \in group
        <2>1. m <= key(j) /\ key(j) \in Nat /\ m \in Nat
            BY <1>1, <1>2, <1>3, <1>7
        <2> QED BY <1>6, <2>1
    <1> DEFINE best == CHOOSE i \in group : \A j \in group :
                          key(i) < key(j) \/ (key(i) = key(j) /\ i <= j)
    <1>9. BestOf(found, group) = best
        BY DEF BestOf, key
    <1>10. best \in group /\ \A j \in group : key(best) < key(j) \/ (key(best) = key(j) /\ best <= j)
        BY <1>6, <1>8
    <1> HIDE DEF best
    <1>11. \A j \in group : key(best) <= key(j)
        BY <1>1, <1>10
    <1> QED BY <1>9, <1>10, <1>11 DEF key

\* What is left of what was found: each symbol once, in the order of the places
\* in firsts, where it is found first, and at its best exchange.
Deduped(merged, found, firsts) ==
    /\ Len(merged) \in Nat /\ merged \in Seq(ToSet(found)) /\ DOMAIN merged = 1..Len(merged)
    /\ firsts \in [1..Len(merged) -> DOMAIN found]
    /\ \A k, l \in 1..Len(merged) : k < l => firsts[k] < firsts[l]
    /\ \A k \in 1..Len(merged) :
          /\ merged[k].symbol # None
          /\ found[firsts[k]].symbol = merged[k].symbol
          /\ \A j \in 1..(firsts[k] - 1) : found[j].symbol # merged[k].symbol
          /\ \A i \in DOMAIN found : found[i].symbol = merged[k].symbol =>
                ExchangeKey(merged[k]) <= ExchangeKey(found[i])
    /\ \A i \in DOMAIN found : found[i].symbol # None =>
          \E k \in 1..Len(merged) : merged[k].symbol = found[i].symbol

LEMMA DeduplicatedIs ==
    ASSUME NEW T, NEW found \in Seq(T)
    PROVE  \E firsts : Deduped(Deduplicated(found), found, firsts)
    <1> DEFINE securities == {i \in DOMAIN found : found[i].symbol # None}
               groupOf(i) == {j \in securities : found[j].symbol = found[i].symbol}
               S == {i \in securities : \A j \in groupOf(i) : i <= j}
               firsts == Ascending(S)
               merged == [k \in DOMAIN firsts |-> found[BestOf(found, groupOf(firsts[k]))]]
               n == Cardinality(S)
    <1>1. Deduplicated(found) = merged
        BY DEF Deduplicated
    <1>2. DOMAIN found = 1..Len(found) /\ Len(found) \in Nat
        OBVIOUS
    <1>3. S \in SUBSET Int /\ S \in SUBSET Nat /\ S \subseteq securities /\ IsFiniteSet(S)
        <2>1. IsFiniteSet(1..Len(found))
            BY <1>2, FS_Interval
        <2>2. S \in SUBSET (1..Len(found))
            BY <1>2
        <2> HIDE DEF S
        <2>3. IsFiniteSet(S)
            BY <2>1, <2>2, FS_Subset
        <2> QED BY <1>2, <2>2, <2>3 DEF S
    <1>4. \A i \in securities : groupOf(i) \in SUBSET Nat /\ i \in groupOf(i)
        BY <1>2
    <1>5. \A i \in securities : \E j \in S : found[j].symbol = found[i].symbol
        <2> TAKE i \in securities
        <2> DEFINE G == groupOf(i)
        <2>1. G \in SUBSET Nat /\ G # {}
            BY <1>4
        <2>2. \A j \in G : j \in securities /\ found[j].symbol = found[i].symbol
            OBVIOUS
        <2>3. \A j \in G : groupOf(j) = G
            OBVIOUS
        <2> HIDE DEF G
        <2>4. PICK m \in G : \A j \in G : m <= j
            BY <2>1, LeastNatural
        <2>5. m \in S
            BY <2>2, <2>3, <2>4
        <2> QED BY <2>2, <2>4, <2>5
    <1>6. \A i \in S : /\ i \in securities
                       /\ \A j \in securities : found[j].symbol = found[i].symbol => i <= j
        OBVIOUS
    <1> HIDE DEF S
    <1>7. /\ firsts \in [1..n -> S]
          /\ \A i, j \in 1..n : i < j => firsts[i] < firsts[j]
          /\ \A x \in S : \E k \in 1..n : firsts[k] = x
        BY <1>3, AscendingIs
    <1>8. n \in Nat
        BY <1>3, FS_CardinalityType
    <1> HIDE DEF firsts, n
    <1>9. ASSUME NEW k \in 1..n
          PROVE  /\ firsts[k] \in S /\ firsts[k] \in securities
                 /\ merged[k] \in ToSet(found)
                 /\ merged[k].symbol # None
                 /\ found[firsts[k]].symbol = merged[k].symbol
                 /\ \A j \in 1..(firsts[k] - 1) : found[j].symbol # merged[k].symbol
                 /\ \A i \in DOMAIN found : found[i].symbol = merged[k].symbol =>
                       ExchangeKey(merged[k]) <= ExchangeKey(found[i])
        <2> DEFINE f == firsts[k]
                   G == groupOf(f)
                   b == BestOf(found, G)
        <2>1. f \in S /\ f \in securities
            BY <1>3, <1>7
        <2>2. G \in SUBSET Nat /\ G # {}
            BY <1>4, <2>1
        <2>3. merged[k] = found[b]
            BY <1>7
        <2>4. \A j : j \in G <=> j \in DOMAIN found /\ found[j].symbol # None
                                 /\ found[j].symbol = found[f].symbol
            OBVIOUS
        <2> HIDE DEF G
        <2>5. b \in G /\ \A j \in G : ExchangeKey(found[b]) <= ExchangeKey(found[j])
            BY <2>2, BestIs
        <2> HIDE DEF b, merged
        <2>6. b \in DOMAIN found /\ merged[k].symbol # None /\ merged[k].symbol = found[f].symbol
            BY <2>3, <2>4, <2>5
        <2>7. merged[k] \in ToSet(found)
            BY <2>3, <2>6 DEF ToSet
        <2>8. ASSUME NEW j \in 1..(f - 1), found[j].symbol = merged[k].symbol
              PROVE  FALSE
            <3>1. f \in 1..Len(found)
                BY <1>2, <2>1
            <3>2. j \in DOMAIN found /\ ~ (f <= j)
                BY <1>2, <3>1
            <3>3. j \in securities /\ found[j].symbol = found[f].symbol
                BY <2>6, <2>8, <3>2
            <3> QED BY <1>6, <2>1, <3>2, <3>3
        <2>9. ASSUME NEW i \in DOMAIN found, found[i].symbol = merged[k].symbol
              PROVE  ExchangeKey(merged[k]) <= ExchangeKey(found[i])
            <3>1. i \in G
                BY <2>4, <2>6, <2>9
            <3> QED BY <2>3, <2>5, <3>1
        <2> QED BY <2>1, <2>6, <2>7, <2>8, <2>9
    <1>10. /\ merged \in Seq(ToSet(found)) /\ Len(merged) = n /\ DOMAIN merged = 1..n
        <2> DEFINE U == ToSet(found)
        <2>1. DOMAIN merged = 1..n /\ merged = [k \in 1..n |-> merged[k]]
            BY <1>7
        <2> HIDE DEF merged, U
        <2>2. \A k \in 1..n : merged[k] \in U
            BY <1>9 DEF U
        <2>3. merged \in [1..n -> U]
            BY <2>1, <2>2
        <2>4. merged \in Seq(U) /\ Len(merged) = n
            BY <1>8, <2>3
        <2> QED BY <2>1, <2>4 DEF U
    <1> HIDE DEF merged
    <1>11. \A i \in DOMAIN found : found[i].symbol # None =>
              \E k \in 1..n : merged[k].symbol = found[i].symbol
        <2> TAKE i \in DOMAIN found
        <2> HAVE found[i].symbol # None
        <2>1. PICK j \in S : found[j].symbol = found[i].symbol
            BY <1>5
        <2>2. PICK k \in 1..n : firsts[k] = j
            BY <1>7, <2>1
        <2> QED BY <1>9, <2>1, <2>2
    <1>12. firsts \in [1..n -> DOMAIN found]
        BY <1>3, <1>7
    <1>13. Deduped(merged, found, firsts)
        BY <1>7, <1>8, <1>9, <1>10, <1>11, <1>12 DEF Deduped
    <1> QED BY <1>1, <1>13
Found == FlattenSeq(ValuesOf(Oks))
Kept ==
    IF query.limit # None /\ Len(Deduplicated(Found)) > query.limit
    THEN SubSeq(Deduplicated(Found), 1, query.limit) ELSE Deduplicated(Found)

\* What was found is what the searches that ended well have found.
LEMMA FoundIs ==
    ASSUME AllEnded(calls, Width), op = "search"
    PROVE  /\ Found \in Seq(Hits)
           /\ \A i \in DOMAIN Oks : /\ Oks[i].value \in Seq(Hits)
                                    /\ ToSet(Oks[i].value) \subseteq ToSet(Found)
    <1> DEFINE seqs == ValuesOf(Oks)
    <1>1. /\ Oks \in Seq(ToSet(calls)) /\ OkPlaces \in SUBSET (1..Width)
          /\ \A k \in 1..Len(Oks) : Ascending(OkPlaces)[k] \in OkPlaces
                                    /\ Oks[k] = calls[Ascending(OkPlaces)[k]]
        BY SplitIs
    <1>2. Len(Oks) \in Nat /\ DOMAIN Oks = 1..Len(Oks)
        BY <1>1
    <1>3. \A found \in Results : found \in Seq(Hits)
        <2> TAKE found \in Results
        <2>1. found \in Seq(ToSet(found))
            BY SearchAssumption
        <2>2. \A k \in DOMAIN found : found[k] \in Hits
            BY DEF Hits, ToSet
        <2> HIDE DEF Hits
        <2>3. Len(found) \in Nat /\ found = [k \in 1..Len(found) |-> found[k]] /\ DOMAIN found = 1..Len(found)
            BY <2>1
        <2> QED BY <2>2, <2>3
    <1>4. \A k \in 1..Len(Oks) : Oks[k].value \in Seq(Hits)
        <2> TAKE k \in 1..Len(Oks)
        <2> DEFINE i == Ascending(OkPlaces)[k]
        <2>1. i \in 1..Width /\ IsOk(calls[i]) /\ Oks[k] = calls[i]
            BY <1>1 DEF OkPlaces
        <2>2. calls[i].value \in Values(i) \/ calls[i].value = <<>>
            BY <2>1, EndedIs
        <2>3. Values(i) = Results
            BY DEF Values
        <2> HIDE DEF i
        <2>4. <<>> \in Seq(Hits)
            OBVIOUS
        <2> QED BY <1>3, <2>1, <2>2, <2>3, <2>4
    <1>5. /\ seqs = [k \in 1..Len(Oks) |-> Oks[k].value]
        BY <1>2 DEF ValuesOf
    <1> DEFINE T == Hits
    <1>6. /\ seqs \in Seq(Seq(T)) /\ DOMAIN seqs = 1..Len(Oks)
          /\ \A k \in 1..Len(Oks) : seqs[k] = Oks[k].value
        BY <1>2, <1>4, <1>5
    <1>7. Found = FlattenSeq(seqs)
        BY DEF Found
    <1> HIDE DEF seqs, T
    <1>8. /\ FlattenSeq(seqs) \in Seq(T)
          /\ ToSet(FlattenSeq(seqs)) = UNION {ToSet(seqs[k]) : k \in DOMAIN seqs}
        BY <1>6, FlattenIs
    <1>9. \A k \in 1..Len(Oks) : ToSet(seqs[k]) \subseteq ToSet(FlattenSeq(seqs))
        BY <1>6, <1>8
    <1> QED BY <1>2, <1>4, <1>6, <1>7, <1>8, <1>9 DEF T

\* What is kept is the beginning of what is left, all of it or up to the limit.
LEMMA KeptIs ==
    ASSUME query.limit \in Limits, NEW U, Deduplicated(Found) \in Seq(U)
    PROVE  /\ Kept \in Seq(U) /\ Len(Kept) \in Nat /\ DOMAIN Kept = 1..Len(Kept)
           /\ Len(Kept) <= Len(Deduplicated(Found))
           /\ \A k \in 1..Len(Kept) : Kept[k] = Deduplicated(Found)[k]
           /\ Len(Kept) < Len(Deduplicated(Found)) =>
                 query.limit # None /\ Len(Kept) = query.limit
    <1> DEFINE merged == Deduplicated(Found)
               limit == query.limit
    <1>1. limit = None \/ limit \in Nat
        BY SearchAssumption
    <1>2. Kept = IF limit # None /\ Len(merged) > limit THEN SubSeq(merged, 1, limit) ELSE merged
        BY DEF Kept
    <1>3. merged \in Seq(U)
        OBVIOUS
    <1> HIDE DEF merged, limit
    <1>4. Len(merged) \in Nat
        BY <1>3
    <1>5. CASE limit # None /\ Len(merged) > limit
        <2>1. Kept = SubSeq(merged, 1, limit) /\ limit \in Nat
            BY <1>1, <1>2, <1>5
        <2>2. /\ SubSeq(merged, 1, limit) \in Seq(U) /\ Len(SubSeq(merged, 1, limit)) = limit
              /\ \A k \in 1..limit : SubSeq(merged, 1, limit)[k] = merged[k]
            BY <1>3, <1>4, <1>5, <2>1
        <2>3. DOMAIN Kept = 1..Len(Kept)
            BY <2>1, <2>2
        <2> QED BY <1>4, <1>5, <2>1, <2>2, <2>3 DEF merged, limit
    <1>6. CASE ~ (limit # None /\ Len(merged) > limit)
        <2>1. Kept = merged
            BY <1>2, <1>6
        <2>2. DOMAIN merged = 1..Len(merged)
            BY <1>3
        <2> QED BY <1>3, <1>4, <2>1, <2>2 DEF merged
    <1> QED BY <1>5, <1>6

LEMMA SearchFinds ==
    ASSUME FanOK, calls # None, Pending = {}, op = "search", report = SearchResult,
           report.kind = "search"
    PROVE  LET found == FlattenSeq(ValuesOf(Oks))
               results == report.results
               first(symbol) == CHOOSE i \in DOMAIN found :
                   found[i].symbol = symbol /\ \A j \in 1..(i - 1) : found[j].symbol # symbol
               symbols == {found[i].symbol : i \in DOMAIN found} \ {None}
               returned == {results[k].symbol : k \in DOMAIN results}
           IN  /\ ToSet(results) \subseteq ToSet(found)
               /\ \A k \in DOMAIN results, i \in DOMAIN found :
                     found[i].symbol = results[k].symbol =>
                         ExchangeKey(results[k]) <= ExchangeKey(found[i])
               /\ \A k, l \in DOMAIN results :
                     k < l => first(results[k].symbol) < first(results[l].symbol)
               /\ returned # symbols => query.limit # None /\ Len(results) = query.limit
               /\ \A s \in symbols \ returned, r \in returned : first(r) < first(s)
    <1> DEFINE found == FlattenSeq(ValuesOf(Oks))
               merged == Deduplicated(found)
               results == report.results
               first(symbol) == CHOOSE i \in DOMAIN found :
                   found[i].symbol = symbol /\ \A j \in 1..(i - 1) : found[j].symbol # symbol
               symbols == {found[i].symbol : i \in DOMAIN found} \ {None}
               returned == {results[k].symbol : k \in DOMAIN results}
    <1>1. results = Kept /\ Found = found
        <2>1. SearchResult = CASE \A c \in Connectors : ~Attempted(c) -> [kind |-> "unsupported"]
                [] Kept = <<>> /\ Warnings # <<>> /\ \E c \in Connectors : Attempted(c) ->
                      IF ToSet(Warnings) = {"timeout"} THEN [kind |-> "all_timed_out"]
                      ELSE [kind |-> "all_failed", warnings |-> Warnings]
                [] OTHER -> [kind |-> "search", results |-> Kept, warnings |-> Warnings]
            BY DEF SearchResult, Kept, Found
        <2> QED BY <2>1 DEF Found
    <1>2. AllEnded(calls, Width) /\ query.limit \in Limits
        BY JoinedCalls DEF FanOK, QueryOK
    <1>3. found \in Seq(Hits)
        BY <1>1, <1>2, FoundIs
    <1>4. PICK firsts : Deduped(merged, found, firsts)
        BY <1>3, DeduplicatedIs
    <1> DEFINE n == Len(merged)
               U == ToSet(found)
    <1>5. /\ n \in Nat /\ merged \in Seq(U) /\ DOMAIN merged = 1..n
          /\ firsts \in [1..n -> DOMAIN found]
          /\ \A k, l \in 1..n : k < l => firsts[k] < firsts[l]
          /\ \A k \in 1..n :
                /\ merged[k].symbol # None
                /\ found[firsts[k]].symbol = merged[k].symbol
                /\ \A j \in 1..(firsts[k] - 1) : found[j].symbol # merged[k].symbol
                /\ \A i \in DOMAIN found : found[i].symbol = merged[k].symbol =>
                      ExchangeKey(merged[k]) <= ExchangeKey(found[i])
          /\ \A i \in DOMAIN found : found[i].symbol # None =>
                \E k \in 1..n : merged[k].symbol = found[i].symbol
        BY <1>4 DEF Deduped
    <1>6. /\ results \in Seq(U) /\ Len(results) \in Nat /\ DOMAIN results = 1..Len(results)
          /\ Len(results) <= n
          /\ \A k \in 1..Len(results) : results[k] = merged[k]
          /\ Len(results) < n => query.limit # None /\ Len(results) = query.limit
        BY <1>1, <1>2, <1>5, KeptIs
    <1>7. DOMAIN found = 1..Len(found) /\ Len(found) \in Nat
        BY <1>3
    <1> HIDE DEF found, merged, results, n, U
    <1>9. ASSUME NEW k \in 1..n
          PROVE  first(merged[k].symbol) = firsts[k] /\ firsts[k] \in Nat
        <2> DEFINE s == merged[k].symbol
                   f == first(s)
        <2>1. /\ firsts[k] \in DOMAIN found /\ found[firsts[k]].symbol = s
              /\ \A j \in 1..(firsts[k] - 1) : found[j].symbol # s
            BY <1>5
        <2> HIDE DEF s
        <2>2. f \in DOMAIN found /\ found[f].symbol = s /\ \A j \in 1..(f - 1) : found[j].symbol # s
            BY <2>1
        <2> HIDE DEF f
        <2>3. ~ (f < firsts[k]) /\ ~ (firsts[k] < f)
            BY <1>7, <2>1, <2>2
        <2>4. f \in Nat /\ firsts[k] \in Nat
            BY <1>7, <2>1, <2>2
        <2> QED BY <2>3, <2>4 DEF f, s
    <1> HIDE DEF first
    <1>10. \A k \in 1..Len(results) : k \in 1..n
        BY <1>5, <1>6
    <1>11. ToSet(results) \subseteq ToSet(found)
        BY <1>6 DEF ToSet, U
    <1>12. \A k \in DOMAIN results, i \in DOMAIN found :
              found[i].symbol = results[k].symbol =>
                  ExchangeKey(results[k]) <= ExchangeKey(found[i])
        BY <1>5, <1>6, <1>10
    <1>13. \A k, l \in DOMAIN results :
              k < l => first(results[k].symbol) < first(results[l].symbol)
        BY <1>5, <1>6, <1>9, <1>10
    <1>14. ASSUME NEW s \in symbols
           PROVE  \E k \in 1..n : merged[k].symbol = s
        BY <1>5
    <1>15. ASSUME returned # symbols
           PROVE  Len(results) < n
        <2> SUFFICES ASSUME ~ (Len(results) < n) PROVE FALSE
            OBVIOUS
        <2>1. Len(results) = n
            <3>1. n \in Nat /\ Len(results) \in Nat /\ Len(results) <= n /\ ~ (Len(results) < n)
                BY <1>5, <1>6
            <3> QED BY <3>1
        <2>2. \A s \in symbols : s \in returned
            BY <1>6, <1>14, <2>1
        <2>3. \A s \in returned : s \in symbols
            <3> TAKE s \in returned
            <3>1. PICK k \in 1..n : s = merged[k].symbol
                BY <1>6, <1>10
            <3> QED BY <1>5, <3>1
        <2> QED BY <1>15, <2>2, <2>3
    <1>16. ASSUME NEW s \in symbols \ returned, NEW r \in returned
           PROVE  first(r) < first(s)
        <2>1. PICK l \in 1..n : merged[l].symbol = s
            BY <1>14
        <2>2. PICK k \in 1..Len(results) : results[k].symbol = r
            BY <1>6
        <2>3. l \notin 1..Len(results)
            BY <1>6, <2>1
        <2>4. k < l /\ k \in 1..n
            BY <1>5, <1>6, <1>10, <2>2, <2>3
        <2>5. merged[k].symbol = r
            BY <1>6, <2>2
        <2> QED BY <1>5, <1>9, <2>1, <2>4, <2>5
    <1> HIDE DEF symbols, returned
    <1>17. /\ ToSet(results) \subseteq ToSet(found)
           /\ \A k \in DOMAIN results, i \in DOMAIN found :
                 found[i].symbol = results[k].symbol =>
                     ExchangeKey(results[k]) <= ExchangeKey(found[i])
           /\ \A k, l \in DOMAIN results :
                 k < l => first(results[k].symbol) < first(results[l].symbol)
           /\ returned # symbols => query.limit # None /\ Len(results) = query.limit
           /\ \A s \in symbols \ returned, r \in returned : first(r) < first(s)
        BY <1>6, <1>11, <1>12, <1>13, <1>15, <1>16
    <1> QED BY <1>17 DEF found, results, first, symbols, returned

LEMMA SearchFails ==
    ASSUME FanOK, calls # None, Pending = {}, op = "search", report = SearchResult,
           report.kind \in {"all_failed", "all_timed_out"}
    PROVE  LET leaves == UNION {ToSet(c.leaves) : c \in ToSet(Errs)}
               mattering == {leaf \in leaves : Actionable(leaf)}
           IN  /\ query.limit # 0 =>
                     \A i \in DOMAIN Oks : \A k \in DOMAIN Oks[i].value : Oks[i].value[k].symbol = None
               /\ mattering # {}
               /\ report.kind = "all_timed_out" <=> mattering = {"timeout"}
    <1> DEFINE leaves == UNION {ToSet(c.leaves) : c \in ToSet(Errs)}
               mattering == {leaf \in leaves : Actionable(leaf)}
    <1>1. /\ Kept = <<>> /\ Warnings # <<>>
          /\ report.kind = "all_timed_out" <=> ToSet(Warnings) = {"timeout"}
        <2>1. SearchResult = CASE \A c \in Connectors : ~Attempted(c) -> [kind |-> "unsupported"]
                [] Kept = <<>> /\ Warnings # <<>> /\ \E c \in Connectors : Attempted(c) ->
                      IF ToSet(Warnings) = {"timeout"} THEN [kind |-> "all_timed_out"]
                      ELSE [kind |-> "all_failed", warnings |-> Warnings]
                [] OTHER -> [kind |-> "search", results |-> Kept, warnings |-> Warnings]
            BY DEF SearchResult, Kept, Found
        <2> QED BY <2>1
    <1>2. AllEnded(calls, Width) /\ query.limit \in Limits
        BY JoinedCalls DEF FanOK, QueryOK
    <1>3. /\ Width \in Nat /\ calls = [i \in 1..Width |-> calls[i]] /\ DOMAIN calls = 1..Width
        BY <1>2 DEF AllEnded
    <1>4. /\ Warnings \in Seq(STRING)
          /\ ToSet(Warnings) = UNION {ToSet(ActionableOf(calls[i])) : i \in 1..Width}
        <2> DEFINE T == STRING
                   seqs == [i \in DOMAIN calls |-> ActionableOf(calls[i])]
        <2>1. \A i \in 1..Width : ActionableOf(calls[i]) \in Seq(T)
            BY <1>2, ActionableIs
        <2>2. Warnings = FlattenSeq(seqs)
            BY DEF Warnings
        <2> HIDE DEF T
        <2>3. /\ seqs \in Seq(Seq(T)) /\ DOMAIN seqs = 1..Width
              /\ \A i \in 1..Width : seqs[i] = ActionableOf(calls[i])
            BY <1>3, <2>1
        <2> HIDE DEF seqs
        <2>4. /\ FlattenSeq(seqs) \in Seq(T)
              /\ ToSet(FlattenSeq(seqs)) = UNION {ToSet(seqs[i]) : i \in DOMAIN seqs}
            BY <2>3, FlattenIs
        <2>5. {ToSet(seqs[i]) : i \in DOMAIN seqs} = {ToSet(ActionableOf(calls[i])) : i \in 1..Width}
            BY <2>3
        <2> QED BY <2>2, <2>4, <2>5 DEF T
    <1>5. \A x : x \in ToSet(Errs) <=> \E i \in 1..Width : IsErr(calls[i]) /\ x = calls[i]
        <2>1. /\ ErrPlaces \in SUBSET (1..Width) /\ Errs \in Seq(ToSet(calls))
              /\ \A i \in ErrPlaces : /\ Upto(i, "err") \in 1..Len(Errs)
                                      /\ Errs[Upto(i, "err")] = calls[i]
              /\ \A k \in 1..Len(Errs) : Ascending(ErrPlaces)[k] \in ErrPlaces
                                         /\ Errs[k] = calls[Ascending(ErrPlaces)[k]]
            BY <1>2, SplitIs
        <2>2. DOMAIN Errs = 1..Len(Errs)
            BY <2>1
        <2>3. \A i \in 1..Width : i \in ErrPlaces <=> IsErr(calls[i])
            BY <1>3 DEF ErrPlaces
        <2>4. ASSUME NEW i \in 1..Width, IsErr(calls[i]) PROVE calls[i] \in ToSet(Errs)
            <3>1. i \in ErrPlaces
                BY <2>3, <2>4
            <3>2. Upto(i, "err") \in DOMAIN Errs /\ Errs[Upto(i, "err")] = calls[i]
                BY <2>1, <2>2, <3>1
            <3> QED BY <3>2 DEF ToSet
        <2>5. ASSUME NEW k \in DOMAIN Errs PROVE \E i \in 1..Width : IsErr(calls[i]) /\ Errs[k] = calls[i]
            <3>1. Ascending(ErrPlaces)[k] \in ErrPlaces /\ Errs[k] = calls[Ascending(ErrPlaces)[k]]
                BY <2>1, <2>2
            <3> QED BY <2>1, <2>3, <3>1
        <2> QED BY <2>4, <2>5 DEF ToSet
    <1>6. ASSUME NEW leaf
          PROVE  leaf \in ToSet(Warnings) <=> leaf \in mattering
        <2>1. \A i \in 1..Width :
                 leaf \in ToSet(ActionableOf(calls[i])) <=>
                     IsErr(calls[i]) /\ leaf \in ToSet(calls[i].leaves) /\ Actionable(leaf)
            <3> TAKE i \in 1..Width
            <3>1. CASE IsOk(calls[i])
                <4>1. ActionableOf(calls[i]) = <<>> /\ ~IsErr(calls[i])
                    BY <1>2, <3>1, ActionableIs, EndedIs
                <4>2. ToSet(<<>>) = {}
                    BY DEF ToSet
                <4> QED BY <4>1, <4>2
            <3>2. CASE IsErr(calls[i])
                <4>1. ToSet(ActionableOf(calls[i]))
                        = {l \in ToSet(calls[i].leaves) : Actionable(l)}
                    BY <1>2, <3>2, ActionableIs
                <4> QED BY <3>2, <4>1
            <3> QED BY <1>2, <3>1, <3>2, EndedIs
        <2>2. leaf \in leaves <=> \E i \in 1..Width : IsErr(calls[i]) /\ leaf \in ToSet(calls[i].leaves)
            BY <1>5
        <2> HIDE DEF leaves
        <2> QED BY <1>4, <2>1, <2>2
    <1>7. ToSet(Warnings) = mattering
        BY <1>6
    <1>8. ToSet(Warnings) # {}
        <2>1. 1 \in DOMAIN Warnings
            BY <1>1, <1>4
        <2> QED BY <2>1 DEF ToSet
    <1> HIDE DEF mattering
    <1>9. ASSUME query.limit # 0, NEW i \in DOMAIN Oks, NEW k \in DOMAIN Oks[i].value
          PROVE  Oks[i].value[k].symbol = None
        <2>1. Found \in Seq(Hits) /\ Oks[i].value[k] \in ToSet(Found)
            <3>1. Found \in Seq(Hits) /\ ToSet(Oks[i].value) \subseteq ToSet(Found)
                BY <1>2, <1>9, FoundIs
            <3>2. Oks[i].value[k] \in ToSet(Oks[i].value)
                BY <1>9 DEF ToSet
            <3> QED BY <3>1, <3>2
        <2>2. PICK j \in DOMAIN Found : Found[j] = Oks[i].value[k]
            BY <2>1 DEF ToSet
        <2> DEFINE merged == Deduplicated(Found)
                   U == ToSet(Found)
        <2>3. PICK firsts : Deduped(merged, Found, firsts)
            BY <2>1, DeduplicatedIs
        <2>4. merged \in Seq(U) /\ Len(merged) \in Nat
            BY <2>3 DEF Deduped
        <2>5. Len(merged) = 0
            <3>1. /\ Len(Kept) <= Len(merged)
                  /\ Len(Kept) < Len(merged) => query.limit # None /\ Len(Kept) = query.limit
                <4> HIDE DEF U
                <4> QED BY <1>2, <2>4, KeptIs
            <3>2. Len(Kept) = 0
                BY <1>1
            <3> HIDE DEF merged
            <3> QED BY <1>9, <2>4, <3>1, <3>2
        <2>6. Found[j].symbol = None
            <3>1. Found[j].symbol # None => \E l \in 1..Len(merged) : merged[l].symbol = Found[j].symbol
                BY <2>2, <2>3 DEF Deduped
            <3> HIDE DEF merged
            <3> QED BY <2>5, <3>1
        <2> QED BY <2>2, <2>6
    <1>10. /\ query.limit # 0 =>
                 \A i \in DOMAIN Oks : \A k \in DOMAIN Oks[i].value : Oks[i].value[k].symbol = None
           /\ mattering # {}
           /\ report.kind = "all_timed_out" <=> mattering = {"timeout"}
        BY <1>1, <1>7, <1>8, <1>9
    <1> QED BY <1>10 DEF mattering

\* A search returns the best of each symbol, for any connectors, results,
\* preferences and limits.
THEOREM SearchesBest == FanSpec => []SearchIsBest
    <1>1. FanInit => FanOK
        BY FanStart
    <1>2. FanOK /\ [FanNext]_allVars => FanOK'
        BY FanStep
    <1>3. FanOK => SearchIsBest
        <2> SUFFICES ASSUME FanOK PROVE SearchIsBest
            OBVIOUS
        <2>1. ASSUME report # None, report.kind \in {"search", "all_failed", "all_timed_out"}
              PROVE  calls # None /\ Pending = {} /\ op = "search" /\ report = SearchResult
            <3>1. calls # None /\ Pending = {} /\ report \in Joins
                BY <2>1 DEF FanOK, ReportOK
            <3>2. op \in Methods \ {"history"}
                BY <3>1, JoinedCalls
            <3> QED BY <2>1, <3>1, <3>2, JoinKinds
        <2>2. CASE Ended("search")
            BY <2>1, <2>2, SearchFinds DEF SearchIsBest, Ended
        <2>3. CASE report # None /\ report.kind \in {"all_failed", "all_timed_out"}
            BY <2>1, <2>3, SearchFails DEF SearchIsBest, Ended
        <2>4. CASE report = None \/ report.kind \notin {"search", "all_failed", "all_timed_out"}
            BY <2>4 DEF SearchIsBest, Ended
        <2> QED BY <2>2, <2>3, <2>4 DEF Ended
    <1> QED BY <1>1, <1>2, <1>3, PTL DEF FanSpec
=============================================================================
