------------------------------- MODULE Series -------------------------------
(***************************************************************************)
(* The time series algorithms of borsa-core/src/timeseries: merging        *)
(* responses by priority, resampling into buckets of local time, and the   *)
(* test for a series of less than a day's cadence.  Pure operators, the    *)
(* loops of the code as recursion.                                         *)
(*                                                                         *)
(* Time is counted in minutes.  A candle is                                *)
(*   [ts, open, high, low, close, raw, vol]                                *)
(* with prices [amt, cur], `raw` for a close_unadj that is set, and a      *)
(* volume or None.  A response is [candles, adjusted, meta, actions]; its  *)
(* meta is None or [zone, off], each possibly None; an action, a dividend, *)
(* split or capital gain, is [ts, kind, payload].                          *)
(***************************************************************************)
EXTENDS Places, SequencesExt

CONSTANTS Day,    \* minutes of a day; smaller in instances
          None    \* Option::None

ASSUME DayAssumption == Day \in Nat \ {0}
ASSUME NoneAssumption == None \notin STRING /\ None \notin Int

Price == [amt : Int, cur : STRING]

CandleType ==
    [ts : Int, open : Price, high : Price, low : Price, close : Price,
     raw : BOOLEAN, vol : Nat \union {None}]

ZoneType == [at : Int, before : Int, after : Int]
MetaType == [zone : ZoneType \union {None}, off : Int \union {None}] \union {None}
ActionType == [ts : Int, kind : Nat, payload : Int]

ResponseType ==
    [candles : Seq(CandleType), adjusted : BOOLEAN, meta : MetaType, actions : Seq(ActionType)]

-----------------------------------------------------------------------------
(* Candles *)

\* ensure_candle_currency_uniform
Uniform(c) == {c.high.cur, c.low.cur, c.close.cur} = {c.open.cur}

\* strip_unadjusted
Stripped(candles) == [i \in DOMAIN candles |-> [candles[i] EXCEPT !.raw = FALSE]]

\* a stable sort by time
ByTime(candles) ==
    Sorted(candles, {p \in (DOMAIN candles) \X (DOMAIN candles) :
                        \/ candles[p[1]].ts < candles[p[2]].ts
                        \/ candles[p[1]].ts = candles[p[2]].ts /\ p[1] <= p[2]})

Times(candles) == {candles[i].ts : i \in DOMAIN candles}

-----------------------------------------------------------------------------
(* merge_history *)

\* mutant: the last candle of a time wins.
MergeCandle_LastWins(m, c) ==
    IF ~Uniform(c) \/ m.cur \notin {None, c.open.cur} THEN [m EXCEPT !.mixed = TRUE]
    ELSE [m EXCEPT !.map = [t \in DOMAIN @ \union {c.ts} |-> IF t = c.ts THEN c ELSE @[t]],
                   !.cur = c.open.cur]

\* The first candle of a time wins, and only winners are checked.
MergeCandle(m, c) ==
    IF m.mixed \/ c.ts \in DOMAIN m.map THEN m
    ELSE IF ~Uniform(c) \/ m.cur \notin {None, c.open.cur} THEN [m EXCEPT !.mixed = TRUE]
    ELSE [m EXCEPT !.map = [t \in DOMAIN @ \union {c.ts} |-> IF t = c.ts THEN c ELSE @[t]],
                   !.cur = c.open.cur]

\* A response that contributes a candle counts for `adjusted` and `meta`; the
\* meta of one that does not is kept for a series without candles.
MergeResponse(m, r) ==
    LET after[i \in 0..Len(r.candles)] ==
            IF i = 0 THEN m ELSE MergeCandle(after[i - 1], r.candles[i])
        n == after[Len(r.candles)]
        contributed == DOMAIN n.map # DOMAIN m.map
    IN  [n EXCEPT !.adjusted = @ /\ (contributed => r.adjusted),
                  !.meta = IF contributed /\ @ = None THEN r.meta ELSE @,
                  !.fallback = IF @ = None THEN r.meta ELSE @,
                  !.actions = @ \union ToSet(r.actions)]

NothingMerged ==
    [map |-> <<>>, cur |-> None, mixed |-> FALSE, adjusted |-> TRUE,
     meta |-> None, fallback |-> None, actions |-> {}]

Merged(responses) ==
    LET after[i \in 0..Len(responses)] ==
            IF i = 0 THEN NothingMerged ELSE MergeResponse(after[i - 1], responses[i])
    IN  after[Len(responses)]

\* compare_actions, total on [ts, kind, payload]
ActionUpTo(a, b) ==
    \/ a.ts < b.ts
    \/ a.ts = b.ts /\ a.kind < b.kind
    \/ a.ts = b.ts /\ a.kind = b.kind /\ a.payload <= b.payload

\* dedup_actions: identical ones once, in order
DedupActions(S) == InOrder(S, {p \in S \X S : ActionUpTo(p[1], p[2])})

\* the response made of it; meaningless when `mixed`
MergedResponse(m) ==
    LET order == Ascending(DOMAIN m.map)
    IN  [candles |-> Stripped([k \in DOMAIN order |-> m.map[order[k]]]),
         adjusted |-> m.map # <<>> /\ m.adjusted,
         meta |-> IF m.map = <<>> /\ m.meta = None THEN m.fallback ELSE m.meta,
         actions |-> DedupActions(m.actions)]

-----------------------------------------------------------------------------
(* Local time.  A zone changes its offset from `before` to `after` at the   *)
(* instant `at`; chrono is external and modelled by its contract.           *)

Floor(t, step) == t - (t % step)

Offset(zone, t) == IF t < zone.at THEN zone.before ELSE zone.after
Local(zone, t) == t + Offset(zone, t)

\* LocalResult: no instant, one, or two have this local time
Instants(zone, local) ==
    {t \in {local - zone.before, local - zone.after} : Local(zone, t) = local}

\* a skipped midnight falls back to the start of the UTC day
MidnightOf(zone, t, local) ==
    LET found == Instants(zone, local)
    IN  IF found = {} THEN Floor(t, Day) ELSE CHOOSE i \in found : \A j \in found : i <= j

\* week_start_day: Mondays
WeekStart(local) == (Floor((local \div Day) + 3, 7) - 3) * Day

HasZone(meta) == meta # None /\ meta.zone # None
FixedOffset(meta) == IF meta = None \/ meta.off = None THEN 0 ELSE meta.off

DayBucket(meta, t) ==
    IF HasZone(meta) THEN MidnightOf(meta.zone, t, Floor(Local(meta.zone, t), Day))
    ELSE Floor(t + FixedOffset(meta), Day) - FixedOffset(meta)

WeekBucket(meta, t) ==
    IF HasZone(meta) THEN MidnightOf(meta.zone, t, WeekStart(Local(meta.zone, t)))
    ELSE WeekStart(t + FixedOffset(meta)) - FixedOffset(meta)

\* Counted from local midnight; of two instants the one with t's own offset.
MinuteBucket(meta, step, t) ==
    IF HasZone(meta)
    THEN LET local == Local(meta.zone, t)
             bucket == Floor(local, Day) + Floor(local % Day, step)
             found == Instants(meta.zone, bucket)
         IN  CASE found = {} -> Floor(t, step)
               [] Cardinality(found) = 1 -> CHOOSE i \in found : TRUE
               [] OTHER -> CHOOSE i \in found : Offset(meta.zone, i) = Offset(meta.zone, t)
    ELSE Floor(t + FixedOffset(meta), step) - FixedOffset(meta)

\* a ResamplePlan is [unit, minutes]
Bucket(plan, meta, t) ==
    CASE plan.unit = "daily"   -> DayBucket(meta, t)
      [] plan.unit = "weekly"  -> WeekBucket(meta, t)
      [] plan.unit = "minutes" -> MinuteBucket(meta, plan.minutes, t)

-----------------------------------------------------------------------------
(* resample_by *)

\* mutant: the high of a bucket is that of its first candle.
Higher_First(a, b) == a

Higher(a, b) == IF b.amt > a.amt THEN b ELSE a

Lower(a, b) == IF b.amt < a.amt THEN b ELSE a
AddVolume(a, b) == IF b = None THEN a ELSE IF a = None THEN b ELSE a + b

\* finalize_bucket: emits the bucket under way, if it is of one currency
Finalize(acc) ==
    IF ~Uniform(acc.cur) \/ (acc.out # <<>> /\ acc.out[1].open.cur # acc.cur.open.cur)
    THEN [acc EXCEPT !.mixed = TRUE]
    ELSE [acc EXCEPT !.out = Append(@, acc.cur)]

StartBucket(bucket, c) == [c EXCEPT !.ts = bucket, !.raw = FALSE]

\* one turn of the loop
AddCandle(plan, meta, acc, c) ==
    LET b == acc.cur
        bucket == Bucket(plan, meta, c.ts)
    IN  IF acc.mixed THEN acc
        ELSE IF bucket # b.ts
        THEN LET f == Finalize(acc) IN [f EXCEPT !.cur = StartBucket(bucket, c)]
        ELSE IF ~Uniform([b EXCEPT !.open = c.open]) THEN [acc EXCEPT !.mixed = TRUE]
        ELSE [acc EXCEPT !.cur = [b EXCEPT !.high = Higher(@, c.high), !.low = Lower(@, c.low),
                                           !.close = c.close, !.vol = AddVolume(@, c.vol)]]

\* [out, mixed]; `out` is the resampled series unless `mixed`
Resampled(plan, meta, candles) ==
    IF candles = <<>> THEN [out |-> <<>>, mixed |-> FALSE]
    ELSE LET sorted == ByTime(candles)
             start == [out |-> <<>>, mixed |-> FALSE,
                       cur |-> StartBucket(Bucket(plan, meta, sorted[1].ts), sorted[1])]
             after[i \in 1..Len(sorted)] ==
                 IF i = 1 THEN start ELSE AddCandle(plan, meta, after[i - 1], sorted[i])
             end == after[Len(sorted)]
             last == IF end.mixed THEN end ELSE Finalize(end)
         IN  [out |-> last.out, mixed |-> last.mixed]

\* the sum of the volumes at these places
TotalVolume(candles, places) ==
    LET upto[n \in 0..Len(candles)] ==
            IF n = 0 THEN 0
            ELSE IF n \in places THEN upto[n - 1] + candles[n].vol ELSE upto[n - 1]
    IN  upto[Len(candles)]

-----------------------------------------------------------------------------
(* What resampling means, told by the clock on the wall and apart from the   *)
(* instants that Bucket works out.                                           *)

Wall(meta, t) == IF HasZone(meta) THEN Local(meta.zone, t) ELSE t + FixedOffset(meta)

\* the local time at which the bucket of t begins: a midnight, that of the last
\* Monday (day 4 was one), or a slot counted from midnight where there is a zone
Beginning(plan, meta, t) ==
    LET wall == Wall(meta, t)
        date == wall \div Day
        slot(u) == u - (u % plan.minutes)
    IN  CASE plan.unit = "daily"   -> date * Day
          [] plan.unit = "weekly"  -> (date - ((date - 4) % 7)) * Day
          [] plan.unit = "minutes" -> IF HasZone(meta) THEN (date * Day) + slot(wall % Day)
                                      ELSE slot(wall)

\* The local time at which a bucket begins may come twice, or never.
Repeated(zone, local) ==
    Local(zone, local - zone.before) = local /\ Local(zone, local - zone.after) = local
        /\ zone.before # zone.after
Skipped(meta, local) == HasZone(meta) /\ Instants(meta.zone, local) = {}

\* Times of one bucket: the two passes of a repeated slot are two buckets.
SameBucket(plan, meta, t, u) ==
    LET begin == Beginning(plan, meta, t)
    IN  /\ Beginning(plan, meta, u) = begin
        /\ plan.unit = "minutes" /\ HasZone(meta) /\ Repeated(meta.zone, begin) =>
              Offset(meta.zone, t) = Offset(meta.zone, u)

NoneSkipped(plan, meta, candles) ==
    \A t \in Times(candles) : ~Skipped(meta, Beginning(plan, meta, t))

\* A candle for each bucket, in order and at the beginning of the bucket, with
\* the first open, the last close, the extremes and the sum of its candles.
IsResampleOf(out, plan, meta, candles) ==
    LET sorted == ByTime(candles)
        within(k) == {i \in DOMAIN sorted : SameBucket(plan, meta, out[k].ts, sorted[i].ts)}
        volumes(k) == {i \in within(k) : sorted[i].vol # None}
    IN  /\ \A i \in DOMAIN sorted : \E k \in DOMAIN out : i \in within(k)
        /\ \A j, k \in DOMAIN out : j < k => out[j].ts < out[k].ts
        /\ \A j, k \in DOMAIN out : j # k => ~SameBucket(plan, meta, out[j].ts, out[k].ts)
        /\ \A k \in DOMAIN out :
              LET w == within(k)
              IN  /\ Wall(meta, out[k].ts) = Beginning(plan, meta, out[k].ts)
                  /\ \E i \in w : out[k].open = sorted[i].open /\ \A j \in w : i <= j
                  /\ \E i \in w : out[k].close = sorted[i].close /\ \A j \in w : j <= i
                  /\ \E i \in w : out[k].high = sorted[i].high
                  /\ \A j \in w : sorted[j].high.amt <= out[k].high.amt
                  /\ \E i \in w : out[k].low = sorted[i].low
                  /\ \A j \in w : sorted[j].low.amt >= out[k].low.amt
                  /\ out[k].vol = IF volumes(k) = {} THEN None
                                 ELSE TotalVolume(sorted, volumes(k))
                  /\ ~out[k].raw

-----------------------------------------------------------------------------
(* is_subdaily: at least three steps, and three in five, below a day *)

IsSubdaily(candles) ==
    LET times == Ascending(Times(candles))
        steps == {i \in DOMAIN times : i > 1}
        small == {i \in steps : times[i] - times[i - 1] < Day}
    IN  Cardinality(small) >= 3 /\ Cardinality(small) * 5 >= Cardinality(steps) * 3
=============================================================================
