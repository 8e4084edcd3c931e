---------------------------- MODULE MC_History ----------------------------
(* Instances of History for TLC. *)
EXTENDS History

Minutes(n) == [kind |-> "intraday", minutes |-> n]
D1 == [kind |-> "D1", minutes |-> 0]
W1 == [kind |-> "W1", minutes |-> 0]

Candle(t, amt, cur, raw) ==
    [ts |-> t, open |-> [amt |-> amt, cur |-> cur], high |-> [amt |-> amt + (t % 2), cur |-> cur],
     low |-> [amt |-> amt - (t % 3), cur |-> cur], close |-> [amt |-> amt, cur |-> cur],
     raw |-> raw, vol |-> IF raw THEN None ELSE amt]

\* prices that tell times and providers apart
Candles(times, amt, cur, raw) ==
    [i \in DOMAIN times |-> Candle(times[i], amt + (times[i] % 4), cur, raw)]

\* every response reports the same dividend; long ones a split as well
Response(candles, adjusted, meta) ==
    [candles |-> candles, adjusted |-> adjusted, meta |-> meta,
     actions |-> (IF Len(candles) > 2 THEN <<[ts |-> 33, kind |-> 1, payload |-> 2]>> ELSE <<>>)
                 \o <<[ts |-> 27, kind |-> 0, payload |-> 1]>>]

\* Days of 8: 24 begins a Sunday, 32 a Monday.
Utc == None
East == [zone |-> None, off |-> 1]
\* clocks go back by half a day at 28, forward within the Monday, and forward
\* over its midnight
Back    == [zone |-> [at |-> 28, before |-> 4, after |-> 0], off |-> None]
Forward == [zone |-> [at |-> 34, before |-> 0, after |-> 2], off |-> None]
Midnight == [zone |-> [at |-> 32, before |-> 0, after |-> 4], off |-> None]

MixedCandle == [Candle(29, 7, "usd", FALSE) EXCEPT !.high.cur = "eur"]

MCResponses ==
    { Response(<<>>, TRUE, Utc),
      Response(Candles(<<27, 29>>, 5, "usd", FALSE), TRUE, East),
      Response(Candles(<<26, 29, 33, 34>>, 8, "usd", TRUE), FALSE, Back),
      Response(Candles(<<34, 29, 33>>, 3, "usd", FALSE), FALSE, Forward),
      Response(Candles(<<33, 38>>, 6, "eur", FALSE), TRUE, Utc),
      Response(<<Candle(27, 2, "usd", FALSE), MixedCandle>>, TRUE, Utc) }

MCConnectors == 1..3
MCEligibles == {{}, {1, 2, 3}}
MCSupports == <<{D1, Minutes(1)}, {Minutes(1), Minutes(2)}, {Minutes(4), W1}>>
MCRequests == {D1, W1, Minutes(4)}
MCConfigs ==
    {[deep |-> d, prefer_adjusted |-> p, resampling |-> r.resampling, auto |-> r.auto] :
        d \in BOOLEAN, p \in BOOLEAN,
        r \in {[resampling |-> "none", auto |-> FALSE], [resampling |-> "none", auto |-> TRUE],
               [resampling |-> "weekly", auto |-> FALSE]}}

\* Six does not divide the half day repeated: a bucket begins within it.
DstResponses == {Response(Candles(<<25, 26, 29>>, 4, "usd", FALSE), TRUE, Back)}
DstRequests == {Minutes(6)}
DstConfigs == {[deep |-> TRUE, prefer_adjusted |-> FALSE, resampling |-> "none", auto |-> FALSE]}

\* The clocks skip the midnight of a Monday; 33 and 41 are of its week.
WeekResponses == {Response(Candles(<<29, 33, 41>>, 4, "usd", FALSE), TRUE, Midnight)}
WeekRequests == {W1}

\* borsa-core/src/timeseries/resample.rs:405: "Resample to weekly buckets (Monday
\* start) in market local time": an answer brought to weeks has one candle for
\* each local week.
WeeksAreLocal ==
    IsSeries =>
        \A c \in Usable : tasks[c].plan = Weekly =>
            LET candles == Provided(c).response.candles
                week(i) == Beginning(Weekly, tasks[c].response.meta, candles[i].ts)
            IN  \A i, j \in DOMAIN candles : i # j => week(i) # week(j)
=============================================================================
