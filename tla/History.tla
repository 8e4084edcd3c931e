------------------------------ MODULE History ------------------------------
(***************************************************************************)
(* The history router (borsa/src/router/history.rs): one call of           *)
(* `history_with_attribution` for one instrument.                          *)
(*                                                                         *)
(* Connectors are numbered in the order the routing policy gives them.     *)
(* Each is asked for an interval it supports, all at once (Deep) or one    *)
(* after the other until one returns candles (Fallback); a call may time   *)
(* out, and so may the whole request.  What came back is resampled to the  *)
(* interval asked for, ordered, filtered to one kind of adjustedness,      *)
(* attributed and merged.  The algorithms on candles are in Series.        *)
(***************************************************************************)
EXTENDS Series

CONSTANTS
    Connectors, \* 1..n, by rank
    Eligibles,  \* the sets of connectors that may be eligible
    Supports,   \* [Connectors -> SUBSET Interval], supported_history_intervals
    Requests,   \* the intervals asked for
    Configs,    \* [deep, prefer_adjusted, resampling, auto] of BorsaConfig
    Responses   \* what a connector may return

ASSUME ConnectorsAssumption ==
    /\ IsFiniteSet(Connectors) /\ Connectors = 1..Cardinality(Connectors)
    /\ Eligibles \subseteq SUBSET Connectors

ASSUME RequestsAssumption ==
    \A r \in Requests : r.kind = "intraday" => r.minutes \in Nat \ {0}

ASSUME ResponsesAssumption == Responses \subseteq ResponseType

\* An interval is [kind, minutes]: "intraday" with its minutes, or "D1", "W1"
\* or "other" (months, and parts of a minute) without.
Intraday(S) == {i \in S : i.kind = "intraday"}
Coarsest(S) == CHOOSE i \in S : \A j \in S : j.minutes <= i.minutes

Plan(unit, minutes) == [unit |-> unit, minutes |-> minutes]
Daily  == Plan("daily", 0)
Weekly == Plan("weekly", 0)

\* the outcome of a connector's task
Idle == [kind |-> "idle"]         \* Fallback has not got to it
Errors == {"unsupported", "failed", "timeout"}
Settled(kind) == [kind |-> kind]

VARIABLES config, request, eligible,
          tasks,    \* [Connectors -> task]
          result    \* None, or what the call returned

vars == <<config, request, eligible, tasks, result>>

-----------------------------------------------------------------------------
(* choose_effective_interval *)

Divisors(S, requested) ==
    {i \in Intraday(S) : i.minutes <= requested.minutes /\ requested.minutes % i.minutes = 0}

\* [interval, plan], or None if the provider cannot serve the request
Effective(S, requested) ==
    LET ask(i, p) == [interval |-> i, plan |-> p]
        from(T, p) == IF T = {} THEN None ELSE ask(Coarsest(T), p)
        days == {i \in S : i.kind = "D1"}
    IN  CASE requested \in S -> ask(requested, None)
          [] requested \notin S /\ requested.kind = "intraday" ->
                from(Divisors(S, requested), Plan("minutes", requested.minutes))
          [] requested \notin S /\ requested.kind = "D1" -> from(Intraday(S), Daily)
          [] requested \notin S /\ requested.kind = "W1" ->
                IF days # {} THEN ask(CHOOSE d \in days : TRUE, Weekly)
                ELSE from(Intraday(S), Weekly)
          [] OTHER -> ask(requested, None)

\* collect_successes: the candles a connector returned, resampled to the
\* request.  The code does this when all have answered, and it depends on
\* nothing but the answer, so the answer has it in the model.
Collected(plan, r) ==
    IF plan = None THEN [mixed |-> FALSE, response |-> r]
    ELSE LET resampled == Resampled(plan, r.meta, r.candles)
         IN  [mixed |-> resampled.mixed, response |-> [r EXCEPT !.candles = resampled.out]]

-----------------------------------------------------------------------------
(* The calls *)

Open == {c \in eligible : tasks[c].kind \in {"idle", "asked"}}
HasCandles(c) == tasks[c].kind = "series" /\ tasks[c].response.candles # <<>>

Init ==
    /\ config \in Configs
    /\ request \in Requests
    /\ eligible \in Eligibles
    /\ tasks = [c \in Connectors |-> Idle]
    /\ result = None

\* spawn_history_task, and the turn of the loop of sequential_history
Ask(c) ==
    /\ result = None
    /\ c \in eligible
    /\ tasks[c] = Idle
    /\ ~config.deep => \A d \in eligible : d < c => d \notin Open /\ ~HasCandles(d)
    /\ LET e == Effective(Supports[c], request)
       IN  tasks' = [tasks EXCEPT ![c] = IF e = None THEN Settled("unsupported")
                                         ELSE [kind |-> "asked", plan |-> e.plan]]
    /\ UNCHANGED <<config, request, eligible, result>>

Answer(c) ==
    /\ result = None
    /\ tasks[c].kind = "asked"
    /\ \/ \E r \in Responses :
             tasks' = [tasks EXCEPT ![c] = [kind |-> "series", plan |-> @.plan, response |-> r,
                                            provided |-> Collected(@.plan, r)]]
       \/ \E error \in {"notfound", "failed"} : tasks' = [tasks EXCEPT ![c] = Settled(error)]
    /\ UNCHANGED <<config, request, eligible, result>>

\* provider_call_with_timeout
TimeOut(c) ==
    /\ result = None
    /\ tasks[c].kind = "asked"
    /\ tasks' = [tasks EXCEPT ![c] = Settled("timeout")]
    /\ UNCHANGED <<config, request, eligible, result>>

\* with_request_deadline: whatever has been answered is dropped
Deadline ==
    /\ result = None
    /\ \E c \in eligible : tasks[c].kind = "asked"
    /\ result' = [kind |-> "request_timeout"]
    /\ UNCHANGED <<config, request, eligible, tasks>>

-----------------------------------------------------------------------------
(* finalize_history_results *)

Joined == {c \in eligible : tasks[c] # Idle}

\* what finalize_history_results works on
Provided(c) == tasks[c].provided

Usable == {c \in Joined : HasCandles(c) /\ ~Provided(c).mixed}

Failing == {c \in Joined : \/ tasks[c].kind \in Errors
                           \/ HasCandles(c) /\ c \notin Usable}

\* order_results and filter_adjustedness: the connectors used, in order
Used ==
    LET adjusted == {c \in Usable : Provided(c).response.adjusted}
        first == CHOOSE c \in Usable : \A d \in Usable : c <= d
    IN  Ascending(CASE config.prefer_adjusted /\ adjusted # {} -> adjusted
                    [] config.prefer_adjusted /\ adjusted = {} -> Usable
                    [] OTHER -> IF first \in adjusted THEN adjusted ELSE Usable \ adjusted)

\* build_attribution, given the responses used as [name, candles]
Owner(used, t) ==
    LET having == {k \in DOMAIN used : t \in Times(used[k].candles)}
    IN  used[CHOOSE k \in having : \A j \in having : k <= j].name

ExtendRun(used, spans, t) ==
    IF spans = <<>> \/ spans[Len(spans)].name # Owner(used, t)
    THEN Append(spans, [name |-> Owner(used, t), start |-> t, end |-> t])
    ELSE [spans EXCEPT ![Len(spans)].end = t]

Attribution(used) ==
    LET times == Ascending(UNION {Times(used[k].candles) : k \in DOMAIN used})
        after[i \in 0..Len(times)] ==
            IF i = 0 THEN <<>> ELSE ExtendRun(used, after[i - 1], times[i])
    IN  after[Len(times)]

-----------------------------------------------------------------------------
(* identify_faulty_provider, over the candles of each provider used *)

Currencies(candles) ==
    UNION {{candles[i].open.cur, candles[i].high.cur, candles[i].low.cur, candles[i].close.cur} :
             i \in DOMAIN candles}

Inconsistent(candles) == Cardinality(Currencies(candles)) > 1

\* mutant: the last provider is to blame.
Blamed_Last(used) == {Len(used)}

\* The first one found in a HashMap, then the first to differ from the first.
\* Nothing is left to blame otherwise, so the last one is.
Blamed(used) ==
    LET bad == {k \in DOMAIN used : Inconsistent(used[k].candles)}
        differing == {k \in DOMAIN used :
                         Currencies(used[k].candles) # Currencies(used[1].candles)}
    IN  CASE bad # {} -> bad
          [] bad = {} /\ differing # {} -> {CHOOSE k \in differing : \A j \in differing : k <= j}
          [] OTHER -> {Len(used)}

-----------------------------------------------------------------------------
(* merge_history_or_tag_connector_error and apply_final_resample *)

FinalPlan(candles) ==
    CASE config.resampling = "weekly" -> Weekly
      [] config.resampling = "daily" -> Daily
      [] OTHER -> IF config.auto /\ IsSubdaily(candles) THEN Daily ELSE None

\* the series returned, from what was merged
Resolved(merged, spans) ==
    LET plan == FinalPlan(merged.candles)
        r == Resampled(plan, merged.meta, merged.candles)
        series(m) == [kind |-> "series", response |-> m, spans |-> spans,
                      plan |-> plan, merged |-> merged]
    IN  IF plan = None THEN series(merged)
        ELSE IF r.mixed THEN [kind |-> "data"]
        ELSE series([merged EXCEPT !.candles = r.out])

\* the outcomes of merging the responses used, more than one
Merging(used) ==
    LET m == Merged([k \in DOMAIN used |-> used[k].response])
        names == [k \in DOMAIN used |-> [name |-> used[k].name, candles |-> used[k].response.candles]]
    IN  IF m.mixed THEN {[kind |-> "mixed", blamed |-> used[k].name] : k \in Blamed(names)}
        ELSE {Resolved(MergedResponse(m), Attribution(names))}

Succeeding ==
    LET used == [k \in DOMAIN Used |-> [name |-> Used[k], response |-> Provided(Used[k]).response]]
        one == used[1]
    IN  IF Len(used) = 1
        THEN {Resolved(one.response,
                       Attribution(<<[name |-> one.name, candles |-> one.response.candles]>>))}
        ELSE Merging(used)

Outcomes ==
    CASE eligible = {} -> {[kind |-> "unsupported"]}
      [] eligible # {} /\ Usable # {} -> Succeeding
      [] eligible # {} /\ Usable = {} /\ Failing = {} -> {[kind |-> "notfound"]}
      [] OTHER -> IF \A c \in Joined : tasks[c].kind = "timeout"
                  THEN {[kind |-> "all_timed_out"]}
                  ELSE {[kind |-> "all_failed", failing |-> Failing]}

Finish ==
    /\ result = None
    /\ \/ Open = {}
       \/ ~config.deep /\ \E c \in eligible : HasCandles(c)
    /\ \E outcome \in Outcomes : result' = outcome
    /\ UNCHANGED <<config, request, eligible, tasks>>

Returned == result # None /\ UNCHANGED vars

Next ==
    \/ \E c \in Connectors : Ask(c) \/ Answer(c) \/ TimeOut(c)
    \/ Deadline
    \/ Finish
    \/ Returned

Spec == Init /\ [][Next]_vars

-----------------------------------------------------------------------------
(* Properties *)

TaskKinds == {"idle", "asked", "series", "notfound"} \union Errors

\* The state keeps its types; a connector that is not eligible is not asked.
TypeOK ==
    /\ config \in Configs
    /\ request \in Requests
    /\ eligible \in Eligibles
    /\ \A c \in Connectors :
          /\ tasks[c].kind \in TaskKinds
          /\ tasks[c].kind = "series" => tasks[c].response \in Responses
          /\ c \notin eligible => tasks[c] = Idle
    /\ result # None => result.kind \in {"series", "mixed", "data", "notfound", "all_timed_out",
                                        "all_failed", "unsupported", "request_timeout"}

IsSeries == result # None /\ result.kind = "series"

\* The connector a candle of time t must come from: the best ranked of those
\* whose candles, at the interval asked for and of the adjustedness returned,
\* have that time.
RightfulOwner(t) ==
    LET having == {c \in Usable : /\ Provided(c).response.adjusted = result.merged.adjusted
                                  /\ t \in Times(Provided(c).response.candles)}
    IN  CHOOSE c \in having : \A d \in having : c <= d

\* Merging several answers and attributing them are two loops over the same
\* series.  What is returned has every time of the answers used, once and in
\* order; each candle is the one of the best ranked connector that has the
\* time; the one span that covers it names that connector; and spans begin and
\* end with a candle, so no connector is credited with time it had no part in.
\* Dividends and splits reported by several connectors are returned once.
MergeIsAttributed ==
    IsSeries /\ Cardinality(Usable) > 1 =>
        LET candles == result.merged.candles
            covers(s, t) == s.start <= t /\ t <= s.end
            answer(c) == Provided(c).response
            several == Len(Used) > 1
        IN  /\ \A i \in DOMAIN candles :
                  LET c == candles[i]
                      owner == RightfulOwner(c.ts)
                  IN  /\ \E k \in DOMAIN answer(owner).candles :
                            [answer(owner).candles[k] EXCEPT !.raw = c.raw] = c
                      /\ \A s \in ToSet(result.spans) : covers(s, c.ts) => s.name = owner
                      /\ \E s \in ToSet(result.spans) : covers(s, c.ts)
                      /\ several => ~c.raw
            /\ several => \A i, j \in DOMAIN candles : i < j => candles[i].ts < candles[j].ts
            /\ \A c \in Usable : answer(c).adjusted = result.merged.adjusted =>
                  Times(answer(c).candles) \subseteq Times(candles)
            /\ \A s \in ToSet(result.spans) : {s.start, s.end} \subseteq Times(candles)
            /\ several =>
                  LET actions == result.merged.actions
                  IN  /\ ToSet(actions) = UNION {ToSet(answer(c).actions) : c \in ToSet(Used)}
                      /\ \A i, j \in DOMAIN actions :
                            i < j => actions[i] # actions[j] /\ actions[i].ts <= actions[j].ts

\* Errors are true.  history_with_attribution documents when it returns which:
\* NotFound only if every attempt found nothing, AllProvidersTimedOut only if
\* every one timed out, and otherwise every failure is reported and nobody
\* else's; with Deep, no error while one attempt had candles that could be
\* used.  A merge that fails for its currencies is blamed on a connector whose
\* candles are of two currencies, or of another one than the best ranked
\* connector's: the fallback, to blame whoever came last, is never needed.
OutcomeIsTrue ==
    /\ result # None /\ result.kind \in {"notfound", "all_timed_out", "all_failed"} =>
          LET found(c) == tasks[c].kind \in {"notfound", "series"} /\ ~HasCandles(c)
          IN  /\ config.deep => Joined = eligible
              /\ result.kind = "notfound" <=> \A c \in Joined : found(c)
              /\ result.kind = "all_timed_out" <=> \A c \in Joined : tasks[c].kind = "timeout"
              /\ result.kind = "all_failed" => result.failing = {c \in Joined : ~found(c)}
              /\ Usable = {}
    /\ result # None /\ result.kind = "mixed" =>
          LET candles(c) == Provided(c).response.candles
          IN  /\ result.blamed \in ToSet(Used)
              /\ \/ Inconsistent(candles(result.blamed))
                 \/ Currencies(candles(result.blamed)) # Currencies(candles(Used[1]))

\* Each resampling, of one answer to the interval asked for or of the merged
\* series to the cadence configured, is one candle per bucket of local time
\* (a local date, a week from its Monday, a slot), in order, with the open,
\* extremes, close and volume of its candles, across the days on which the zone
\* changes its offset.  A series with a candle in a bucket whose beginning the
\* clocks skip is excepted: see WeeksAreLocal of MC_History.
ResampleIsByBuckets ==
    LET right(out, plan, meta, candles) ==
            plan # None /\ NoneSkipped(plan, meta, candles) =>
                IsResampleOf(out, plan, meta, candles)
    IN  IsSeries =>
            /\ right(result.response.candles, result.plan, result.merged.meta,
                     result.merged.candles)
            /\ \A c \in Usable :
                  right(Provided(c).response.candles, tasks[c].plan, tasks[c].response.meta,
                        tasks[c].response.candles)

\* The comment on resample_by says that it "groups sorted candles by a bucket
\* function and aggregates OHLCV within each bucket", and its tests look each
\* bucket up by its time: an answer brought to the interval asked for has one
\* candle per bucket, in the order of time.
ResampledInOrder ==
    IsSeries =>
        \A c \in Usable : tasks[c].plan # None =>
            LET candles == Provided(c).response.candles
            IN  \A i, j \in DOMAIN candles : i < j => candles[i].ts < candles[j].ts
=============================================================================
