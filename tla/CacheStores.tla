----------------------------- MODULE CacheStores -----------------------------
(***************************************************************************)
(* A connector that the builder has made, and the calls that are made to   *)
(* it (borsa-middleware/src/cache.rs): which of them the cache answers,    *)
(* which it stores, under which key, and which go on to the layers inside. *)
(*                                                                         *)
(* A request is [cap, inst, args]: a capability, its instrument, and its   *)
(* other arguments as a record.  What the connectors say to a request is   *)
(* told apart only by the request.  Calls follow one another here; those   *)
(* that overlap are in CallPath.                                           *)
(***************************************************************************)
EXTENDS LayerStack

CONSTANTS
    PerSecond,    \* units of time in a second, for the period of a history
    Requests,
    MaxEntries    \* bound: entries in all stores

Flags == {"include_prepost", "include_actions", "auto_adjust", "keepna"}

\* What a method is given besides an instrument.  `on` is the set of a
\* HistoryRequest's flags that are set.
ArgsOf(cap) ==
    CASE cap = "history" -> {"interval", "range", "period", "on"}
      [] cap \in {"income_statement", "balance_sheet", "cashflow"} -> {"quarterly"}
      [] cap = "news" -> {"count", "tab"}
      [] cap = "option_chain" -> {"date"}
      [] cap = "search" -> {"query", "kind", "limit", "lang", "region"}
      [] cap = "stream_candles" -> {"interval"}
      [] OTHER -> {}

VARIABLES
    positive,  \* Stores: entries [cap, key, of], of the request that was
    negative,  \* loaded, of the positive and of the negative stores
    reply      \* the last answer: [to, of, ok, passed], or None; `passed`
               \* names the layers that the call has reached

vars == <<builderVars, positive, negative, reply>>

-----------------------------------------------------------------------------
(* Keys *)

\* Keyed by the instrument alone: quote, profile, isin, earnings
Basics == {"quote", "profile", "isin", "earnings"}

\* ... calendar, the recommendations and their summary, upgrades and
\* downgrades, the price target
Analysts == {"calendar", "recommendations", "recommendations_summary",
             "upgrades_downgrades", "analyst_price_target"}

\* ... holders
Holders == {"major_holders", "institutional_holders", "mutual_fund_holders"}

\* ... insiders and ESG scores
Insiders == {"insider_transactions", "insider_roster", "net_share_purchase_activity", "esg"}

\* ... expirations
ByInstrument == Basics \union Analysts \union Holders \union Insiders \union {"options_expirations"}

\* Keyed by the instrument and whether the statement is quarterly
Statements == {"income_statement", "balance_sheet", "cashflow"}

\* Never stored
Streams == {"stream_candles", "stream_quotes", "stream_options"}

Capabilities ==
    ByInstrument \union Statements \union Streams
    \union {"history", "news", "option_chain", "search"}

ASSUME RequestsAssumption ==
    \A r \in Requests :
        /\ r.cap \in Capabilities /\ DOMAIN r.args = ArgsOf(r.cap)
        /\ r.cap = "history" => r.args.on \in SUBSET Flags
        /\ r.cap = "search" => r.inst = None

\* mutant: two flags share a bit
Bit_Shared(flag) ==
    CASE flag = "include_prepost" -> 1 [] flag = "include_actions" -> 2
      [] flag = "auto_adjust" -> 4 [] flag = "keepna" -> 4

\* HistoryKey's flags
Bit(flag) ==
    CASE flag = "include_prepost" -> 1 [] flag = "include_actions" -> 2
      [] flag = "auto_adjust" -> 4 [] flag = "keepna" -> 8

\* timestamp()
Seconds(period) ==
    IF period = None THEN None
    ELSE [from |-> period.from \div PerSecond, to |-> period.to \div PerSecond]

Flag(on, flag) == IF flag \in on THEN Bit(flag) ELSE 0

\* HistoryKey::from_request; the bits differ, so adding them sets each.
HistoryKey(r) ==
    [inst |-> r.inst, interval |-> r.args.interval, range |-> r.args.range,
     period |-> Seconds(r.args.period),
     flags |-> Flag(r.args.on, "include_prepost") + Flag(r.args.on, "include_actions")
               + Flag(r.args.on, "auto_adjust") + Flag(r.args.on, "keepna")]

NewsKey(r) == [inst |-> r.inst, count |-> r.args.count, tab |-> r.args.tab]
OptionChainKey(r) == [inst |-> r.inst, date |-> r.args.date]
\* The language and the region of a search are not in its key.
SearchKey(r) == [query |-> r.args.query, kind |-> r.args.kind, limit |-> r.args.limit]

Key(r) ==
    CASE r.cap = "history" -> HistoryKey(r)
      [] r.cap \in ByInstrument -> [inst |-> r.inst]
      [] r.cap \in Statements -> [inst |-> r.inst, flag |-> r.args.quarterly]
      [] r.cap = "news" -> NewsKey(r)
      [] r.cap = "option_chain" -> OptionChainKey(r)
      [] r.cap = "search" -> SearchKey(r)

-----------------------------------------------------------------------------
(* Calls *)

\* ttl_for and negative_ttl_for: 0 is no store
TtlFor(config, cap) ==
    IF cap \in DOMAIN config.overrides THEN config.overrides[cap] ELSE config.ttl
NegativeTtlFor(config, cap) ==
    IF cap \in DOMAIN config.negative_overrides
    THEN config.negative_overrides[cap] ELSE config.negative

Built == connector \notin {None, Refused}

\* The cache's place in the connector, or 0; a stream passes it by.
CacheFor(r) ==
    LET caches == {i \in DOMAIN connector : connector[i].name = "cache"}
    IN  IF r.cap \in Streams \/ caches = {} THEN 0 ELSE CHOOSE i \in caches : TRUE

\* maybe_store and maybe_negative_store
HasStore(r) == CacheFor(r) # 0 /\ TtlFor(connector[CacheFor(r)].config, r.cap) > 0
HasNegativeStore(r) ==
    CacheFor(r) # 0 /\ NegativeTtlFor(connector[CacheFor(r)].config, r.cap) > 0

Entry(r) == [cap |-> r.cap, key |-> Key(r), of |-> r]

\* What the store has for r: one entry at most, see AnswersMatch.
Found(store, r) ==
    IF r.cap \in Streams THEN {} ELSE {e \in store : e.cap = r.cap /\ e.key = Key(r)}

\* The layers down to the i-th
Outermost(i) == {connector[j].name : j \in 1..i}

Answer(r, of, ok, passed) == reply' = [to |-> r, of |-> of, ok |-> ok, passed |-> passed]

\* cached_or_load_neg: the negative store is read first, ...
AnswerError(r) ==
    /\ Built
    /\ \E e \in Found(negative, r) : Answer(r, e.of, FALSE, Outermost(CacheFor(r)))
    /\ UNCHANGED <<builderVars, positive, negative>>

\* ... then the positive one, ...
AnswerValue(r) ==
    /\ Built
    /\ Found(negative, r) = {}
    /\ \E e \in Found(positive, r) : Answer(r, e.of, TRUE, Outermost(CacheFor(r)))
    /\ UNCHANGED <<builderVars, positive, negative>>

\* ... and then the layers inside load.
Missing(r) == Built /\ Found(negative, r) = {} /\ Found(positive, r) = {}

Room == Cardinality(positive) + Cardinality(negative) < MaxEntries

LoadValue(r) ==
    /\ Missing(r)
    /\ Answer(r, r, TRUE, Outermost(Len(connector)))
    /\ HasStore(r) => Room
    /\ positive' = IF HasStore(r) THEN positive \union {Entry(r)} ELSE positive
    /\ UNCHANGED <<builderVars, negative>>

LoadError(r, permanent) ==
    /\ Missing(r)
    /\ Answer(r, r, FALSE, Outermost(Len(connector)))
    /\ LET stored == HasNegativeStore(r) /\ permanent
       IN  /\ stored => Room
           /\ negative' = IF stored THEN negative \union {Entry(r)} ELSE negative
    /\ UNCHANGED <<builderVars, positive>>

\* moka lets an entry go: its time to live is over, or its store is full.
EvictValue ==
    /\ \E e \in positive : positive' = positive \ {e}
    /\ UNCHANGED <<builderVars, negative, reply>>

EvictError ==
    /\ \E e \in negative : negative' = negative \ {e}
    /\ UNCHANGED <<builderVars, positive, reply>>

CacheInit == Init /\ positive = {} /\ negative = {} /\ reply = None

CacheNext ==
    \/ BuilderNext /\ UNCHANGED <<positive, negative, reply>>
    \/ \E r \in Requests :
          \/ AnswerError(r) \/ AnswerValue(r) \/ LoadValue(r)
          \/ \E permanent \in BOOLEAN : LoadError(r, permanent)
    \/ EvictValue
    \/ EvictError

Spec == CacheInit /\ [][CacheNext]_vars

-----------------------------------------------------------------------------
(* Properties *)

\* Two requests that agree in these arguments, the period of a history but for
\* the parts of a second.
Agree(r, q, args) ==
    /\ r.cap = q.cap /\ r.inst = q.inst
    /\ \A arg \in args :
          IF arg = "period" THEN Seconds(r.args.period) = Seconds(q.args.period)
          ELSE r.args[arg] = q.args[arg]

\* Two requests for the same thing
Alike(r, q) == Agree(r, q, ArgsOf(r.cap))

\* ... or for the same thing said in another language or for another region
Locale == {"lang", "region"}
AlikeButLocale(r, q) == Agree(r, q, ArgsOf(r.cap) \ Locale)

\* Whatever the cache answers, a value or an error, was said to a request for
\* the same thing; only of a search, the language and the region may have been
\* others (see SearchesAreOfTheirLocale).  What the cache holds is of a
\* capability whose store is on in the configuration that the builder was
\* given, one entry for a key.
AnswersMatch ==
    /\ reply # None =>
          IF reply.to.cap = "search" THEN AlikeButLocale(reply.to, reply.of)
                                     ELSE Alike(reply.to, reply.of)
    /\ \A e \in positive : HasStore(e.of) /\ Found(positive, e.of) = {e}
    /\ \A e \in negative : HasNegativeStore(e.of) /\ Found(negative, e.of) = {e}

\* What an announcement says of searches (CHANGELOG.md:26), and the cache does
\* not keep: Yahoo's search "supports lang and region".  So an answer is in the
\* language and for the region that it was asked for.
SearchesAreOfTheirLocale == reply # None => Alike(reply.to, reply.of)

\* An answer from the cache costs nothing: a call that has not gone through
\* all the layers has reached neither the blacklist nor the quota.
HitsAreFree ==
    reply # None /\ reply.passed # Outermost(Len(connector)) =>
        reply.passed \intersect {"blacklist", "quota"} = {}

\* The order of the layers, and what it is for.
OrderProtectsQuota == StackIsOrdered /\ HitsAreFree
=============================================================================
