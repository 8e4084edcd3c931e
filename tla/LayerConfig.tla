---------------------------- MODULE LayerConfig ----------------------------
(***************************************************************************)
(* The configuration of the middleware layers that ConnectorBuilder knows, *)
(* and the form it takes in a MiddlewareStack (borsa-middleware/src:       *)
(* builder.rs, quota.rs, blacklist.rs, cache.rs).                          *)
(*                                                                         *)
(* A duration is a number of ticks, of which a millisecond has TicksPerMs. *)
(* A layer of the builder is [name, config]; a layer of a stack is         *)
(* [name, json], where a field that the JSON lacks is None.                *)
(***************************************************************************)
EXTENDS Integers, Sequences

CONSTANTS
    None,         \* Option::None
    TicksPerMs,
    Caches,       \* CacheConfig: [ttl, overrides, negative, negative_overrides]
    Quotas,       \* QuotaConfig: [limit, window, strategy]
    Durations,    \* of blacklists and windows
    Limits,
    Strategies,   \* given to quota_strategy
    Stacks        \* MiddlewareStacks written by hand, each known layer once

ASSUME TicksAssumption == TicksPerMs \in Nat \ {0}

\* QuotaConsumptionStrategy
StrategyType == {"Unit", "EvenSpreadHourly", "Weighted"}

\* QuotaConfig; a window is a Duration
QuotaType == [limit : Nat, window : Nat, strategy : StrategyType]

ASSUME ConfigsAssumption ==
    /\ Quotas \subseteq QuotaType /\ Strategies \subseteq StrategyType
    /\ Durations \subseteq Nat /\ Limits \subseteq Nat

Known == {"cache", "blacklist", "quota"}

\* milliseconds, as u64 or serde_json hold them
Ms(duration) == duration \div TicksPerMs
FromMs(ms) == ms * TicksPerMs

OrDefault(x, default) == IF x = None THEN default ELSE x

\* QuotaConfig::default
DefaultQuota == [limit |-> 1000, window |-> FromMs(60000), strategy |-> "Unit"]

\* config_json
QuotaJson(config) ==
    [limit |-> config.limit, window |-> Ms(config.window), strategy |-> config.strategy]

BlacklistJson(duration) == [duration |-> Ms(duration)]

Json(layer) ==
    CASE layer.name = "quota" -> QuotaJson(layer.config)
      [] layer.name = "blacklist" -> BlacklistJson(layer.config)
      [] OTHER -> layer.config

\* parse_quota_config_from, with other defaults than QuotaConfig's
ParseQuota(json) ==
    [limit |-> OrDefault(json.limit, 1),
     window |-> FromMs(OrDefault(json.window, 60000)),
     strategy |-> IF json.strategy \in {"EvenSpreadHourly", "Weighted"}
                  THEN json.strategy ELSE "Unit"]

\* parse_blacklist_duration_from
ParseBlacklist(json) == FromMs(OrDefault(json.duration, 300000))

\* parse_cache_config_from; times to live are told apart only as none or some
ParseCache(json) ==
    [ttl |-> OrDefault(json.ttl, 1), overrides |-> OrDefault(json.overrides, <<>>),
     negative |-> OrDefault(json.negative, 1),
     negative_overrides |-> OrDefault(json.negative_overrides, <<>>)]

\* descriptor_from_layer, for a known layer
Parse(layer) ==
    CASE layer.name = "quota" -> ParseQuota(layer.json)
      [] layer.name = "blacklist" -> ParseBlacklist(layer.json)
      [] layer.name = "cache" -> ParseCache(layer.json)

\* the layers that are written in Stacks
Written == UNION {{stack[i] : i \in DOMAIN stack} : stack \in Stacks}

\* A number that is written is of a u64.
ASSUME StacksAssumption ==
    /\ \A stack \in Stacks :
          /\ stack \in Seq(Written)
          /\ \A i, j \in DOMAIN stack :
                stack[i].name \in Known /\ stack[i].name = stack[j].name => i = j
    /\ \A layer \in Written :
          /\ layer.name = "quota" => {layer.json.limit, layer.json.window} \subseteq Nat \union {None}
          /\ layer.name = "blacklist" => layer.json.duration \in Nat \union {None}

CacheConfigs ==
    Caches \union {ParseCache(layer.json) : layer \in {l \in Written : l.name = "cache"}}

\* A CacheConfig has all its fields.
ASSUME CachesAssumption == \A config \in CacheConfigs : ParseCache(config) = config

\* None is neither a configuration nor the settings of a builder.
ASSUME NoneAssumption ==
    /\ None \notin CacheConfigs \union QuotaType \union Nat \union StrategyType
    /\ None \notin [Known -> CacheConfigs \union QuotaType \union Nat \union {None}]
=============================================================================
