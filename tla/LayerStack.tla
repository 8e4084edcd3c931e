----------------------------- MODULE LayerStack -----------------------------
(***************************************************************************)
(* ConnectorBuilder (borsa-middleware/src/builder.rs): a list of layers,   *)
(* outermost first, that its methods filter, extend and sort, and the      *)
(* validation and application of the layers in `build`.                    *)
(***************************************************************************)
EXTENDS LayerConfig, Places

CONSTANTS
    Refused,     \* Err(InvalidMiddlewareStack)
    Customs,     \* Middleware of the caller's own
    Outer,       \* [Customs -> SUBSET Known]: what it requires outside it
    Inner,       \* [Customs -> SUBSET Known]: ... and inside it
    MaxCustoms   \* bound: custom layers in a builder

VARIABLES
    layers,      \* ConnectorBuilder::layers
    connector    \* None while building; what build returned: Refused, or
                 \* the wrapped connector's layers, outermost first

builderVars == <<layers, connector>>

Layer(name, config) == [name |-> name, config |-> config]

\* the layers that a connector may be wrapped in
Wrappers ==
    {Layer("cache", c) : c \in CacheConfigs}
    \union {Layer(name, None) : name \in {"blacklist", "quota"} \union Customs}

ASSUME CustomsAssumption ==
    /\ Customs \intersect Known = {}
    /\ None # Refused /\ None \notin Seq(Wrappers) /\ Refused \notin Seq(Wrappers)

-----------------------------------------------------------------------------

\* the sort key of enforce_ordering
RankOf(name) ==
    CASE name = "cache" -> 0 [] name = "blacklist" -> 1 [] name = "quota" -> 2 [] OTHER -> 3

\* enforce_ordering: a stable sort
Ordered(ls) ==
    LET rank(i) == RankOf(ls[i].name)
    IN  Sorted(ls, {p \in (DOMAIN ls) \X (DOMAIN ls) :
                       \/ rank(p[1]) < rank(p[2])
                       \/ rank(p[1]) = rank(p[2]) /\ p[1] <= p[2]})

Without(name) == Selected(layers, {i \in DOMAIN layers : layers[i].name # name})

Building == connector = None

Change(ls) == Building /\ layers' = ls /\ UNCHANGED connector

Init == layers = <<>> /\ connector = None

WithCache(c) == Change(Ordered(<<Layer("cache", c)>> \o Without("cache")))

\* mutant: the layer is put where the comment on the method says
WithBlacklist_Outermost(d) == Change(<<Layer("blacklist", d)>> \o Without("blacklist"))

WithBlacklist(d) == Change(Ordered(Append(Without("blacklist"), Layer("blacklist", d))))

WithQuota(q) == Change(Ordered(Append(Without("quota"), Layer("quota", q))))

WithoutLayer(name) == Change(Without(name))

\* mutant: the settings already made are not looked for
ExistingQuota_Ignored == DefaultQuota

\* existing_quota_config reads the JSON of the first quota layer.
ExistingQuota ==
    LET quotas == {i \in DOMAIN layers : layers[i].name = "quota"}
        first == CHOOSE i \in quotas : \A j \in quotas : i <= j
    IN  IF quotas = {} THEN DefaultQuota
        ELSE LET json == QuotaJson(layers[first].config)
             IN  [limit |-> json.limit, window |-> FromMs(json.window),
                  strategy |-> OrDefault(json.strategy, DefaultQuota.strategy)]

\* quota_limit, quota_window, quota_strategy
TuneQuota(field, value) == WithQuota([ExistingQuota EXCEPT ![field] = value])

\* layer(): not sorted
AddCustom(c) ==
    /\ Cardinality({i \in DOMAIN layers : layers[i].name \in Customs}) < MaxCustoms
    /\ Change(<<Layer(c, None)>> \o layers)

\* to_stack
Exported ==
    Append([i \in DOMAIN layers |-> [name |-> layers[i].name, json |-> Json(layers[i])]],
           [name |-> "RawConnector", json |-> None])

\* from_stack: layers that are not known are left out
Imported(stack) ==
    LET found == Selected(stack, {i \in DOMAIN stack : stack[i].name \in Known})
    IN  Ordered([i \in DOMAIN found |-> Layer(found[i].name, Parse(found[i]))])

Reload == Change(Imported(Exported))
Load(stack) == Change(Imported(stack))

-----------------------------------------------------------------------------

\* ValidationContext::has_middleware_outer and has_middleware_inner
HasOuter(i, name) == \E j \in 1..(i - 1) : layers[j].name = name
HasInner(i, name) == \E j \in (i + 1)..Len(layers) : layers[j].name = name

\* validate: only custom layers require anything
Valid ==
    \A i \in DOMAIN layers : layers[i].name \in Customs =>
        /\ \A name \in Outer[layers[i].name] : HasOuter(i, name)
        /\ \A name \in Inner[layers[i].name] : HasInner(i, name)

\* what a call sees of a layer: only the cache's configuration matters to it
Applied(l) == IF l.name = "cache" THEN l ELSE Layer(l.name, None)

\* build consumes the builder
Build ==
    /\ Building
    /\ connector' = IF Valid THEN [i \in DOMAIN layers |-> Applied(layers[i])] ELSE Refused
    /\ layers' = <<>>

BuilderNext ==
    \/ \E c \in Caches : WithCache(c)
    \/ \E d \in Durations : WithBlacklist(d)
    \/ \E q \in Quotas : WithQuota(q)
    \/ \E name \in Known : WithoutLayer(name)
    \/ \E n \in Limits : TuneQuota("limit", n)
    \/ \E w \in Durations : TuneQuota("window", w)
    \/ \E s \in Strategies : TuneQuota("strategy", s)
    \/ \E c \in Customs : AddCustom(c)
    \/ Reload
    \/ \E stack \in Stacks : Load(stack)
    \/ Build

-----------------------------------------------------------------------------
(* Properties *)

\* Whatever the order of the builder's calls, and with custom layers added in
\* between, each known layer is there at most once, the cache outside the
\* blacklist and the blacklist outside the quota; and a connector that is
\* built wraps its layers so that each custom layer has what it requires
\* where it requires it.
StackIsOrdered ==
    LET stack == IF connector \in {None, Refused} THEN layers ELSE connector
        place(name) == {i \in DOMAIN stack : stack[i].name = name}
    IN  /\ \A i, j \in DOMAIN stack : i < j /\ {stack[i].name, stack[j].name} \subseteq Known =>
              <<stack[i].name, stack[j].name>> \in
                  {<<"cache", "blacklist">>, <<"cache", "quota">>, <<"blacklist", "quota">>}
        /\ connector \notin {None, Refused} =>
              \A i \in DOMAIN stack : stack[i].name \in Customs =>
                  /\ \A name \in Outer[stack[i].name] : \E j \in place(name) : j < i
                  /\ \A name \in Inner[stack[i].name] : \E j \in place(name) : i < j

\* The refinement mapping: the configuration of the layer of each name.
SettingsOf(ls) ==
    [name \in Known |->
        LET at == {i \in DOMAIN ls : ls[i].name = name}
        IN  IF at = {} THEN None ELSE ls[CHOOSE i \in at : TRUE].config]

MappedSettings == IF connector # None THEN None ELSE SettingsOf(layers)

Settings == INSTANCE LayerSettings WITH settings <- MappedSettings

\* Windows and durations without a part of a millisecond.
WholeMilliseconds ==
    /\ \A d \in Durations : FromMs(Ms(d)) = d
    /\ \A q \in Quotas : FromMs(Ms(q.window)) = q.window

\* The list of layers implements a set of settings: no call loses, doubles or
\* changes what another has set, though setters, shortcuts, removals, custom
\* layers and trips through an exported stack follow each other in any order.
\* The code does so where WholeMilliseconds: it writes windows down and reads
\* them back in milliseconds, and so a shortcut and a trip lose what is below
\* one, all of a window that is shorter.
ImplementsSettings == Settings!Spec
=============================================================================
