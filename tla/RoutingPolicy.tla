---------------------------- MODULE RoutingPolicy ----------------------------
(***************************************************************************)
(* The routing policy of borsa-types/src/routing_policy.rs: provider rules *)
(* with selectors, their precedence, the rank a rule gives a connector,    *)
(* exchange preferences, and the normalization that `BorsaBuilder::build`  *)
(* applies.  Everything here is a pure operator; the modules that route    *)
(* requests and streams instantiate it.                                    *)
(*                                                                         *)
(* Connectors are numbered in the order of their registration.             *)
(***************************************************************************)
EXTENDS Naturals, Sequences, FiniteSets, Functions

CONSTANTS N,         \* number of registered connectors
          Unknown,   \* keys no registered connector answers to
          None       \* Option::None

ASSUME CountAssumption == N \in Nat /\ Unknown \cap (1..N) = {}

Connector == 1..N

\* A rule is [symbol, kind, exchange, list, strict]; a policy is
\* [rules: a sequence of rules, global: [list, strict] or None].
NoPolicy == [rules |-> <<>>, global |-> None]

-----------------------------------------------------------------------------
(* Building a policy *)

AddRule(policy, r) == [policy EXCEPT !.rules = Append(@, r)]

SetGlobal(policy, list, strict) ==
    [policy EXCEPT !.global = [list |-> list, strict |-> strict]]

\* normalize_and_collect_unknown: the keys a build is refused for
UnknownKeys(policy) ==
    LET entries == Range(policy.rules) \union ({policy.global} \ {None})
    IN  Unknown \cap (UNION {Range(e.list) : e \in entries})

-----------------------------------------------------------------------------
(* The rule that applies in a context [symbol, kind, exchange] *)

\* a selector field that is set must equal the context's
Matches(r, ctx) == \A f \in {"symbol", "kind", "exchange"} : r[f] \in {None, ctx[f]}

Bit(b) == IF b THEN 1 ELSE 0

\* (count, symbol bit, kind bit, exchange bit), compared lexicographically
Weight(r) ==
    LET s == Bit(r.symbol # None)
        k == Bit(r.kind # None)
        e == Bit(r.exchange # None)
    IN  8 * (s + k + e) + 4 * s + 2 * k + e

\* mutant: the first of two equally specific rules is kept
Replaces_FirstWins(rules, i, b, ctx) ==
    Matches(rules[i], ctx) /\ (b = 0 \/ Weight(rules[i]) > Weight(rules[b]))

\* one turn of best_rule's loop: rule i takes over from the best rule so far
Replaces(rules, i, b, ctx) ==
    Matches(rules[i], ctx) /\ (b = 0 \/ Weight(rules[i]) >= Weight(rules[b]))

\* the loop of best_rule; 0 when no rule matches
BestByLoop(rules, ctx) ==
    LET best[i \in 0..Len(rules)] ==
            IF i = 0 THEN 0
            ELSE IF Replaces(rules, i, best[i - 1], ctx) THEN i ELSE best[i - 1]
    IN  best[Len(rules)]

Matching(rules, ctx) == {i \in DOMAIN rules : Matches(rules[i], ctx)}

\* what the loop finds: the most specific matching rule, the last of several
BestRule(rules, ctx) ==
    CHOOSE i \in Matching(rules, ctx) :
        \A j \in Matching(rules, ctx) \ {i} :
            \/ Weight(rules[j]) < Weight(rules[i])
            \/ Weight(rules[j]) = Weight(rules[i]) /\ j < i

-----------------------------------------------------------------------------
(* The rank of a connector in a context *)

Unlisted == N          \* usize::MAX: after everything a list may name
Excluded == N + 1      \* None: a strict list does not name the connector

\* RankedList::new: places among the distinct keys, by first occurrence
RankIn(list, c) ==
    Cardinality({list[i] : i \in {k \in DOMAIN list :
                                     \A j \in DOMAIN list : list[j] = c => k < j}})

RankOf(entry, c) ==
    IF c \in Range(entry.list) THEN RankIn(entry.list, c)
    ELSE IF entry.strict THEN Excluded ELSE Unlisted

\* the rule's entry, else the global one, else one that lists nothing
EntryOf(policy, best) ==
    IF best # 0 THEN policy.rules[best]
    ELSE IF policy.global # None THEN policy.global
    ELSE [list |-> <<>>, strict |-> FALSE]

ProviderRank(policy, ctx, c) ==
    LET best == IF Matching(policy.rules, ctx) = {} THEN 0
                ELSE BestRule(policy.rules, ctx)
    IN  RankOf(EntryOf(policy, best), c)

\* provider_sort_key: rank first, then registration order
ComesFirst(policy, ctx, c, d) ==
    LET rc == ProviderRank(policy, ctx, c)
        rd == ProviderRank(policy, ctx, d)
    IN  rc < rd \/ (rc = rd /\ c < d)

\* ordered_for_context: those that are not excluded
Candidates(policy, ctx) == {c \in Connector : ProviderRank(policy, ctx, c) # Excluded}
=============================================================================
