--------------------------- MODULE StreamPlan_proof ---------------------------
(***************************************************************************)
(* Proofs about RoutingPolicy and StreamPlan for every number of           *)
(* connectors, every policy and every request: the ranks are well defined, *)
(* each supervisor's primary covers what it is spawned for, and an open    *)
(* stream covers the request.                                              *)
(***************************************************************************)
EXTENDS StreamPlan, Basics_proof

-----------------------------------------------------------------------------
(* Least values *)

\* A function to the naturals takes a least value on a set that is not empty.
LEMMA LeastValue ==
    ASSUME NEW T, T # {}, NEW f \in [T -> Nat]
    PROVE  \E t \in T : \A u \in T : f[t] <= f[u]
    <1> DEFINE S == {f[t] : t \in T}
    <1>1. S \in SUBSET Nat /\ S # {}
        OBVIOUS
    <1>2. PICK m \in S : \A n \in S : m <= n
        BY <1>1, LeastNatural
    <1> QED BY <1>2

\* Two values and a number: the least element in lexicographic order.
LEMMA LeastLexicographic ==
    ASSUME NEW T \in SUBSET Nat, T # {}, NEW f \in [T -> Nat], NEW g \in [T -> Nat]
    PROVE  \E t \in T : \A u \in T \ {t} :
              \/ f[t] < f[u]
              \/ f[t] = f[u] /\ (g[t] < g[u] \/ (g[t] = g[u] /\ t < u))
    <1>1. PICK a \in T : \A u \in T : f[a] <= f[u]
        BY LeastValue
    <1> DEFINE A == {u \in T : f[u] = f[a]}
               ga == [u \in A |-> g[u]]
    <1>2. A # {} /\ ga \in [A -> Nat]
        OBVIOUS
    <1>3. PICK b \in A : \A u \in A : ga[b] <= ga[u]
        BY <1>2, LeastValue
    <1> DEFINE B == {u \in A : g[u] = g[b]}
    <1>4. B # {} /\ B \in SUBSET Nat
        OBVIOUS
    <1>5. PICK c \in B : \A u \in B : c <= u
        BY <1>4, LeastNatural
    <1>6. ASSUME NEW u \in T \ {c}
          PROVE  \/ f[c] < f[u]
                 \/ f[c] = f[u] /\ (g[c] < g[u] \/ (g[c] = g[u] /\ c < u))
        <2>1. f[c] = f[a] /\ g[c] = g[b] /\ f[a] <= f[u] /\ f[a] \in Nat /\ f[u] \in Nat
            BY <1>1
        <2>2. CASE f[u] # f[a]
            BY <2>1, <2>2
        <2>3. CASE f[u] = f[a] /\ g[u] # g[b]
            <3>1. g[b] <= g[u] /\ g[b] \in Nat /\ g[u] \in Nat
                BY <1>3, <2>3
            <3> QED BY <2>1, <2>3, <3>1
        <2>4. CASE f[u] = f[a] /\ g[u] = g[b]
            <3>1. c <= u /\ c \in Nat /\ u \in Nat
                BY <1>5, <2>4
            <3> QED BY <2>1, <2>4, <3>1
        <2> QED BY <2>2, <2>3, <2>4
    <1> QED BY <1>6

-----------------------------------------------------------------------------
(* Ranks *)

Key == Connector \union Unknown
RuleType == [symbol : Symbol \union {None}, kind : Kind \union {None},
             exchange : Exchange \union {None}, list : Seq(Key), strict : BOOLEAN]
PolicyType ==
    [rules : Seq(RuleType), global : {None} \union [list : Seq(Key), strict : BOOLEAN]]

LEMMA WeightBound ==
    ASSUME NEW r
    PROVE  Weight(r) \in Nat /\ Weight(r) <= 31
    BY DEF Weight, Bit

\* Among the rules that match there is a most specific and latest one.
LEMMA BestRuleMatches ==
    ASSUME NEW rules \in Seq(RuleType), NEW ctx, Matching(rules, ctx) # {}
    PROVE  /\ BestRule(rules, ctx) \in Matching(rules, ctx)
           /\ \A j \in Matching(rules, ctx) \ {BestRule(rules, ctx)} :
                 \/ Weight(rules[j]) < Weight(rules[BestRule(rules, ctx)])
                 \/ /\ Weight(rules[j]) = Weight(rules[BestRule(rules, ctx)])
                    /\ j < BestRule(rules, ctx)
    <1> DEFINE M == Matching(rules, ctx)
               w == [i \in M |-> Weight(rules[i])]
               f == [i \in M |-> 31 - w[i]]
               h == [i \in M |-> Len(rules) - i]
    <1>1. M \in SUBSET Nat /\ \A i \in M : i \in 1..Len(rules)
        BY DEF Matching
    <1>2. \A i \in M : w[i] \in Nat /\ w[i] <= 31
        BY WeightBound
    <1> HIDE DEF M, w
    <1>3. f \in [M -> Nat] /\ h \in [M -> Nat] /\ M # {}
        <2>1. \A i \in M : 31 - w[i] \in Nat
            BY <1>2
        <2>2. \A i \in M : Len(rules) - i \in Nat
            BY <1>1
        <2>3. M # {}
            BY DEF M
        <2> QED BY <2>1, <2>2, <2>3
    <1> HIDE DEF f, h
    <1>4. PICK i \in M : \A j \in M \ {i} :
              f[i] < f[j] \/ (f[i] = f[j] /\ (h[i] < h[j] \/ (h[i] = h[j] /\ i < j)))
        BY <1>1, <1>3, LeastLexicographic
    <1>5. ASSUME NEW j \in M \ {i}
          PROVE  w[j] < w[i] \/ (w[j] = w[i] /\ j < i)
        <2>1. /\ f[i] = 31 - w[i] /\ f[j] = 31 - w[j]
              /\ w[i] \in Nat /\ w[j] \in Nat
            BY <1>2 DEF f
        <2>2. h[i] = Len(rules) - i /\ h[j] = Len(rules) - j /\ i \in Nat /\ j \in Nat /\ i # j
            BY <1>1 DEF h
        <2>3. f[i] < f[j] \/ (f[i] = f[j] /\ (h[i] < h[j] \/ (h[i] = h[j] /\ i < j)))
            BY <1>4
        <2>4. Len(rules) \in Nat
            OBVIOUS
        <2>5. CASE f[i] < f[j]
            BY <2>1, <2>5
        <2>6. CASE f[i] = f[j] /\ (h[i] < h[j] \/ (h[i] = h[j] /\ i < j))
            <3>1. w[i] = w[j]
                BY <2>1, <2>6
            <3>2. j < i
                BY <2>2, <2>4, <2>6
            <3> QED BY <3>1, <3>2
        <2> QED BY <2>3, <2>5, <2>6
    <1>6. \E k \in M : \A j \in M \ {k} :
              \/ Weight(rules[j]) < Weight(rules[k])
              \/ Weight(rules[j]) = Weight(rules[k]) /\ j < k
        BY <1>4, <1>5 DEF w
    <1> QED BY <1>6 DEF BestRule, M

\* What the loop of best_rule has found after its first i turns.
IsBest(rules, ctx, i, b) ==
    LET seen == {j \in Matching(rules, ctx) : j <= i}
    IN  IF seen = {} THEN b = 0
        ELSE /\ b \in seen
             /\ \A j \in seen \ {b} :
                   \/ Weight(rules[j]) < Weight(rules[b])
                   \/ Weight(rules[j]) = Weight(rules[b]) /\ j < b

\* A turn keeps to that: a later rule takes over unless it is less specific.
LEMMA BestTurn ==
    ASSUME NEW rules \in Seq(RuleType), NEW ctx, NEW i \in 1..Len(rules), NEW b,
           IsBest(rules, ctx, i - 1, b)
    PROVE  IsBest(rules, ctx, i, IF Replaces(rules, i, b, ctx) THEN i ELSE b)
    <1> DEFINE M == Matching(rules, ctx)
               before == {j \in M : j <= i - 1}
               seen == {j \in M : j <= i}
               w == [j \in 1..Len(rules) |-> Weight(rules[j])]
    <1>1. M \subseteq 1..Len(rules) /\ i \in Nat /\ (i \in M <=> Matches(rules[i], ctx))
        BY DEF Matching
    <1>2. \A j \in 1..Len(rules) : w[j] = Weight(rules[j]) /\ w[j] \in Nat
        BY WeightBound
    <1>3. seen = before \union (IF i \in M THEN {i} ELSE {})
        BY <1>1
    <1>4. \A j \in before : j \in 1..Len(rules) /\ j < i
        BY <1>1
    <1>5. CASE before = {}
        <2>1. b = 0
            BY <1>5 DEF IsBest
        <2>2. Replaces(rules, i, b, ctx) <=> i \in M
            BY <1>1, <2>1 DEF Replaces
        <2>3. seen = IF i \in M THEN {i} ELSE {}
            BY <1>3, <1>5
        <2> DEFINE n == IF Replaces(rules, i, b, ctx) THEN i ELSE b
        <2>4. IF seen = {} THEN n = 0 ELSE n \in seen /\ seen \ {n} = {}
            <3> HIDE DEF M, seen
            <3> QED BY <2>1, <2>2, <2>3
        <2> HIDE DEF n
        <2> QED BY <2>4 DEF IsBest, n
    <1>6. CASE before # {}
        <2>1. /\ b \in before
              /\ \A j \in before \ {b} : w[j] < w[b] \/ (w[j] = w[b] /\ j < b)
            <3>1. /\ b \in before
                  /\ \A j \in before \ {b} : \/ Weight(rules[j]) < Weight(rules[b])
                                             \/ Weight(rules[j]) = Weight(rules[b]) /\ j < b
                BY <1>6 DEF IsBest
            <3> HIDE DEF before, w
            <3> QED BY <1>2, <1>4, <3>1
        <2>2. Replaces(rules, i, b, ctx) <=> i \in M /\ w[i] >= w[b]
            <3>1. b # 0 /\ b \in 1..Len(rules)
                BY <1>4, <2>1
            <3> HIDE DEF M, w, before
            <3> QED BY <1>1, <1>2, <3>1 DEF Replaces
        <2> DEFINE n == IF Replaces(rules, i, b, ctx) THEN i ELSE b
        <2>3. n \in seen
            BY <1>3, <2>1, <2>2
        <2>4. ASSUME NEW j \in seen \ {n}
              PROVE  w[j] < w[n] \/ (w[j] = w[n] /\ j < n)
            <3> HIDE DEF M, w, before, seen
            <3>1. w[b] \in Nat /\ w[i] \in Nat /\ b < i /\ b \in Nat /\ (j \in before => j < i)
                BY <1>2, <1>4, <2>1
            <3>2. j \in 1..Len(rules) /\ w[j] \in Nat
                BY <1>2, <1>3, <1>4
            <3>3. CASE i \in M /\ w[i] >= w[b]
                BY <1>3, <2>1, <2>2, <3>1, <3>2, <3>3
            <3>4. CASE ~ (i \in M /\ w[i] >= w[b])
                BY <1>3, <2>1, <2>2, <3>1, <3>2, <3>4
            <3> QED BY <3>3, <3>4
        <2>5. \A j \in seen \ {n} : \/ Weight(rules[j]) < Weight(rules[n])
                                    \/ Weight(rules[j]) = Weight(rules[n]) /\ j < n
            <3>1. seen \subseteq 1..Len(rules)
                BY <1>1
            <3> HIDE DEF M, w, before, seen, n
            <3> QED BY <1>2, <2>3, <2>4, <3>1
        <2> HIDE DEF M, n
        <2>6. seen # {}
            BY <2>3
        <2> QED BY <2>3, <2>5, <2>6 DEF IsBest, n, M
    <1> QED BY <1>5, <1>6

\* The loop finds the most specific matching rule, the last of several; so
\* what a rule is worth does not depend on how it is looked for.
LEMMA LoopIsBest ==
    ASSUME NEW rules \in Seq(RuleType), NEW ctx
    PROVE  BestByLoop(rules, ctx) = IF Matching(rules, ctx) = {} THEN 0
                                    ELSE BestRule(rules, ctx)
    <1> DEFINE n == Len(rules)
               Turn(i, b) == IF Replaces(rules, i, b, ctx) THEN i ELSE b
               Result(f) == f = [i \in 0..n |-> IF i = 0 THEN 0 ELSE Turn(i, f[i - 1])]
    <1>1. \E f : Result(f)
        <2> DEFINE step == [i \in 1..n |-> [b \in 0..n |-> Turn(i, b)]]
        <2>1. n \in Nat /\ 0 \in 0..n
            OBVIOUS
        <2>2. step \in [1..n -> [0..n -> 0..n]]
            OBVIOUS
        <2>3. \A i \in 1..n, b \in 0..n : step[i][b] = Turn(i, b)
            OBVIOUS
        <2> HIDE DEF step, Turn, n
        <2>4. PICK f : IsLoop(f, n, 0..n, 0, step)
            BY <2>1, <2>2, LoopFunction
        <2> HIDE DEF n
        <2>5. \A i \in 1..n : i \in 0..n /\ i # 0 /\ f[i - 1] \in 0..n
            <3>1. n \in Nat /\ \A i \in 1..n : i \in 0..n /\ i # 0 /\ i - 1 \in 0..n
                BY DEF n
            <3> QED BY <2>4, <3>1 DEF IsLoop
        <2>6. \A i \in 0..n : f[i] = IF i = 0 THEN 0 ELSE Turn(i, f[i - 1])
            <3>1. \A i \in 0..n : i = 0 \/ i \in 1..n
                BY DEF n
            <3> QED BY <2>3, <2>4, <2>5, <3>1 DEF IsLoop
        <2>7. Result(f)
            <3>1. DOMAIN f = 0..n
                BY <2>4 DEF IsLoop
            <3>2. f = [i \in 0..n |-> f[i]]
                BY <2>4 DEF IsLoop
            <3> QED BY <2>6, <3>2
        <2> QED BY <2>7
    <1> DEFINE best == CHOOSE f : Result(f)
    <1>2. BestByLoop(rules, ctx) = best[n]
        BY DEF BestByLoop
    <1>3. Result(best)
        BY <1>1
    <1> HIDE DEF best
    <1>4. best[0] = 0 /\ \A i \in 1..n : best[i] = Turn(i, best[i - 1])
        BY <1>3
    <1> DEFINE T == {i \in 0..n : IsBest(rules, ctx, i, best[i])}
    <1>5. 0 \in T
        BY <1>4 DEF IsBest, Matching
    <1>6. ASSUME NEW i \in 1..n, i - 1 \in T PROVE i \in T
        BY <1>4, <1>6, BestTurn
    <1>7. IsBest(rules, ctx, n, best[n])
        <2>1. n \in Nat
            OBVIOUS
        <2> HIDE DEF T
        <2>2. 0..n \subseteq T
            BY <1>5, <1>6, <2>1, IntervalInduction
        <2> QED BY <2>1, <2>2 DEF T
    <1>8. {j \in Matching(rules, ctx) : j <= n} = Matching(rules, ctx)
        BY DEF Matching
    <1>9. CASE Matching(rules, ctx) = {}
        BY <1>2, <1>7, <1>8, <1>9 DEF IsBest
    <1>10. CASE Matching(rules, ctx) # {}
        <2> DEFINE a == best[n]
                   b == BestRule(rules, ctx)
                   M == Matching(rules, ctx)
        <2>1. /\ a \in M
              /\ \A j \in M \ {a} : \/ Weight(rules[j]) < Weight(rules[a])
                                    \/ Weight(rules[j]) = Weight(rules[a]) /\ j < a
            BY <1>7, <1>8, <1>10 DEF IsBest
        <2>2. /\ b \in M
              /\ \A j \in M \ {b} : \/ Weight(rules[j]) < Weight(rules[b])
                                    \/ Weight(rules[j]) = Weight(rules[b]) /\ j < b
            BY <1>10, BestRuleMatches
        <2>3. a \in Nat /\ b \in Nat /\ Weight(rules[a]) \in Nat /\ Weight(rules[b]) \in Nat
            BY <2>1, <2>2, WeightBound DEF Matching
        <2> HIDE DEF a, b, M
        <2>4. a = b
            BY <2>1, <2>2, <2>3
        <2> QED BY <1>2, <1>10, <2>4 DEF a, b
    <1> QED BY <1>9, <1>10

\* A rank is a natural number, whatever the policy.
LEMMA RankInNat ==
    ASSUME NEW list \in Seq(Key), NEW c
    PROVE  RankIn(list, c) \in Nat
    <1> DEFINE D == {k \in DOMAIN list : \A j \in DOMAIN list : list[j] = c => k < j}
    <1>1. IsFiniteSet(D)
        <2>1. IsFiniteSet(1..Len(list))
            BY FS_Interval
        <2>2. D \subseteq 1..Len(list)
            OBVIOUS
        <2> QED BY <2>1, <2>2, FS_Subset
    <1> DEFINE E == {list[i] : i \in D}
    <1>2. IsFiniteSet(E)
        <2> DEFINE g == [i \in D |-> list[i]]
        <2>1. g \in Surjection(D, E)
            BY DEF Surjection
        <2> QED BY <1>1, <2>1, FS_Surjection
    <1>3. Cardinality(E) \in Nat
        BY <1>2, FS_CardinalityType
    <1> QED BY <1>3 DEF RankIn

\* In a list of registered connectors a place is below the number of them.
LEMMA RankInBelow ==
    ASSUME NEW list \in Seq(Key), Range(list) \cap Unknown = {}, NEW c \in Range(list)
    PROVE  RankIn(list, c) < N
    <1> DEFINE D == {k \in DOMAIN list : \A j \in DOMAIN list : list[j] = c => k < j}
               E == {list[i] : i \in D}
    <1>1. IsFiniteSet(Connector) /\ Cardinality(Connector) = N /\ N \in Nat
        BY FS_Interval, CountAssumption DEF Connector
    <1>2. c \in Connector /\ E \subseteq Connector
        BY DEF Key, Range
    <1>3. c \notin E
        <2> SUFFICES ASSUME c \in E PROVE FALSE
            OBVIOUS
        <2>1. PICK i \in D : list[i] = c
            OBVIOUS
        <2>2. i < i /\ i \in Nat
            BY <2>1
        <2> QED BY <2>2
    <1>4. IsFiniteSet(E) /\ Cardinality(E) \in Nat /\ Cardinality(E) # N
              /\ Cardinality(E) <= N
        <2>1. IsFiniteSet(E) /\ Cardinality(E) <= Cardinality(Connector)
              /\ (Cardinality(E) = Cardinality(Connector) => E = Connector)
            BY <1>1, <1>2, FS_Subset
        <2> QED BY <2>1, <1>1, <1>2, <1>3, FS_CardinalityType
    <1> QED BY <1>1, <1>4 DEF RankIn

EntryOK(e) == e.list \in Seq(Key) /\ Range(e.list) \cap Unknown = {}

\* Listed, unlisted and excluded are told apart by the rank.
LEMMA RankOfCases ==
    ASSUME NEW e, EntryOK(e), NEW c
    PROVE  /\ RankOf(e, c) \in Nat /\ RankOf(e, c) <= Excluded
           /\ RankOf(e, c) < Unlisted <=> c \in Range(e.list)
           /\ RankOf(e, c) = Excluded <=> c \notin Range(e.list) /\ e.strict
    <1>1. CASE c \in Range(e.list)
        <2>1. RankIn(e.list, c) \in Nat /\ RankIn(e.list, c) < N
            BY <1>1, RankInNat, RankInBelow DEF EntryOK
        <2> QED BY <1>1, <2>1, CountAssumption DEF RankOf, Unlisted, Excluded
    <1>2. CASE c \notin Range(e.list)
        BY <1>2, CountAssumption DEF RankOf, Unlisted, Excluded
    <1> QED BY <1>1, <1>2

\* the entry that applies in a context
Entry(p, ctx) ==
    EntryOf(p, IF Matching(p.rules, ctx) = {} THEN 0 ELSE BestRule(p.rules, ctx))

LEMMA EntryIsOK ==
    ASSUME NEW p \in PolicyType, UnknownKeys(p) = {}, NEW ctx
    PROVE  /\ EntryOK(Entry(p, ctx))
           /\ \A c : ProviderRank(p, ctx, c) = RankOf(Entry(p, ctx), c)
    <1>1. p.rules \in Seq(RuleType)
        BY DEF PolicyType
    <1>5. \A c : ProviderRank(p, ctx, c) = RankOf(Entry(p, ctx), c)
        BY DEF ProviderRank, Entry
    <1> DEFINE entries == Range(p.rules) \union ({p.global} \ {None})
    <1>6. ASSUME NEW e \in entries
          PROVE  Range(e.list) \cap Unknown = {}
        <2>1. Unknown \cap (UNION {Range(x.list) : x \in entries}) = {}
            BY DEF UnknownKeys
        <2> DEFINE X == {Range(x.list) : x \in entries}
        <2>2. Range(e.list) \in X
            OBVIOUS
        <2>3. Unknown \cap (UNION X) = {}
            BY <2>1
        <2> HIDE DEF X
        <2>4. \A x \in Range(e.list) : x \in UNION X
            BY <2>2
        <2>5. \A x \in Range(e.list) : x \notin Unknown
            BY <2>3, <2>4
        <2> QED BY <2>5
    <1>2. CASE Matching(p.rules, ctx) = {} /\ p.global = None
        <2>1. Entry(p, ctx) = [list |-> <<>>, strict |-> FALSE]
            BY <1>2 DEF Entry, EntryOf
        <2>2. Range(<< >>) = {} /\ << >> \in Seq(Key)
            BY DEF Range
        <2> HIDE DEF entries
        <2> QED BY <1>5, <2>1, <2>2 DEF EntryOK
    <1>3. CASE Matching(p.rules, ctx) = {} /\ p.global # None
        <2>1. Entry(p, ctx) = p.global
            BY <1>3 DEF Entry, EntryOf
        <2>2. p.global.list \in Seq(Key)
            BY <1>3 DEF PolicyType
        <2>3. Range(p.global.list) \cap Unknown = {}
            BY <1>3, <1>6
        <2> QED BY <1>5, <2>1, <2>2, <2>3 DEF EntryOK
    <1>4. CASE Matching(p.rules, ctx) # {}
        <2> DEFINE b == BestRule(p.rules, ctx)
        <2>1. b \in 1..Len(p.rules)
            BY <1>1, <1>4, BestRuleMatches DEF Matching
        <2>2. p.rules[b] \in RuleType /\ b # 0 /\ p.rules[b] \in Range(p.rules)
            BY <1>1, <2>1 DEF Range
        <2>3. Entry(p, ctx) = p.rules[b]
            BY <1>4, <2>2 DEF Entry, EntryOf
        <2>4. Range(p.rules[b].list) \cap Unknown = {}
            BY <2>2, <1>6
        <2> QED BY <1>5, <2>2, <2>3, <2>4 DEF EntryOK, RuleType
    <1> QED BY <1>2, <1>3, <1>4

-----------------------------------------------------------------------------
(* Planning one group *)

ViewOK(v) ==
    /\ v.group \in Group
    /\ None \notin v.symbols /\ v.symbols = v.asked \ {None}
    /\ v.rank \in [v.asked -> [capable -> Nat]]
    /\ \A s \in v.asked, c, d \in capable :
          /\ v.rank[s][c] <= Excluded
          /\ v.rank[s][c] = Unlisted => v.rank[s][d] # Excluded

LEMMA ViewIsOK ==
    ASSUME policy \in PolicyType, UnknownKeys(policy) = {}, NEW req, NEW g \in Group
    PROVE  ViewOK(View(req, g))
    <1> DEFINE v == View(req, g)
               ctx(s) == [symbol |-> s, kind |-> g.kind, exchange |-> g.exchange]
    <1>1. /\ v.group = g /\ v.symbols = v.asked \ {None}
          /\ v.rank = [s \in v.asked |-> [c \in capable |-> ProviderRank(policy, ctx(s), c)]]
        BY DEF View
    <1>2. ASSUME NEW s, NEW c, NEW d
          PROVE  /\ ProviderRank(policy, ctx(s), c) \in Nat
                 /\ ProviderRank(policy, ctx(s), c) <= Excluded
                 /\ ProviderRank(policy, ctx(s), c) = Unlisted
                        => ProviderRank(policy, ctx(s), d) # Excluded
        <2> DEFINE e == Entry(policy, ctx(s))
        <2>1. /\ EntryOK(e)
              /\ ProviderRank(policy, ctx(s), c) = RankOf(e, c)
              /\ ProviderRank(policy, ctx(s), d) = RankOf(e, d)
            BY EntryIsOK
        <2>2. /\ RankOf(e, c) \in Nat /\ RankOf(e, c) <= Excluded
              /\ RankOf(e, c) < Unlisted <=> c \in Range(e.list)
              /\ RankOf(e, c) = Excluded <=> c \notin Range(e.list) /\ e.strict
              /\ RankOf(e, d) = Excluded <=> d \notin Range(e.list) /\ e.strict
            BY <2>1, RankOfCases
        <2> HIDE DEF e
        <2>3. Unlisted \in Nat /\ Excluded = Unlisted + 1
            BY CountAssumption DEF Unlisted, Excluded
        <2> QED BY <2>1, <2>2, <2>3
    <1> HIDE DEF v, ctx
    <1> QED BY <1>1, <1>2 DEF ViewOK, v

LEMMA MinNat ==
    ASSUME NEW S \in SUBSET Nat, S # {}
    PROVE  Min(S) \in Nat
    BY LeastNatural DEF Min

LEMMA BestRankNat ==
    ASSUME NEW v, ViewOK(v), NEW c \in capable
    PROVE  BestRank(v, c) \in Nat
    <1>1. {v.rank[s][c] : s \in v.asked} \union {Unlisted} \in SUBSET Nat
        BY CountAssumption DEF ViewOK, Unlisted
    <1> QED BY <1>1, MinNat DEF BestRank

\* The providers of a group have a first one ...
LEMMA FirstExists ==
    ASSUME capable \subseteq Connector, NEW v, ViewOK(v), Scored(v) # {}
    PROVE  First(v) \in Scored(v)
    <1> DEFINE T == Scored(v)
               f == [c \in T |-> BestRank(v, c)]
    <1>1. T \in SUBSET Nat /\ T \subseteq capable
        <2>1. Connector \subseteq Nat
            BY CountAssumption DEF Connector
        <2> QED BY <2>1 DEF Scored
    <1>2. f \in [T -> Nat]
        BY <1>1, BestRankNat
    <1> HIDE DEF f
    <1>3. PICK t \in T : \A u \in T \ {t} :
              f[t] < f[u] \/ (f[t] = f[u] /\ (f[t] < f[u] \/ (f[t] = f[u] /\ t < u)))
        BY <1>1, <1>2, LeastLexicographic
    <1>4. \A u \in T \ {t} : Before(v, t, u)
        BY <1>3 DEF Before, f
    <1> QED BY <1>4 DEF First

\* ... and each symbol that somebody may stream has a primary.
LEMMA PrimaryExists ==
    ASSUME capable \subseteq Connector, NEW v, ViewOK(v), NEW s \in Union(v)
    PROVE  /\ Primary(v, s) \in Scored(v) /\ s \in Allowed(v, Primary(v, s))
           /\ \A d \in Scored(v) : s \in Allowed(v, d) =>
                 v.rank[s][Primary(v, s)] <= v.rank[s][d]
    <1> DEFINE T == {c \in Scored(v) : s \in Allowed(v, c)}
               f == [c \in T |-> v.rank[s][c]]
               g == [c \in T |-> BestRank(v, c)]
    <1>1. T \in SUBSET Nat /\ T \subseteq capable /\ T # {} /\ s \in v.asked
        <2>1. Connector \subseteq Nat
            BY CountAssumption DEF Connector
        <2>2. \E c \in Scored(v) : s \in Allowed(v, c)
            BY DEF Union
        <2>3. Scored(v) \subseteq capable
            BY DEF Scored
        <2>4. s \in v.asked
            BY <2>2 DEF Allowed, ViewOK
        <2> QED BY <2>1, <2>2, <2>3, <2>4
    <1>2. f \in [T -> Nat] /\ g \in [T -> Nat]
        BY <1>1, BestRankNat DEF ViewOK
    <1> HIDE DEF f, g
    <1>3. PICK t \in T : \A u \in T \ {t} :
              f[t] < f[u] \/ (f[t] = f[u] /\ (g[t] < g[u] \/ (g[t] = g[u] /\ t < u)))
        BY ZenonT(40), <1>1, <1>2, LeastLexicographic
    <1>4. \A u \in Scored(v) \ {t} : s \in Allowed(v, u) =>
              \/ v.rank[s][t] < v.rank[s][u]
              \/ v.rank[s][t] = v.rank[s][u] /\ Before(v, t, u)
        BY <1>3 DEF Before, f, g
    <1>5. \E c \in Scored(v) :
              /\ s \in Allowed(v, c)
              /\ \A d \in Scored(v) \ {c} :
                    s \in Allowed(v, d) => \/ v.rank[s][c] < v.rank[s][d]
                                           \/ v.rank[s][c] = v.rank[s][d] /\ Before(v, c, d)
        BY <1>4
    <1> DEFINE p == Primary(v, s)
    <1>6. /\ p \in Scored(v) /\ s \in Allowed(v, p)
          /\ \A d \in Scored(v) \ {p} :
                s \in Allowed(v, d) => \/ v.rank[s][p] < v.rank[s][d]
                                       \/ v.rank[s][p] = v.rank[s][d] /\ Before(v, p, d)
        BY <1>5 DEF Primary
    <1>7. \A d \in Scored(v) : v.rank[s][d] \in Nat
        <2>1. Scored(v) \subseteq capable
            BY DEF Scored
        <2> QED BY <1>1, <2>1 DEF ViewOK
    <1> HIDE DEF p
    <1>8. \A d \in Scored(v) : s \in Allowed(v, d) => v.rank[s][p] <= v.rank[s][d]
        BY <1>6, <1>7
    <1> QED BY <1>6, <1>8 DEF p

\* Without explicit preferences, whatever one connector may stream all may.
LEMMA NoPreference ==
    ASSUME capable \subseteq Connector, NEW v, ViewOK(v), ~ Explicit(v),
           NEW c \in Scored(v)
    PROVE  Allowed(v, c) = Union(v)
    <1>1. \A s \in Union(v) : s \in Allowed(v, c)
        <2> TAKE s \in Union(v)
        <2>1. PICK d \in Scored(v) : s \in Allowed(v, d)
            BY DEF Union
        <2>2. s \in v.symbols /\ s \in v.asked /\ d \in capable /\ c \in capable
            BY <2>1 DEF Allowed, ViewOK, Scored
        <2>3. /\ v.rank[s][d] \in Nat /\ v.rank[s][d] <= Excluded
              /\ v.rank[s][d] # Excluded /\ ~ (v.rank[s][d] < Unlisted)
            BY <2>1, <2>2 DEF ViewOK, Allowed, Explicit
        <2>4. Unlisted \in Nat /\ Excluded = Unlisted + 1
            BY CountAssumption DEF Unlisted, Excluded
        <2>5. v.rank[s][d] = Unlisted
            BY <2>3, <2>4
        <2>6. v.rank[s][c] # Excluded
            BY <2>2, <2>5 DEF ViewOK
        <2> QED BY <2>2, <2>6 DEF Allowed
    <1>2. Allowed(v, c) \subseteq Union(v)
        BY DEF Union
    <1> QED BY <1>1, <1>2

\* What a spawned supervisor is: its group's, not empty, all for its primary.
LEMMA PrimaryCovers ==
    ASSUME capable \subseteq Connector, NEW v, ViewOK(v), Scored(v) # {},
           NEW s \in Supervisors(v)
    PROVE  /\ s.group = v.group /\ s.required # {}
           /\ s.allow[s.primary] = s.required
    <1>1. CASE Explicit(v)
        <2> DEFINE pr == [x \in Union(v) |-> Primary(v, x)]
                   R(p) == {x \in Union(v) : pr[x] = p}
        <2>1. PICK p \in Range(pr) : s = Supervisor(v, p, R(p))
            BY <1>1 DEF Supervisors
        <2>2. R(p) # {} /\ p \in Scored(v)
            BY <2>1, PrimaryExists DEF Range
        <2>3. R(p) \subseteq Allowed(v, p)
            BY PrimaryExists
        <2>4. /\ s.group = v.group /\ s.required = R(p) /\ s.primary = p
              /\ s.allow[p] = Allowed(v, p) \cap R(p)
            BY <2>1, <2>2 DEF Supervisor
        <2> HIDE DEF R, pr
        <2> QED BY <2>2, <2>3, <2>4
    <1>2. CASE ~ Explicit(v)
        <2>1. s = Supervisor(v, First(v), Union(v))
            BY <1>2 DEF Supervisors
        <2>2. First(v) \in Scored(v)
            BY FirstExists
        <2>3. Allowed(v, First(v)) = Union(v) /\ Allowed(v, First(v)) # {}
            BY <1>2, <2>2, NoPreference DEF Scored
        <2>4. /\ s.group = v.group /\ s.required = Union(v) /\ s.primary = First(v)
              /\ s.allow[First(v)] = Allowed(v, First(v)) \cap Union(v)
            BY <2>1, <2>2 DEF Supervisor
        <2> QED BY <2>3, <2>4
    <1> QED BY <1>1, <1>2

\* A group that is planned without an error loses none of its symbols.
LEMMA PlanCovers ==
    ASSUME capable \subseteq Connector, NEW v, ViewOK(v), PlanError(v) = "none"
    PROVE  /\ Scored(v) # {}
           /\ None \notin v.asked
           /\ \A x \in v.asked : \E s \in Supervisors(v) : x \in s.required
           /\ \A s, t \in Supervisors(v) : s # t => s.required \cap t.required = {}
    <1>1. Scored(v) # {} /\ None \notin v.asked
        BY DEF PlanError
    <1>2. v.asked \subseteq Union(v)
        <2> SUFFICES ASSUME NEW x \in v.asked, x \notin Union(v)
                     PROVE  FALSE
            OBVIOUS
        <2>1. x \in v.symbols
            BY <1>1 DEF ViewOK
        <2>2. ASSUME NEW c \in capable, v.rank[x][c] # Excluded
              PROVE  FALSE
            <3>1. x \in Allowed(v, c) /\ c \in Scored(v)
                BY <2>1, <2>2 DEF Allowed, Scored
            <3> QED BY <3>1 DEF Union
        <2>3. x \in Forbidden(v)
            BY <2>1, <2>2 DEF Forbidden
        <2>4. (v.symbols \ Union(v)) \cap Forbidden(v) # {}
            BY <2>1, <2>3
        <2> QED BY <1>1, <2>4 DEF PlanError
    <1>3. CASE Explicit(v)
        <2> DEFINE pr == [x \in Union(v) |-> Primary(v, x)]
                   R(p) == {x \in Union(v) : pr[x] = p}
                   S(p) == Supervisor(v, p, R(p))
        <2>1. Supervisors(v) = {S(p) : p \in Range(pr)}
            BY <1>3 DEF Supervisors
        <2>2. \A p : S(p).required = R(p)
            BY DEF Supervisor
        <2>3. \A p, q : p # q => R(p) \cap R(q) = {}
            OBVIOUS
        <2>4. \A x \in Union(v) : pr[x] \in Range(pr) /\ x \in R(pr[x])
            BY DEF Range
        <2> HIDE DEF R, S, pr
        <2> QED BY <1>1, <1>2, <2>1, <2>2, <2>3, <2>4
    <1>4. CASE ~ Explicit(v)
        <2>1. Supervisors(v) = {Supervisor(v, First(v), Union(v))}
            BY <1>4 DEF Supervisors
        <2>2. Supervisor(v, First(v), Union(v)).required = Union(v)
            BY DEF Supervisor
        <2> QED BY <1>1, <1>2, <2>1, <2>2
    <1> QED BY <1>3, <1>4

\* A spawned supervisor starts with a connector that the policy ranks best for
\* every symbol of it, and its chain streams what is not excluded.
LEMMA SupervisorsObey ==
    ASSUME capable \subseteq Connector, NEW v, ViewOK(v), Scored(v) # {},
           NEW s \in Supervisors(v), NEW x \in s.required
    PROVE  /\ x \in v.asked /\ s.primary \in capable
           /\ \A c \in capable : v.rank[x][s.primary] <= v.rank[x][c]
           /\ DOMAIN s.allow \subseteq capable
           /\ \A c \in DOMAIN s.allow : x \in s.allow[c] <=> v.rank[x][c] # Excluded
    <1> DEFINE Good(p) == /\ p \in Scored(v) /\ x \in Allowed(v, p)
                          /\ \A d \in Scored(v) : x \in Allowed(v, d) =>
                                v.rank[x][p] <= v.rank[x][d]
    <1>1. /\ x \in Union(v) /\ Good(s.primary)
          /\ s.allow = [c \in Scored(v) |-> Allowed(v, c) \cap s.required]
        <2>1. CASE Explicit(v)
            <3> DEFINE pr == [y \in Union(v) |-> Primary(v, y)]
                       R(p) == {y \in Union(v) : pr[y] = p}
            <3>1. PICK p \in Range(pr) : s = Supervisor(v, p, R(p))
                BY <2>1 DEF Supervisors
            <3>2. /\ s.required = R(p) /\ s.primary = p
                  /\ s.allow = [c \in Scored(v) |-> Allowed(v, c) \cap R(p)]
                BY <3>1 DEF Supervisor
            <3>3. x \in Union(v) /\ p = Primary(v, x)
                BY <3>2
            <3>4. Good(p)
                BY <3>3, PrimaryExists
            <3> HIDE DEF R, pr, Good
            <3> QED BY <3>2, <3>3, <3>4
        <2>2. CASE ~ Explicit(v)
            <3> DEFINE p == First(v)
            <3>1. s = Supervisor(v, p, Union(v))
                BY <2>2 DEF Supervisors
            <3>2. /\ s.required = Union(v) /\ s.primary = p
                  /\ s.allow = [c \in Scored(v) |-> Allowed(v, c) \cap Union(v)]
                BY <3>1 DEF Supervisor
            <3>3. p \in Scored(v)
                BY FirstExists
            <3>4. \A d \in Scored(v) : x \in Allowed(v, d)
                BY <2>2, <3>2, NoPreference
            <3>5. \A d \in Scored(v) : v.rank[x][d] = Unlisted
                <4> TAKE d \in Scored(v)
                <4>1. x \in v.symbols /\ x \in v.asked /\ d \in capable
                    BY <3>4 DEF Allowed, ViewOK, Scored
                <4>2. /\ v.rank[x][d] \in Nat /\ v.rank[x][d] <= Excluded
                      /\ v.rank[x][d] # Excluded /\ ~ (v.rank[x][d] < Unlisted)
                    BY <2>2, <3>4, <4>1 DEF ViewOK, Allowed, Explicit
                <4> QED BY <4>2, CountAssumption DEF Unlisted, Excluded
            <3>6. Good(p)
                <4>1. \A d \in Scored(v) : v.rank[x][p] <= v.rank[x][d]
                    BY <3>3, <3>5, CountAssumption DEF Unlisted
                <4> HIDE DEF p
                <4> QED BY <3>3, <3>4, <4>1
            <3> HIDE DEF p, Good
            <3> QED BY <3>2, <3>6
        <2> QED BY <2>1, <2>2
    <1> DEFINE p == s.primary
    <1>2. x \in v.symbols /\ x \in v.asked
        BY <1>1 DEF Allowed, ViewOK
    <1>3. Scored(v) \subseteq capable
        BY DEF Scored
    <1>4. \A c \in capable : v.rank[x][c] \in Nat /\ v.rank[x][c] <= Excluded
        BY <1>2 DEF ViewOK
    <1>5. \A c \in capable : x \in Allowed(v, c) <=> v.rank[x][c] # Excluded
        BY <1>2 DEF Allowed
    <1>6. \A c \in capable : x \in Allowed(v, c) => c \in Scored(v)
        BY DEF Scored
    <1>7. Good(p)
        BY <1>1
    <1> HIDE DEF p
    <1>8. ASSUME NEW c \in capable
          PROVE  v.rank[x][p] <= v.rank[x][c]
        <2>1. p \in capable /\ v.rank[x][p] <= Excluded
            BY <1>3, <1>4, <1>7
        <2>2. CASE x \in Allowed(v, c)
            BY <1>6, <1>7, <2>2
        <2>3. CASE x \notin Allowed(v, c)
            BY <1>5, <2>1, <2>3
        <2> QED BY <2>2, <2>3
    <1>9. /\ DOMAIN s.allow = Scored(v)
          /\ \A c \in Scored(v) : s.allow[c] = Allowed(v, c) \cap s.required
        BY <1>1
    <1> QED BY <1>2, <1>3, <1>5, <1>7, <1>8, <1>9 DEF p

\* What a view holds is the rank by the rule that the loop finds.
LEMMA ViewRanks ==
    ASSUME policy \in PolicyType, NEW req, NEW g, NEW x \in View(req, g).asked
    PROVE  /\ \A c \in capable : View(req, g).rank[x][c] = LoopRank(g, x, c)
           /\ \E i \in req : i.symbol = x /\ GroupOf(i) = g
    <1> DEFINE ctx == [symbol |-> x, kind |-> g.kind, exchange |-> g.exchange]
    <1>1. policy.rules \in Seq(RuleType)
        BY DEF PolicyType
    <1>2. \A c : ProviderRank(policy, ctx, c) = LoopRank(g, x, c)
        BY <1>1, LoopIsBest DEF ProviderRank, LoopRank
    <1>3. \A c \in capable : View(req, g).rank[x][c] = ProviderRank(policy, ctx, c)
        BY DEF View
    <1>4. \E i \in req : i.symbol = x /\ GroupOf(i) = g
        BY DEF View
    <1> QED BY <1>2, <1>3, <1>4

-----------------------------------------------------------------------------
(* The inductive invariant *)

Configured == pc \notin {"configuring", "failed"} => UnknownKeys(policy) = {}

Inputs ==
    /\ policy \in PolicyType /\ capable \subseteq Connector
    /\ request \subseteq Instrument
    /\ pc \in {"configuring", "ready"} => request = {} /\ todo = {} /\ sups = {}
    /\ pc \in {"planning", "awaiting"} => request # {}

\* What is still to plan, and what is spawned, is apart and is everything.
Planned ==
    /\ \A v \in todo : /\ v.group \in Group /\ v = View(request, v.group)
                       /\ \E i \in request : GroupOf(i) = v.group
    /\ \A v \in todo, s \in sups : s.group # v.group
    /\ \A i \in request : \/ \E v \in todo : v.group = GroupOf(i)
                          \/ \E s \in sups : s.group = GroupOf(i) /\ i.symbol \in s.required
    /\ \A s, t \in sups : s # t /\ s.group = t.group => s.required \cap t.required = {}
    /\ pc \in {"awaiting", "open", "stopping", "stopped"} => todo = {}

Answers ==
    /\ answer \in [sups -> {"pending", "ok", "failed", "unsupported"}]
    /\ task \in [sups -> {"starting", "running", "stopping", "ended"}]
    /\ \A s \in sups : task[s] = "starting" => answer[s] = "pending"
    /\ pc \in {"open", "stopping", "stopped"} => \A s \in sups : answer[s] = "ok"

IInv == TypeOK /\ Configured /\ Inputs /\ Planned /\ Answers /\ PrimaryCoversAll

LEMMA InitIInv == Init => IInv
    BY BoundsAssumption
    DEF Init, IInv, TypeOK, Configured, Inputs, Planned, Answers, PrimaryCoversAll,
        NoPolicy, PolicyType

LEMMA ViewsOK ==
    ASSUME IInv, pc = "planning"
    PROVE  \A v \in todo : ViewOK(v)
    BY ViewIsOK DEF IInv, Configured, Inputs, Planned

LEMMA StepIInv == IInv /\ [Next]_vars => IInv'
    <1> SUFFICES ASSUME IInv, [Next]_vars
                 PROVE  IInv'
        OBVIOUS
    <1> USE DEF IInv
    <1>1. CASE Configure
        <2>1. PICK r \in Rules : policy' = AddRule(policy, r)
            BY <1>1 DEF Configure
        <2>2. r \in RuleType
            BY RulesAssumption DEF RuleType, Key
        <2>3. policy' \in PolicyType
            <3>1. policy \in PolicyType
                BY DEF Inputs
            <3>2. Append(policy.rules, r) \in Seq(RuleType)
                BY <2>2, <3>1 DEF PolicyType
            <3>3. policy' = [policy EXCEPT !.rules = Append(policy.rules, r)]
                BY <2>1 DEF AddRule
            <3> QED BY <3>1, <3>2, <3>3 DEF PolicyType
        <2> QED BY <1>1, <2>3 DEF Configure, planVars, supVars, TypeOK, Configured,
                    Inputs, Planned, Answers, PrimaryCoversAll
    <1>2. CASE ConfigureGlobal
        <2>1. PICK list \in Lists, strict \in BOOLEAN : policy' = SetGlobal(policy, list, strict)
            BY <1>2 DEF ConfigureGlobal
        <2>2. list \in Seq(Key)
            BY RulesAssumption DEF Key
        <2>3. policy' \in PolicyType
            BY <2>1, <2>2 DEF SetGlobal, Inputs, PolicyType
        <2> QED BY <1>2, <2>3 DEF ConfigureGlobal, planVars, supVars, TypeOK, Configured,
                    Inputs, Planned, Answers, PrimaryCoversAll
    <1>3. CASE Build
        BY <1>3 DEF Build, planVars, supVars, TypeOK, Configured, Inputs, Planned,
                    Answers, PrimaryCoversAll
    <1>4. CASE Open
        <2>1. PICK req \in Requests :
                  /\ request' = req
                  /\ todo' = {View(req, GroupOf(i)) : i \in req}
                  /\ pc' = IF req = {} THEN "failed" ELSE "planning"
                  /\ error' = IF req = {} THEN "invalid" ELSE "none"
            BY <1>4 DEF Open
        <2>2. /\ pc = "ready" /\ sups = {} /\ sups' = {}
              /\ UNCHANGED <<policy, capable, sups, supVars, flag, rx>>
            BY <1>4 DEF Open, Inputs
        <2>3. req \subseteq Instrument
            BY RequestsAssumption
        <2>4. \A i \in req : GroupOf(i) \in Group /\ View(req, GroupOf(i)).group = GroupOf(i)
            BY <2>3 DEF GroupOf, Group, Instrument, View
        <2>5. \A g : View(req, g)' = View(req, g)
            BY <2>2 DEF View
        <2>6. Planned'
            BY <2>1, <2>2, <2>4, <2>5 DEF Planned
        <2>7. TypeOK'
            BY <2>1, <2>2, <2>3, <2>4 DEF TypeOK, supVars
        <2> QED BY <2>1, <2>2, <2>3, <2>6, <2>7
                DEF Configured, Inputs, Answers, PrimaryCoversAll, supVars
    <1>5. ASSUME NEW v \in todo, Plan(v)
          PROVE  IInv'
        <2>1. /\ pc = "planning" /\ PlanError(v) = "none"
              /\ sups' = sups \union Supervisors(v) /\ todo' = todo \ {v}
              /\ pc' = IF todo' = {} THEN "awaiting" ELSE "planning"
              /\ UNCHANGED <<policy, capable, request, error, flag, rx>>
              /\ task' = [s \in sups' |-> IF s \in sups THEN task[s] ELSE "starting"]
              /\ answer' = [s \in sups' |-> IF s \in sups THEN answer[s] ELSE "pending"]
              /\ session' = [s \in sups' |-> IF s \in sups THEN session[s] ELSE FALSE]
              /\ sending' = sending
              /\ opened' = [s \in sups' |-> IF s \in sups THEN opened[s] ELSE 0]
            BY <1>5 DEF Plan
        <2>2. ViewOK(v) /\ capable \subseteq Connector /\ v.group \in Group
              /\ v = View(request, v.group)
            BY <2>1, ViewsOK DEF Inputs, Planned
        <2>3. /\ Scored(v) # {}
              /\ \A x \in v.asked : \E s \in Supervisors(v) : x \in s.required
              /\ \A s, t \in Supervisors(v) : s # t => s.required \cap t.required = {}
            BY <2>1, <2>2, PlanCovers
        <2>4. \A s \in Supervisors(v) :
                  s.group = v.group /\ s.required # {} /\ s.allow[s.primary] = s.required
            BY <2>2, <2>3, PrimaryCovers
        <2>5. \A i \in request : GroupOf(i) = v.group => i.symbol \in v.asked
            BY <2>2 DEF View
        <2>6. \A g : View(request, g)' = View(request, g)
            BY <2>1 DEF View
        <2>7. Planned'
            <3>1. \A w \in todo' : /\ w.group \in Group /\ w = View(request, w.group)'
                                   /\ \E i \in request : GroupOf(i) = w.group
                BY <2>1, <2>6 DEF Planned
            <3>2. \A w \in todo' : w.group # v.group
                BY <2>1, <2>2 DEF Planned
            <3>3. \A w \in todo', s \in sups' : s.group # w.group
                BY <2>1, <2>4, <3>2 DEF Planned
            <3>4. \A i \in request : \/ \E w \in todo' : w.group = GroupOf(i)
                                     \/ \E s \in sups' : s.group = GroupOf(i) /\ i.symbol \in s.required
                <4> TAKE i \in request
                <4>1. CASE GroupOf(i) = v.group
                    BY <4>1, <2>1, <2>3, <2>4, <2>5
                <4>2. CASE GroupOf(i) # v.group
                    BY <4>2, <2>1 DEF Planned
                <4> QED BY <4>1, <4>2
            <3>5. \A s, t \in sups' : s # t /\ s.group = t.group => s.required \cap t.required = {}
                BY <2>1, <2>3, <2>4 DEF Planned
            <3>6. pc' \in {"awaiting", "open", "stopping", "stopped"} => todo' = {}
                BY <2>1
            <3> HIDE DEF IInv
            <3> QED BY <2>1, <3>1, <3>3, <3>4, <3>5, <3>6 DEF Planned
        <2>8. TypeOK'
            <3>5. sending' \subseteq {s \in sups' : session'[s]}
                BY <2>1 DEF TypeOK
            <3>1. 0 \in 0..MaxReconnects
                BY BoundsAssumption
            <3>2. {w.group : w \in todo'} \subseteq Group
                BY <2>1 DEF TypeOK
            <3>3. opened' \in [sups' -> 0..MaxReconnects] /\ session' \in [sups' -> BOOLEAN]
                BY <2>1, <3>1 DEF TypeOK
            <3>4. /\ task' \in [sups' -> {"starting", "running", "stopping", "ended"}]
                  /\ answer' \in [sups' -> {"pending", "ok", "failed", "unsupported"}]
                BY <2>1 DEF TypeOK
            <3> QED BY <2>1, <3>2, <3>3, <3>4, <3>5 DEF TypeOK
        <2>9. Answers'
            BY <2>1 DEF Answers
        <2>10. PrimaryCoversAll'
            BY <2>1, <2>4 DEF PrimaryCoversAll
        <2>11. Inputs' /\ Configured'
            BY <2>1 DEF Inputs, Configured
        <2> QED BY <2>7, <2>8, <2>9, <2>10, <2>11
    <1> DEFINE Outcome == Cancel \/ Succeed \/ Fail \/ Stop \/ Leave \/ NoticeLeave \/ Join
                             \/ \E v \in todo : Refuse(v)
    <1>6. CASE Outcome
        <2>1. UNCHANGED planVars /\ UNCHANGED answer
            BY <1>6 DEF Cancel, Succeed, Fail, Stop, Leave, NoticeLeave, Join, Refuse, supVars
        <2>2. \A g : View(request, g)' = View(request, g)
            BY <2>1 DEF View, planVars
        <2>3. pc' \notin {"configuring", "ready"} /\ pc \notin {"configuring", "ready"}
            BY <1>6 DEF Cancel, Succeed, Fail, Stop, Leave, NoticeLeave, Join, Refuse
        <2>4. /\ pc' \in {"planning", "awaiting"} => pc \in {"planning", "awaiting"}
              /\ pc' \in {"awaiting", "open", "stopping", "stopped"}
                     => pc \in {"awaiting", "open", "stopping"}
              /\ pc' \notin {"configuring", "failed"} => pc \notin {"configuring", "failed"}
            BY <1>6 DEF Cancel, Succeed, Fail, Stop, Leave, NoticeLeave, Join, Refuse
        <2>5. Planned' /\ PrimaryCoversAll'
            BY <2>1, <2>2, <2>4 DEF Planned, PrimaryCoversAll, planVars
        <2>6. Inputs' /\ Configured'
            BY <2>1, <2>3, <2>4 DEF Inputs, Configured, planVars
        <2>7. TypeOK'
            BY <1>6 DEF Cancel, Succeed, Fail, Stop, Leave, NoticeLeave, Join, Refuse, TypeOK,
                        planVars, supVars, CollapsedError, PlanError
        <2>8. Answers'
            BY <1>6 DEF Cancel, Succeed, Fail, Stop, Leave, NoticeLeave, Join, Refuse, Answers,
                        planVars, supVars, Succeeded
        <2> QED BY <2>5, <2>6, <2>7, <2>8
    <1>7. ASSUME NEW s \in sups, SupervisorStep(s)
          PROVE  IInv'
        <2>1. UNCHANGED planVars /\ UNCHANGED <<pc, error, flag, rx>>
            BY <1>7 DEF SupervisorStep, Start, GiveUp, Disconnect, Reconnect, WindDown,
                        Send, Sent, SendFails, EndSession, Finish
        <2>2. \A g : View(request, g)' = View(request, g)
            BY <2>1 DEF View, planVars
        <2>3. Planned' /\ PrimaryCoversAll' /\ Inputs' /\ Configured'
            BY <2>1, <2>2 DEF Planned, PrimaryCoversAll, Inputs, Configured, planVars
        <2>4. TypeOK'
            <3>1. opened' \in [sups -> 0..MaxReconnects]
                <4>1. opened \in [sups -> 0..MaxReconnects] /\ 1 \in 0..MaxReconnects
                      /\ MaxReconnects \in Nat
                    BY BoundsAssumption DEF TypeOK
                <4>2. \/ opened' = opened
                      \/ opened' = [opened EXCEPT ![s] = 1]
                      \/ opened[s] < MaxReconnects /\ opened' = [opened EXCEPT ![s] = @ + 1]
                    BY <1>7 DEF SupervisorStep, Start, GiveUp, Disconnect, Reconnect, WindDown,
                                Send, Sent, SendFails, EndSession, Finish
                <4> QED BY <4>1, <4>2
            <3>2. /\ task' \in [sups -> {"starting", "running", "stopping", "ended"}]
                  /\ answer' \in [sups -> {"pending", "ok", "failed", "unsupported"}]
                  /\ session' \in [sups -> BOOLEAN]
                BY <1>7 DEF SupervisorStep, Start, GiveUp, Disconnect, Reconnect, WindDown,
                            Send, Sent, SendFails, EndSession, Finish, TypeOK
            <3>3. sending' \subseteq {t \in sups : session'[t]}
                BY <1>7 DEF SupervisorStep, Start, GiveUp, Disconnect, Reconnect, WindDown,
                            Send, Sent, SendFails, EndSession, Finish, Polls, TypeOK
            <3> QED BY <2>1, <3>1, <3>2, <3>3 DEF TypeOK, planVars
        <2>5. Answers'
            BY <1>7, <2>1
            DEF SupervisorStep, Start, GiveUp, Disconnect, Reconnect, WindDown,
                Send, Sent, SendFails, EndSession, Finish, Answers, planVars
        <2> QED BY <2>3, <2>4, <2>5
    <1>8. CASE UNCHANGED vars
        <2>1. \A g : View(request, g)' = View(request, g)
            BY <1>8 DEF View, planVars, vars
        <2> QED BY <1>8, <2>1 DEF vars, planVars, supVars, TypeOK, Configured, Inputs, Planned,
                    Answers, PrimaryCoversAll
    <1> QED BY <1>1, <1>2, <1>3, <1>4, <1>5, <1>6, <1>7, <1>8 DEF Next, CallStep

\* Types, for every run of StreamPlan.
THEOREM TypeCorrect == Spec => []TypeOK
    <1>1. IInv => TypeOK
        BY DEF IInv
    <1> QED BY InitIInv, StepIInv, <1>1, PTL DEF Spec

\* Whatever policy and request a supervisor is spawned for, its primary may
\* stream every symbol it is to cover: the chains are those PlansAssumption of
\* StreamSupervisor allows.
THEOREM PrimariesCoverAll == Spec => []PrimaryCoversAll
    <1>1. IInv => PrimaryCoversAll
        BY DEF IInv
    <1> QED BY InitIInv, StepIInv, <1>1, PTL DEF Spec

\* A stream that is open covers every instrument of the request, each by one
\* supervisor that has started.
THEOREM OpenIsComplete == Spec => []OpenCoversRequest
    <1>1. IInv => OpenCoversRequest
        <2> SUFFICES ASSUME IInv, pc \in {"open", "stopping", "stopped"}, NEW i \in request
                     PROVE  \E s \in sups :
                                /\ s.group = GroupOf(i) /\ i.symbol \in s.required /\ answer[s] = "ok"
                                /\ \A t \in sups \ {s} : t.group = s.group
                                       => t.required \cap s.required = {}
            BY DEF OpenCoversRequest
        <2>1. PICK s \in sups : s.group = GroupOf(i) /\ i.symbol \in s.required
            BY DEF IInv, Planned
        <2>2. answer[s] = "ok"
            BY DEF IInv, Answers
        <2>3. \A t \in sups \ {s} : t.group = s.group => t.required \cap s.required = {}
            BY DEF IInv, Planned
        <2> QED BY <2>1, <2>2, <2>3
    <1> QED BY InitIInv, StepIInv, <1>1, PTL DEF Spec

-----------------------------------------------------------------------------
(* The policy is obeyed, and a refusal is true *)

\* The policy and the request are settled when the first group is planned.
LEMMA SettledStep ==
    ASSUME IInv, [Next]_vars, pc \notin {"configuring", "ready"}
    PROVE  /\ UNCHANGED <<policy, capable, request>>
           /\ pc' \notin {"configuring", "ready"}
           /\ pc = "failed" => pc' = "failed" /\ error' = error
    <1>1. CASE \E v \in todo : Plan(v) \/ Refuse(v)
        BY <1>1 DEF Plan, Refuse, planVars
    <1>2. CASE Cancel \/ Succeed \/ Fail \/ Stop \/ Leave \/ NoticeLeave \/ Join
        BY <1>2 DEF Cancel, Succeed, Fail, Stop, Leave, NoticeLeave, Join, planVars
    <1>3. CASE \E s \in sups : SupervisorStep(s)
        BY <1>3 DEF SupervisorStep, Start, GiveUp, Disconnect, Reconnect, WindDown,
                    Send, Sent, SendFails, EndSession, Finish, planVars
    <1>4. CASE UNCHANGED vars
        BY <1>4 DEF vars, planVars
    <1>5. ~ (Configure \/ ConfigureGlobal \/ Build \/ Open)
        BY DEF Configure, ConfigureGlobal, Build, Open
    <1> QED BY <1>1, <1>2, <1>3, <1>4, <1>5 DEF Next, CallStep

\* Supervisors are spawned by Plan, from a view of the policy.
LEMMA SpawnStep ==
    ASSUME IInv, [Next]_vars, NEW s \in sups', s \notin sups
    PROVE  \E v \in todo : /\ pc = "planning" /\ PlanError(v) = "none"
                           /\ s \in Supervisors(v)
    <1>1. ~ UNCHANGED sups
        OBVIOUS
    <1>2. PICK v \in todo : Plan(v)
        <2>1. ~ (Configure \/ ConfigureGlobal \/ Build \/ Open)
            BY <1>1 DEF Configure, ConfigureGlobal, Build, Open, planVars
        <2>2. ~ (Cancel \/ Succeed \/ Fail \/ Stop \/ Leave \/ NoticeLeave \/ Join)
            BY <1>1 DEF Cancel, Succeed, Fail, Stop, Leave, NoticeLeave, Join, planVars
        <2>3. ~ \E t \in sups : SupervisorStep(t)
            BY <1>1 DEF SupervisorStep, Start, GiveUp, Disconnect, Reconnect, WindDown,
                        Send, Sent, SendFails, EndSession, Finish, planVars
        <2>4. ~ UNCHANGED vars
            BY <1>1 DEF vars, planVars
        <2>5. \A v \in todo : ~ Refuse(v)
            BY <1>1 DEF Refuse, planVars
        <2> QED BY <2>1, <2>2, <2>3, <2>4, <2>5 DEF Next, CallStep
    <1> QED BY <1>2 DEF Plan

LEMMA ObeyedStep == IInv /\ PolicyIsObeyed /\ [Next]_vars => PolicyIsObeyed'
    <1> SUFFICES ASSUME IInv, PolicyIsObeyed, [Next]_vars, NEW s \in sups', NEW x \in s.required
                 PROVE  /\ \A c \in capable' :
                               LoopRank(s.group, x, s.primary)' <= LoopRank(s.group, x, c)'
                        /\ \A c \in DOMAIN s.allow :
                               x \in s.allow[c] <=> LoopRank(s.group, x, c)' # Excluded
        BY DEF PolicyIsObeyed
    <1>1. pc \notin {"configuring", "ready"}
        <2>1. s \in sups \/ pc = "planning"
            BY SpawnStep
        <2> QED BY <2>1 DEF IInv, Inputs
    <1>2. UNCHANGED <<policy, capable, request>>
        BY <1>1, SettledStep
    <1>3. \A c : LoopRank(s.group, x, c)' = LoopRank(s.group, x, c)
        BY <1>2 DEF LoopRank
    <1>4. CASE s \in sups
        BY <1>2, <1>3, <1>4 DEF PolicyIsObeyed
    <1>5. CASE s \notin sups
        <2>1. PICK v \in todo : /\ pc = "planning" /\ PlanError(v) = "none"
                                /\ s \in Supervisors(v)
            BY <1>5, SpawnStep
        <2>2. /\ ViewOK(v) /\ v = View(request, v.group)
              /\ capable \subseteq Connector /\ policy \in PolicyType
            BY <2>1, ViewsOK DEF IInv, Inputs, Planned
        <2>3. Scored(v) # {}
            BY <2>1, <2>2, PlanCovers
        <2>4. s.group = v.group /\ s.required # {} /\ s.allow[s.primary] = s.required
            BY <2>1, <2>2, <2>3, PrimaryCovers
        <2>5. /\ x \in v.asked /\ s.primary \in capable
              /\ \A c \in capable : v.rank[x][s.primary] <= v.rank[x][c]
              /\ DOMAIN s.allow \subseteq capable
              /\ \A c \in DOMAIN s.allow : x \in s.allow[c] <=> v.rank[x][c] # Excluded
            BY <2>1, <2>2, <2>3, SupervisorsObey
        <2>6. \A c \in capable : v.rank[x][c] = LoopRank(s.group, x, c)
            <3>1. x \in View(request, v.group).asked
                BY <2>2, <2>5
            <3>2. \A c \in capable : View(request, v.group).rank[x][c] = LoopRank(v.group, x, c)
                BY <2>2, <3>1, ViewRanks
            <3> QED BY <2>2, <2>4, <3>2
        <2> QED BY <1>2, <1>3, <2>5, <2>6
    <1> QED BY <1>4, <1>5

\* A group is refused as strict only where a symbol of it is closed to all
\* capable connectors, and as unsupported only where there is none or a
\* prediction is asked for.
LEMMA PlanErrorIsTrue ==
    ASSUME IInv, pc = "planning", NEW v \in todo
    PROVE  /\ PlanError(v) \in {"none", "strict", "unsupported"}
           /\ PlanError(v) = "strict" => \E i \in request : ClosedToAll(i)
           /\ PlanError(v) = "unsupported" => capable = {} \/ \E i \in request : i.symbol = None
    <1>1. ViewOK(v) /\ v = View(request, v.group) /\ policy \in PolicyType
        BY ViewsOK DEF IInv, Inputs, Planned
    <1>2. ASSUME NEW x \in v.asked
          PROVE  /\ \A c \in capable : v.rank[x][c] = LoopRank(v.group, x, c)
                 /\ \E i \in request : i.symbol = x /\ GroupOf(i) = v.group
        <2>1. x \in View(request, v.group).asked
            BY <1>1
        <2>2. /\ \A c \in capable : View(request, v.group).rank[x][c] = LoopRank(v.group, x, c)
              /\ \E i \in request : i.symbol = x /\ GroupOf(i) = v.group
            BY <1>1, <2>1, ViewRanks
        <2> QED BY <1>1, <2>2
    <1>3. ASSUME PlanError(v) = "strict"
          PROVE  \E i \in request : ClosedToAll(i)
        <2>1. capable # {}
            BY <1>3 DEF PlanError, Scored
        <2>2. PICK x : x \in Forbidden(v)
            BY <1>3 DEF PlanError
        <2>3. x # None /\ x \in v.asked /\ \A c \in capable : v.rank[x][c] = Excluded
            BY <1>1, <2>2 DEF Forbidden, ViewOK
        <2>4. PICK i \in request : i.symbol = x /\ GroupOf(i) = v.group
            BY <1>2, <2>3
        <2>5. \A c \in capable : LoopRank(GroupOf(i), i.symbol, c) = Excluded
            BY <1>2, <2>3, <2>4
        <2> QED BY <2>1, <2>3, <2>4, <2>5 DEF ClosedToAll
    <1>4. ASSUME PlanError(v) = "unsupported", capable # {}
          PROVE  \E i \in request : i.symbol = None
        <2>1. v.asked # {}
            <3>1. PICK i \in request : GroupOf(i) = v.group
                BY DEF IInv, Planned
            <3>2. i.symbol \in View(request, v.group).asked
                BY <3>1 DEF View
            <3> QED BY <1>1, <3>2
        <2>2. None \in v.asked
            <3>1. CASE Scored(v) # {}
                BY <1>4, <3>1 DEF PlanError
            <3>2. CASE Scored(v) = {}
                <4>1. Forbidden(v) = {}
                    BY <1>4, <3>2 DEF PlanError
                <4>2. \A c \in capable, x \in v.symbols : v.rank[x][c] = Excluded
                    BY <3>2 DEF Scored, Allowed
                <4>3. v.symbols = {}
                    BY <4>1, <4>2 DEF Forbidden
                <4> QED BY <1>1, <2>1, <4>3 DEF ViewOK
            <3> QED BY <3>1, <3>2
        <2> QED BY <1>2, <2>2
    <1>5. PlanError(v) \in {"none", "strict", "unsupported"}
        BY DEF PlanError
    <1> QED BY <1>3, <1>4, <1>5

\* Once the call has failed for its supervisors, their answers are final.
LEMMA AnswersFinal ==
    ASSUME IInv, [Next]_vars, pc \notin {"configuring", "ready", "planning"}
    PROVE  /\ sups' = sups
           /\ \A s \in sups : answer[s] # "pending" => answer'[s] = answer[s]
    <1>1. CASE Cancel \/ Succeed \/ Fail \/ Stop \/ Leave \/ NoticeLeave \/ Join
        BY <1>1 DEF Cancel, Succeed, Fail, Stop, Leave, NoticeLeave, Join, planVars, supVars
    <1>2. ASSUME NEW t \in sups, SupervisorStep(t)
          PROVE  /\ sups' = sups
                 /\ \A s \in sups : answer[s] # "pending" => answer'[s] = answer[s]
        <2>1. sups' = sups
            BY <1>2 DEF SupervisorStep, Start, GiveUp, Disconnect, Reconnect, WindDown,
                        Send, Sent, SendFails, EndSession, Finish, planVars
        <2>2. \/ answer' = answer
              \/ /\ task[t] = "starting"
                 /\ \E a : answer' = [answer EXCEPT ![t] = a]
            BY <1>2 DEF SupervisorStep, Start, GiveUp, Disconnect, Reconnect, WindDown,
                        Send, Sent, SendFails, EndSession, Finish, planVars
        <2>3. /\ answer \in [sups -> {"pending", "ok", "failed", "unsupported"}]
              /\ task[t] = "starting" => answer[t] = "pending"
            BY DEF IInv, Answers
        <2> QED BY <2>1, <2>2, <2>3
    <1>3. CASE UNCHANGED vars
        BY <1>3 DEF vars, planVars, supVars
    <1>4. ~ (Configure \/ ConfigureGlobal \/ Build \/ Open \/ \E v \in todo : Plan(v) \/ Refuse(v))
        BY DEF Configure, ConfigureGlobal, Build, Open, Plan, Refuse
    <1> QED BY <1>1, <1>2, <1>3, <1>4 DEF Next, CallStep

\* An error that is new has a true reason.
LEMMA NewErrorIsTrue ==
    ASSUME IInv, [Next]_vars, error = "none", error' # "none"
    PROVE  /\ error' = "strict" => \E i \in request : ClosedToAll(i)
           /\ error' = "unsupported" =>
                  capable = {} \/ (\E i \in request : i.symbol = None) \/ RefusalsAlone'
           /\ error' = "providers" => \E s \in sups' : answer'[s] = "failed"
           /\ error' = "invalid" => UnknownKeys(policy') # {} \/ N = 0 \/ request' = {}
    <1> USE DEF IInv
    <1>1. CASE Build
        BY <1>1 DEF Build, planVars
    <1>2. CASE Open
        BY <1>2 DEF Open
    <1>3. ASSUME NEW v \in todo, Refuse(v)
          PROVE  /\ error' = PlanError(v) /\ pc = "planning"
        BY <1>3 DEF Refuse
    <1>4. CASE Fail
        <2>1. /\ error' = CollapsedError /\ sups' = sups /\ answer' = answer
              /\ AllAnswered /\ ~Succeeded /\ todo = {} /\ pc = "awaiting"
            BY <1>4 DEF Fail, planVars, Planned
        <2>2. CASE \E s \in sups : answer[s] = "failed"
            BY <2>1, <2>2 DEF CollapsedError
        <2>3. CASE ~\E s \in sups : answer[s] = "failed"
            <3>1. error' = "unsupported"
                BY <2>1, <2>3 DEF CollapsedError
            <3>2. \A s \in sups : answer[s] \in {"ok", "unsupported"}
                BY <2>1, <2>3 DEF AllAnswered, Answers
            <3>3. sups # {} => \E s \in sups : answer[s] = "unsupported"
                BY <2>1, <3>2 DEF Succeeded
            <3>4. sups # {}
                BY <2>1 DEF Planned, Inputs
            <3> QED BY <2>1, <3>1, <3>2, <3>3, <3>4 DEF RefusalsAlone
        <2> QED BY <2>2, <2>3
    <1>5. Build \/ Open \/ Fail \/ \E v \in todo : Refuse(v)
        BY DEF Next, CallStep, SupervisorStep, Configure, ConfigureGlobal, Plan, Cancel, Succeed,
            Stop, Leave, NoticeLeave, Join, Start, GiveUp, Disconnect, Reconnect, WindDown,
            Send, Sent, SendFails, EndSession, Finish, vars
    <1>6. ASSUME NEW v \in todo, Refuse(v)
          PROVE  /\ error' \in {"none", "strict", "unsupported"}
                 /\ error' = "strict" => \E i \in request : ClosedToAll(i)
                 /\ error' = "unsupported" => capable = {} \/ \E i \in request : i.symbol = None
        BY <1>3, <1>6, PlanErrorIsTrue
    <1> QED BY <1>1, <1>2, <1>4, <1>5, <1>6

LEMMA RefusalStep == IInv /\ RefusalIsTrue /\ [Next]_vars => RefusalIsTrue'
    <1> SUFFICES ASSUME IInv, RefusalIsTrue, [Next]_vars
                 PROVE  RefusalIsTrue'
        OBVIOUS
    <1>1. IInv'
        BY StepIInv
    <1> DEFINE True ==
          /\ error = "strict" => \E i \in request : ClosedToAll(i)
          /\ error = "unsupported" =>
                capable = {} \/ (\E i \in request : i.symbol = None) \/ RefusalsAlone
          /\ error = "providers" => \E s \in sups : answer[s] = "failed"
          /\ error = "invalid" => UnknownKeys(policy) # {} \/ N = 0 \/ request = {}
    <1>2. ASSUME error # "none" PROVE True'
        <2>1. pc = "failed"
            BY <1>2 DEF IInv, TypeOK
        <2>2. UNCHANGED <<policy, capable, request, error>>
            BY <2>1, SettledStep
        <2>3. \A i : ClosedToAll(i)' = ClosedToAll(i)
            BY <2>2 DEF ClosedToAll, LoopRank
        <2>4. sups' = sups /\ \A s \in sups : answer[s] # "pending" => answer'[s] = answer[s]
            BY <2>1, AnswersFinal
        <2>5. RefusalsAlone => RefusalsAlone'
            BY <2>4 DEF RefusalsAlone
        <2>6. (\E s \in sups : answer[s] = "failed") => \E s \in sups' : answer'[s] = "failed"
            BY <2>4
        <2> QED BY <2>2, <2>3, <2>5, <2>6 DEF RefusalIsTrue
    <1>3. ASSUME error = "none" /\ error' = "none" PROVE True'
        BY <1>3
    <1>4. ASSUME error = "none" /\ error' # "none" PROVE True'
        <2>1. CASE error' = "invalid"
            BY <1>4, <2>1, NewErrorIsTrue
        <2>2. CASE error' # "invalid"
            <3>1. pc \notin {"configuring", "ready"}
                <4>1. CASE pc \in {"configuring", "ready"}
                    <5>1. sups = {} /\ todo = {}
                        BY <4>1 DEF IInv, Inputs
                    <5> QED BY <1>4, <2>2, <4>1, <5>1 DEF Next, CallStep, Configure,
                          ConfigureGlobal, Build, Open, Cancel, Succeed, Fail, Stop, Leave,
                          NoticeLeave, Join, vars
                <4> QED BY <4>1
            <3>2. UNCHANGED <<policy, capable, request>>
                BY <3>1, SettledStep
            <3>3. \A i : ClosedToAll(i)' = ClosedToAll(i)
                BY <3>2 DEF ClosedToAll, LoopRank
            <3> QED BY <1>4, <2>2, <3>2, <3>3, NewErrorIsTrue
        <2> QED BY <2>1, <2>2
    <1>5. True'
        BY <1>2, <1>3, <1>4
    <1>6. ASSUME pc' # "configuring", UnknownKeys(policy') # {}
          PROVE  error' = "invalid"
        <2>1. pc' = "failed"
            BY <1>1, <1>6 DEF IInv, Configured
        <2>2. CASE pc \notin {"configuring", "ready"}
            <3>1. UNCHANGED <<policy, capable, request>>
                BY <2>2, SettledStep
            <3>2. error = "invalid"
                BY <1>6, <2>2, <3>1 DEF RefusalIsTrue
            <3>3. pc = "failed"
                BY <1>6, <2>2, <3>1 DEF IInv, Configured
            <3> QED BY <2>2, <3>2, <3>3, SettledStep
        <2>3. CASE pc \in {"configuring", "ready"}
            <3>1. sups = {} /\ todo = {}
                BY <2>3 DEF IInv, Inputs
            <3>2. Build \/ Open
                BY <2>1, <2>3, <3>1 DEF IInv, TypeOK, Next, CallStep, SupervisorStep, Configure,
                    ConfigureGlobal, Cancel, Succeed, Fail, Stop, Leave, NoticeLeave, Join, vars
            <3> QED BY <2>1, <3>2 DEF Build, Open
        <2> QED BY <2>2, <2>3
    <1> QED BY <1>5, <1>6 DEF RefusalIsTrue

\* Each symbol starts with the connector that the policy ranks best for it,
\* whatever rules there are and however its group is split, and a chain never
\* streams a symbol from a connector that a strict rule keeps it from.
THEOREM PolicyObeyed == Spec => []PolicyIsObeyed
    <1>1. Init => PolicyIsObeyed
        BY DEF Init, PolicyIsObeyed
    <1> QED BY InitIInv, StepIInv, <1>1, ObeyedStep, PTL DEF Spec

\* Whatever error a call ends with, it is true of the policy, the connectors,
\* the request and what the supervisors met; and a policy that names an unknown
\* key never routes.
THEOREM RefusalsTrue == Spec => []RefusalIsTrue
    <1>1. Init => RefusalIsTrue
        BY DEF Init, RefusalIsTrue
    <1> QED BY InitIInv, StepIInv, <1>1, RefusalStep, PTL DEF Spec
=============================================================================
