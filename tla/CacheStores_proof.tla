-------------------------- MODULE CacheStores_proof --------------------------
(***************************************************************************)
(* Proofs about CacheStores: the keys keep apart what differs, and so the  *)
(* cache answers each request with what was said to one for the same thing.*)
(***************************************************************************)
EXTENDS CacheStores, Basics_proof

\* What the stores and the last answer are, at any moment.
StoresInv ==
    /\ \A e \in positive : e.of \in Requests /\ e = Entry(e.of) /\ HasStore(e.of)
    /\ \A e \in negative : e.of \in Requests /\ e = Entry(e.of) /\ HasNegativeStore(e.of)
    /\ \A e, f \in positive : e.cap = f.cap /\ e.key = f.key => e = f
    /\ \A e, f \in negative : e.cap = f.cap /\ e.key = f.key => e = f

\* What a cached answer was said to.
Served(r, q) == IF r.cap = "search" THEN AlikeButLocale(r, q) ELSE Alike(r, q)

ReplyInv == reply # None => Served(reply.to, reply.of)

NothingBeforeBuild == connector = None => positive = {} /\ negative = {} /\ reply = None

Inv == StoresInv /\ ReplyInv /\ NothingBeforeBuild

-----------------------------------------------------------------------------
(* Keys *)

\* The bits of HistoryKey are those of one set of flags only.
LEMMA FlagsSeparate ==
    ASSUME NEW on \in SUBSET Flags, NEW other \in SUBSET Flags,
           Flag(on, "include_prepost") + Flag(on, "include_actions")
             + Flag(on, "auto_adjust") + Flag(on, "keepna")
           = Flag(other, "include_prepost") + Flag(other, "include_actions")
             + Flag(other, "auto_adjust") + Flag(other, "keepna")
    PROVE  on = other
<1>1. \A flag \in Flags : flag \in on <=> flag \in other
  BY DEF Flags, Flag, Bit
<1> QED BY <1>1

\* Of one capability, no two requests that differ in an argument share a key, but
\* for searches in another language or for another region: a value that is
\* stored is not served for another request.
LEMMA KeysSeparate ==
    ASSUME NEW r \in Requests, NEW q \in Requests, r.cap = q.cap, Key(r) = Key(q),
           r.cap \notin Streams
    PROVE  Served(r, q)
<1>1. r.cap \in Capabilities
  BY RequestsAssumption
<1>2. CASE r.cap = "history"
  <2>1. Key(r) = HistoryKey(r) /\ Key(q) = HistoryKey(q)
    BY <1>2 DEF Key, Statements, ByInstrument, Basics, Analysts, Holders, Insiders
  <2>2. HistoryKey(r) = HistoryKey(q)
    BY <2>1
  <2>3. /\ r.inst = q.inst
        /\ r.args.interval = q.args.interval /\ r.args.range = q.args.range
        /\ Seconds(r.args.period) = Seconds(q.args.period)
        /\ Flag(r.args.on, "include_prepost") + Flag(r.args.on, "include_actions")
             + Flag(r.args.on, "auto_adjust") + Flag(r.args.on, "keepna")
           = Flag(q.args.on, "include_prepost") + Flag(q.args.on, "include_actions")
             + Flag(q.args.on, "auto_adjust") + Flag(q.args.on, "keepna")
    BY <2>2, Z3 DEF HistoryKey
  <2>4. r.args.on \in SUBSET Flags /\ q.args.on \in SUBSET Flags
    BY <1>2, RequestsAssumption
  <2>5. r.args.on = q.args.on
    BY <2>3, <2>4, FlagsSeparate
  <2>6. ArgsOf(r.cap) = {"interval", "range", "period", "on"}
    BY <1>2 DEF ArgsOf
  <2>8. r.cap # "search"
    BY <1>2 DEF Statements, ByInstrument, Basics, Analysts, Holders, Insiders
  <2>9. Alike(r, q)
    BY <2>3, <2>5, <2>6 DEF Alike, Agree
  <2> QED BY <2>8, <2>9 DEF Served
<1>3. CASE r.cap \in ByInstrument
  <2>1. r.inst = q.inst
    BY <1>3 DEF Key, ByInstrument, Basics, Analysts, Holders, Insiders
  <2>2. ArgsOf(r.cap) = {}
    BY <1>3 DEF ArgsOf, ByInstrument, Basics, Analysts, Holders, Insiders
  <2>8. r.cap # "search"
    BY <1>3 DEF Statements, ByInstrument, Basics, Analysts, Holders, Insiders
  <2>9. Alike(r, q)
    BY <2>1, <2>2 DEF Alike, Agree
  <2> QED BY <2>8, <2>9 DEF Served
<1>4. CASE r.cap \in Statements
  <2>1. r.inst = q.inst /\ r.args.quarterly = q.args.quarterly
    BY <1>4 DEF Key, Statements, ByInstrument, Basics, Analysts, Holders, Insiders
  <2>2. ArgsOf(r.cap) = {"quarterly"}
    BY <1>4 DEF ArgsOf, Statements
  <2>8. r.cap # "search"
    BY <1>4 DEF Statements, ByInstrument, Basics, Analysts, Holders, Insiders
  <2>9. Alike(r, q)
    BY <2>1, <2>2 DEF Alike, Agree
  <2> QED BY <2>8, <2>9 DEF Served
<1>5. CASE r.cap = "news"
  <2>1. r.inst = q.inst /\ r.args.count = q.args.count /\ r.args.tab = q.args.tab
    BY <1>5 DEF Key, NewsKey, Statements, ByInstrument, Basics, Analysts, Holders, Insiders
  <2>2. ArgsOf(r.cap) = {"count", "tab"}
    BY <1>5 DEF ArgsOf
  <2>8. r.cap # "search"
    BY <1>5 DEF Statements, ByInstrument, Basics, Analysts, Holders, Insiders
  <2>9. Alike(r, q)
    BY <2>1, <2>2 DEF Alike, Agree
  <2> QED BY <2>8, <2>9 DEF Served
<1>6. CASE r.cap = "option_chain"
  <2>1. r.inst = q.inst /\ r.args.date = q.args.date
    BY <1>6 DEF Key, OptionChainKey, Statements, ByInstrument, Basics, Analysts, Holders, Insiders
  <2>2. ArgsOf(r.cap) = {"date"}
    BY <1>6 DEF ArgsOf
  <2>8. r.cap # "search"
    BY <1>6 DEF Statements, ByInstrument, Basics, Analysts, Holders, Insiders
  <2>9. Alike(r, q)
    BY <2>1, <2>2 DEF Alike, Agree
  <2> QED BY <2>8, <2>9 DEF Served
<1>7. CASE r.cap = "search"
  <2>1. /\ r.args.query = q.args.query /\ r.args.kind = q.args.kind
        /\ r.args.limit = q.args.limit
    BY <1>7 DEF Key, SearchKey, Statements, ByInstrument, Basics, Analysts, Holders, Insiders
  <2>2. r.inst = q.inst
    BY <1>7, RequestsAssumption
  <2>3. ArgsOf(r.cap) \ Locale = {"query", "kind", "limit"}
    BY <1>7 DEF ArgsOf, Locale
  <2>4. AlikeButLocale(r, q)
    BY <2>1, <2>2, <2>3 DEF AlikeButLocale, Agree
  <2> QED BY <1>7, <2>4 DEF Served
<1> QED BY <1>1, <1>2, <1>3, <1>4, <1>5, <1>6, <1>7 DEF Capabilities

\* What a store has for a request was said to one for the same thing.
LEMMA FoundIsAlike ==
    ASSUME NEW store, \A e \in store : e.of \in Requests /\ e = Entry(e.of),
           NEW r \in Requests, NEW e \in Found(store, r)
    PROVE  Served(r, e.of)
<1>1. r.cap \notin Streams /\ e \in store /\ e.cap = r.cap /\ e.key = Key(r)
  BY DEF Found
<1>2. e.cap = e.of.cap /\ e.key = Key(e.of) /\ e.of \in Requests
  BY <1>1 DEF Entry
<1> QED BY <1>1, <1>2, KeysSeparate

LEMMA SelfServed == \A r : Served(r, r)
BY DEF Served, Alike, AlikeButLocale, Agree

-----------------------------------------------------------------------------
(* The stores *)

\* Storing what was loaded for r, of which the store had nothing, leaves one
\* entry for a key.
LEMMA OneMore ==
    ASSUME NEW store, NEW r \in Requests, r.cap \notin Streams, Found(store, r) = {},
           \A e, f \in store : e.cap = f.cap /\ e.key = f.key => e = f
    PROVE  \A e, f \in store \union {Entry(r)} : e.cap = f.cap /\ e.key = f.key => e = f
<1>1. Entry(r).cap = r.cap /\ Entry(r).key = Key(r)
  BY DEF Entry
<1>2. \A e \in store : ~ (e.cap = r.cap /\ e.key = Key(r))
  BY DEF Found
<1> QED BY <1>1, <1>2

\* The builder works before there is a connector.
LEMMA BuilderIsFirst == BuilderNext => connector = None
BY DEF BuilderNext, WithCache, WithBlacklist, WithQuota, WithoutLayer, TuneQuota, AddCustom,
       Reload, Load, Build, Change, Building

\* A store answers only where the connector has a cache.
LEMMA StoresAreCaches ==
    ASSUME NEW r
    PROVE  (HasStore(r) \/ HasNegativeStore(r)) => r.cap \notin Streams
BY DEF HasStore, HasNegativeStore, CacheFor

\* Each step preserves the invariant.
LEMMA InvStep == Inv /\ [CacheNext]_vars => Inv'
<1> SUFFICES ASSUME Inv, [CacheNext]_vars PROVE Inv'
  OBVIOUS
<1> USE DEF Inv
<1>1. CASE BuilderNext /\ UNCHANGED <<positive, negative, reply>>
  <2>1. positive = {} /\ negative = {} /\ reply = None
    BY <1>1, BuilderIsFirst DEF NothingBeforeBuild
  <2> QED BY <1>1, <2>1 DEF StoresInv, ReplyInv, NothingBeforeBuild
<1>2. ASSUME NEW r \in Requests, AnswerError(r) PROVE Inv'
  <2>1. PICK e \in Found(negative, r) : Answer(r, e.of, FALSE, Outermost(CacheFor(r)))
    BY <1>2 DEF AnswerError
  <2>2. Served(r, e.of)
    BY <2>1, FoundIsAlike DEF StoresInv
  <2>3. ReplyInv'
    BY <2>1, <2>2 DEF ReplyInv, Answer
  <2>4. UNCHANGED <<connector, positive, negative>>
    BY <1>2 DEF AnswerError, builderVars
  <2> QED BY <1>2, <2>3, <2>4
      DEF StoresInv, NothingBeforeBuild, AnswerError, Built, HasStore, HasNegativeStore, CacheFor
<1>3. ASSUME NEW r \in Requests, AnswerValue(r) PROVE Inv'
  <2>1. PICK e \in Found(positive, r) : Answer(r, e.of, TRUE, Outermost(CacheFor(r)))
    BY <1>3 DEF AnswerValue
  <2>2. Served(r, e.of)
    BY <2>1, FoundIsAlike DEF StoresInv
  <2>3. ReplyInv'
    BY <2>1, <2>2 DEF ReplyInv, Answer
  <2>4. UNCHANGED <<connector, positive, negative>>
    BY <1>3 DEF AnswerValue, builderVars
  <2> QED BY <1>3, <2>3, <2>4
      DEF StoresInv, NothingBeforeBuild, AnswerValue, Built, HasStore, HasNegativeStore, CacheFor
<1>4. ASSUME NEW r \in Requests, LoadValue(r) PROVE Inv'
  <2>1. UNCHANGED <<connector, negative>> /\ connector # None
    BY <1>4 DEF LoadValue, Missing, Built, builderVars
  <2>2. ReplyInv'
    BY <1>4, SelfServed DEF LoadValue, ReplyInv, Answer
  <2>3. positive' = positive \/ (HasStore(r) /\ positive' = positive \union {Entry(r)})
    BY <1>4 DEF LoadValue
  <2>4. \A e, f \in positive' : e.cap = f.cap /\ e.key = f.key => e = f
    BY <1>4, <2>3, OneMore, StoresAreCaches DEF LoadValue, Missing, StoresInv
  <2>5. \A e \in positive' : e.of \in Requests /\ e = Entry(e.of) /\ HasStore(e.of)
    BY <2>3 DEF StoresInv, Entry
  <2> QED BY <2>1, <2>2, <2>4, <2>5
      DEF StoresInv, NothingBeforeBuild, HasStore, HasNegativeStore, CacheFor
<1>5. ASSUME NEW r \in Requests, NEW permanent \in BOOLEAN, LoadError(r, permanent) PROVE Inv'
  <2>1. UNCHANGED <<connector, positive>> /\ connector # None
    BY <1>5 DEF LoadError, Missing, Built, builderVars
  <2>2. ReplyInv'
    BY <1>5, SelfServed DEF LoadError, ReplyInv, Answer
  <2>3. negative' = negative \/ (HasNegativeStore(r) /\ negative' = negative \union {Entry(r)})
    BY <1>5 DEF LoadError
  <2>4. \A e, f \in negative' : e.cap = f.cap /\ e.key = f.key => e = f
    BY <1>5, <2>3, OneMore, StoresAreCaches DEF LoadError, Missing, StoresInv
  <2>5. \A e \in negative' : e.of \in Requests /\ e = Entry(e.of) /\ HasNegativeStore(e.of)
    BY <2>3 DEF StoresInv, Entry
  <2> QED BY <2>1, <2>2, <2>4, <2>5
      DEF StoresInv, NothingBeforeBuild, HasStore, HasNegativeStore, CacheFor
<1>6. CASE EvictValue
  BY <1>6 DEF EvictValue, builderVars, StoresInv, ReplyInv, NothingBeforeBuild, HasStore,
              HasNegativeStore, CacheFor
<1>7. CASE EvictError
  BY <1>7 DEF EvictError, builderVars, StoresInv, ReplyInv, NothingBeforeBuild, HasStore,
              HasNegativeStore, CacheFor
<1>8. CASE UNCHANGED vars
  BY <1>8 DEF vars, builderVars, StoresInv, ReplyInv, NothingBeforeBuild, HasStore,
              HasNegativeStore, CacheFor
<1> QED BY <1>1, <1>2, <1>3, <1>4, <1>5, <1>6, <1>7, <1>8 DEF CacheNext

\* The invariant holds from the start.
THEOREM StoresHold == Spec => []Inv
<1>1. CacheInit => Inv
  BY DEF CacheInit, Init, Inv, StoresInv, ReplyInv, NothingBeforeBuild
<1> QED BY <1>1, InvStep, PTL DEF Spec

\* The invariant says what AnswersMatch does.
LEMMA InvMatches == Inv => AnswersMatch
<1> SUFFICES ASSUME Inv PROVE AnswersMatch
  OBVIOUS
<1> USE DEF Inv
<1>1. ASSUME NEW e \in positive PROVE HasStore(e.of) /\ Found(positive, e.of) = {e}
  <2>1. e.of.cap \notin Streams /\ e.cap = e.of.cap /\ e.key = Key(e.of) /\ HasStore(e.of)
    BY <1>1, StoresAreCaches DEF StoresInv, Entry
  <2>2. \A f \in positive : f.cap = e.cap /\ f.key = e.key => f = e
    BY <1>1 DEF StoresInv
  <2> QED BY <1>1, <2>1, <2>2 DEF Found
<1>2. ASSUME NEW e \in negative PROVE HasNegativeStore(e.of) /\ Found(negative, e.of) = {e}
  <2>1. e.of.cap \notin Streams /\ e.cap = e.of.cap /\ e.key = Key(e.of) /\ HasNegativeStore(e.of)
    BY <1>2, StoresAreCaches DEF StoresInv, Entry
  <2>2. \A f \in negative : f.cap = e.cap /\ f.key = e.key => f = e
    BY <1>2 DEF StoresInv
  <2> QED BY <1>2, <2>1, <2>2 DEF Found
<1> QED BY <1>1, <1>2 DEF AnswersMatch, ReplyInv, Served

\* For every set of requests, every stack and every configuration, the cache
\* answers a request only with what was said to one for the same thing, for a
\* search the same but for language and region, and keeps only what its
\* configuration lets it.
THEOREM CacheAnswersMatch == Spec => []AnswersMatch
BY StoresHold, InvMatches, PTL
-----------------------------------------------------------------------------
(* The layers of a builder *)

\* the layers that a builder may hold
LayerType ==
    {Layer("cache", c) : c \in CacheConfigs} \union {Layer("blacklist", d) : d \in Nat}
    \union {Layer("quota", q) : q \in QuotaType} \union {Layer(name, None) : name \in Customs}

Members(ls) == {ls[i] : i \in DOMAIN ls}

\* each known layer at most once
Once(ls) == \A i, j \in DOMAIN ls : ls[i].name \in Known /\ ls[i].name = ls[j].name => i = j

\* ... and outside those it belongs outside of
Layered(ls) ==
    \A i, j \in DOMAIN ls :
        i < j /\ ls[i].name \in Known /\ ls[j].name \in Known
            => RankOf(ls[i].name) < RankOf(ls[j].name)

\* Known layers have ranks of their own.
LEMMA Ranks ==
    /\ \A name : RankOf(name) \in 0..3
    /\ \A name, other \in Known : RankOf(name) = RankOf(other) => name = other
<1>1. ASSUME NEW name PROVE RankOf(name) \in 0..3
  <2>1. CASE name = "cache"
    BY <2>1 DEF RankOf
  <2>2. CASE name = "blacklist"
    BY <2>2 DEF RankOf
  <2>3. CASE name = "quota"
    BY <2>3 DEF RankOf
  <2>4. CASE name \notin {"cache", "blacklist", "quota"}
    BY <2>4 DEF RankOf
  <2> QED BY <2>1, <2>2, <2>3, <2>4
<1>2. ASSUME NEW name \in Known, NEW other \in Known, RankOf(name) = RankOf(other)
      PROVE  name = other
  BY <1>2 DEF RankOf, Known
<1> QED BY <1>1, <1>2

\* The members of a list.
LEMMA MembersAre ==
    ASSUME NEW ls, NEW l
    PROVE  l \in Members(ls) <=> \E i \in DOMAIN ls : l = ls[i]
BY DEF Members

\* Layers that are outside one another are there once.
LEMMA LayeredOnce ==
    ASSUME NEW T, NEW ls \in Seq(T), Layered(ls)
    PROVE  Once(ls)
<1> SUFFICES ASSUME NEW i \in DOMAIN ls, NEW j \in DOMAIN ls, ls[i].name \in Known,
                    ls[i].name = ls[j].name, i # j
             PROVE  FALSE
  BY DEF Once
<1>1. i < j \/ j < i
  OBVIOUS
<1>2. RankOf(ls[i].name) < RankOf(ls[j].name) \/ RankOf(ls[j].name) < RankOf(ls[i].name)
  BY <1>1 DEF Layered
<1>3. RankOf(ls[i].name) = RankOf(ls[j].name) /\ RankOf(ls[i].name) \in Int
  BY Ranks
<1> QED BY <1>2, <1>3

\* enforce_ordering keeps the layers, and puts those that are there once
\* outside one another.
LEMMA OrderedIs ==
    ASSUME NEW T, NEW ls \in Seq(T), Once(ls)
    PROVE  Ordered(ls) \in Seq(T) /\ Members(Ordered(ls)) = Members(ls) /\ Layered(Ordered(ls))
<1> DEFINE rank(i) == RankOf(ls[i].name)
           R == {p \in (DOMAIN ls) \X (DOMAIN ls) :
                    \/ rank(p[1]) < rank(p[2])
                    \/ rank(p[1]) = rank(p[2]) /\ p[1] <= p[2]}
           at == InOrder(DOMAIN ls, R)
<1>1. \A i, j \in DOMAIN ls : <<i, j>> \in R <=> rank(i) < rank(j) \/ (rank(i) = rank(j) /\ i <= j)
  OBVIOUS
<1>2. Ordered(ls) = Sorted(ls, R)
  BY DEF Ordered
<1>3. \A i \in DOMAIN ls : i \in Int /\ rank(i) \in Int
  BY Ranks
<1> HIDE DEF R, rank
<1>4. Orders(R, DOMAIN ls)
  <2>1. \A x, y \in DOMAIN ls : <<x, y>> \in R \/ <<y, x>> \in R
    <3> TAKE x, y \in DOMAIN ls
    <3>1. rank(x) \in Int /\ rank(y) \in Int /\ x \in Int /\ y \in Int
      BY <1>3
    <3> QED BY <1>1, <3>1
  <2>2. \A x, y \in DOMAIN ls : <<x, y>> \in R /\ <<y, x>> \in R => x = y
    <3> TAKE x, y \in DOMAIN ls
    <3>1. rank(x) \in Int /\ rank(y) \in Int /\ x \in Int /\ y \in Int
      BY <1>3
    <3> QED BY <1>1, <3>1
  <2>3. \A x, y, z \in DOMAIN ls : <<x, y>> \in R /\ <<y, z>> \in R => <<x, z>> \in R
    <3> TAKE x, y, z \in DOMAIN ls
    <3>1. rank(x) \in Int /\ rank(y) \in Int /\ rank(z) \in Int /\ x \in Int /\ y \in Int /\ z \in Int
      BY <1>3
    <3> QED BY <1>1, <3>1
  <2> QED BY <2>1, <2>2, <2>3 DEF Orders
<1>5. /\ Ordered(ls) \in Seq(T) /\ DOMAIN Ordered(ls) = DOMAIN ls
      /\ \A i \in DOMAIN ls : at[i] \in DOMAIN ls
      /\ \A i, j \in DOMAIN ls : i < j => at[i] # at[j] /\ <<at[i], at[j]>> \in R
      /\ \A x \in DOMAIN ls : \E k \in DOMAIN ls : at[k] = x
      /\ \A k \in DOMAIN ls : Ordered(ls)[k] = ls[at[k]]
  BY <1>2, <1>4, SortedIs
<1> HIDE DEF at
<1>6. Members(Ordered(ls)) = Members(ls)
  <2>1. ASSUME NEW l PROVE l \in Members(Ordered(ls)) <=> l \in Members(ls)
    <3>1. ASSUME NEW k \in DOMAIN ls PROVE \E i \in DOMAIN ls : Ordered(ls)[k] = ls[i]
      BY <1>5
    <3>2. ASSUME NEW i \in DOMAIN ls PROVE \E k \in DOMAIN ls : Ordered(ls)[k] = ls[i]
      <4>1. PICK k \in DOMAIN ls : at[k] = i
        BY <1>5
      <4> QED BY <1>5, <4>1
    <3> QED BY <1>5, <3>1, <3>2, MembersAre
  <2> QED BY <2>1
<1>7. Layered(Ordered(ls))
  <2> SUFFICES ASSUME NEW i \in DOMAIN ls, NEW j \in DOMAIN ls, i < j,
                      Ordered(ls)[i].name \in Known, Ordered(ls)[j].name \in Known
               PROVE  RankOf(Ordered(ls)[i].name) < RankOf(Ordered(ls)[j].name)
    BY <1>5 DEF Layered
  <2>0. Ordered(ls)[i] = ls[at[i]] /\ Ordered(ls)[j] = ls[at[j]]
    BY <1>5
  <2>1. at[i] \in DOMAIN ls /\ at[j] \in DOMAIN ls /\ at[i] # at[j] /\ <<at[i], at[j]>> \in R
    BY <1>5
  <2>2. ls[at[i]].name # ls[at[j]].name
    BY <2>0, <2>1 DEF Once
  <2>3. rank(at[i]) # rank(at[j])
    BY <2>0, <2>2, Ranks DEF rank
  <2>4. rank(at[i]) < rank(at[j])
    BY <1>1, <2>1, <2>3
  <2> QED BY <2>0, <2>4 DEF rank
<1> QED BY <1>5, <1>6, <1>7

\* What a filter keeps of the layers is in the order it was in.
LEMMA KeptIs ==
    ASSUME NEW T, NEW ls \in Seq(T), NEW P \in SUBSET DOMAIN ls
    PROVE  /\ Selected(ls, P) \in Seq(T) /\ Members(Selected(ls, P)) = {ls[i] : i \in P}
           /\ Once(ls) => Once(Selected(ls, P))
           /\ Layered(ls) => Layered(Selected(ls, P))
<1> DEFINE kept == Selected(ls, P)
           at == Ascending(P)
           n == Cardinality(P)
<1>1. /\ kept \in Seq(T) /\ DOMAIN kept = 1..n /\ n \in Nat
      /\ \A k \in 1..n : at[k] \in P
      /\ \A i, j \in 1..n : i < j => at[i] < at[j]
      /\ \A x \in P : \E k \in 1..n : at[k] = x
      /\ \A k \in 1..n : kept[k] = ls[at[k]]
  <2>1. P \in SUBSET (1..Len(ls))
    OBVIOUS
  <2>2. /\ kept \in Seq(T) /\ Len(kept) = n /\ n \in Nat /\ at \in [1..n -> P]
        /\ \A i, j \in 1..n : i < j => at[i] < at[j]
        /\ \A x \in P : \E k \in 1..n : at[k] = x
        /\ \A k \in 1..n : kept[k] = ls[at[k]]
    BY <2>1, SelectedIs
  <2> HIDE DEF kept, at, n
  <2> QED BY <2>2
<1> HIDE DEF kept, at, n
<1>2. Members(kept) = {ls[i] : i \in P}
  <2>1. ASSUME NEW l PROVE l \in Members(kept) <=> \E i \in P : l = ls[i]
    <3>1. (\E k \in 1..n : l = kept[k]) <=> \E i \in P : l = ls[i]
      BY <1>1
    <3> QED BY <1>1, <3>1, MembersAre
  <2> QED BY <2>1
<1>3. Once(ls) => Once(kept)
  <2> SUFFICES ASSUME Once(ls), NEW i \in 1..n, NEW j \in 1..n, kept[i].name \in Known,
                      kept[i].name = kept[j].name
               PROVE  i = j
    BY <1>1 DEF Once
  <2>1. at[i] = at[j]
    BY <1>1 DEF Once
  <2>2. at[i] \in Int /\ at[j] \in Int
    BY <1>1
  <2> QED BY <1>1, <2>1, <2>2
<1>4. Layered(ls) => Layered(kept)
  <2> SUFFICES ASSUME Layered(ls), NEW i \in 1..n, NEW j \in 1..n, i < j,
                      kept[i].name \in Known, kept[j].name \in Known
               PROVE  RankOf(kept[i].name) < RankOf(kept[j].name)
    BY <1>1 DEF Layered
  <2>1. at[i] \in DOMAIN ls /\ at[j] \in DOMAIN ls /\ at[i] < at[j]
    BY <1>1
  <2> QED BY <1>1, <2>1 DEF Layered
<1> QED BY <1>1, <1>2, <1>3, <1>4 DEF kept

\* A layer put at either end.
LEMMA AddedIs ==
    ASSUME NEW T, NEW ls \in Seq(T), NEW l \in T
    PROVE  /\ <<l>> \o ls \in Seq(T) /\ Append(ls, l) \in Seq(T)
           /\ Members(<<l>> \o ls) = Members(ls) \union {l}
           /\ Members(Append(ls, l)) = Members(ls) \union {l}
           /\ Once(ls) /\ (\A m \in Members(ls) : l.name \in Known => m.name # l.name)
                => Once(<<l>> \o ls) /\ Once(Append(ls, l))
           /\ Layered(ls) /\ l.name \notin Known => Layered(<<l>> \o ls)
<1> DEFINE front == <<l>> \o ls
           back == Append(ls, l)
           n == Len(ls)
<1>1. /\ n \in Nat /\ DOMAIN ls = 1..n
      /\ front \in Seq(T) /\ DOMAIN front = 1..(n + 1) /\ front[1] = l
      /\ \A i \in 1..n : front[i + 1] = ls[i]
      /\ back \in Seq(T) /\ DOMAIN back = 1..(n + 1) /\ back[n + 1] = l
      /\ \A i \in 1..n : back[i] = ls[i]
  OBVIOUS
<1> HIDE DEF front, back, n
<1>2. \A i \in 1..(n + 1) : i = 1 \/ (i - 1 \in 1..n /\ front[i] = ls[i - 1])
  <2> SUFFICES ASSUME NEW i \in 1..(n + 1), i # 1 PROVE i - 1 \in 1..n /\ front[i] = ls[i - 1]
    OBVIOUS
  <2>1. i - 1 \in 1..n /\ (i - 1) + 1 = i
    BY <1>1
  <2> QED BY <1>1, <2>1
<1>3. \A i \in 1..(n + 1) : i = n + 1 \/ (i \in 1..n /\ back[i] = ls[i])
  BY <1>1
<1>4. \A m : m \in Members(ls) <=> \E i \in 1..n : m = ls[i]
  BY <1>1 DEF Members
<1>5. Members(front) = Members(ls) \union {l}
  <2>1. \A m : m \in Members(front) <=> \E i \in 1..(n + 1) : m = front[i]
    BY <1>1 DEF Members
  <2>2. \A i \in 1..n : i + 1 \in 1..(n + 1)
    BY <1>1
  <2>3. 1 \in 1..(n + 1)
    BY <1>1
  <2> QED BY <1>1, <1>2, <1>4, <2>1, <2>2, <2>3
<1>6. Members(back) = Members(ls) \union {l}
  <2>1. \A m : m \in Members(back) <=> \E i \in 1..(n + 1) : m = back[i]
    BY <1>1 DEF Members
  <2>2. \A i \in 1..n : i \in 1..(n + 1)
    BY <1>1
  <2>3. n + 1 \in 1..(n + 1)
    BY <1>1
  <2> QED BY <1>1, <1>3, <1>4, <2>1, <2>2, <2>3
<1>7. ASSUME Once(ls), \A m \in Members(ls) : l.name \in Known => m.name # l.name
      PROVE  Once(front) /\ Once(back)
  <2>1. \A i \in 1..n : l.name \in Known => ls[i].name # l.name
    BY <1>4, <1>7
  <2>2. \A i, j \in 1..n : ls[i].name \in Known /\ ls[i].name = ls[j].name => i = j
    BY <1>1, <1>7 DEF Once
  <2>3. \A i, j \in 1..(n + 1) : front[i].name \in Known /\ front[i].name = front[j].name => i = j
    <3> TAKE i, j \in 1..(n + 1)
    <3>1. CASE i = 1 \/ j = 1
      <4>1. front[1] = l
        BY <1>1
      <4>2. ASSUME NEW k \in 1..(n + 1), k # 1
            PROVE  ~(front[k].name \in Known /\ front[k].name = l.name)
        <5>1. k - 1 \in 1..n /\ front[k] = ls[k - 1]
          BY <1>2, <4>2
        <5> QED BY <2>1, <5>1
      <4> QED BY <3>1, <4>1, <4>2
    <3>2. CASE i # 1 /\ j # 1
      <4>1. i - 1 \in 1..n /\ front[i] = ls[i - 1] /\ j - 1 \in 1..n /\ front[j] = ls[j - 1]
        BY <1>2, <3>2
      <4>2. i - 1 = j - 1 => i = j
        OBVIOUS
      <4> QED BY <2>2, <4>1, <4>2
    <3> QED BY <3>1, <3>2
  <2>4. \A i, j \in 1..(n + 1) : back[i].name \in Known /\ back[i].name = back[j].name => i = j
    BY <1>1, <1>3, <2>1, <2>2
  <2> QED BY <1>1, <2>3, <2>4 DEF Once
<1>8. ASSUME Layered(ls), l.name \notin Known PROVE Layered(front)
  <2> SUFFICES ASSUME NEW i \in 1..(n + 1), NEW j \in 1..(n + 1), i < j,
                      front[i].name \in Known, front[j].name \in Known
               PROVE  RankOf(front[i].name) < RankOf(front[j].name)
    BY <1>1 DEF Layered
  <2>1. i # 1 /\ j # 1
    BY <1>1, <1>8
  <2>2. i - 1 \in 1..n /\ front[i] = ls[i - 1] /\ j - 1 \in 1..n /\ front[j] = ls[j - 1]
    BY <1>2, <2>1
  <2>3. i - 1 < j - 1
    OBVIOUS
  <2> QED BY <1>1, <1>8, <2>2, <2>3 DEF Layered
<1> QED BY <1>1, <1>5, <1>6, <1>7, <1>8 DEF front, back

\* new is ls with each layer rewritten.
Rewrites(new, ls, f) == new = [i \in DOMAIN ls |-> f[ls[i]]]

\* Layers that are rewritten one by one, under their names.
LEMMA RewrittenIs ==
    ASSUME NEW T, NEW ls \in Seq(T), NEW U, NEW f \in [T -> U],
           \A l \in T : f[l].name = l.name,
           NEW new, Rewrites(new, ls, f)
    PROVE  /\ new \in Seq(U) /\ DOMAIN new = DOMAIN ls
           /\ \A i \in DOMAIN ls : new[i] = f[ls[i]] /\ new[i].name = ls[i].name
           /\ Members(new) = {f[l] : l \in Members(ls)}
           /\ Once(ls) => Once(new)
           /\ Layered(ls) => Layered(new)
<1>1. \A i \in DOMAIN ls : ls[i] \in T
  OBVIOUS
<1>2. new \in Seq(U) /\ DOMAIN new = DOMAIN ls
  <2>1. Len(ls) \in Nat /\ DOMAIN ls = 1..Len(ls)
    OBVIOUS
  <2>2. \A i \in 1..Len(ls) : f[ls[i]] \in U
    BY <1>1, <2>1
  <2> QED BY <2>1, <2>2 DEF Rewrites
<1>3. \A i \in DOMAIN ls : new[i] = f[ls[i]] /\ new[i].name = ls[i].name
  BY <1>1 DEF Rewrites
<1>4. ASSUME NEW l PROVE l \in Members(new) <=> \E m \in Members(ls) : l = f[m]
  <2>1. (\E i \in DOMAIN ls : l = new[i]) <=> \E i \in DOMAIN ls : l = f[ls[i]]
    BY <1>3
  <2> QED BY <1>2, <2>1 DEF Members
<1>5. Once(ls) => Once(new)
  BY <1>2, <1>3 DEF Once
<1>6. Layered(ls) => Layered(new)
  BY <1>2, <1>3 DEF Layered
<1> QED BY <1>2, <1>3, <1>4, <1>5, <1>6

\* A layer of a stack that the builder makes sense of.
Readable(l) ==
    /\ l.name = "quota" => {l.json.limit, l.json.window} \subseteq Nat \union {None}
    /\ l.name = "blacklist" => l.json.duration \in Nat \union {None}
    /\ l.name = "cache" => ParseCache(l.json) \in CacheConfigs

Read(l) == Layer(l.name, Parse(l))
Wrote(l) == [name |-> l.name, json |-> Json(l)]

\* The layers of a builder by their names.
LEMMA LayersAre ==
    ASSUME NEW l \in LayerType
    PROVE  /\ l = Layer(l.name, l.config) /\ l.name \in Known \union Customs
           /\ l.name = "quota" => l.config \in QuotaType
           /\ l.name = "blacklist" => l.config \in Nat
           /\ l.name = "cache" => l.config \in CacheConfigs
           /\ l.name \in Known => l.config # None
BY NoneAssumption, CustomsAssumption DEF LayerType, Layer, Known

\* Durations in milliseconds and back are durations.
LEMMA MsIs == \A n \in Nat : Ms(n) \in Nat /\ FromMs(n) \in Nat
<1>1. ASSUME NEW n \in Nat PROVE n \div TicksPerMs \in Nat
  BY TicksAssumption
<1>2. ASSUME NEW n \in Nat PROVE n * TicksPerMs \in Nat
  BY TicksAssumption
<1> QED BY <1>1, <1>2 DEF Ms, FromMs

\* What is read of a known layer is a configuration of its kind.
LEMMA ReadIs ==
    ASSUME NEW l, l.name \in Known, Readable(l)
    PROVE  Read(l) \in LayerType /\ Read(l).name = l.name
<1>1. Read(l).name = l.name
  BY DEF Read, Layer
<1>2. CASE l.name = "quota"
  <2>1. OrDefault(l.json.limit, 1) \in Nat /\ OrDefault(l.json.window, 60000) \in Nat
    BY <1>2 DEF Readable, OrDefault
  <2>2. ParseQuota(l.json) \in QuotaType
    BY <2>1, MsIs DEF ParseQuota, QuotaType, StrategyType
  <2>3. Parse(l) = ParseQuota(l.json)
    BY <1>2 DEF Parse
  <2> QED BY <1>1, <1>2, <2>2, <2>3 DEF Read, LayerType
<1>3. CASE l.name = "blacklist"
  <2>1. OrDefault(l.json.duration, 300000) \in Nat
    BY <1>3 DEF Readable, OrDefault
  <2>2. Parse(l) = ParseBlacklist(l.json) /\ ParseBlacklist(l.json) \in Nat
    BY <1>3, <2>1, MsIs DEF Parse, ParseBlacklist
  <2> QED BY <1>1, <1>3, <2>2 DEF Read, LayerType
<1>4. CASE l.name = "cache"
  <2>1. Parse(l) = ParseCache(l.json) /\ ParseCache(l.json) \in CacheConfigs
    BY <1>4 DEF Parse, Readable
  <2> QED BY <1>1, <1>4, <2>1 DEF Read, LayerType
<1> QED BY <1>2, <1>3, <1>4 DEF Known

\* What the builder writes can be read, ...
LEMMA WroteReadable ==
    ASSUME NEW l \in LayerType, l.name \in Known
    PROVE  Readable(Wrote(l)) /\ Wrote(l).name = l.name
<1>1. Wrote(l).name = l.name /\ Wrote(l).json = Json(l)
  BY DEF Wrote
<1>2. CASE l.name = "quota"
  <2>1. l.config \in QuotaType /\ Json(l) = QuotaJson(l.config)
    BY <1>2, LayersAre DEF Json
  <2>2. Json(l).limit \in Nat /\ Json(l).window \in Nat
    BY <2>1, MsIs DEF QuotaJson, QuotaType
  <2> QED BY <1>1, <1>2, <2>2 DEF Readable
<1>3. CASE l.name = "blacklist"
  <2>1. l.config \in Nat /\ Json(l) = BlacklistJson(l.config)
    BY <1>3, LayersAre DEF Json
  <2>2. Json(l).duration \in Nat
    BY <2>1, MsIs DEF BlacklistJson
  <2> QED BY <1>1, <1>3, <2>2 DEF Readable
<1>4. CASE l.name = "cache"
  <2>1. l.config \in CacheConfigs /\ Json(l) = l.config
    BY <1>4, LayersAre DEF Json
  <2> QED BY <1>1, <1>4, <2>1, CachesAssumption DEF Readable
<1> QED BY <1>2, <1>3, <1>4 DEF Known

\* ... and so can what is written by hand.
LEMMA WrittenReadable == \A l \in Written : Readable(l)
BY StacksAssumption DEF Readable, CacheConfigs

\* from_stack: the known layers, each as it is read.
LEMMA ImportedIs ==
    ASSUME NEW T, NEW stack \in Seq(T), Once(stack),
           \A l \in T : l.name \in Known => Readable(l)
    PROVE  /\ Imported(stack) \in Seq(LayerType) /\ Layered(Imported(stack))
           /\ Members(Imported(stack)) =
                 {Read(l) : l \in {stack[i] : i \in {j \in DOMAIN stack : stack[j].name \in Known}}}
<1> DEFINE P == {i \in DOMAIN stack : stack[i].name \in Known}
           found == Selected(stack, P)
           K == {l \in T : l.name \in Known}
           f == [l \in K |-> Read(l)]
           read == [i \in DOMAIN found |-> f[found[i]]]
<1>1. found \in Seq(T) /\ Members(found) = {stack[i] : i \in P} /\ Once(found)
  BY KeptIs
<1>2. \A i \in DOMAIN found : found[i] \in K
  <2> HIDE DEF found
  <2>1. \A i \in DOMAIN found : found[i] \in T /\ found[i] \in Members(found)
    BY <1>1 DEF Members
  <2> QED BY <1>1, <2>1
<1>3. found \in Seq(K)
  <2> HIDE DEF found, K
  <2> QED BY <1>1, <1>2
<1>4. f \in [K -> LayerType] /\ \A l \in K : f[l] = Read(l) /\ f[l].name = l.name
  BY ReadIs
<1>5. Imported(stack) = Ordered(read)
  <2>1. Imported(stack) = Ordered([i \in DOMAIN found |-> Read(found[i])])
    BY DEF Imported, Read
  <2> HIDE DEF found, K
  <2>2. read = [i \in DOMAIN found |-> Read(found[i])]
    BY <1>2
  <2> QED BY <2>1, <2>2
<1> HIDE DEF found, K, f, P
<1>6. read \in Seq(LayerType) /\ Members(read) = {f[l] : l \in Members(found)} /\ Once(read)
  <2>1. Rewrites(read, found, f)
    BY DEF Rewrites
  <2> HIDE DEF read
  <2> QED BY <1>1, <1>3, <1>4, <2>1, RewrittenIs
<1> HIDE DEF read
<1>7. Members(Imported(stack)) = Members(read)
  BY <1>5, <1>6, OrderedIs
<1>8. Members(read) = {Read(l) : l \in {stack[i] : i \in P}}
  <2>1. Members(found) \subseteq K
    BY <1>2 DEF Members
  <2> QED BY <1>1, <1>4, <1>6, <2>1
<1> QED BY <1>5, <1>6, <1>7, <1>8, OrderedIs DEF P

\* the layers of an exported stack
Raw == [name |-> "RawConnector", json |-> None]
Export == {Wrote(l) : l \in LayerType} \union {Raw}

\* to_stack: every layer as it is written, and the connector.
LEMMA ExportedIs ==
    ASSUME layers \in Seq(LayerType), Once(layers)
    PROVE  /\ Exported \in Seq(Export) /\ Once(Exported)
           /\ \A l \in Export : l.name \in Known => Readable(l)
           /\ Members(Exported) = {Wrote(l) : l \in Members(layers)} \union {Raw}
<1> DEFINE f == [l \in LayerType |-> Wrote(l)]
           wrote == [i \in DOMAIN layers |-> f[layers[i]]]
<1>1. f \in [LayerType -> Export] /\ \A l \in LayerType : f[l] = Wrote(l) /\ f[l].name = l.name
  BY DEF Export, Wrote
<1>2. \A i \in DOMAIN layers : layers[i] \in LayerType
  OBVIOUS
<1>3. Exported = Append(wrote, Raw)
  <2>1. Exported = Append([i \in DOMAIN layers |-> Wrote(layers[i])], Raw)
    BY DEF Exported, Wrote, Raw
  <2>2. wrote = [i \in DOMAIN layers |-> Wrote(layers[i])]
    BY <1>2
  <2> QED BY <2>1, <2>2
<1>4. wrote \in Seq(Export) /\ Once(wrote) /\ Members(wrote) = {f[l] : l \in Members(layers)}
  <2>1. Rewrites(wrote, layers, f)
    BY DEF Rewrites
  <2>2. f \in [LayerType -> Export] /\ \A l \in LayerType : f[l].name = l.name
    BY <1>1
  <2> HIDE DEF wrote, f
  <2> QED BY <2>1, <2>2, RewrittenIs, SMTT(60)
<1>5. Members(wrote) = {Wrote(l) : l \in Members(layers)}
  <2>1. Members(layers) \subseteq LayerType
    BY <1>2 DEF Members
  <2> QED BY <1>1, <1>4, <2>1
<1> HIDE DEF wrote, f
<1>6. Raw \in Export /\ Raw.name \notin Known
  BY DEF Raw, Export, Known
<1>7. Exported \in Seq(Export) /\ Once(Exported) /\ Members(Exported) = Members(wrote) \union {Raw}
  <2>1. wrote \in Seq(Export) /\ Once(wrote) /\ Raw \in Export
    BY <1>4, <1>6
  <2>2. \A m \in Members(wrote) : Raw.name \in Known => m.name # Raw.name
    BY <1>6
  <2>3. /\ Append(wrote, Raw) \in Seq(Export) /\ Once(Append(wrote, Raw))
        /\ Members(Append(wrote, Raw)) = Members(wrote) \union {Raw}
    <3>1. /\ <<Raw>> \o wrote \in Seq(Export) /\ Append(wrote, Raw) \in Seq(Export)
          /\ Members(<<Raw>> \o wrote) = Members(wrote) \union {Raw}
          /\ Members(Append(wrote, Raw)) = Members(wrote) \union {Raw}
          /\ Once(<<Raw>> \o wrote) /\ Once(Append(wrote, Raw))
      BY <2>1, <2>2, AddedIs
    <3> QED BY <3>1
  <2> QED BY <1>3, <2>3
<1>8. \A l \in Export : l.name \in Known => Readable(l)
  <2> SUFFICES ASSUME NEW l \in Export, l.name \in Known PROVE Readable(l)
    OBVIOUS
  <2>1. PICK m \in LayerType : l = Wrote(m)
    BY <1>6 DEF Export
  <2>2. m.name \in Known
    BY <2>1 DEF Wrote
  <2> QED BY <2>1, <2>2, WroteReadable
<1> QED BY <1>5, <1>7, <1>8

\* Exporting and importing leaves each known layer, read as it was written.
LEMMA ReloadedIs ==
    ASSUME layers \in Seq(LayerType), Once(layers)
    PROVE  /\ Imported(Exported) \in Seq(LayerType) /\ Layered(Imported(Exported))
           /\ Members(Imported(Exported)) =
                 {Read(Wrote(l)) : l \in {m \in Members(layers) : m.name \in Known}}
<1>1. /\ Exported \in Seq(Export) /\ Once(Exported)
      /\ \A l \in Export : l.name \in Known => Readable(l)
      /\ Members(Exported) = {Wrote(l) : l \in Members(layers)} \union {Raw}
  BY ExportedIs
<1>2. /\ Imported(Exported) \in Seq(LayerType) /\ Layered(Imported(Exported))
      /\ Members(Imported(Exported)) =
            {Read(l) : l \in {Exported[i] : i \in {j \in DOMAIN Exported : Exported[j].name \in Known}}}
  BY SMTT(30), <1>1, ImportedIs
<1>3. \A l : l \in {Exported[i] : i \in {j \in DOMAIN Exported : Exported[j].name \in Known}}
             <=> l \in Members(Exported) /\ l.name \in Known
  BY DEF Members
<1>4. Raw.name \notin Known
  BY DEF Raw, Known
<1>5. \A l : Wrote(l).name = l.name
  BY DEF Wrote
<1>6. \A l : l \in {Exported[i] : i \in {j \in DOMAIN Exported : Exported[j].name \in Known}}
             <=> \E m \in Members(layers) : m.name \in Known /\ l = Wrote(m)
  BY <1>1, <1>3, <1>4, <1>5
<1> QED BY ZenonT(40), <1>2, <1>6

\* A stack written by hand is one that can be imported.
LEMMA LoadedIs ==
    ASSUME NEW stack \in Stacks
    PROVE  /\ Imported(stack) \in Seq(LayerType) /\ Layered(Imported(stack))
           /\ Members(Imported(stack)) =
                 {Read(l) : l \in {stack[i] : i \in {j \in DOMAIN stack : stack[j].name \in Known}}}
<1>1. stack \in Seq(Written) /\ Once(stack)
  BY StacksAssumption DEF Once
<1> QED BY <1>1, WrittenReadable, ImportedIs

-----------------------------------------------------------------------------
(* The order of the layers *)

\* Each custom layer has what it requires where it requires it.
Satisfied(stack) ==
    \A i \in DOMAIN stack : stack[i].name \in Customs =>
        /\ \A name \in Outer[stack[i].name] : \E j \in DOMAIN stack : stack[j].name = name /\ j < i
        /\ \A name \in Inner[stack[i].name] : \E j \in DOMAIN stack : stack[j].name = name /\ i < j

BuilderInv ==
    /\ layers \in Seq(LayerType) /\ Layered(layers)
    /\ connector \notin {None, Refused} =>
          connector \in Seq(Wrappers) /\ Layered(connector) /\ Satisfied(connector)

\* A layer put in its place keeps the layers in order.
LEMMA PlacedIs ==
    ASSUME layers \in Seq(LayerType), Layered(layers), NEW l \in LayerType, l.name \in Known
    PROVE  LET kept == Without(l.name)
           IN  /\ Ordered(<<l>> \o kept) \in Seq(LayerType) /\ Layered(Ordered(<<l>> \o kept))
               /\ Ordered(Append(kept, l)) \in Seq(LayerType) /\ Layered(Ordered(Append(kept, l)))
               /\ Members(Ordered(<<l>> \o kept)) = {m \in Members(layers) : m.name # l.name} \union {l}
               /\ Members(Ordered(Append(kept, l))) = {m \in Members(layers) : m.name # l.name} \union {l}
<1> DEFINE kept == Without(l.name)
<1>1. Once(layers)
  BY LayeredOnce
<1>2. kept \in Seq(LayerType) /\ Once(kept)
      /\ Members(kept) = {layers[i] : i \in {j \in DOMAIN layers : layers[j].name # l.name}}
  BY <1>1, KeptIs DEF Without
<1> HIDE DEF kept
<1>3. Members(kept) = {m \in Members(layers) : m.name # l.name}
  BY <1>2 DEF Members
<1>4. /\ <<l>> \o kept \in Seq(LayerType) /\ Append(kept, l) \in Seq(LayerType)
      /\ Members(<<l>> \o kept) = Members(kept) \union {l}
      /\ Members(Append(kept, l)) = Members(kept) \union {l}
      /\ Once(<<l>> \o kept) /\ Once(Append(kept, l))
  BY <1>2, <1>3, AddedIs
<1>5. /\ Ordered(<<l>> \o kept) \in Seq(LayerType) /\ Layered(Ordered(<<l>> \o kept))
      /\ Members(Ordered(<<l>> \o kept)) = Members(<<l>> \o kept)
  BY <1>4, OrderedIs
<1>6. /\ Ordered(Append(kept, l)) \in Seq(LayerType) /\ Layered(Ordered(Append(kept, l)))
      /\ Members(Ordered(Append(kept, l))) = Members(Append(kept, l))
  BY <1>4, OrderedIs
<1> QED BY <1>3, <1>4, <1>5, <1>6 DEF kept

\* A list in order replaces the layers.
LEMMA ChangedIs ==
    ASSUME BuilderInv, NEW ls, Change(ls), ls \in Seq(LayerType), Layered(ls)
    PROVE  BuilderInv' /\ layers' = ls /\ connector = None /\ connector' = None
BY DEF BuilderInv, Change, Building, Layered

\* with_cache, with_blacklist, with_quota
LEMMA SetStep ==
    ASSUME BuilderInv, NEW l \in LayerType, l.name \in Known,
           \/ Change(Ordered(<<l>> \o Without(l.name)))
           \/ Change(Ordered(Append(Without(l.name), l)))
    PROVE  /\ BuilderInv' /\ connector = None /\ connector' = None
           /\ Members(layers') = {m \in Members(layers) : m.name # l.name} \union {l}
BY PlacedIs, ChangedIs DEF BuilderInv

\* without_cache and the like
LEMMA ClearStep ==
    ASSUME BuilderInv, NEW name \in Known, WithoutLayer(name)
    PROVE  /\ BuilderInv' /\ connector = None /\ connector' = None
           /\ Members(layers') = {m \in Members(layers) : m.name # name}
<1>1. /\ Without(name) \in Seq(LayerType) /\ Layered(Without(name))
      /\ Members(Without(name)) =
            {layers[i] : i \in {j \in DOMAIN layers : layers[j].name # name}}
  BY KeptIs DEF BuilderInv, Without
<1>2. Members(Without(name)) = {m \in Members(layers) : m.name # name}
  BY <1>1 DEF Members
<1> QED BY <1>1, <1>2, ChangedIs DEF WithoutLayer

\* layer()
LEMMA CustomStep ==
    ASSUME BuilderInv, NEW c \in Customs, AddCustom(c)
    PROVE  /\ BuilderInv' /\ connector = None /\ connector' = None
           /\ Members(layers') = Members(layers) \union {Layer(c, None)}
<1>1. Layer(c, None) \in LayerType /\ Layer(c, None).name \notin Known
  BY CustomsAssumption DEF LayerType, Layer
<1>2. /\ <<Layer(c, None)>> \o layers \in Seq(LayerType)
      /\ Append(layers, Layer(c, None)) \in Seq(LayerType)
      /\ Members(<<Layer(c, None)>> \o layers) = Members(layers) \union {Layer(c, None)}
      /\ Layered(<<Layer(c, None)>> \o layers)
  BY <1>1, AddedIs DEF BuilderInv
<1>3. Change(<<Layer(c, None)>> \o layers)
  BY DEF AddCustom
<1> QED BY <1>2, <1>3, ChangedIs

\* The settings of the quota, as they are read before one of them is changed.
LEMMA ExistingIs ==
    ASSUME BuilderInv
    PROVE  /\ ExistingQuota \in QuotaType
           /\ \A l \in Members(layers) : l.name = "quota" =>
                  ExistingQuota = ParseQuota(QuotaJson(l.config))
           /\ (\A l \in Members(layers) : l.name # "quota") => ExistingQuota = DefaultQuota
<1> DEFINE quotas == {i \in DOMAIN layers : layers[i].name = "quota"}
           first == CHOOSE i \in quotas : \A j \in quotas : i <= j
<1>1. layers \in Seq(LayerType) /\ Once(layers)
  BY LayeredOnce DEF BuilderInv
<1>2. ExistingQuota = IF quotas = {} THEN DefaultQuota
                      ELSE [limit |-> QuotaJson(layers[first].config).limit,
                            window |-> FromMs(QuotaJson(layers[first].config).window),
                            strategy |-> OrDefault(QuotaJson(layers[first].config).strategy,
                                                   DefaultQuota.strategy)]
  BY DEF ExistingQuota
<1>3. DefaultQuota \in QuotaType
  BY MsIs DEF DefaultQuota, QuotaType, StrategyType
<1>4. CASE quotas = {}
  <2>1. \A l \in Members(layers) : l.name # "quota"
    BY <1>4 DEF Members
  <2> QED BY <1>2, <1>3, <1>4, <2>1
<1>5. CASE quotas # {}
  <2>1. PICK i \in DOMAIN layers : layers[i].name = "quota"
    BY <1>5
  <2>2. \A j \in quotas : j = i
    BY <1>1, <2>1 DEF Once, Known
  <2>3. i \in quotas /\ i \in Int
    BY <1>1, <2>1
  <2>4. first = i
    BY <2>2, <2>3
  <2> DEFINE q == layers[i].config
  <2>5. layers[i] \in LayerType
    BY <1>1
  <2>6. q \in QuotaType
    BY <2>1, <2>5, LayersAre
  <2> HIDE DEF first, q
  <2>7. ExistingQuota = [limit |-> QuotaJson(q).limit, window |-> FromMs(QuotaJson(q).window),
                         strategy |-> OrDefault(QuotaJson(q).strategy, DefaultQuota.strategy)]
    BY <1>2, <1>5, <2>4 DEF q
  <2>8. /\ QuotaJson(q).limit = q.limit /\ QuotaJson(q).window = Ms(q.window)
        /\ QuotaJson(q).strategy = q.strategy
    BY DEF QuotaJson
  <2>9. /\ q.limit \in Nat /\ Ms(q.window) \in Nat /\ FromMs(Ms(q.window)) \in Nat
        /\ q.strategy \in {"Unit", "EvenSpreadHourly", "Weighted"}
    BY <2>6, MsIs DEF QuotaType, StrategyType
  <2>10. OrDefault(q.strategy, DefaultQuota.strategy) = q.strategy
    <3>1. DefaultQuota.strategy = "Unit"
      BY DEF DefaultQuota
    <3>2. q.strategy # None
      BY <2>9, NoneAssumption DEF StrategyType
    <3> QED BY <3>2 DEF OrDefault
  <2>11. ExistingQuota = [limit |-> q.limit, window |-> FromMs(Ms(q.window)), strategy |-> q.strategy]
    BY <2>7, <2>8, <2>10
  <2>12. ExistingQuota \in QuotaType
    BY <2>9, <2>11 DEF QuotaType, StrategyType
  <2>13. ParseQuota(QuotaJson(q)) = ExistingQuota
    <3>1. None \notin Nat
      BY NoneAssumption
    <3>2. OrDefault(q.limit, 1) = q.limit /\ OrDefault(Ms(q.window), 60000) = Ms(q.window)
      BY <2>9, <3>1 DEF OrDefault
    <3>3. (IF q.strategy \in {"EvenSpreadHourly", "Weighted"} THEN q.strategy ELSE "Unit") = q.strategy
      BY <2>9
    <3> QED BY <2>8, <2>11, <3>2, <3>3 DEF ParseQuota
  <2>14. \A l \in Members(layers) : l.name = "quota" => l = layers[i]
    BY <2>2 DEF Members
  <2>15. layers[i] \in Members(layers)
    BY <2>1 DEF Members
  <2> QED BY <2>1, <2>12, <2>13, <2>14, <2>15 DEF q
<1> QED BY <1>4, <1>5

\* What quota_limit, quota_window and quota_strategy set is a configuration.
LEMMA TunedIs ==
    ASSUME BuilderInv, NEW field, NEW value,
           \/ field = "limit" /\ value \in Limits
           \/ field = "window" /\ value \in Durations
           \/ field = "strategy" /\ value \in Strategies
    PROVE  [ExistingQuota EXCEPT ![field] = value] \in QuotaType
<1>1. ExistingQuota \in QuotaType
  BY ExistingIs
<1>2. CASE field = "limit" /\ value \in Limits
  BY <1>1, <1>2, ConfigsAssumption DEF QuotaType
<1>3. CASE field = "window" /\ value \in Durations
  BY <1>1, <1>3, ConfigsAssumption DEF QuotaType
<1>4. CASE field = "strategy" /\ value \in Strategies
  BY <1>1, <1>4, ConfigsAssumption DEF QuotaType
<1> QED BY <1>2, <1>3, <1>4

\* The layers that the setters put in.
LEMMA SettersLayers ==
    /\ \A c \in Caches : Layer("cache", c) \in LayerType
    /\ \A d \in Durations : Layer("blacklist", d) \in LayerType
    /\ \A q \in QuotaType : Layer("quota", q) \in LayerType
    /\ \A name, config : Layer(name, config).name = name /\ Layer(name, config).config = config
BY ConfigsAssumption DEF LayerType, Layer, CacheConfigs

\* build: the connector is wrapped in the layers, and none is left out.
LEMMA BuildStep ==
    ASSUME BuilderInv, Build
    PROVE  BuilderInv' /\ connector = None /\ connector' # None
<1> DEFINE f == [l \in LayerType |-> Applied(l)]
           wrapped == [i \in DOMAIN layers |-> f[layers[i]]]
<1>1. \A i \in DOMAIN layers : layers[i] \in LayerType
  BY DEF BuilderInv
<1>2. f \in [LayerType -> Wrappers] /\ \A l \in LayerType : f[l] = Applied(l) /\ f[l].name = l.name
  <2>1. ASSUME NEW l \in LayerType PROVE Applied(l) \in Wrappers /\ Applied(l).name = l.name
    <3>1. CASE l.name = "cache"
      BY <3>1, LayersAre DEF Applied, Wrappers
    <3>2. CASE l.name # "cache"
      BY <3>2, LayersAre DEF Applied, Wrappers, Layer, Known
    <3> QED BY <3>1, <3>2
  <2> QED BY <2>1
<1>3. wrapped = [i \in DOMAIN layers |-> Applied(layers[i])]
  BY <1>1
<1>4. /\ wrapped \in Seq(Wrappers) /\ DOMAIN wrapped = DOMAIN layers /\ Layered(wrapped)
      /\ \A i \in DOMAIN layers : wrapped[i].name = layers[i].name
  <2>1. Rewrites(wrapped, layers, f)
    BY DEF Rewrites
  <2>2. f \in [LayerType -> Wrappers] /\ \A l \in LayerType : f[l].name = l.name
    BY <1>2
  <2>3. layers \in Seq(LayerType) /\ Layered(layers)
    BY DEF BuilderInv
  <2> HIDE DEF wrapped, f
  <2>4. /\ wrapped \in Seq(Wrappers) /\ DOMAIN wrapped = DOMAIN layers
        /\ \A i \in DOMAIN layers : wrapped[i] = f[layers[i]] /\ wrapped[i].name = layers[i].name
        /\ Members(wrapped) = {f[l] : l \in Members(layers)}
        /\ Once(layers) => Once(wrapped)
        /\ Layered(layers) => Layered(wrapped)
    BY <2>1, <2>2, <2>3, RewrittenIs
  <2> QED BY <2>3, <2>4
<1>5. connector = None /\ layers' = <<>> /\ connector' = IF Valid THEN wrapped ELSE Refused
  BY <1>3 DEF Build, Building
<1> HIDE DEF wrapped, f
<1>6. Valid => Satisfied(wrapped)
  <2> SUFFICES ASSUME Valid, NEW i \in DOMAIN layers, layers[i].name \in Customs
               PROVE  /\ \A name \in Outer[layers[i].name] :
                             \E j \in DOMAIN layers : layers[j].name = name /\ j < i
                      /\ \A name \in Inner[layers[i].name] :
                             \E j \in DOMAIN layers : layers[j].name = name /\ i < j
    BY <1>4 DEF Satisfied
  <2>1. Len(layers) \in Nat /\ DOMAIN layers = 1..Len(layers)
    BY DEF BuilderInv
  <2>2. /\ \A j \in 1..(i - 1) : j \in DOMAIN layers /\ j < i
        /\ \A j \in (i + 1)..Len(layers) : j \in DOMAIN layers /\ i < j
    BY <2>1
  <2> QED BY <2>2 DEF Valid, HasOuter, HasInner
<1>7. <<>> \in Seq(LayerType) /\ Layered(<<>>)
  BY DEF Layered
<1>8. connector' # None
  BY <1>4, <1>5, CustomsAssumption
<1> QED BY <1>4, <1>5, <1>6, <1>7, <1>8 DEF BuilderInv, Layered, Satisfied

\* Each method of the builder keeps the layers in order.
LEMMA BuilderStep == BuilderInv /\ BuilderNext => BuilderInv'
<1> SUFFICES ASSUME BuilderInv, BuilderNext PROVE BuilderInv'
  OBVIOUS
<1>1. ASSUME NEW c \in Caches, WithCache(c) PROVE BuilderInv'
  BY <1>1, SetStep, SettersLayers DEF WithCache, Known
<1>2. ASSUME NEW d \in Durations, WithBlacklist(d) PROVE BuilderInv'
  BY <1>2, SetStep, SettersLayers DEF WithBlacklist, Known
<1>3. ASSUME NEW q \in QuotaType, WithQuota(q) PROVE BuilderInv'
  BY <1>3, SetStep, SettersLayers DEF WithQuota, Known
<1>4. ASSUME NEW name \in Known, WithoutLayer(name) PROVE BuilderInv'
  BY <1>4, ClearStep
<1>5. ASSUME NEW n \in Limits, TuneQuota("limit", n) PROVE BuilderInv'
  BY <1>3, <1>5, TunedIs DEF TuneQuota
<1>6. ASSUME NEW w \in Durations, TuneQuota("window", w) PROVE BuilderInv'
  BY <1>3, <1>6, TunedIs DEF TuneQuota
<1>7. ASSUME NEW s \in Strategies, TuneQuota("strategy", s) PROVE BuilderInv'
  BY <1>3, <1>7, TunedIs DEF TuneQuota
<1>8. ASSUME NEW c \in Customs, AddCustom(c) PROVE BuilderInv'
  BY <1>8, CustomStep
<1>9. CASE Reload
  BY <1>9, ReloadedIs, LayeredOnce, ChangedIs DEF Reload, BuilderInv
<1>10. ASSUME NEW stack \in Stacks, Load(stack) PROVE BuilderInv'
  BY <1>10, LoadedIs, ChangedIs DEF Load
<1>11. CASE Build
  BY <1>11, BuildStep
<1>12. Quotas \subseteq QuotaType
  BY ConfigsAssumption
<1> QED
  BY <1>1, <1>2, <1>3, <1>4, <1>5, <1>6, <1>7, <1>8, <1>9, <1>10, <1>11, <1>12 DEF BuilderNext

OrderInv == BuilderInv /\ HitsAreFree

\* The layers that a call reaches before the cache answers it are custom ones.
LEMMA CacheIsOutside ==
    ASSUME BuilderInv, Built, NEW r
    PROVE  Outermost(CacheFor(r)) \intersect {"blacklist", "quota"} = {}
<1> DEFINE caches == {i \in DOMAIN connector : connector[i].name = "cache"}
<1>1. connector \in Seq(Wrappers) /\ Layered(connector)
  BY DEF BuilderInv, Built
<1>2. CASE CacheFor(r) = 0
  BY <1>2 DEF Outermost
<1>3. CASE CacheFor(r) # 0
  <2>1. CacheFor(r) \in caches
    BY <1>3 DEF CacheFor
  <2> SUFFICES ASSUME NEW j \in 1..CacheFor(r), connector[j].name \in {"blacklist", "quota"}
               PROVE  FALSE
    BY DEF Outermost
  <2>2. Len(connector) \in Nat /\ DOMAIN connector = 1..Len(connector)
    BY <1>1
  <2>3. j \in DOMAIN connector /\ CacheFor(r) \in DOMAIN connector /\ (j < CacheFor(r) \/ j = CacheFor(r))
    BY <2>1, <2>2
  <2>4. j < CacheFor(r)
    BY <2>1, <2>3
  <2>5. RankOf(connector[j].name) < RankOf("cache")
    BY <1>1, <2>1, <2>3, <2>4 DEF Layered, Known
  <2>6. RankOf("cache") = 0
    BY DEF RankOf
  <2> QED BY <2>5, <2>6, Ranks
<1> QED BY <1>2, <1>3

\* Each step keeps the order of the layers, and what it is for.
LEMMA OrderStep == Inv /\ OrderInv /\ [CacheNext]_vars => OrderInv'
<1> SUFFICES ASSUME Inv, OrderInv, [CacheNext]_vars PROVE OrderInv'
  OBVIOUS
<1>1. BuilderInv /\ HitsAreFree
  BY DEF OrderInv
<1>2. CASE BuilderNext /\ UNCHANGED <<positive, negative, reply>>
  <2>1. reply' = None
    BY <1>2, BuilderIsFirst DEF Inv, NothingBeforeBuild
  <2> QED BY <1>1, <1>2, <2>1, BuilderStep DEF OrderInv, HitsAreFree
<1>3. ASSUME UNCHANGED builderVars PROVE BuilderInv'
  BY <1>1, <1>3 DEF BuilderInv, builderVars, Layered, Satisfied
<1>4. ASSUME NEW r \in Requests, AnswerError(r) \/ AnswerValue(r) PROVE OrderInv'
  <2>2. /\ Built /\ UNCHANGED builderVars
        /\ \E e, ok : Answer(r, e, ok, Outermost(CacheFor(r)))
    BY <1>4 DEF AnswerError, AnswerValue
  <2>3. reply'.passed = Outermost(CacheFor(r))
    BY <2>2 DEF Answer
  <2>4. reply'.passed \intersect {"blacklist", "quota"} = {}
    BY <1>1, <2>2, <2>3, CacheIsOutside
  <2> QED BY <1>3, <2>2, <2>4 DEF OrderInv, HitsAreFree
<1>5. ASSUME NEW r \in Requests,
             LoadValue(r) \/ \E permanent \in BOOLEAN : LoadError(r, permanent)
      PROVE  OrderInv'
  <2>1. /\ UNCHANGED builderVars
        /\ \E ok : Answer(r, r, ok, Outermost(Len(connector)))
    BY <1>5 DEF LoadValue, LoadError
  <2>2. reply'.passed = Outermost(Len(connector))
    BY <2>1 DEF Answer
  <2>3. Outermost(Len(connector))' = Outermost(Len(connector))
    BY <2>1 DEF Outermost, builderVars
  <2> QED BY <1>3, <2>1, <2>2, <2>3 DEF OrderInv, HitsAreFree
<1>6. CASE EvictValue \/ EvictError \/ UNCHANGED vars
  <2>1. UNCHANGED <<builderVars, reply>>
    BY <1>6 DEF EvictValue, EvictError, vars
  <2>2. Outermost(Len(connector))' = Outermost(Len(connector))
    BY <2>1 DEF Outermost, builderVars
  <2> QED BY <1>1, <1>3, <2>1, <2>2 DEF OrderInv, HitsAreFree
<1> QED BY <1>2, <1>4, <1>5, <1>6 DEF CacheNext

\* Lists in order are what StackIsOrdered asks for.
LEMMA BuilderInvOrders == BuilderInv => StackIsOrdered
<1> SUFFICES ASSUME BuilderInv PROVE StackIsOrdered
  OBVIOUS
<1>1. ASSUME NEW ls, Layered(ls), NEW i \in DOMAIN ls, NEW j \in DOMAIN ls, i < j,
             {ls[i].name, ls[j].name} \subseteq Known
      PROVE  <<ls[i].name, ls[j].name>> \in
                 {<<"cache", "blacklist">>, <<"cache", "quota">>, <<"blacklist", "quota">>}
  <2>1. RankOf(ls[i].name) < RankOf(ls[j].name)
    BY <1>1 DEF Layered
  <2> QED BY <1>1, <2>1 DEF Known, RankOf
<1>2. CASE connector \in {None, Refused}
  BY <1>1, <1>2 DEF BuilderInv, StackIsOrdered
<1>3. CASE connector \notin {None, Refused}
  <2>1. Layered(connector) /\ Satisfied(connector)
    BY <1>3 DEF BuilderInv
  <2> QED BY <1>1, <1>3, <2>1 DEF StackIsOrdered, Satisfied
<1> QED BY <1>2, <1>3

\* For every configuration, stack written by hand and order of the builder's
\* calls, the cache is outside the blacklist and the blacklist outside the
\* quota, custom layers have what they require, and an answer from the cache
\* has reached neither the blacklist nor the quota.
THEOREM LayersOrdered == Spec => []OrderProtectsQuota
<1>1. CacheInit => OrderInv
  BY DEF CacheInit, Init, OrderInv, BuilderInv, HitsAreFree, Layered
<1>2. Inv /\ OrderInv /\ [CacheNext]_vars => OrderInv'
  BY OrderStep
<1>3. OrderInv => OrderProtectsQuota
  BY BuilderInvOrders DEF OrderInv, OrderProtectsQuota
<1> QED BY <1>1, <1>2, <1>3, StoresHold, PTL DEF Spec

-----------------------------------------------------------------------------
(* The layers implement the settings *)

AllConfigs == CacheConfigs \union QuotaType \union Nat \union {None}

\* The settings that a list of layers stands for.
LEMMA SettingsAre ==
    ASSUME NEW ls \in Seq(LayerType), Once(ls)
    PROVE  /\ SettingsOf(ls) \in [Known -> AllConfigs]
           /\ \A l \in Members(ls) : l.name \in Known => SettingsOf(ls)[l.name] = l.config
           /\ \A name \in Known :
                 (\A l \in Members(ls) : l.name # name) => SettingsOf(ls)[name] = None
<1> DEFINE at(name) == {i \in DOMAIN ls : ls[i].name = name}
           value(name) == IF at(name) = {} THEN None ELSE ls[CHOOSE i \in at(name) : TRUE].config
<1>1. SettingsOf(ls) = [name \in Known |-> value(name)]
  BY DEF SettingsOf
<1>2. \A i \in DOMAIN ls : ls[i] \in LayerType
  OBVIOUS
<1>3. ASSUME NEW i \in DOMAIN ls, ls[i].name \in Known PROVE value(ls[i].name) = ls[i].config
  <2>1. i \in at(ls[i].name) /\ \A j \in at(ls[i].name) : j = i
    BY <1>3 DEF Once
  <2>2. (CHOOSE j \in at(ls[i].name) : TRUE) = i
    BY <2>1
  <2> QED BY <2>1, <2>2
<1>4. ASSUME NEW name \in Known, \A l \in Members(ls) : l.name # name PROVE value(name) = None
  BY <1>4 DEF Members
<1>5. ASSUME NEW name \in Known PROVE value(name) \in AllConfigs
  <2>1. CASE at(name) = {}
    BY <2>1 DEF AllConfigs
  <2>2. CASE at(name) # {}
    <3>1. PICK i \in DOMAIN ls : ls[i].name = name
      BY <2>2
    <3>2. value(name) = ls[i].config
      BY <1>3, <3>1
    <3>3. ls[i].config \in AllConfigs
      BY <1>2, <3>1, LayersAre DEF AllConfigs, Known
    <3> QED BY <3>2, <3>3
  <2> QED BY <2>1, <2>2
<1> HIDE DEF value
<1>6. \A l \in Members(ls) : l.name \in Known => value(l.name) = l.config
  BY <1>3 DEF Members
<1> QED BY <1>1, <1>4, <1>5, <1>6

\* A layer that replaces the one of its name sets that, and nothing else.
LEMMA SetIs ==
    ASSUME NEW ls \in Seq(LayerType), Once(ls), NEW new \in Seq(LayerType), Once(new),
           NEW l \in LayerType, l.name \in Known,
           Members(new) = {m \in Members(ls) : m.name # l.name} \union {l}
    PROVE  SettingsOf(new) = [SettingsOf(ls) EXCEPT ![l.name] = l.config]
<1>1. /\ SettingsOf(ls) \in [Known -> AllConfigs] /\ SettingsOf(new) \in [Known -> AllConfigs]
      /\ \A m \in Members(ls) : m.name \in Known => SettingsOf(ls)[m.name] = m.config
      /\ \A m \in Members(new) : m.name \in Known => SettingsOf(new)[m.name] = m.config
      /\ \A name \in Known :
            /\ (\A m \in Members(ls) : m.name # name) => SettingsOf(ls)[name] = None
            /\ (\A m \in Members(new) : m.name # name) => SettingsOf(new)[name] = None
  BY SettingsAre
<1>2. SettingsOf(new)[l.name] = l.config
  BY <1>1
<1>3. ASSUME NEW name \in Known, name # l.name PROVE SettingsOf(new)[name] = SettingsOf(ls)[name]
  <2>1. CASE \E m \in Members(ls) : m.name = name
    BY <1>1, <1>3, <2>1
  <2>2. CASE \A m \in Members(ls) : m.name # name
    BY <1>1, <1>3, <2>2
  <2> QED BY <2>1, <2>2
<1> QED BY <1>1, <1>2, <1>3

\* A layer that is taken away clears its setting, and nothing else.
LEMMA ClearedIs ==
    ASSUME NEW ls \in Seq(LayerType), Once(ls), NEW new \in Seq(LayerType), Once(new),
           NEW other \in Known, Members(new) = {m \in Members(ls) : m.name # other}
    PROVE  SettingsOf(new) = [SettingsOf(ls) EXCEPT ![other] = None]
<1>1. /\ SettingsOf(ls) \in [Known -> AllConfigs] /\ SettingsOf(new) \in [Known -> AllConfigs]
      /\ \A m \in Members(ls) : m.name \in Known => SettingsOf(ls)[m.name] = m.config
      /\ \A m \in Members(new) : m.name \in Known => SettingsOf(new)[m.name] = m.config
      /\ \A name \in Known :
            /\ (\A m \in Members(ls) : m.name # name) => SettingsOf(ls)[name] = None
            /\ (\A m \in Members(new) : m.name # name) => SettingsOf(new)[name] = None
  BY SettingsAre
<1>2. SettingsOf(new)[other] = None
  BY <1>1
<1>3. ASSUME NEW name \in Known, name # other PROVE SettingsOf(new)[name] = SettingsOf(ls)[name]
  <2>1. CASE \E m \in Members(ls) : m.name = name
    BY <1>1, <1>3, <2>1
  <2>2. CASE \A m \in Members(ls) : m.name # name
    BY <1>1, <1>3, <2>2
  <2> QED BY <2>1, <2>2
<1> QED BY <1>1, <1>2, <1>3

\* A custom layer is no setting.
LEMMA CustomIs ==
    ASSUME NEW ls \in Seq(LayerType), Once(ls), NEW new \in Seq(LayerType), Once(new),
           NEW l, l.name \notin Known, Members(new) = Members(ls) \union {l}
    PROVE  SettingsOf(new) = SettingsOf(ls)
<1>1. /\ SettingsOf(ls) \in [Known -> AllConfigs] /\ SettingsOf(new) \in [Known -> AllConfigs]
      /\ \A m \in Members(ls) : m.name \in Known => SettingsOf(ls)[m.name] = m.config
      /\ \A m \in Members(new) : m.name \in Known => SettingsOf(new)[m.name] = m.config
      /\ \A name \in Known :
            /\ (\A m \in Members(ls) : m.name # name) => SettingsOf(ls)[name] = None
            /\ (\A m \in Members(new) : m.name # name) => SettingsOf(new)[name] = None
  BY SettingsAre
<1>2. ASSUME NEW name \in Known PROVE SettingsOf(new)[name] = SettingsOf(ls)[name]
  <2>1. CASE \E m \in Members(ls) : m.name = name
    BY <1>1, <2>1
  <2>2. CASE \A m \in Members(ls) : m.name # name
    BY <1>1, <2>2
  <2> QED BY <2>1, <2>2
<1> QED BY <1>1, <1>2

\* While the builder builds, its settings are those of its layers; a builder
\* that has built has none.
LEMMA MappedIs ==
    ASSUME BuilderInv
    PROVE  /\ layers \in Seq(LayerType) /\ Once(layers)
           /\ SettingsOf(layers) # None
           /\ connector = None => MappedSettings = SettingsOf(layers)
           /\ connector # None => MappedSettings = None
<1>1. layers \in Seq(LayerType) /\ Once(layers)
  BY LayeredOnce DEF BuilderInv
<1>2. SettingsOf(layers) # None
  BY <1>1, SettingsAre, NoneAssumption DEF AllConfigs
<1> QED BY <1>1, <1>2 DEF MappedSettings

LEMMA MappedNext ==
    ASSUME BuilderInv', connector' = None
    PROVE  layers' \in Seq(LayerType) /\ Once(layers') /\ MappedSettings' = SettingsOf(layers')
<1>1. layers' \in Seq(LayerType) /\ Once(layers')
  BY LayeredOnce DEF BuilderInv
<1> QED BY <1>1 DEF MappedSettings

\* The two specifications read configurations alike.
LEMMA SameConfigs ==
    /\ Settings!Known = Known /\ Settings!DefaultQuota = DefaultQuota
    /\ \A layer : Settings!Parse(layer) = Parse(layer)
<1>1. Settings!Known = Known /\ Settings!DefaultQuota = DefaultQuota
  BY DEF Settings!Known, Known, Settings!DefaultQuota, DefaultQuota, Settings!FromMs, FromMs
<1>2. ASSUME NEW json PROVE Settings!ParseQuota(json) = ParseQuota(json)
  BY DEF Settings!ParseQuota, ParseQuota, Settings!FromMs, FromMs, Settings!OrDefault, OrDefault
<1>3. ASSUME NEW json PROVE Settings!ParseBlacklist(json) = ParseBlacklist(json)
  BY DEF Settings!ParseBlacklist, ParseBlacklist, Settings!FromMs, FromMs, Settings!OrDefault,
         OrDefault
<1>4. ASSUME NEW json PROVE Settings!ParseCache(json) = ParseCache(json)
  BY DEF Settings!ParseCache, ParseCache, Settings!OrDefault, OrDefault
<1>5. ASSUME NEW layer PROVE Settings!Parse(layer) = Parse(layer)
  BY <1>2, <1>3, <1>4 DEF Settings!Parse, Parse
<1> QED BY <1>1, <1>5

\* Quotas and durations of whole milliseconds.
WholeQuotas == {q \in QuotaType : FromMs(Ms(q.window)) = q.window}
WholeDurations == {d \in Nat : FromMs(Ms(d)) = d}

\* The settings have no part of a millisecond.
WholeSettings(S) ==
    S["quota"] \in WholeQuotas \union {None} /\ S["blacklist"] \in WholeDurations \union {None}

MappedWhole == MappedSettings # None => WholeSettings(MappedSettings)

\* What is read in milliseconds has whole ones.
LEMMA FromMsWhole == \A n \in Nat : FromMs(n) \in WholeDurations
<1>1. ASSUME NEW n \in Nat PROVE (n * TicksPerMs) \div TicksPerMs = n
  <2> DEFINE m == n * TicksPerMs
  <2>1. TicksPerMs \in Nat \ {0} /\ m \in Nat
    BY TicksAssumption
  <2> QED BY <2>1, SMT
<1>2. ASSUME NEW n \in Nat PROVE n * TicksPerMs \in Nat
  BY TicksAssumption
<1> QED BY <1>1, <1>2 DEF FromMs, Ms, WholeDurations

\* What is of whole milliseconds is read as it was written.
LEMMA WholeReadBack ==
    ASSUME NEW l \in LayerType, l.name \in Known,
           l.name = "quota" => l.config \in WholeQuotas,
           l.name = "blacklist" => l.config \in WholeDurations
    PROVE  Parse(Wrote(l)) = l.config
<1>1. Wrote(l).name = l.name /\ Wrote(l).json = Json(l)
  BY DEF Wrote
<1>2. None \notin Nat
  BY NoneAssumption
<1>3. CASE l.name = "quota"
  <2> DEFINE q == l.config
  <2>1. q \in QuotaType /\ FromMs(Ms(q.window)) = q.window
    BY <1>3 DEF WholeQuotas
  <2>2. Parse(Wrote(l)) = ParseQuota(QuotaJson(q))
    BY <1>1, <1>3 DEF Parse, Json
  <2> HIDE DEF q
  <2>3. /\ QuotaJson(q).limit = q.limit /\ QuotaJson(q).window = Ms(q.window)
        /\ QuotaJson(q).strategy = q.strategy
    BY DEF QuotaJson
  <2>4. /\ q.limit \in Nat /\ Ms(q.window) \in Nat
        /\ q.strategy \in {"Unit", "EvenSpreadHourly", "Weighted"}
    BY <2>1, MsIs DEF QuotaType, StrategyType
  <2>5. OrDefault(q.limit, 1) = q.limit /\ OrDefault(Ms(q.window), 60000) = Ms(q.window)
    BY <1>2, <2>4 DEF OrDefault
  <2>6. (IF q.strategy \in {"EvenSpreadHourly", "Weighted"} THEN q.strategy ELSE "Unit") = q.strategy
    BY <2>4
  <2>7. ParseQuota(QuotaJson(q)) =
            [limit |-> q.limit, window |-> q.window, strategy |-> q.strategy]
    BY <2>1, <2>3, <2>5, <2>6 DEF ParseQuota
  <2>8. q = [limit |-> q.limit, window |-> q.window, strategy |-> q.strategy]
    BY <2>1 DEF QuotaType
  <2> QED BY <2>2, <2>7, <2>8 DEF q
<1>4. CASE l.name = "blacklist"
  <2>1. l.config \in Nat /\ FromMs(Ms(l.config)) = l.config
    BY <1>4 DEF WholeDurations
  <2>2. Json(l).duration = Ms(l.config) /\ Ms(l.config) \in Nat
    BY <1>4, <2>1, MsIs DEF Json, BlacklistJson
  <2>3. Parse(Wrote(l)) = FromMs(OrDefault(Json(l).duration, 300000))
    BY <1>1, <1>4 DEF Parse, ParseBlacklist
  <2> QED BY <1>2, <2>1, <2>2, <2>3 DEF OrDefault
<1>5. CASE l.name = "cache"
  <2>1. l.config \in CacheConfigs /\ Json(l) = l.config
    BY <1>5, LayersAre DEF Json
  <2>2. Parse(Wrote(l)) = ParseCache(l.config)
    BY <1>1, <1>5, <2>1 DEF Parse
  <2> QED BY <2>1, <2>2, CachesAssumption
<1> QED BY <1>3, <1>4, <1>5 DEF Known

\* A setter of the builder sets what it is given.
LEMMA SetImplements ==
    ASSUME BuilderInv, NEW l \in LayerType, l.name \in Known,
           \/ Change(Ordered(<<l>> \o Without(l.name)))
           \/ Change(Ordered(Append(Without(l.name), l)))
    PROVE  MappedSettings # None /\ MappedSettings' = [MappedSettings EXCEPT ![l.name] = l.config]
<1>1. /\ BuilderInv' /\ connector = None /\ connector' = None
      /\ Members(layers') = {m \in Members(layers) : m.name # l.name} \union {l}
  BY SetStep
<1>2. /\ layers \in Seq(LayerType) /\ Once(layers) /\ SettingsOf(layers) # None
      /\ MappedSettings = SettingsOf(layers)
  BY <1>1, MappedIs
<1>3. layers' \in Seq(LayerType) /\ Once(layers') /\ MappedSettings' = SettingsOf(layers')
  BY <1>1, MappedNext
<1>4. SettingsOf(layers') = [SettingsOf(layers) EXCEPT ![l.name] = l.config]
  BY <1>1, <1>2, <1>3, SetIs
<1> QED BY <1>2, <1>3, <1>4

\* with_cache
LEMMA CacheImplements ==
    ASSUME BuilderInv, NEW c \in Caches, WithCache(c)
    PROVE  Settings!Next
<1>1. /\ Layer("cache", c) \in LayerType /\ "cache" \in Known
      /\ Layer("cache", c).name = "cache" /\ Layer("cache", c).config = c
  BY SettersLayers DEF Known
<1>2. MappedSettings # None /\ MappedSettings' = [MappedSettings EXCEPT !["cache"] = c]
  BY <1>1, SetImplements DEF WithCache
<1> QED BY <1>2 DEF Settings!Next, Settings!Set

\* with_blacklist
LEMMA BlacklistImplements ==
    ASSUME BuilderInv, NEW d \in Durations, WithBlacklist(d)
    PROVE  Settings!Next
<1>1. /\ Layer("blacklist", d) \in LayerType /\ "blacklist" \in Known
      /\ Layer("blacklist", d).name = "blacklist" /\ Layer("blacklist", d).config = d
  BY SettersLayers DEF Known
<1>2. MappedSettings # None /\ MappedSettings' = [MappedSettings EXCEPT !["blacklist"] = d]
  BY <1>1, SetImplements DEF WithBlacklist
<1> QED BY <1>2 DEF Settings!Next, Settings!Set

\* with_quota, for every configuration
LEMMA QuotaIsSet ==
    ASSUME BuilderInv, NEW q \in QuotaType, WithQuota(q)
    PROVE  MappedSettings # None /\ MappedSettings' = [MappedSettings EXCEPT !["quota"] = q]
<1>1. /\ Layer("quota", q) \in LayerType /\ "quota" \in Known
      /\ Layer("quota", q).name = "quota" /\ Layer("quota", q).config = q
  BY SettersLayers DEF Known
<1> QED BY <1>1, SetImplements DEF WithQuota

\* quota_limit, quota_window, quota_strategy: what is not tuned is as it was.
LEMMA TuneImplements ==
    ASSUME BuilderInv, MappedWhole, NEW field, NEW value, TuneQuota(field, value),
           \/ field = "limit" /\ value \in Limits
           \/ field = "window" /\ value \in Durations
           \/ field = "strategy" /\ value \in Strategies
    PROVE  MappedSettings # None /\ Settings!Tune(field, value)
<1>1. [ExistingQuota EXCEPT ![field] = value] \in QuotaType
  BY TunedIs
<1>2. /\ MappedSettings # None
      /\ MappedSettings' =
            [MappedSettings EXCEPT !["quota"] = [ExistingQuota EXCEPT ![field] = value]]
  BY <1>1, QuotaIsSet DEF TuneQuota
<1>3. layers \in Seq(LayerType) /\ Once(layers) /\ MappedSettings = SettingsOf(layers)
  BY <1>2, MappedIs
<1>4. ExistingQuota = IF MappedSettings["quota"] = None THEN DefaultQuota
                      ELSE MappedSettings["quota"]
  <2>1. CASE \E l \in Members(layers) : l.name = "quota"
    <3>1. PICK l \in Members(layers) : l.name = "quota"
      BY <2>1
    <3>2. l \in LayerType
      BY <1>3, <3>1 DEF Members
    <3>3. MappedSettings["quota"] = l.config /\ l.config # None
      BY <1>3, <3>1, <3>2, SettingsAre, LayersAre DEF Known
    <3>4. ExistingQuota = ParseQuota(QuotaJson(l.config))
      BY <3>1, ExistingIs
    <3>5. l.config \in WholeQuotas
      BY <1>2, <3>3 DEF MappedWhole, WholeSettings
    <3>6. Parse(Wrote(l)) = l.config
      BY <3>1, <3>2, <3>5, WholeReadBack DEF Known
    <3>7. Parse(Wrote(l)) = ParseQuota(QuotaJson(l.config))
      BY <3>1 DEF Wrote, Parse, Json
    <3> QED BY <3>3, <3>4, <3>6, <3>7
  <2>2. CASE \A l \in Members(layers) : l.name # "quota"
    <3>1. MappedSettings["quota"] = None
      BY <1>3, <2>2, SettingsAre DEF Known
    <3> QED BY <2>2, <3>1, ExistingIs
  <2> QED BY <2>1, <2>2
<1> QED BY <1>2, <1>4, SameConfigs DEF Settings!Tune, Settings!Set

\* without_cache and the like
LEMMA ClearImplements ==
    ASSUME BuilderInv, NEW name \in Known, WithoutLayer(name)
    PROVE  Settings!Next
<1>1. /\ BuilderInv' /\ connector = None /\ connector' = None
      /\ Members(layers') = {m \in Members(layers) : m.name # name}
  BY ClearStep
<1>2. /\ layers \in Seq(LayerType) /\ Once(layers) /\ SettingsOf(layers) # None
      /\ MappedSettings = SettingsOf(layers)
  BY <1>1, MappedIs
<1>3. layers' \in Seq(LayerType) /\ Once(layers') /\ MappedSettings' = SettingsOf(layers')
  BY <1>1, MappedNext
<1>4. SettingsOf(layers') = [SettingsOf(layers) EXCEPT ![name] = None]
  BY <1>1, <1>2, <1>3, ClearedIs
<1>5. MappedSettings # None /\ MappedSettings' = [MappedSettings EXCEPT ![name] = None]
  BY <1>2, <1>3, <1>4
<1>6. name \in {"cache", "blacklist", "quota"}
  BY DEF Known
<1> QED BY <1>5, <1>6 DEF Settings!Next, Settings!Set

\* layer() leaves the settings alone.
LEMMA CustomImplements ==
    ASSUME BuilderInv, NEW c \in Customs, AddCustom(c)
    PROVE  MappedSettings' = MappedSettings
<1>1. /\ BuilderInv' /\ connector = None /\ connector' = None
      /\ Members(layers') = Members(layers) \union {Layer(c, None)}
  BY CustomStep
<1>2. layers \in Seq(LayerType) /\ Once(layers) /\ MappedSettings = SettingsOf(layers)
  BY <1>1, MappedIs
<1>3. layers' \in Seq(LayerType) /\ Once(layers') /\ MappedSettings' = SettingsOf(layers')
  BY <1>1, MappedNext
<1>4. Layer(c, None).name \notin Known
  BY CustomsAssumption DEF Layer
<1> QED BY <1>1, <1>2, <1>3, <1>4, CustomIs

\* from_stack after to_stack
LEMMA ReloadImplements ==
    ASSUME BuilderInv, MappedWhole, Reload
    PROVE  MappedSettings' = MappedSettings
<1>1. Imported(Exported) \in Seq(LayerType) /\ Layered(Imported(Exported))
      /\ Members(Imported(Exported)) =
            {Read(Wrote(l)) : l \in {m \in Members(layers) : m.name \in Known}}
  BY ReloadedIs, LayeredOnce DEF BuilderInv
<1>2. BuilderInv' /\ layers' = Imported(Exported) /\ connector = None /\ connector' = None
  BY <1>1, ChangedIs DEF Reload
<1>3. /\ layers \in Seq(LayerType) /\ Once(layers) /\ SettingsOf(layers) # None
      /\ MappedSettings = SettingsOf(layers)
  BY <1>2, MappedIs
<1>4. layers' \in Seq(LayerType) /\ Once(layers') /\ MappedSettings' = SettingsOf(layers')
  BY <1>2, MappedNext
<1> DEFINE S == SettingsOf(layers)
<1>5. ASSUME NEW name \in Known
      PROVE  SettingsOf(layers')[name] = S[name]
  <2>1. CASE \E l \in Members(layers) : l.name = name
    <3>1. PICK l \in Members(layers) : l.name = name
      BY <2>1
    <3>2. l \in LayerType
      BY <1>3, <3>1 DEF Members
    <3>3. S[name] = l.config /\ l.config # None
      BY <1>3, <3>1, <3>2, SettingsAre, LayersAre
    <3>4. /\ name = "quota" => l.config \in WholeQuotas
          /\ name = "blacklist" => l.config \in WholeDurations
      BY <1>3, <3>3 DEF MappedWhole, WholeSettings
    <3>5. Parse(Wrote(l)) = l.config
      BY <3>1, <3>2, <3>4, WholeReadBack
    <3>6. Read(Wrote(l)) \in Members(layers')
      BY <1>1, <1>2, <3>1
    <3>7. Read(Wrote(l)).name = name /\ Read(Wrote(l)).config = Parse(Wrote(l))
      BY <3>1 DEF Read, Wrote, Layer
    <3>8. SettingsOf(layers')[name] = Parse(Wrote(l))
      BY <1>4, <3>6, <3>7, SettingsAre
    <3> QED BY <3>3, <3>5, <3>8
  <2>2. CASE \A l \in Members(layers) : l.name # name
    <3>1. S[name] = None
      BY <1>3, <2>2, SettingsAre
    <3>2. \A l \in Members(layers') : l.name # name
      <4>1. \A l : Read(Wrote(l)).name = l.name
        BY DEF Read, Wrote, Layer
      <4> QED BY <1>1, <1>2, <2>2, <4>1
    <3>3. SettingsOf(layers')[name] = None
      BY <1>4, <3>2, SettingsAre
    <3> QED BY <3>1, <3>3
  <2> QED BY <2>1, <2>2
<1>6. SettingsOf(layers') \in [Known -> AllConfigs] /\ S \in [Known -> AllConfigs]
  BY <1>3, <1>4, SettingsAre
<1>7. SettingsOf(layers') = S
  <2> HIDE DEF S
  <2> QED BY <1>5, <1>6
<1> QED BY <1>3, <1>4, <1>7

\* from_stack
LEMMA LoadImplements ==
    ASSUME BuilderInv, NEW stack \in Stacks, Load(stack)
    PROVE  MappedSettings # None /\ Settings!Load(stack)
<1>1. Imported(stack) \in Seq(LayerType) /\ Layered(Imported(stack))
      /\ Members(Imported(stack)) =
            {Read(l) : l \in {stack[i] : i \in {j \in DOMAIN stack : stack[j].name \in Known}}}
  BY LoadedIs
<1>2. BuilderInv' /\ layers' = Imported(stack) /\ connector = None /\ connector' = None
  BY <1>1, ChangedIs DEF Load
<1>3. SettingsOf(layers) # None /\ MappedSettings = SettingsOf(layers)
  BY <1>2, MappedIs
<1>4. layers' \in Seq(LayerType) /\ Once(layers') /\ MappedSettings' = SettingsOf(layers')
  BY <1>2, MappedNext
<1> DEFINE at(name) == {i \in DOMAIN stack : stack[i].name = name}
           value(name) == IF at(name) = {} THEN None ELSE Parse(stack[CHOOSE i \in at(name) : TRUE])
<1>5. ASSUME NEW name \in Known PROVE SettingsOf(layers')[name] = value(name)
  <2>1. CASE at(name) # {}
    <3> DEFINE i == CHOOSE j \in at(name) : TRUE
    <3>1. i \in DOMAIN stack /\ stack[i].name = name
      BY <2>1
    <3>2. value(name) = Parse(stack[i])
      BY <2>1
    <3> HIDE DEF i
    <3>3. Read(stack[i]) \in Members(layers')
      BY <1>1, <1>2, <3>1
    <3>4. Read(stack[i]).name = name /\ Read(stack[i]).config = Parse(stack[i])
      BY <3>1 DEF Read, Layer
    <3>5. SettingsOf(layers')[name] = Parse(stack[i])
      BY <1>4, <3>3, <3>4, SettingsAre
    <3> QED BY <3>2, <3>5
  <2>2. CASE at(name) = {}
    <3>1. \A l \in Members(layers') : l.name # name
      BY <1>1, <1>2, <2>2 DEF Read, Layer
    <3>2. SettingsOf(layers')[name] = None
      BY <1>4, <3>1, SettingsAre
    <3> QED BY <2>2, <3>2
  <2> QED BY <2>1, <2>2
<1>6. SettingsOf(layers') \in [Known -> AllConfigs]
  BY <1>4, SettingsAre
<1>7. SettingsOf(layers') = [name \in Known |-> value(name)]
  <2> HIDE DEF value
  <2> QED BY <1>5, <1>6
<1> QED BY <1>3, <1>4, <1>7, SameConfigs DEF Settings!Load

\* build
LEMMA BuildImplements ==
    ASSUME BuilderInv, Build
    PROVE  Settings!Next
<1>1. MappedSettings # None
  BY BuildStep, MappedIs
<1>2. MappedSettings' = None
  BY BuildStep DEF MappedSettings
<1> QED BY <1>1, <1>2 DEF Settings!Next

\* Whole milliseconds stay whole.
LEMMA WholeSteps ==
    ASSUME WholeMilliseconds, MappedWhole, [Settings!Next]_MappedSettings
    PROVE  MappedWhole'
<1> DEFINE S == MappedSettings
           T == MappedSettings'
<1> SUFFICES ASSUME T # None, T # S PROVE WholeSettings(T)
  BY DEF MappedWhole
<1>1. S # None /\ WholeSettings(S) /\ Settings!Next
  BY DEF MappedWhole, Settings!Next
<1>2. /\ \A d \in Durations : d \in WholeDurations
      /\ \A q \in Quotas : q \in WholeQuotas
  BY ConfigsAssumption DEF WholeMilliseconds, WholeDurations, WholeQuotas
<1>3. ASSUME NEW c, T = [S EXCEPT !["cache"] = c] PROVE WholeSettings(T)
  BY <1>1, <1>3 DEF WholeSettings
<1>4. ASSUME NEW d \in Durations \union {None}, T = [S EXCEPT !["blacklist"] = d]
      PROVE  WholeSettings(T)
  <2>1. d \in WholeDurations \union {None}
    BY <1>2
  <2>2. T["blacklist"] \in {d, S["blacklist"]} /\ T["quota"] = S["quota"]
    BY <1>4
  <2> QED BY <1>1, <2>1, <2>2 DEF WholeSettings
<1>5. ASSUME NEW q \in WholeQuotas \union {None}, T = [S EXCEPT !["quota"] = q]
      PROVE  WholeSettings(T)
  <2>1. T["quota"] \in {q, S["quota"]} /\ T["blacklist"] = S["blacklist"]
    BY <1>5
  <2> QED BY <1>1, <1>5, <2>1 DEF WholeSettings
<1>6. ASSUME NEW field, NEW value, Settings!Tune(field, value),
             \/ field = "limit" /\ value \in Limits
             \/ field = "window" /\ value \in Durations
             \/ field = "strategy" /\ value \in Strategies
      PROVE  WholeSettings(T)
  <2> DEFINE before == IF S["quota"] = None THEN DefaultQuota ELSE S["quota"]
             after == [before EXCEPT ![field] = value]
  <2>1. before \in WholeQuotas
    <3>1. DefaultQuota \in WholeQuotas
      <4>1. FromMs(60000) \in WholeDurations
        BY FromMsWhole
      <4>2. DefaultQuota.window = FromMs(60000) /\ DefaultQuota \in QuotaType
        BY <4>1 DEF DefaultQuota, QuotaType, StrategyType, WholeDurations
      <4> QED BY <4>1, <4>2 DEF WholeQuotas, WholeDurations
    <3> QED BY <1>1, <3>1 DEF WholeSettings
  <2>6. T = [S EXCEPT !["quota"] = after]
    BY <1>6, SameConfigs DEF Settings!Tune, Settings!Set
  <2> HIDE DEF before
  <2>2. before \in QuotaType /\ FromMs(Ms(before.window)) = before.window
    BY <2>1 DEF WholeQuotas
  <2>3. CASE field = "limit" /\ value \in Limits
    <3>1. after \in QuotaType /\ after.window = before.window
      BY <2>2, <2>3, ConfigsAssumption DEF QuotaType
    <3>2. after \in WholeQuotas
      BY <2>2, <3>1 DEF WholeQuotas
    <3> HIDE DEF after
    <3> QED BY <1>5, <2>6, <3>2
  <2>4. CASE field = "window" /\ value \in Durations
    <3>1. after \in QuotaType /\ after.window = value
      BY <2>2, <2>4, ConfigsAssumption DEF QuotaType
    <3>2. FromMs(Ms(value)) = value
      BY <1>2, <2>4 DEF WholeDurations
    <3>3. after \in WholeQuotas
      BY <3>1, <3>2 DEF WholeQuotas
    <3> HIDE DEF after
    <3> QED BY <1>5, <2>6, <3>3
  <2>5. CASE field = "strategy" /\ value \in Strategies
    <3>1. after \in QuotaType /\ after.window = before.window
      BY <2>2, <2>5, ConfigsAssumption DEF QuotaType
    <3>2. after \in WholeQuotas
      BY <2>2, <3>1 DEF WholeQuotas
    <3> HIDE DEF after
    <3> QED BY <1>5, <2>6, <3>2
  <2> QED BY <1>6, <2>3, <2>4, <2>5
<1>7. ASSUME NEW stack \in Stacks, Settings!Load(stack) PROVE WholeSettings(T)
  <2> DEFINE at(name) == {i \in DOMAIN stack : stack[i].name = name}
             value(name) == IF at(name) = {} THEN None
                            ELSE Parse(stack[CHOOSE i \in at(name) : TRUE])
  <2>1. T = [name \in Known |-> value(name)]
    BY <1>7, SameConfigs DEF Settings!Load
  <2>2. ASSUME NEW name \in Known, at(name) # {}
        PROVE  \E l \in Written : l.name = name /\ value(name) = Parse(l) /\ Readable(l)
    <3>1. PICK i \in at(name) : value(name) = Parse(stack[i])
      BY <2>2
    <3>2. stack[i] \in Written /\ stack[i].name = name
      BY <3>1 DEF Written
    <3> QED BY <3>1, <3>2, WrittenReadable
  <2>3. value("quota") \in WholeQuotas \union {None}
    <3>1. CASE at("quota") # {}
      <4>1. PICK l \in Written : l.name = "quota" /\ value("quota") = Parse(l) /\ Readable(l)
        BY <2>2, <3>1 DEF Known
      <4>2. OrDefault(l.json.limit, 1) \in Nat /\ OrDefault(l.json.window, 60000) \in Nat
        BY <4>1 DEF Readable, OrDefault
      <4>3. Parse(l) = ParseQuota(l.json)
        BY <4>1 DEF Parse
      <4>4. FromMs(OrDefault(l.json.window, 60000)) \in WholeDurations
        BY <4>2, FromMsWhole
      <4>5. ParseQuota(l.json) \in QuotaType
            /\ ParseQuota(l.json).window = FromMs(OrDefault(l.json.window, 60000))
        BY <4>2, <4>4 DEF ParseQuota, QuotaType, StrategyType, WholeDurations
      <4> QED BY <4>1, <4>3, <4>4, <4>5 DEF WholeQuotas, WholeDurations
    <3>2. CASE at("quota") = {}
      BY <3>2
    <3> QED BY <3>1, <3>2
  <2>4. value("blacklist") \in WholeDurations \union {None}
    <3>1. CASE at("blacklist") # {}
      <4>1. PICK l \in Written :
                l.name = "blacklist" /\ value("blacklist") = Parse(l) /\ Readable(l)
        BY <2>2, <3>1 DEF Known
      <4>2. OrDefault(l.json.duration, 300000) \in Nat
        BY <4>1 DEF Readable, OrDefault
      <4>3. Parse(l) = FromMs(OrDefault(l.json.duration, 300000))
        BY <4>1 DEF Parse, ParseBlacklist
      <4> QED BY <4>1, <4>2, <4>3, FromMsWhole
    <3>2. CASE at("blacklist") = {}
      BY <3>2
    <3> QED BY <3>1, <3>2
  <2> HIDE DEF value
  <2> QED BY <2>1, <2>3, <2>4 DEF WholeSettings, Known
<1>8. Settings!Next =>
        \/ \E c \in Caches \union {None} : Settings!Set("cache", c)
        \/ \E d \in Durations \union {None} : Settings!Set("blacklist", d)
        \/ \E q \in Quotas \union {None} : Settings!Set("quota", q)
        \/ \E n \in Limits : Settings!Tune("limit", n)
        \/ \E w \in Durations : Settings!Tune("window", w)
        \/ \E strategy \in Strategies : Settings!Tune("strategy", strategy)
        \/ \E stack \in Stacks : Settings!Load(stack)
  BY DEF Settings!Next
<1>9. CASE \E c \in Caches \union {None} : Settings!Set("cache", c)
  BY <1>3, <1>9 DEF Settings!Set
<1>10. CASE \E d \in Durations \union {None} : Settings!Set("blacklist", d)
  BY <1>4, <1>10 DEF Settings!Set
<1>11. CASE \E q \in Quotas \union {None} : Settings!Set("quota", q)
  BY <1>2, <1>5, <1>11 DEF Settings!Set
<1> QED BY <1>1, <1>6, <1>7, <1>8, <1>9, <1>10, <1>11

\* For every configuration, stack written by hand and order of its calls, the
\* builder's list of layers, filtered, extended, sorted, exported and imported,
\* behaves as a set of settings: each call sets what it names and nothing else,
\* wherever the windows and durations that it is given are of whole milliseconds.
THEOREM LayersAreSettings ==
    ASSUME WholeMilliseconds
    PROVE  Spec => ImplementsSettings
<1>1. CacheInit => Settings!Init
  <2> SUFFICES ASSUME CacheInit PROVE MappedSettings = [name \in Known |-> None]
    BY SameConfigs DEF Settings!Init, Settings!Nothing
  <2>1. layers = <<>> /\ connector = None
    BY DEF CacheInit, Init
  <2> QED BY <2>1 DEF MappedSettings, SettingsOf
<1>2. OrderInv /\ MappedWhole /\ [CacheNext]_vars => [Settings!Next]_MappedSettings
  <2> SUFFICES ASSUME BuilderInv, MappedWhole, [CacheNext]_vars PROVE [Settings!Next]_MappedSettings
    BY DEF OrderInv
  <2>1. ASSUME UNCHANGED builderVars PROVE UNCHANGED MappedSettings
    BY <2>1 DEF builderVars, MappedSettings, SettingsOf
  <2>2. CASE BuilderNext
    <3>1. Quotas \subseteq QuotaType
      BY ConfigsAssumption
    <3>2. ASSUME NEW q \in Quotas, WithQuota(q) PROVE Settings!Next
      BY <3>1, <3>2, QuotaIsSet DEF Settings!Next, Settings!Set
    <3>3. ASSUME NEW n \in Limits, TuneQuota("limit", n) PROVE Settings!Next
      BY <3>3, TuneImplements DEF Settings!Next
    <3>4. ASSUME NEW w \in Durations, TuneQuota("window", w) PROVE Settings!Next
      BY <3>4, TuneImplements DEF Settings!Next
    <3>5. ASSUME NEW s \in Strategies, TuneQuota("strategy", s) PROVE Settings!Next
      BY <3>5, TuneImplements DEF Settings!Next
    <3>6. CASE Reload
      BY <3>6, ReloadImplements
    <3>7. ASSUME NEW stack \in Stacks, Load(stack) PROVE Settings!Next
      BY <3>7, LoadImplements DEF Settings!Next
    <3> QED BY <2>2, <3>2, <3>3, <3>4, <3>5, <3>6, <3>7, CacheImplements, BlacklistImplements,
               ClearImplements, CustomImplements, BuildImplements DEF BuilderNext
  <2>3. CASE UNCHANGED builderVars
    BY <2>1, <2>3
  <2>4. BuilderNext \/ UNCHANGED builderVars
    BY DEF CacheNext, AnswerError, AnswerValue, LoadValue, LoadError, EvictValue, EvictError, vars
  <2> QED BY <2>2, <2>3, <2>4
<1>3. CacheInit => OrderInv
  BY DEF CacheInit, Init, OrderInv, BuilderInv, HitsAreFree, Layered
<1>4. Inv /\ OrderInv /\ [CacheNext]_vars => OrderInv'
  BY OrderStep
<1>5. CacheInit => MappedWhole
  BY <1>1, SameConfigs DEF MappedWhole, WholeSettings, Settings!Init, Settings!Nothing, Known
<1>6. MappedWhole /\ [Settings!Next]_MappedSettings => MappedWhole'
  BY WholeSteps
<1> QED BY <1>1, <1>2, <1>3, <1>4, <1>5, <1>6, StoresHold, PTL DEF Spec, ImplementsSettings, Settings!Spec
=============================================================================
