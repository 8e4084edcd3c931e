------------------------------- MODULE FanOut -------------------------------
(***************************************************************************)
(* The router calls that ask for several things at once and put the        *)
(* answers together: quotes, download, search and info                     *)
(* (borsa/src/router/{quotes,download,search,info,macros}.rs).  A download *)
(* is a history call for each instrument; one such call is what History    *)
(* models, and here it is op = "history".                                  *)
(*                                                                         *)
(* Calls are joined: they run concurrently and are looked at when all have *)
(* returned, in the order they were started in, or not at all if the       *)
(* deadline of the request passes first.                                   *)
(***************************************************************************)
EXTENDS History

CONSTANTS
    Instruments,    \* of a batch
    MaxBatch,       \* bound: instruments of a batch
    Results,        \* what one connector's search may find: sequences of
                    \* [symbol, kind, exchange]; symbol None is a prediction
    Preferences,    \* [symbol, kind, global]: exchanges_for_symbol, ...
    Kinds,          \* asset kinds, and None: SearchRequest::kind
    Limits,         \* SearchRequest::limit
    SupportsKind,   \* [Connectors -> SUBSET Kinds]: supports_kind
    Searchers,      \* connectors with a search provider
    Failures        \* errors a call may end with: sequences of leaves

\* None is the Option without a value, which no value of a call is.
Profiles == [name : {"profile name"}, isin : {None, "of profile"}]
Quotes == [name : {None, "quote name"}]

ASSUME ValuesAssumption ==
    /\ None \notin Profiles \union Quotes /\ None \notin Seq(Instruments)
    /\ None \notin {"6m", "1m", "valid", "invalid"}

ASSUME BatchAssumption == MaxBatch \in Nat

ASSUME FailuresAssumption == Failures \subseteq Seq(STRING)

ASSUME SearchAssumption ==
    /\ \A found \in Results : found \in Seq(ToSet(found))
    /\ Limits \subseteq Nat \union {None}
    /\ \A s \in DOMAIN Preferences.symbol : Preferences.symbol[s] \in Seq(STRING)
    /\ \A k \in DOMAIN Preferences.kind : Preferences.kind[k] \in Seq(STRING)
    /\ Preferences.global \in Seq(STRING)

VARIABLES
    op,      \* the method called
    query,   \* its arguments
    calls,   \* what the calls joined have returned, by position
    report   \* None, or what the method returned

fanVars == <<op, query, calls, report>>
allVars == <<vars, fanVars>>

Waiting == [kind |-> "waiting"]
Ok(value) == [kind |-> "ok", value |-> value]
Err(leaves) == [kind |-> "err", leaves |-> leaves]

\* DownloadBuilder::new
NewDownload == [insts |-> <<>>, range |-> "6m", period |-> None]

-----------------------------------------------------------------------------
(* DownloadBuilder *)

Unique(insts) == \A i, j \in DOMAIN insts : insts[i] = insts[j] => i = j

Building == op = "download" /\ calls = None /\ report = None
Refuse(kind) == report' = [kind |-> kind]

\* instruments() replaces what was there, add_instrument() adds to it
SetInstruments(insts) ==
    /\ Building
    /\ IF Unique(insts)
       THEN query' = [query EXCEPT !.insts = insts] /\ UNCHANGED report
       ELSE Refuse("invalid_arg") /\ UNCHANGED query
    /\ UNCHANGED <<vars, op, calls>>

\* mutant: the period set before stays beside the range
SetRange_KeepsPeriod ==
    /\ Building
    /\ query' = [query EXCEPT !.range = "1m"]
    /\ UNCHANGED <<vars, op, calls, report>>

SetRange ==
    /\ Building
    /\ query' = [query EXCEPT !.range = "1m", !.period = None]
    /\ UNCHANGED <<vars, op, calls, report>>

SetPeriod(p) ==
    /\ Building
    /\ query' = [query EXCEPT !.range = None, !.period = p]
    /\ UNCHANGED <<vars, op, calls, report>>

Batches == UNION {[1..n -> Instruments] : n \in 0..MaxBatch}

Configure ==
    \/ \E insts \in Batches : SetInstruments(insts)
    \/ \E i \in Instruments :
          Len(query.insts) < MaxBatch /\ SetInstruments(Append(query.insts, i))
    \/ SetRange
    \/ \E p \in {"valid", "invalid"} : SetPeriod(p)

-----------------------------------------------------------------------------
(* The start of a call *)

\* the calls of each phase of info
BaseParts == <<"profile", "quote", "isin">>
Enrichments == <<"price_target", "recommendations", "esg">>

\* the number of calls joined
Width ==
    CASE op \in {"quotes", "download"} -> Len(query.insts)
      [] op = "search" -> Cardinality(Connectors)
      [] op = "info" -> 3
      [] op = "fast_info" -> 1

\* the connectors a search asks, by rank
Attempted(c) == c \in Searchers /\ (query.kind # None => query.kind \in SupportsKind[c])

\* A connector that cannot serve the search has answered with nothing.
Started(i) == IF op = "search" /\ ~Attempted(i) THEN Ok(<<>>) ELSE Waiting

Run ==
    /\ op # "history"
    /\ calls = None
    /\ report = None
    /\ CASE op = "download" /\ (query.insts = <<>> \/ query.period = "invalid") ->
              Refuse("invalid_arg") /\ UNCHANGED calls
         [] OTHER -> calls' = [i \in 1..Width |-> Started(i)] /\ UNCHANGED report
    /\ UNCHANGED <<vars, op, query>>

Pending == {i \in DOMAIN calls : calls[i] = Waiting}

Values(i) ==
    CASE op = "search" -> Results
      [] op \in {"quotes", "download"} -> {query.insts[i]}
      [] op = "info" /\ i = 1 -> Profiles
      [] op = "info" /\ i = 3 -> {None, "of isin"}
      [] op = "fast_info" \/ (op = "info" /\ i = 2) -> Quotes

Return(i) ==
    /\ calls # None /\ report = None
    /\ i \in Pending
    /\ \/ \E v \in Values(i) : calls' = [calls EXCEPT ![i] = Ok(v)]
       \/ \E e \in Failures : calls' = [calls EXCEPT ![i] = Err(e)]
    /\ UNCHANGED <<vars, op, query, report>>

\* join_with_deadline; info and fast_info have none of their own
JoinDeadline ==
    /\ calls # None /\ report = None
    /\ op \in {"quotes", "download", "search"}
    /\ Pending # {}
    /\ report' = [kind |-> "request_timeout"]
    /\ UNCHANGED <<vars, op, query, calls>>

-----------------------------------------------------------------------------
(* Putting the answers together *)

IsOk(c) == c.kind = "ok"
IsErr(c) == c.kind = "err"
Oks == Selected(calls, {i \in DOMAIN calls : IsOk(calls[i])})
Errs == Selected(calls, {i \in DOMAIN calls : IsErr(calls[i])})
ValuesOf(cs) == [i \in DOMAIN cs |-> cs[i].value]

\* is_actionable and flatten: the leaves of an error that a user can act upon
Actionable(leaf) == leaf \notin {"notfound", "unsupported"}
ActionableOf(c) ==
    IF IsErr(c) THEN Selected(c.leaves, {k \in DOMAIN c.leaves : Actionable(c.leaves[k])})
    ELSE <<>>
Warnings == FlattenSeq([i \in DOMAIN calls |-> ActionableOf(calls[i])])

\* mutant: instruments that are not found are left out
QuotesResult_Silent ==
    [kind |-> "quotes", quotes |-> ValuesOf(Oks),
     failures |-> LET failed == {i \in DOMAIN calls : IsErr(calls[i]) /\ ActionableOf(calls[i]) # <<>>}
                  IN  [k \in 1..Cardinality(failed) |-> query.insts[Ascending(failed)[k]]]]

QuotesResult ==
    [kind |-> "quotes", quotes |-> ValuesOf(Oks),
     failures |-> LET failed == {i \in DOMAIN calls : IsErr(calls[i])}
                  IN  [k \in 1..Cardinality(failed) |-> query.insts[Ascending(failed)[k]]]]

\* the errors as they are, without the instrument they are about
DownloadResult ==
    [kind |-> "download",
     entries |-> IF Oks = <<>> THEN None ELSE ValuesOf(Oks),
     warnings |-> [i \in DOMAIN Errs |-> Errs[i].leaves]]

-----------------------------------------------------------------------------
(* dedup_search_results_by_exchange *)

\* Preference::resolve_rank_map
RankMap(symbol, kind) ==
    CASE symbol \in DOMAIN Preferences.symbol -> Preferences.symbol[symbol]
      [] symbol \notin DOMAIN Preferences.symbol /\ kind \in DOMAIN Preferences.kind ->
            Preferences.kind[kind]
      [] OTHER -> Preferences.global

\* RankedList::new keeps the first of equal elements
RankIn(list, x) == CHOOSE i \in DOMAIN list : list[i] = x /\ \A j \in 1..(i - 1) : list[j] # x

\* exchange_sort_key without the index: ranked, then others, then none
ExchangeKey(r) ==
    LET list == RankMap(r.symbol, IF query.kind = None THEN r.kind ELSE query.kind)
    IN  CASE r.exchange = None -> Len(list) + 2
          [] r.exchange # None /\ r.exchange \in ToSet(list) -> RankIn(list, r.exchange)
          [] OTHER -> Len(list) + 1

\* mutant: the first result of a symbol is kept
BestOf_FirstSeen(found, group) == CHOOSE i \in group : \A j \in group : i <= j

\* the result kept of those of one symbol
BestOf(found, group) ==
    CHOOSE i \in group : \A j \in group :
        \/ ExchangeKey(found[i]) < ExchangeKey(found[j])
        \/ ExchangeKey(found[i]) = ExchangeKey(found[j]) /\ i <= j

Deduplicated(found) ==
    LET securities == {i \in DOMAIN found : found[i].symbol # None}
        groupOf(i) == {j \in securities : found[j].symbol = found[i].symbol}
        firsts == Ascending({i \in securities : \A j \in groupOf(i) : i <= j})
    IN  [k \in DOMAIN firsts |-> found[BestOf(found, groupOf(firsts[k]))]]

SearchResult ==
    LET found == FlattenSeq(ValuesOf(Oks))
        merged == Deduplicated(found)
        kept == IF query.limit # None /\ Len(merged) > query.limit
                THEN SubSeq(merged, 1, query.limit) ELSE merged
    IN  CASE \A c \in Connectors : ~Attempted(c) -> [kind |-> "unsupported"]
          [] kept = <<>> /\ Warnings # <<>> /\ \E c \in Connectors : Attempted(c) ->
                IF ToSet(Warnings) = {"timeout"} THEN [kind |-> "all_timed_out"]
                ELSE [kind |-> "all_failed", warnings |-> Warnings]
          [] OTHER -> [kind |-> "search", results |-> kept, warnings |-> Warnings]

-----------------------------------------------------------------------------
(* info and fast_info *)

\* an Option in Rust: x, or else y
OrElse(x, y) == IF x # None THEN x ELSE y
Part(c) == IF IsOk(c) THEN c.value ELSE None
NameOf(part) == IF part = None THEN None ELSE part.name

\* collect_base is over: what it found is kept, the enrichments are asked for
Enrich ==
    /\ op = "info" /\ query.parts = BaseParts
    /\ calls # None /\ report = None /\ Pending = {}
    /\ LET profile == Part(calls[1])
           quote == Part(calls[2])
       IN  query' = [parts |-> Enrichments,
                     name |-> OrElse(NameOf(quote), NameOf(profile)),
                     isin |-> OrElse(Part(calls[3]),
                                     IF profile = None THEN None ELSE profile.isin),
                     base |-> calls,
                     warnings |-> Warnings]
    /\ calls' = [i \in 1..3 |-> Waiting]
    /\ UNCHANGED <<vars, op, report>>

InfoResult ==
    [kind |-> "info", name |-> query.name, isin |-> query.isin,
     parts |-> {i \in 1..3 : IsOk(calls[i])}, warnings |-> query.warnings \o Warnings]

\* a quote without a price is a data error
FastInfoResults ==
    IF IsErr(calls[1]) THEN {[kind |-> "failed", leaves |-> calls[1].leaves]}
    ELSE {[kind |-> "fast_info", name |-> calls[1].value.name], [kind |-> "data"]}

Joins ==
    CASE op = "quotes" -> {QuotesResult}
      [] op = "download" -> {DownloadResult}
      [] op = "search" -> {SearchResult}
      [] op = "info" -> IF query.parts = Enrichments THEN {InfoResult} ELSE {}
      [] op = "fast_info" -> FastInfoResults

Join ==
    /\ calls # None /\ report = None
    /\ Pending = {}
    /\ \E joined \in Joins : report' = joined
    /\ UNCHANGED <<vars, op, query, calls>>

-----------------------------------------------------------------------------
HistoryCall == op = "history" /\ Init /\ query = None

OtherCall ==
    /\ config = None /\ request = None /\ eligible = {} /\ result = None
    /\ tasks = [c \in Connectors |-> Idle]
    /\ \/ op = "quotes" /\ \E insts \in Batches : query = [insts |-> insts]
       \/ op = "download" /\ query = NewDownload
       \/ op = "search" /\ \E k \in Kinds, l \in Limits : query = [kind |-> k, limit |-> l]
       \/ op = "info" /\ query = [parts |-> BaseParts]
       \/ op = "fast_info" /\ query = None

FanInit == calls = None /\ report = None /\ (HistoryCall \/ OtherCall)

FanNext ==
    \/ op = "history" /\ Next /\ UNCHANGED fanVars
    \/ op = "download" /\ Building /\ Configure
    \/ Run
    \/ calls # None /\ \E i \in DOMAIN calls : Return(i)
    \/ JoinDeadline
    \/ Enrich
    \/ Join
    \/ report # None /\ UNCHANGED allVars

FanSpec == FanInit /\ [][FanNext]_allVars

-----------------------------------------------------------------------------
(* Properties *)

\* The state keeps its types.  A download being built never holds an
\* instrument twice, and has a range or a period but not both, whichever order
\* its setters are called in.
FanTypeOK ==
    /\ op \in {"history", "quotes", "download", "search", "info", "fast_info"}
    /\ op = "history" => TypeOK /\ query = None /\ calls = None
    /\ op = "download" => Unique(query.insts) /\ (query.range = None <=> query.period # None)
    /\ calls # None => \A i \in DOMAIN calls : calls[i].kind \in {"waiting", "ok", "err"}
    /\ report # None =>
          report.kind \in {"quotes", "download", "search", "info", "fast_info", "data", "failed",
                          "invalid_arg", "unsupported", "all_failed", "all_timed_out",
                          "request_timeout"}

Ended(kind) == report # None /\ report.kind = kind

\* the number of calls among the first n that ended this way
Upto(n, kind) == Cardinality({i \in 1..n : calls[i].kind = kind})
Count(seq, x) == Cardinality({i \in DOMAIN seq : seq[i] = x})

\* Partial success is not silence.  Each instrument of a batch of quotes turns
\* up exactly once, among the quotes or among the failures and in the order it
\* was asked for, though the calls ended in any order.  A download lists the
\* instruments it has and, in the order of the others, the errors of those it
\* has not, which do not say what they are about (see WarningsTellApart), and
\* one without any success says so.  info reports every actionable error of its
\* six calls once and has an ISIN and a name wherever one of its sources had
\* them.  Only a deadline ends a call without such a report, of a method that
\* has one, and only while a call it waits for has not returned; what the other
\* calls have returned is dropped then (see PartialSuccessKept).
EveryCallIsAccounted ==
    /\ report # None /\ calls # None =>
          IF Ended("request_timeout")
          THEN op \in {"quotes", "download", "search"} /\ Pending # {}
          ELSE Pending = {}
    /\ Ended("quotes") =>
          /\ Len(report.quotes) + Len(report.failures) = Len(query.insts)
          /\ \A i \in DOMAIN calls :
                IF IsOk(calls[i]) THEN report.quotes[Upto(i, "ok")] = query.insts[i]
                                  ELSE report.failures[Upto(i, "err")] = query.insts[i]
    /\ Ended("download") =>
          /\ report.entries = None <=> \A i \in DOMAIN calls : IsErr(calls[i])
          /\ \A i \in DOMAIN calls :
                IF IsOk(calls[i]) THEN report.entries[Upto(i, "ok")] = query.insts[i]
                                  ELSE report.warnings[Upto(i, "err")] = calls[i].leaves
          /\ Len(report.warnings) = Upto(Len(calls), "err")
    /\ Ended("info") =>
          LET six == query.base \o calls
              of(leaf, i) == Count(ActionableOf(six[i]), leaf)
              total(leaf) == of(leaf, 1) + of(leaf, 2) + of(leaf, 3)
                             + of(leaf, 4) + of(leaf, 5) + of(leaf, 6)
              had(i, field) == IsOk(six[i]) /\ six[i].value[field] # None
          IN  /\ \A leaf \in UNION {ToSet(e) : e \in Failures} :
                    Count(report.warnings, leaf) = total(leaf)
              /\ report.name # None <=> had(1, "name") \/ had(2, "name")
              /\ report.isin # None <=> had(1, "isin") \/ Part(six[3]) # None

\* A search over all connectors, whose answers overlap.  Each symbol found is
\* returned once, at the exchange that the preferences for the symbol, else
\* for the kind, else for all rank best; symbols come in the order in which
\* the ranked connectors list them first; only the limit leaves any out.  An
\* error is returned only where nothing was found (or a limit of zero leaves
\* nothing of it) and a connector failed in a way that matters, and "all timed
\* out" only where nothing else went wrong.
SearchIsBest ==
    /\ Ended("search") =>
          LET found == FlattenSeq(ValuesOf(Oks))
              results == report.results
              first(symbol) == CHOOSE i \in DOMAIN found :
                  found[i].symbol = symbol /\ \A j \in 1..(i - 1) : found[j].symbol # symbol
              symbols == {found[i].symbol : i \in DOMAIN found} \ {None}
              returned == {results[k].symbol : k \in DOMAIN results}
          IN  /\ ToSet(results) \subseteq ToSet(found)
              /\ \A k \in DOMAIN results, i \in DOMAIN found :
                    found[i].symbol = results[k].symbol =>
                        ExchangeKey(results[k]) <= ExchangeKey(found[i])
              /\ \A k, l \in DOMAIN results :
                    k < l => first(results[k].symbol) < first(results[l].symbol)
              /\ returned # symbols => query.limit # None /\ Len(results) = query.limit
              /\ \A s \in symbols \ returned, r \in returned : first(r) < first(s)
    /\ op = "search" /\ report # None /\ report.kind \in {"all_failed", "all_timed_out"} =>
          LET leaves == UNION {ToSet(c.leaves) : c \in ToSet(Errs)}
              mattering == {leaf \in leaves : Actionable(leaf)}
          IN  /\ query.limit # 0 =>
                    \A i \in DOMAIN Oks : \A k \in DOMAIN Oks[i].value : Oks[i].value[k].symbol = None
              /\ mattering # {}
              /\ report.kind = "all_timed_out" <=> mattering = {"timeout"}
=============================================================================
