--------------------------- MODULE MC_CacheStores ---------------------------
(***************************************************************************)
(* Instances of CacheStores for TLC.                                       *)
(***************************************************************************)
EXTENDS CacheStores

MCCaches ==
    {[ttl |-> 1, overrides |-> [quote |-> 0], negative |-> 1, negative_overrides |-> <<>>],
     [ttl |-> 0, overrides |-> [history |-> 1, news |-> 1], negative |-> 0,
      negative_overrides |-> [history |-> 1]]}

MCQuotas == {[limit |-> 5, window |-> 6, strategy |-> "Weighted"]}

\* half a millisecond
MCShortQuotas == {[limit |-> 5, window |-> 1, strategy |-> "Weighted"]}

\* Written by hand: fields are missing, the order is wrong, a layer is unknown.
MCStacks ==
    {<<[name |-> "quota", json |-> [limit |-> None, window |-> 2, strategy |-> "Other"]],
       [name |-> "unknown", json |-> None],
       [name |-> "cache", json |-> [ttl |-> 0, overrides |-> None, negative |-> None,
                                    negative_overrides |-> [history |-> 1]]],
       [name |-> "blacklist", json |-> [duration |-> None]]>>}

MCOuter == [c \in {"a"} |-> {"cache"}]
MCInner == [c \in {"a"} |-> {"quota"}]

History(range, from, on) ==
    [cap |-> "history", inst |-> "i",
     args |-> [interval |-> "1d", range |-> range, on |-> on,
               period |-> IF from = 0 THEN None ELSE [from |-> from, to |-> 8]]]

Search(kind, lang) ==
    [cap |-> "search", inst |-> None,
     args |-> [query |-> "q", kind |-> kind, limit |-> 1, lang |-> lang, region |-> None]]

MCRequests ==
    {History("1mo", 0, {}), History("1mo", 0, {"keepna"}), History("1mo", 0, {"auto_adjust"}),
     History("1mo", 0, {"include_prepost", "include_actions"}),
     History("none", 2, {}), History("none", 3, {}), History("none", 4, {}),
     [cap |-> "quote", inst |-> "i", args |-> <<>>],
     [cap |-> "profile", inst |-> "i", args |-> <<>>],
     [cap |-> "profile", inst |-> "j", args |-> <<>>],
     [cap |-> "cashflow", inst |-> "i", args |-> [quarterly |-> TRUE]],
     [cap |-> "cashflow", inst |-> "i", args |-> [quarterly |-> FALSE]],
     [cap |-> "news", inst |-> "i", args |-> [count |-> 1, tab |-> "all"]],
     [cap |-> "option_chain", inst |-> "i", args |-> [date |-> 1]],
     Search("any", None), Search("any", "de"), Search("equity", None),
     [cap |-> "stream_quotes", inst |-> "i", args |-> <<>>]}
=============================================================================
