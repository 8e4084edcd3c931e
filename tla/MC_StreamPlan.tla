---------------------------- MODULE MC_StreamPlan ----------------------------
(* An instance of StreamPlan for TLC: two connectors, one kind, and requests *)
(* for up to two symbols with and without an exchange.                       *)
EXTENDS StreamPlan, TLC

CONSTANTS a, b, equity, nyse, ghost

MCLists == {<<2>>, <<1, 1, 2>>, <<2, ghost>>}

\* symbol, kind and exchange of the selectors that rules have
MCSelectors == {<<a, None, None>>, <<None, equity, None>>, <<None, None, nyse>>, <<None, equity, nyse>>}

MCRules ==
    {[symbol |-> f[1], kind |-> f[2], exchange |-> f[3], list |-> l, strict |-> st] :
        f \in MCSelectors, l \in {<<2>>, <<1, 1, 2>>}, st \in BOOLEAN}

Listed(s, e) == [symbol |-> s, kind |-> equity, exchange |-> e]

MCRequests ==
    {{}, {Listed(a, None), Listed(b, None)}, {Listed(a, nyse), Listed(b, nyse)},
     {Listed(a, None), Listed(b, nyse)}, {Listed(a, nyse), Listed(None, None)}}
=============================================================================
