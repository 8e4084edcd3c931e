---------------------------- MODULE MC_FanOut ----------------------------
(* Instances of FanOut for TLC. *)
EXTENDS FanOut, MC_History

CONSTANTS i1, i2, aapl, ibm

MCInstruments == {i1, i2}

Found(symbol, exchange) == [symbol |-> symbol, kind |-> "equity", exchange |-> exchange]

\* the second connector lists the better exchange of a symbol, or none
MCResults ==
    { <<>>,
      <<Found(None, None)>>,
      <<Found(aapl, "lse"), Found(ibm, None)>>,
      <<Found(ibm, "nyse"), Found(aapl, "nasdaq"), Found(ibm, "xetra")>> }

MCPreferences ==
    [symbol |-> [s \in {aapl} |-> <<"nasdaq", "nasdaq", "lse">>],
     kind   |-> [k \in {"equity"} |-> <<"xetra", "nyse">>],
     global |-> <<"lse">>]

MCKinds == {None, "equity", "crypto"}
MCLimits == {None, 1}
MCSupportsKind == <<{"equity"}, {"equity"}, {}>>
MCSearchers == {2, 3}
MCFailures == {<<"notfound">>, <<"timeout">>, <<"unsupported", "failed">>}

\* What download.rs:132-133 says, and the code does not do: the warnings of a
\* download are entries "{symbol}: {error}".  Its instruments are all
\* different, so no two of them would be alike; of errors that something was not
\* found, which name what, nothing is asked.
WarningsTellApart ==
    Ended("download") =>
        \A k, l \in DOMAIN report.warnings :
            report.warnings[k] = report.warnings[l] /\ report.warnings[k] # <<"notfound">> => k = l

\* What quotes.rs:33-38 says, and the code does not do: a batch of quotes
\* succeeds in part, and fails as a whole only if joining the calls fails,
\* before any instrument is routed.  So no quote that was found is lost.
PartialSuccessKept ==
    op = "quotes" /\ report # None =>
        \A i \in DOMAIN calls : IsOk(calls[i]) => Ended("quotes")
=============================================================================
