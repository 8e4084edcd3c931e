------------------------------- MODULE MC_Quota -------------------------------
(***************************************************************************)
(* Quota with a history of the calls it granted within the last window's   *)
(* time, to compare its fixed windows with a sliding one.                  *)
(***************************************************************************)
EXTENDS Quota, Sequences

VARIABLE recent   \* history: when calls were granted, the latest Window ticks

HistoryInit == Init /\ recent = <<>>

\* the grants that a window reaching back from time t holds
Within(grants, t) == SelectSeq(grants, LAMBDA g : t - g < Window)

HistoryNext ==
    \/ Tick /\ recent' = Within(recent, now')
    \/ Allow /\ recent' = Append(recent, now)
    \/ (BlockedBySlice \/ BlockedByWindow) /\ UNCHANGED recent

HistorySpec == HistoryInit /\ [][HistoryNext]_<<vars, recent>>

\* borsa-types/src/config.rs:63: "Configuration for a token-like quota budget
\* over a sliding window."; limit: "Maximum number of units that may be consumed
\* within a single window."
SlidingBudget == Len(recent) <= Limit
=============================================================================
