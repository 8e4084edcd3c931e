------------------------------ MODULE RateBudget ------------------------------
(***************************************************************************)
(* What the quota of borsa-middleware grants: Limit calls in every window, *)
(* and PerSlice calls in every slice where the budget is spread.  Windows  *)
(* and slices are fixed: they follow one another from the creation of the  *)
(* middleware, and each begins with an untouched budget at the moment its  *)
(* time comes, whether or not anybody calls then.  A refusal says how much *)
(* of the window's budget is left and when the next slice or window        *)
(* begins.  Quota implements this module.                                  *)
(*                                                                         *)
(* This is not the sliding window that borsa-types/src/config.rs:63 and    *)
(* borsa-middleware/README.md:20 speak of: around the end of a fixed       *)
(* window up to twice the limit may be granted within one window's time    *)
(* (SlidingBudget of MC_Quota, which TLC refutes).                         *)
(***************************************************************************)
EXTENDS Naturals

CONSTANTS Limit, Window,      \* calls per window, length of a window
          Spread,             \* EvenSpreadHourly: slices are limited too
          PerSlice, Slice,    \* calls per slice, length of a slice
          Offset,             \* ticks by which the first slice begins later
          TicksPerMs          \* clock ticks in a millisecond

VARIABLES now, used, used_in_slice, reply

vars == <<now, used, used_in_slice, reply>>

Ms(ticks) == ticks \div TicksPerMs

Granted == [granted |-> TRUE, remaining |-> 0, reset_in_ms |-> 0]
Refused(remaining, ticks) ==
    [granted |-> FALSE, remaining |-> remaining, reset_in_ms |-> Ms(ticks)]

Init ==
    /\ now = Offset /\ used = 0 /\ used_in_slice = 0
    /\ reply = Granted

Tick ==
    /\ now' = now + 1
    /\ used' = IF now' % Window = 0 THEN 0 ELSE used
    /\ used_in_slice' = IF Spread /\ (now' - Offset) % Slice = 0 THEN 0 ELSE used_in_slice
    /\ UNCHANGED reply

SliceSpent == Spread /\ used_in_slice >= PerSlice

Grant ==
    /\ used < Limit /\ ~SliceSpent
    /\ used' = used + 1
    /\ used_in_slice' = IF Spread THEN used_in_slice + 1 ELSE used_in_slice
    /\ reply' = Granted
    /\ UNCHANGED now

\* The window has room and the slice has none.
RefuseForSlice ==
    /\ used < Limit /\ SliceSpent
    /\ reply' = Refused(Limit - used, Slice - ((now - Offset) % Slice))
    /\ UNCHANGED <<now, used, used_in_slice>>

RefuseForWindow ==
    /\ used >= Limit
    /\ reply' = Refused(0, Window - (now % Window))
    /\ UNCHANGED <<now, used, used_in_slice>>

Next == Tick \/ Grant \/ RefuseForSlice \/ RefuseForWindow

Spec == Init /\ [][Next]_vars
=============================================================================
