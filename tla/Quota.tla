--------------------------------- MODULE Quota ---------------------------------
(***************************************************************************)
(* The quota middleware (borsa-middleware/src/quota.rs): two counters and  *)
(* the start times of the window and the slice they count for.  Nothing    *)
(* runs when a window ends: the next call finds out, clears the counter    *)
(* and moves the start time forward by whole windows, however many have    *)
(* passed unused.                                                          *)
(*                                                                         *)
(* should_allow_call holds the mutex throughout and reads the clock under  *)
(* it, so a call is one step.  `now` counts clock ticks since last_reset   *)
(* was first set; QuotaAwareConnector::new reads the clock again for       *)
(* slice_start, so slices lie Gap ticks off the windows.  Slices, and what *)
(* a refused caller is told, are computed in whole milliseconds.           *)
(***************************************************************************)
EXTENDS Naturals

CONSTANTS
    Limit, Window,   \* QuotaConfig: limit, and window in clock ticks
    Spread,          \* QuotaConfig: strategy is EvenSpreadHourly
    Slices,          \* slices of a window: 24 in the code
    TicksPerMs,      \* clock ticks in a millisecond
    Gap,             \* clock ticks between the two readings at creation
    MaxTime          \* bound: the clock stops here

ASSUME QuotaAssumption ==
    /\ Limit \in Nat /\ Window \in Nat \ {0} /\ Spread \in BOOLEAN
    /\ Slices \in Nat \ {0} /\ TicksPerMs \in Nat \ {0}
    /\ Gap \in Nat /\ MaxTime \in Nat /\ Gap <= MaxTime

VARIABLES
    now,
    calls_made_in_window, last_reset,
    calls_made_in_slice, slice_start,
    reply            \* the outcome of the last call

vars == <<now, calls_made_in_window, last_reset, calls_made_in_slice, slice_start, reply>>

AtLeastOne(n) == IF n = 0 THEN 1 ELSE n

AllowedPerSlice == AtLeastOne(Limit \div Slices)

SliceDuration == AtLeastOne((Window \div TicksPerMs) \div Slices) * TicksPerMs

Init ==
    /\ now = Gap
    /\ calls_made_in_window = 0 /\ last_reset = 0
    /\ calls_made_in_slice = 0 /\ slice_start = Gap
    /\ reply = [granted |-> TRUE, remaining |-> 0, reset_in_ms |-> 0]

Tick ==
    /\ now < MaxTime
    /\ now' = now + 1
    /\ UNCHANGED <<calls_made_in_window, last_reset, calls_made_in_slice, slice_start, reply>>

-----------------------------------------------------------------------------
(* should_allow_call *)

Elapsed(since, duration) == now - since >= duration

\* mutant: one duration too many, into a window that has not begun
Advanced_RoundsUp(since, duration) ==
    IF Elapsed(since, duration) THEN since + (((now - since) \div duration) + 1) * duration ELSE since

\* the start, moved forward by the whole durations that have passed
Advanced(since, duration) == since + ((now - since) \div duration) * duration

\* mutant: the slice's counter outlives its slice
InSlice_NotReset == calls_made_in_slice

\* the counters once an elapsed window, or slice, has been reset
InWindow == IF Elapsed(last_reset, Window) THEN 0 ELSE calls_made_in_window
InSlice == IF Elapsed(slice_start, SliceDuration) THEN 0 ELSE calls_made_in_slice

Reset ==
    /\ last_reset' = Advanced(last_reset, Window)
    /\ slice_start' = IF Spread THEN Advanced(slice_start, SliceDuration) ELSE slice_start

\* mutant: one call more than the slice allows
SliceBlocks_OffByOne == Spread /\ InSlice > AllowedPerSlice /\ InWindow < Limit

SliceBlocks == Spread /\ InSlice >= AllowedPerSlice /\ InWindow < Limit

Allow ==
    /\ ~SliceBlocks /\ InWindow < Limit
    /\ Reset
    /\ calls_made_in_window' = InWindow + 1
    /\ calls_made_in_slice' = IF Spread THEN InSlice + 1 ELSE calls_made_in_slice
    /\ reply' = [granted |-> TRUE, remaining |-> 0, reset_in_ms |-> 0]
    /\ UNCHANGED now

\* QuotaExceeded, with what is left of the window and the time to the start
\* of the next window or slice
Refuse(start, duration) ==
    /\ Reset
    /\ calls_made_in_window' = InWindow
    /\ calls_made_in_slice' = IF Spread THEN InSlice ELSE calls_made_in_slice
    /\ reply' = [granted |-> FALSE,
                 remaining |-> Limit - InWindow,
                 reset_in_ms |-> (duration - (now - start)) \div TicksPerMs]
    /\ UNCHANGED now

BlockedBySlice == SliceBlocks /\ Refuse(slice_start', SliceDuration)

BlockedByWindow == ~SliceBlocks /\ InWindow >= Limit /\ Refuse(last_reset', Window)

Next == Tick \/ Allow \/ BlockedBySlice \/ BlockedByWindow

Spec == Init /\ [][Next]_vars

-----------------------------------------------------------------------------

TypeOK ==
    /\ now \in 0 .. MaxTime
    /\ calls_made_in_window \in 0 .. Limit /\ last_reset \in 0 .. now
    /\ calls_made_in_slice \in Nat /\ slice_start \in 0 .. now
    /\ reply \in [granted : BOOLEAN, remaining : 0 .. Limit, reset_in_ms : Nat]

\* Windows stay where they were when the middleware was created, whatever
\* gaps there are between the calls that notice their ends.
Aligned ==
    /\ last_reset % Window = 0
    /\ slice_start >= Gap /\ (slice_start - Gap) % SliceDuration = 0

\* The refinement mapping: a budget is untouched as soon as its time is over.
Budget == INSTANCE RateBudget WITH
    used <- InWindow, used_in_slice <- IF Spread THEN InSlice ELSE 0,
    PerSlice <- AllowedPerSlice, Slice <- SliceDuration, Offset <- Gap

\* Resetting lazily, at the next call, is as good as resetting on time: every
\* answer, and every hint in a refusal, is the one RateBudget gives.  Its windows
\* are fixed; what that leaves of the sliding window that the documentation
\* speaks of is the subject of MC_Quota.
ImplementsRateBudget == Budget!Spec

\* Where a window is a whole number of slices, one nobody has called in yet
\* refuses nobody, once the slice that reaches Gap ticks into it is over.
FreshWindowIsOpen ==
    Window % SliceDuration = 0 /\ Limit > 0 /\ InWindow = 0 /\ now % Window >= Gap
        => ~SliceBlocks
=============================================================================
