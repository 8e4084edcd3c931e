------------------------------ MODULE StartScan ------------------------------
(***************************************************************************)
(* The start scan of a stream supervisor: which idle providers are asked   *)
(* to open a stream, and for which symbols.  This module holds the         *)
(* constant-level operators of borsa/src/router/streaming/supervisor_sm.rs *)
(* that `Supervisor::compute_needed_starts` is built from.  The operators  *)
(* take the fields of the Rust struct as arguments:                        *)
(*                                                                         *)
(*   allow   provider_allow, the symbols each provider may stream          *)
(*   ps      the tag of each provider's ProviderState                      *)
(*   sb      the symbols carried by a Connecting or Active ProviderState   *)
(*   sc, si  scan_cursor and start_index                                   *)
(*                                                                         *)
(* Providers are numbered 0..N-1 as in the code: a smaller index is a      *)
(* higher priority.  Symbol is required_symbols; an instrument is          *)
(* represented by its symbol.                                              *)
(***************************************************************************)
EXTENDS Integers

CONSTANTS N,        \* number of providers in the chain
          Symbol    \* required_symbols

ASSUME NAssumption == N \in Nat \ {0}

Provider == 0 .. N - 1

ProviderState == {"Idle", "IdleFromCooldown", "Connecting", "Active", "InCooldown"}

\* mutant: a provider whose cooldown is over is not retried
IsIdle_FreshOnly(ps, i) == ps[i] = "Idle"

\* is_provider_idle
IsIdle(ps, i) == ps[i] \in {"Idle", "IdleFromCooldown"}

\* has_any_active
AnyActive(ps) == \E i \in Provider : ps[i] = "Active"

\* compute_coverage_count(sym) > 0
Covered(sb, s) == \E j \in Provider : s \in sb[j]

\* provider_has_symbol_before
HeldBefore(sb, i, s) == \E j \in Provider : j < i /\ s \in sb[j]

\* mutant: symbols the provider is not allowed to stream
Needed_AnySymbol(allow, sb, i) ==
    {s \in Symbol : ~Covered(sb, s) \/ ~HeldBefore(sb, i, s)}

\* mutant: symbols that other providers hold already
Needed_IgnoresHolders(allow, sb, i) == allow[i]

\* should_include_instrument, over all the instruments of provider i
Needed(allow, sb, i) ==
    {s \in allow[i] : ~Covered(sb, s) \/ ~HeldBefore(sb, i, s)}

\* has_idle_providers_with_work
HasWork(allow, ps, sb) ==
    \E i \in Provider : IsIdle(ps, i) /\ Needed(allow, sb, i) # {}

Distance(from, to) == (to - from) % N

\* mutant: the loop stops in front of start_index
Scanned_ExcludesStart(sc, si) ==
    {i \in Provider : sc = si \/ Distance(sc, i) < Distance(sc, si)}

\* The providers the loop visits: from scan_cursor round to start_index,
\* start_index included; the whole ring when the two coincide.
Scanned(sc, si) ==
    {i \in Provider : sc = si \/ Distance(sc, i) <= Distance(sc, si)}

\* Provider i is visited, idle, and could use symbol s when the scan begins.
Candidate(allow, ps, sb, sc, si, i, s) ==
    /\ i \in Scanned(sc, si)
    /\ IsIdle(ps, i)
    /\ s \in Needed(allow, sb, i)

\* mutant: earlier providers of the same scan are not looked at
Takes_OldView(allow, ps, sb, sc, si, i) ==
    {s \in Symbol : Candidate(allow, ps, sb, sc, si, i, s)}

\* The symbols provider i is asked to stream: those it needs, less those that
\* a higher-priority provider visited earlier in the same scan has taken.
Takes(allow, ps, sb, sc, si, i) ==
    {s \in Symbol :
        /\ Candidate(allow, ps, sb, sc, si, i, s)
        /\ \A j \in Provider :
              (j < i /\ Distance(sc, j) < Distance(sc, i))
                 => ~Candidate(allow, ps, sb, sc, si, j, s)}

\* The RequestStart actions of one scan: {} for a provider that is not asked.
Requests(allow, ps, sb, sc, si) ==
    [i \in Provider |-> Takes(allow, ps, sb, sc, si, i)]

\* mutant: the provider is not marked
MarkConnecting_Forgets(ps, req) == ps

\* provider states and symbol sets once the requested providers are Connecting
MarkConnecting(ps, req) ==
    [i \in Provider |-> IF req[i] # {} THEN "Connecting" ELSE ps[i]]

MarkSymbols(sb, req) ==
    [i \in Provider |-> IF req[i] # {} THEN req[i] ELSE sb[i]]

-----------------------------------------------------------------------------
(* The loop of compute_needed_starts as it is in the source, on a view      *)
(* [ps, sb] of the providers: what Requests states in closed form.          *)

\* the body of the loop for provider i
Visit(allow, view, i) ==
    LET wanted == Needed(allow, view.sb, i)
    IN  IF IsIdle(view.ps, i) /\ wanted # {}
        THEN [ps |-> [view.ps EXCEPT ![i] = "Connecting"], sb |-> [view.sb EXCEPT ![i] = wanted]]
        ELSE view

\* The loop ends with the first turn, after the first one, that visits si.
AtStart(sc, si, k) == k > 0 /\ (sc + k) % N = si
LastTurn(sc, si) == CHOOSE k \in 1..N : AtStart(sc, si, k)

AfterLoop(allow, view, sc, si) ==
    LET after[k \in 0..N] ==
            Visit(allow, IF k = 0 THEN view ELSE after[k - 1], (sc + k) % N)
    IN  after[LastTurn(sc, si)]

\* what the supervisor may hold: symbols exactly while Connecting or Active
Views(allow) ==
    {[ps |-> ps, sb |-> sb] :
        ps \in [Provider -> ProviderState],
        sb \in {b \in [Provider -> SUBSET Symbol] : \A i \in Provider : b[i] \subseteq allow[i]}}
CarriesSymbols(view) ==
    \A i \in Provider : view.sb[i] # {} <=> view.ps[i] \in {"Connecting", "Active"}
=============================================================================
