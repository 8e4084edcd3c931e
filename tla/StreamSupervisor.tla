--------------------------- MODULE StreamSupervisor ---------------------------
(***************************************************************************)
(* One stream supervisor of borsa: the state machine of                    *)
(* router/streaming/supervisor_sm.rs together with the task of             *)
(* router/streaming/controller.rs that drives it, the start attempts that  *)
(* task spawns, and the sessions that forward a provider's updates.        *)
(*                                                                         *)
(* The supervisor task handles one event at a time and awaits nothing      *)
(* between two events, so a handler with every action it returns           *)
(* (RequestStart, NotifyInitial, PreemptSessions, StopAll, ...) is one     *)
(* step.  Start attempts and sessions are tasks of their own: each of      *)
(* their steps interleaves with the supervisor's.  The backoff timer is    *)
(* always armed; durations are left out, a tick may come at any moment.    *)
(* A session is seen here as polling its arms, sending an update, or       *)
(* ended; StreamSession models how it forwards.                            *)
(***************************************************************************)
EXTENDS StartScan, Sequences

CONSTANTS
    Plans,       \* the provider_allow vectors the router may hand over
    Recoveries,  \* sets of providers that may all stop failing at some point
    MinBackoff, MaxBackoff, Factor

\* stream.rs builds a chain around its primary, which may stream every
\* required symbol; the factor is raised to at least 1 there.
ASSUME PlansAssumption ==
    /\ Plans # {}
    /\ \A a \in Plans : a \in [Provider -> SUBSET Symbol] /\ a[0] = Symbol
ASSUME SymbolAssumption == Symbol # {}
ASSUME RecoveriesAssumption == Recoveries \subseteq SUBSET Provider
ASSUME BackoffAssumption ==
    MinBackoff \in Nat /\ MaxBackoff \in Nat /\ Factor \in Nat \ {0}

VARIABLES
    allow,            \* provider_allow, fixed at spawn
    pstate,           \* providers: the tag of each ProviderState ...
    subs,             \* ... and its symbols, {} unless Connecting or Active
    start_index, scan_cursor, round_exhausted, backoff_ms,
    attempted,        \* attempted_since_last_tick
    phase,            \* Phase, plus where the supervisor task itself is
    notified,         \* what initial_notify has been sent
    starts,           \* start attempts whose result is not handled yet
    live,             \* providers with a session task that is running
    told,             \* sessions whose stop_tx was used or dropped
    sending,          \* sessions in tx_out.send, which may wait for room
    event_rx,         \* SessionEnded messages not handled yet
    stop_watch,       \* the broadcast stop flag
    closed,           \* the consumer has dropped its receiver
    deserted,         \* the sender of the flag was dropped with the flag down
    steady            \* providers whose starts succeed and whose streams last
                      \* from now on (the environment, not in the code)

smVars == <<pstate, subs, start_index, scan_cursor, round_exhausted, attempted>>
sessionVars == <<live, told, sending, event_rx>>
envVars == <<stop_watch, closed, deserted, steady>>
vars == <<allow, smVars, backoff_ms, phase, notified, starts, sessionVars, envVars>>

Open == phase \in {"Startup", "Running"}

MayFail(i) == i \notin steady

-----------------------------------------------------------------------------
(* Fields of the supervisor *)

Init ==
    /\ allow \in Plans
    /\ pstate = [i \in Provider |-> "Idle"]
    /\ subs = [i \in Provider |-> {}]
    /\ start_index = 0 /\ scan_cursor = 0
    /\ round_exhausted = FALSE /\ attempted = FALSE
    /\ backoff_ms = MinBackoff
    /\ phase = "Spawned" /\ notified = "none"
    /\ starts = [i \in Provider |-> <<>>]
    /\ live = {} /\ told = {} /\ sending = {} /\ event_rx = {}
    /\ stop_watch = FALSE /\ closed = FALSE /\ deserted = FALSE /\ steady = {}

\* should_attempt_starts, then compute_needed_starts
Round(ps, sb, si, sc, exhausted) ==
    IF ~exhausted /\ HasWork(allow, ps, sb)
    THEN Requests(allow, ps, sb, sc, si)
    ELSE [i \in Provider |-> {}]

\* What a handler leaves in the supervisor once the round that `handle`
\* appends to every transition has marked the requested providers.
Settle(ps, sb, si, sc, exhausted, att, req) ==
    /\ pstate' = MarkConnecting(ps, req)
    /\ subs' = MarkSymbols(sb, req)
    /\ start_index' = si
    /\ scan_cursor' = sc
    /\ round_exhausted' = exhausted
    /\ attempted' = (att \/ \E i \in Provider : req[i] # {})

\* one spawned task for each RequestStart action
SpawnStarts(st, req) ==
    [i \in Provider |-> IF req[i] # {} THEN Append(st[i], req[i]) ELSE st[i]]

\* The oldest attempt of provider i is answered.
Answered(i) == [starts EXCEPT ![i] = Tail(@)]

\* mutant: every lower session is stopped
LowerOverlaps_Any(ps, sb, i, syms) == {j \in Provider : j > i /\ ps[j] = "Active"}

\* mutant: priority is not looked at
LowerOverlaps_BothWays(ps, sb, i, syms) ==
    {j \in Provider : j # i /\ ps[j] = "Active" /\ sb[j] \cap syms # {}}

\* compute_lower_priority_overlaps
LowerOverlaps(ps, sb, i, syms) ==
    {j \in Provider : j > i /\ ps[j] = "Active" /\ sb[j] \cap syms # {}}

\* mutant: the delay is not capped
IncreaseBackoff_Uncapped == backoff_ms * Factor

\* increase_backoff; the saturation of u64 is beyond any max_backoff_ms
IncreaseBackoff ==
    IF backoff_ms * Factor < MaxBackoff THEN backoff_ms * Factor ELSE MaxBackoff

\* mutant: the cursor is compared before it wraps around
FinishesRound_NoWrap(i) == i + 1 = start_index

\* advance_scan_cursor_for_failure: provider i was the last one of the round
FinishesRound(i) == (i + 1) % N = start_index

-----------------------------------------------------------------------------
(* The supervisor task *)

\* The starts issued before the event loop; attempted_since_last_tick is not
\* set by them.
KickOff ==
    /\ phase = "Spawned"
    /\ phase' = "Startup"
    /\ LET req == Round(pstate, subs, start_index, scan_cursor, round_exhausted)
       IN  /\ pstate' = MarkConnecting(pstate, req)
           /\ subs' = MarkSymbols(subs, req)
           /\ starts' = SpawnStarts(starts, req)
    /\ UNCHANGED <<allow, start_index, scan_cursor, round_exhausted, attempted,
                   backoff_ms, notified, sessionVars, envVars>>

\* start_rx yields Ok: the session is spawned, then ProviderStartSucceeded is
\* handled in Startup or Running by handle_provider_activated.
StartOk(i) ==
    /\ Open /\ starts[i] # <<>>
    /\ LET syms == Head(starts[i])
           ps   == [pstate EXCEPT ![i] = "Active"]
           sb   == [subs EXCEPT ![i] = syms]
           next == (i + 1) % N
           req  == Round(ps, sb, next, next, FALSE)
       IN  /\ Settle(ps, sb, next, next, FALSE, attempted, req)
           /\ starts' = SpawnStarts(Answered(i), req)
           /\ told' = (told \ {i}) \cup LowerOverlaps(ps, sb, i, syms)
    /\ live' = live \cup {i}
    /\ backoff_ms' = IF pstate[i] = "IdleFromCooldown" THEN MinBackoff ELSE backoff_ms
    /\ notified' = IF phase = "Startup" THEN "ok" ELSE notified
    /\ phase' = "Running"
    /\ UNCHANGED <<allow, sending, event_rx, envVars>>

\* start_rx yields Err: advance_scan_cursor_for_failure, and in Startup the
\* task returns, dropping every stop_tx, when the round is exhausted.
StartFail(i) ==
    /\ Open /\ starts[i] # <<>> /\ MayFail(i)
    /\ LET ps   == [pstate EXCEPT ![i] = "InCooldown"]
           sb   == [subs EXCEPT ![i] = {}]
           next == (i + 1) % N
           exhausted == round_exhausted \/ FinishesRound(i)
           gaveUp == phase = "Startup" /\ ~AnyActive(ps) /\ exhausted
           req  == Round(ps, sb, start_index, next, exhausted)
       IN  /\ Settle(ps, sb, start_index, next, exhausted, attempted, req)
           /\ starts' = SpawnStarts(Answered(i), req)
           /\ phase' = IF gaveUp THEN "Exited" ELSE phase
           /\ notified' = IF gaveUp THEN "err" ELSE notified
           /\ told' = IF gaveUp THEN Provider ELSE told
    /\ UNCHANGED <<allow, backoff_ms, live, sending, event_rx, envVars>>

SessionEnded(i) ==
    /\ Open /\ i \in event_rx
    /\ event_rx' = event_rx \ {i}
    /\ LET ps  == [pstate EXCEPT ![i] = "InCooldown"]
           sb  == [subs EXCEPT ![i] = {}]
           req == Round(ps, sb, start_index, scan_cursor, round_exhausted)
       IN  /\ Settle(ps, sb, start_index, scan_cursor, round_exhausted, attempted, req)
           /\ starts' = SpawnStarts(starts, req)
    /\ UNCHANGED <<allow, backoff_ms, phase, notified, live, told, sending, envVars>>

\* handle_backoff_tick
BackoffTick ==
    /\ Open
    /\ LET ps == [i \in Provider |->
                    IF pstate[i] = "InCooldown" THEN "IdleFromCooldown" ELSE pstate[i]]
           fruitless == attempted /\ ~AnyActive(ps)
           gaveUp == fruitless /\ round_exhausted /\ phase = "Startup"
           si  == IF fruitless THEN 0 ELSE start_index
           req == Round(ps, subs, si, si, FALSE)
       IN  IF gaveUp
           THEN /\ pstate' = ps
                /\ phase' = "Exited" /\ notified' = "err" /\ told' = Provider
                /\ UNCHANGED <<subs, start_index, scan_cursor, round_exhausted,
                               attempted, backoff_ms, starts>>
           ELSE /\ Settle(ps, subs, si, si, FALSE, FALSE, req)
                /\ starts' = SpawnStarts(starts, req)
                /\ backoff_ms' = IF attempted THEN IncreaseBackoff ELSE backoff_ms
                /\ UNCHANGED <<phase, notified, told>>
    /\ UNCHANGED <<allow, live, sending, event_rx, envVars>>

\* Shutdown, which the flag or the loss of its sender brings, or
\* DownstreamClosed.  In Startup the sender of the result is dropped with the
\* phase, and nothing is notified.  `handle` still looks for starts; the task
\* returns at AwaitAll, in front of them, so none would be spawned.
Shutdown ==
    /\ Open /\ (stop_watch \/ deserted \/ closed)
    /\ phase' = "Closing"
    /\ told' = Provider
    /\ Settle(pstate, subs, start_index, scan_cursor, round_exhausted, attempted,
              Round(pstate, subs, start_index, scan_cursor, round_exhausted))
    /\ UNCHANGED <<allow, backoff_ms, notified, starts, live, sending, event_rx, envVars>>

\* AwaitAll returns once every session task has.
AwaitAll ==
    /\ phase = "Closing" /\ live = {}
    /\ phase' = "Exited"
    /\ UNCHANGED <<allow, smVars, backoff_ms, notified, starts, sessionVars, envVars>>

-----------------------------------------------------------------------------
(* Start attempts and sessions *)

\* An attempt answered after the task returned: its result is dropped and the
\* provider's stream with it.
StartDropped(i) ==
    /\ phase = "Exited" /\ starts[i] # <<>>
    /\ starts' = Answered(i)
    /\ UNCHANGED <<allow, smVars, backoff_ms, phase, notified, sessionVars, envVars>>

SessionEnds(i, notify) ==
    /\ i \in live
    /\ live' = live \ {i}
    /\ sending' = sending \ {i}
    /\ event_rx' = IF notify THEN event_rx \cup {i} ELSE event_rx
    /\ UNCHANGED <<allow, smVars, backoff_ms, phase, notified, starts, told, envVars>>

\* The session is at its select and gets beyond the first arm, the change of
\* the flag, which is ready at every turn once the sender is dropped.
Polls(i) == i \in live \ sending /\ ~deserted

\* prx.recv() yields an update that passes; the stop arms come before it.
SessionSends(i) ==
    /\ Polls(i) /\ i \notin told /\ ~stop_watch
    /\ sending' = sending \cup {i}
    /\ UNCHANGED <<allow, smVars, backoff_ms, phase, notified, starts, live, told,
                   event_rx, envVars>>

\* The channel has, or gets, room for it.
UpdateSent(i) ==
    /\ i \in sending
    /\ sending' = sending \ {i}
    /\ UNCHANGED <<allow, smVars, backoff_ms, phase, notified, starts, live, told,
                   event_rx, envVars>>

\* mutant: session_stop_rx is not polled
SessionStopped_FlagOnly(i) == stop_watch /\ Polls(i) /\ SessionEnds(i, TRUE)

\* session_stop_rx or the stop flag is seen by the session's select
SessionStopped(i) == (i \in told \/ stop_watch) /\ Polls(i) /\ SessionEnds(i, TRUE)

\* prx.recv() returns None
ProviderEnded(i) == MayFail(i) /\ Polls(i) /\ SessionEnds(i, TRUE)

\* tx_out.send fails: this end is not reported to the supervisor
SessionDownstreamGone(i) == closed /\ i \in sending /\ SessionEnds(i, FALSE)

-----------------------------------------------------------------------------
(* The router around the supervisor (borsa/src/router/stream.rs) *)

\* The caller holds the StreamHandle, and the receiver, once initialization
\* succeeded.
HandedOut == notified = "ok"

Stop ==
    /\ HandedOut /\ ~stop_watch /\ ~deserted
    /\ stop_watch' = TRUE
    /\ UNCHANGED <<allow, smVars, backoff_ms, phase, notified, starts, sessionVars,
                   closed, deserted, steady>>

DropReceiver ==
    /\ HandedOut /\ ~closed
    /\ closed' = TRUE
    /\ UNCHANGED <<allow, smVars, backoff_ms, phase, notified, starts, sessionVars,
                   stop_watch, deserted, steady>>

\* The call ends before it hands anything out: `?` leaves it while supervisors
\* of other groups run already, or its caller drops it.  The receiver and the
\* sender of the flag, still down, go with it; the tasks are detached.  Once
\* handed out, a dropped StreamHandle may abort the task that holds the sender
\* before that task raises the flag.
Desert ==
    /\ ~stop_watch /\ ~deserted
    /\ deserted' = TRUE
    /\ closed' \in {TRUE} \cup (IF HandedOut THEN {closed} ELSE {})
    /\ UNCHANGED <<allow, smVars, backoff_ms, phase, notified, starts, sessionVars,
                   stop_watch, steady>>

\* The supervisor of another group failed to initialize: the router aborts
\* this task, which drops every stop_tx, and raises the stop flag.
Abort ==
    /\ HandedOut /\ ~stop_watch /\ ~closed /\ ~deserted /\ Open
    /\ phase' = "Exited"
    /\ told' = Provider
    /\ stop_watch' = TRUE
    /\ UNCHANGED <<allow, smVars, backoff_ms, notified, starts, live, sending, event_rx,
                   closed, deserted, steady>>

\* The environment: a set of providers works from here on.
Mend ==
    /\ steady = {}
    /\ steady' \in Recoveries \ {{}}
    /\ UNCHANGED <<allow, smVars, backoff_ms, phase, notified, starts, sessionVars,
                   stop_watch, closed, deserted>>

-----------------------------------------------------------------------------

Next ==
    \/ KickOff \/ BackoffTick \/ Shutdown \/ AwaitAll
    \/ \E i \in Provider :
          \/ StartOk(i) \/ StartFail(i) \/ StartDropped(i) \/ SessionEnded(i)
          \/ SessionSends(i) \/ UpdateSent(i)
          \/ SessionStopped(i) \/ ProviderEnded(i) \/ SessionDownstreamGone(i)
    \/ Stop \/ DropReceiver \/ Desert \/ Abort \/ Mend

Spec == Init /\ [][Next]_vars

\* The runtime keeps polling the tasks, select! serves every ready branch
\* eventually, the timer fires, and a connector answers each start request
\* and each stop request.  A send fails at once when the receiver is gone.
\* Nothing obliges a provider to fail or to recover, or a caller to stop the
\* stream; nor a consumer to make room (UpdateSent).
Fairness ==
    /\ WF_vars(KickOff) /\ WF_vars(BackoffTick)
    /\ WF_vars(Shutdown) /\ WF_vars(AwaitAll)
    /\ \A i \in Provider :
          /\ WF_vars(StartOk(i) \/ StartFail(i) \/ StartDropped(i))
          /\ WF_vars(SessionEnded(i))
          /\ WF_vars(SessionStopped(i))
          /\ WF_vars(SessionDownstreamGone(i))

FairSpec == Spec /\ Fairness

-----------------------------------------------------------------------------
(* Safety *)

TypeOK ==
    /\ allow \in Plans
    /\ pstate \in [Provider -> ProviderState]
    /\ subs \in [Provider -> SUBSET Symbol]
    /\ start_index \in Provider /\ scan_cursor \in Provider
    /\ round_exhausted \in BOOLEAN /\ attempted \in BOOLEAN
    /\ backoff_ms \in Nat
    /\ backoff_ms <= MinBackoff \/ backoff_ms <= MaxBackoff
    /\ phase \in {"Spawned", "Startup", "Running", "Closing", "Exited"}
    /\ notified \in {"none", "ok", "err"}
    /\ starts \in [Provider -> Seq(SUBSET Symbol)]
    /\ live \subseteq Provider /\ told \subseteq Provider
    /\ sending \subseteq live
    /\ event_rx \subseteq Provider
    /\ stop_watch \in BOOLEAN /\ closed \in BOOLEAN /\ deserted \in BOOLEAN
    /\ steady \subseteq Provider

\* While the supervisor runs, its provider states are a true picture of the
\* tasks around it: a provider is Connecting exactly when one start attempt
\* for just its symbols is unanswered, and Active exactly when its session
\* runs or has an end that is not handled yet (or ended unreported because
\* the consumer left).  So no provider ever has two attempts, or a session
\* and an attempt, at once.
ViewMatchesTasks ==
    Open =>
      \A i \in Provider :
        /\ starts[i] = IF pstate[i] = "Connecting" THEN <<subs[i]>> ELSE <<>>
        /\ subs[i] # {} <=> pstate[i] \in {"Connecting", "Active"}
        /\ i \in live \cup event_rx => pstate[i] = "Active"
        /\ pstate[i] = "Active" /\ ~closed => i \in live \cup event_rx
        /\ ~(i \in live /\ i \in event_rx)

\* During startup a finished round ends the supervisor at once, so the second
\* way out of startup in handle_backoff_tick has nothing left to report.
StartupNotExhausted == phase = "Startup" => ~round_exhausted

\* While a round is open, every handler's trailing scan has asked the idle
\* providers that could take a symbol, as far as it went: from scan_cursor
\* round to start_index.  With up to three providers nobody is left.  With
\* more, a symbol that is given up may be wanted by a provider beyond
\* start_index, which waits for the next tick though it is idle.
NoIdleWork ==
    Open /\ ~round_exhausted =>
        \A i \in Provider :
            IsIdle(pstate, i) /\ Needed(allow, subs, i) # {} =>
                N > 3 /\ i \notin Scanned(scan_cursor, start_index)

\* The handlers above use the scan in closed form.  Before the supervisor's
\* first step: for whatever it may come to hold, wherever the cursor and the
\* start index may be by then, the loop of compute_needed_starts, in which
\* each provider visited sees the marks of those before it, ends with the
\* requests of the closed form.
ClosedFormIsLoop ==
    phase = "Spawned" =>
        \A view \in Views(allow) : CarriesSymbols(view) =>
            \A sc, si \in Provider :
                LET req == Requests(allow, view.ps, view.sb, sc, si)
                IN  AfterLoop(allow, view, sc, si) =
                        [ps |-> MarkConnecting(view.ps, req), sb |-> MarkSymbols(view.sb, req)]

\* The refinement mapping into StreamContract.
Stage ==
    CASE notified = "none" /\ phase \in {"Spawned", "Startup"} -> "starting"
      [] notified = "err"  -> "failed"
      [] notified = "ok" /\ Open -> "open"
      [] OTHER -> "closing"

Serving == [i \in Provider |-> IF i \in live THEN subs[i] ELSE {}]

Contract == INSTANCE StreamContract WITH stage <- Stage, serving <- Serving

\* Every behaviour of the supervisor is one StreamContract allows.
ImplementsContract == Contract!Spec

-----------------------------------------------------------------------------
(* Action properties *)

\* A start is never requested for a symbol that a provider of higher priority
\* was already streaming or connecting for, in whatever order failures, ends
\* and ticks made providers idle.  (One scan may request a symbol from a lower
\* provider first and from a higher one after it wraps around.)
StartsRespectPriority ==
    [][\A i, j \in Provider :
          Len(starts'[i]) > Len(starts[i]) /\ j < i /\ Open'
             => subs'[i] \cap subs[j] \cap subs'[j] = {}]_vars

\* A running supervisor stops a session only in favour of one of higher
\* priority that is Active and shares a symbol with it.
PreemptionIsJustified ==
    [][Open' => \A j \in told' \ told :
          \E i \in Provider :
             i < j /\ pstate'[i] = "Active" /\ subs'[i] \cap subs[j] # {}]_vars

\* Where every provider may stream every symbol, a preemption takes no symbol
\* off the air: higher-priority sessions carry all those it stops.
PreemptionKeepsCoverage ==
    [][Open' /\ (\A k \in Provider : allow[k] = Symbol) =>
          \A j \in told' \ told : \A s \in subs[j] :
             \E i \in Provider :
                i < j /\ pstate'[i] = "Active" /\ s \in subs'[i]]_vars

\* A running supervisor stops a session only for a provider that does better:
\* one of higher priority with a symbol in common; and no symbol is taken off
\* the air for it where the plan is uniform.
PreemptionIsSound == PreemptionIsJustified /\ PreemptionKeepsCoverage

-----------------------------------------------------------------------------
(* Liveness *)

\* stream_quotes waits for the result of initialization.  It comes when every
\* provider of the chain has a symbol to offer, unless the call is left.
StartupResolves ==
    (\A i \in Provider : allow[i] # {}) => <>(notified # "none" \/ deserted)

\* The consumer does not leave a session waiting for room for ever.
ConsumerReceives == \A i \in Provider : []<>(i \notin sending)

\* Nothing but the first arm of these sessions' select is ever polled again.
Spinning == {i \in live \ sending : deserted}

\* Once the stream is stopped, its receiver is dropped or the call is left,
\* the supervisor task returns and no session is left running, provided that
\* the consumer makes room for the updates that sessions have in hand (when
\* it is gone, their sends fail) and that no session was left behind with the
\* flag down, which spins and keeps AwaitAll waiting.  A consumer that only
\* awaits stop() with a full channel is StopBlocks of StreamSession.
StopCompletes ==
    ConsumerReceives =>
        ((stop_watch \/ closed \/ deserted)
            ~> ((phase = "Exited" /\ live = {}) \/ Spinning # {}))

\* Failback: once the primary of a chain works again it ends up streaming
\* every required symbol, whatever failed before, unless startup has failed
\* or the stream is closed.
PrimaryRecovers ==
    <>[](\/ 0 \notin steady \/ phase \in {"Closing", "Exited"}
         \/ pstate[0] = "Active" /\ subs[0] = Symbol)

\* Failover: while a provider that may stream symbol s works, a stream that
\* stays open keeps coming back to a session that carries s.
EverySymbolRecovers ==
    \A s \in Symbol :
      []<>(\/ \A i \in steady : s \notin allow[i]
           \/ phase \in {"Closing", "Exited"}
           \/ \E i \in live : s \in subs[i])

-----------------------------------------------------------------------------
(* What the documentation says and the code does not do *)

\* stream.rs: stream_quotes "returns an error if initialization fails across
\* all providers", so initialization always has a result.
StartupAlwaysResolves == <>(notified # "none" \/ deserted)
=============================================================================
