----------------------------- MODULE StreamSession -----------------------------
(***************************************************************************)
(* How updates travel, and how a stream is taken down: the session tasks   *)
(* of router/streaming/session.rs with their timestamp gates (filters.rs), *)
(* the connector tasks that feed them, the bounded channel to the          *)
(* consumer, the task of router/stream.rs that turns a stop request into   *)
(* the broadcast flag, and StreamHandle (borsa-core/src/stream.rs).        *)
(*                                                                         *)
(* The supervisor of StreamSupervisor is reduced here to what it does to   *)
(* sessions: it sets off a detached start attempt for a provider it holds  *)
(* as neither Pending nor Active, spawns a session for the stream that the *)
(* attempt brings, tells a session to stop, handles its end, and awaits    *)
(* all sessions, but no attempt, at shutdown.                              *)
(***************************************************************************)
EXTENDS Naturals, Sequences

CONSTANTS
    Provider, Symbol,
    Allow,             \* provider_allow: what each provider may stream
    MaxTs,             \* timestamps are 1..MaxTs; 0 stands for "no entry"
    OutCapacity,       \* mpsc::channel(1024) of stream.rs
    InCapacity,        \* the channel of a connector's stream
    Budget,            \* bound: updates that connectors send altogether
    EnforceMonotonic,  \* stream_enforce_monotonic_timestamps
    Attentive          \* connectors heed a stop while they wait for room

ASSUME AllowAssumption == Allow \in [Provider -> SUBSET Symbol]
ASSUME BoundsAssumption ==
    /\ MaxTs \in Nat /\ Budget \in Nat
    /\ OutCapacity \in Nat \ {0} /\ InCapacity \in Nat \ {0}
ASSUME FlagsAssumption == EnforceMonotonic \in BOOLEAN /\ Attentive \in BOOLEAN

Ts == 0 .. MaxTs
Update == [provider : Provider, sym : Symbol, ts : 1 .. MaxTs]

VARIABLES
    handle,     \* what the caller has done with the StreamHandle
    outer,      \* the task that StreamHandle owns
    watch,      \* the broadcast flag: "false", "true", or its sender was
                \* dropped before it was ever set
    sup,        \* the supervisor task
    active,     \* providers the supervisor holds as Active
    told,       \* sessions whose stop_tx was used
    event_rx,   \* SessionEnded messages not handled yet
    pc,         \* where each session task is, "none" when there is none
    cur,        \* per session, the update (a sequence of at most one) in hand
    reset,      \* per session, reset_monotonic: the provider's stream ended
    syms,       \* per session, its session_symbols
    gate,       \* MonotonicGate: per provider and symbol, the newest timestamp
    attempt,    \* per provider, its start attempt: "asked", "answered" (its
                \* stream waits in start_rx), "discarded" (nobody took the
                \* stream: it was dropped with its handle), or "none"
    wanted,     \* per provider, the symbols its start attempt asks for
    src,        \* the connector's task behind each session or attempt
    prx,        \* the channel from that task
    out,        \* the channel to the consumer
    rx,         \* the consumer holds its receiver
    budget,
    sent        \* history: newest timestamp forwarded per provider and symbol
                \* since the provider's stream last began afresh, kept
                \* where timestamps are enforced

handleVars == <<handle, outer>>
supVars == <<active, told, event_rx>>
sessionVars == <<pc, cur, reset, syms, gate, sent>>
sourceVars == <<attempt, wanted, src, prx, budget>>
vars == <<handleVars, watch, sup, supVars, sessionVars, sourceVars, out, rx>>

\* The stream has just been handed to the caller, which takes one start that
\* succeeded: a session is running.
Init ==
    /\ handle = "held" /\ outer = "running" /\ watch = "false"
    /\ sup = "open" /\ told = {} /\ event_rx = {}
    /\ \E first \in Provider : \E ss \in SUBSET Allow[first] \ {{}} :
          /\ active = {first}
          /\ pc = [p \in Provider |-> IF p = first THEN "select" ELSE "none"]
          /\ syms = [p \in Provider |-> IF p = first THEN ss ELSE {}]
          /\ src = [p \in Provider |-> IF p = first THEN "up" ELSE "done"]
    /\ cur = [p \in Provider |-> <<>>]
    /\ reset = [p \in Provider |-> FALSE]
    /\ gate = [p \in Provider |-> [s \in Symbol |-> 0]]
    /\ sent = [p \in Provider |-> [s \in Symbol |-> 0]]
    /\ attempt = [p \in Provider |-> "none"]
    /\ wanted = [p \in Provider |-> {}]
    /\ prx = [p \in Provider |-> <<>>]
    /\ out = <<>> /\ rx = TRUE /\ budget = Budget

-----------------------------------------------------------------------------
(* The caller: StreamHandle and the receiver *)

StopRequested == handle # "held"

\* StreamHandle::stop sends the stop signal and awaits the outer task.
Stop ==
    /\ handle = "held"
    /\ handle' = "stopping"
    /\ UNCHANGED <<outer, watch, sup, supVars, sessionVars, sourceVars, out, rx>>

StopReturns ==
    /\ handle = "stopping" /\ outer = "done"
    /\ handle' = "stopped"
    /\ UNCHANGED <<outer, watch, sup, supVars, sessionVars, sourceVars, out, rx>>

\* drop_impl sends the stop signal and aborts the outer task, which may see
\* the signal before the abort takes effect, or not.
DropHandle ==
    /\ handle = "held"
    /\ handle' = "dropped"
    /\ UNCHANGED <<outer, watch, sup, supVars, sessionVars, sourceVars, out, rx>>

Receive ==
    /\ rx /\ out # <<>>
    /\ out' = Tail(out)
    /\ UNCHANGED <<handleVars, watch, sup, supVars, sessionVars, sourceVars, rx>>

\* The channel closes and what it holds is dropped.
DropReceiver ==
    /\ rx
    /\ rx' = FALSE /\ out' = <<>>
    /\ UNCHANGED <<handleVars, watch, sup, supVars, sessionVars, sourceVars>>

-----------------------------------------------------------------------------
(* The outer task of stream.rs *)

\* mutant: stop_rx is not polled
OuterSignal_ClosedOnly == ~rx

\* mutant: tx.closed() is not polled
OuterSignal_StopOnly == StopRequested

OuterSignal == StopRequested \/ ~rx

\* stop_rx or tx.closed(): raise the flag, then await the supervisor.
OuterWakes ==
    /\ outer = "running" /\ OuterSignal
    /\ outer' = "waiting" /\ watch' = "true"
    /\ UNCHANGED <<handle, sup, supVars, sessionVars, sourceVars, out, rx>>

OuterReturns ==
    /\ outer = "waiting" /\ sup = "returned"
    /\ outer' = "done"
    /\ UNCHANGED <<handle, watch, sup, supVars, sessionVars, sourceVars, out, rx>>

\* The abort takes effect at an await.  Dropping the task drops the flag's
\* sender, and detaches the supervisor.
OuterCancelled ==
    /\ handle = "dropped" /\ outer \in {"running", "waiting"}
    /\ outer' = "cancelled"
    /\ watch' = IF watch = "false" THEN "dropped" ELSE watch
    /\ UNCHANGED <<handle, sup, supVars, sessionVars, sourceVars, out, rx>>

-----------------------------------------------------------------------------
(* The supervisor task, as far as sessions see it *)

\* The history starts afresh with the provider's stream.
Forget(p) ==
    [sent EXCEPT ![p] = [s \in Symbol |-> IF reset[p] /\ s \in syms[p] THEN 0 ELSE @[s]]]

\* RequestStart: a task that is never joined asks the connector for a stream.
RequestStart(p, ss) ==
    /\ sup = "open" /\ p \notin active /\ attempt[p] = "none"
    /\ ss # {} /\ ss \subseteq Allow[p]
    /\ attempt' = [attempt EXCEPT ![p] = "asked"]
    /\ wanted' = [wanted EXCEPT ![p] = ss]
    /\ UNCHANGED <<handleVars, watch, sup, supVars, sessionVars, src, prx, budget, out, rx>>

\* start_stream returns a stream, whose connector task is running.  It waits
\* in start_rx, unless the supervisor has returned: then start_tx.send fails
\* and handle and receiver are dropped.
StartAnswered(p) ==
    /\ attempt[p] = "asked"
    /\ attempt' = [attempt EXCEPT ![p] = IF sup = "returned" THEN "discarded" ELSE "answered"]
    /\ src' = [src EXCEPT ![p] = "up"]
    /\ UNCHANGED <<handleVars, watch, sup, supVars, sessionVars, wanted, prx, budget, out, rx>>

\* The attempt is over, and what it asked for forgotten.
AttemptOver(p) ==
    /\ attempt' = [attempt EXCEPT ![p] = "none"]
    /\ wanted' = [wanted EXCEPT ![p] = {}]

\* start_stream fails; the answer changes nothing about sessions.
StartFailed(p) ==
    /\ attempt[p] = "asked"
    /\ AttemptOver(p)
    /\ UNCHANGED <<handleVars, watch, sup, supVars, sessionVars, src, prx, budget, out, rx>>

\* start_rx yields the stream: SessionManager::spawn.
Spawn(p) ==
    /\ sup = "open" /\ attempt[p] = "answered"
    /\ AttemptOver(p)
    /\ active' = active \cup {p} /\ told' = told \ {p}
    /\ pc' = [pc EXCEPT ![p] = "select"]
    /\ reset' = [reset EXCEPT ![p] = FALSE]
    /\ syms' = [syms EXCEPT ![p] = wanted[p]]
    /\ sent' = Forget(p)
    /\ UNCHANGED <<handleVars, watch, sup, event_rx, cur, gate, src, prx, budget, out, rx>>

\* drop_impl for the handle of a stream that nobody took: stop signal and
\* abort, which also ends a task that waits for room.
Discarded(p) ==
    /\ attempt[p] = "discarded"
    /\ AttemptOver(p)
    /\ src' = [src EXCEPT ![p] = "done"]
    /\ UNCHANGED <<handleVars, watch, sup, supVars, sessionVars, prx, budget, out, rx>>

\* PreemptSessions
Preempt(p) ==
    /\ sup = "open" /\ p \in active /\ p \notin told
    /\ told' = told \cup {p}
    /\ UNCHANGED <<handleVars, watch, sup, active, event_rx, sessionVars, sourceVars, out, rx>>

SessionEnded(p) ==
    /\ sup = "open" /\ p \in event_rx
    /\ event_rx' = event_rx \ {p} /\ active' = active \ {p}
    /\ UNCHANGED <<handleVars, watch, sup, told, sessionVars, sourceVars, out, rx>>

\* Shutdown (also when the flag's sender is gone) or DownstreamClosed: StopAll
SupervisorCloses ==
    /\ sup = "open" /\ (watch # "false" \/ ~rx)
    /\ sup' = "awaiting" /\ told' = Provider
    /\ UNCHANGED <<handleVars, watch, active, event_rx, sessionVars, sourceVars, out, rx>>

\* mutant: the sessions are not awaited
AllJoined_NotAwaited == TRUE

\* AwaitAll joins every session task.
AllJoined == \A p \in Provider : pc[p] = "none"

Unclaimed(p) == attempt[p] = "answered"

\* start_rx goes with the supervisor, and every stream that waits in it.
SupervisorReturns ==
    /\ sup = "awaiting" /\ AllJoined
    /\ sup' = "returned"
    /\ attempt' = [p \in Provider |-> IF Unclaimed(p) THEN "discarded" ELSE attempt[p]]
    /\ prx' = [p \in Provider |-> IF Unclaimed(p) THEN <<>> ELSE prx[p]]
    /\ UNCHANGED <<handleVars, watch, supVars, sessionVars, wanted, src, budget, out, rx>>

-----------------------------------------------------------------------------
(* The connector's task behind the session or the attempt of p *)

\* It sends an update for any symbol, also one that was not asked for.
Produce(p) ==
    /\ src[p] = "up" /\ attempt[p] # "discarded" /\ budget > 0 /\ Len(prx[p]) < InCapacity
    /\ \E s \in Symbol, t \in 1 .. MaxTs :
          prx' = [prx EXCEPT ![p] = Append(@, [provider |-> p, sym |-> s, ts |-> t])]
    /\ budget' = budget - 1
    /\ UNCHANGED <<handleVars, watch, sup, supVars, sessionVars, attempt, wanted, src, out, rx>>

\* Its channel is full: it waits inside send.
Block(p) ==
    /\ src[p] = "up" /\ budget > 0 /\ Len(prx[p]) = InCapacity
    /\ src' = [src EXCEPT ![p] = "blocked"]
    /\ UNCHANGED <<handleVars, watch, sup, supVars, sessionVars, attempt, wanted, prx,
                   budget, out, rx>>

Unblock(p) ==
    /\ src[p] = "blocked" /\ Len(prx[p]) < InCapacity
    /\ src' = [src EXCEPT ![p] = "up"]
    /\ UNCHANGED <<handleVars, watch, sup, supVars, sessionVars, attempt, wanted, prx,
                   budget, out, rx>>

\* The provider ends its stream; what its channel holds can still be read.
ProviderEnds(p) ==
    /\ src[p] = "up"
    /\ src' = [src EXCEPT ![p] = "done"]
    /\ UNCHANGED <<handleVars, watch, sup, supVars, sessionVars, attempt, wanted, prx,
                   budget, out, rx>>

-----------------------------------------------------------------------------
(* The session task of provider p *)

Goto(p, label) == pc' = [pc EXCEPT ![p] = label]

\* The arms of select! are biased.  While the flag's sender is gone and the
\* flag unset, changed() is ready at every turn and its arm does nothing.
FlagSeen == watch = "true"
StopSeen(p) == watch = "false" /\ p \in told
Receiving(p) == watch = "false" /\ p \notin told

\* mutant: a stop also interrupts the send
MayStop_InSend(p) == pc[p] \in {"select", "send"}

MayStop(p) == pc[p] = "select"

SessionStops(p) ==
    /\ MayStop(p) /\ (FlagSeen \/ StopSeen(p))
    /\ Goto(p, "halt")
    /\ cur' = [cur EXCEPT ![p] = <<>>]
    /\ UNCHANGED <<handleVars, watch, sup, supVars, reset, syms, gate, sent,
                   sourceVars, out, rx>>

\* MonotonicGate::allow
Accepts(p, u) == ~EnforceMonotonic \/ u.ts >= gate[p][u.sym]

Remember(p, u) ==
    IF EnforceMonotonic THEN [gate EXCEPT ![p][u.sym] = u.ts] ELSE gate

\* prx.recv() yields an update: it is dropped or taken in hand.
SessionReceives(p) ==
    /\ pc[p] = "select" /\ Receiving(p) /\ prx[p] # <<>>
    /\ prx' = [prx EXCEPT ![p] = Tail(@)]
    /\ LET u == Head(prx[p])
       IN  IF u.sym \in Allow[p] /\ Accepts(p, u)
           THEN /\ gate' = Remember(p, u)
                /\ cur' = [cur EXCEPT ![p] = <<u>>]
                /\ Goto(p, "send")
           ELSE UNCHANGED <<gate, cur, pc>>
    /\ UNCHANGED <<handleVars, watch, sup, supVars, reset, syms, sent, attempt, wanted,
                   src, budget, out, rx>>

\* mutant: one update more than the channel holds
Room_OffByOne == Len(out) <= OutCapacity

Room == Len(out) < OutCapacity

\* tx_out.send(u): no arm of select! is polled while it waits for room.
SessionSends(p) ==
    /\ pc[p] = "send" /\ rx /\ Room
    /\ out' = out \o cur[p]
    /\ sent' = IF EnforceMonotonic
               THEN [sent EXCEPT ![p][cur[p][1].sym] = cur[p][1].ts]
               ELSE sent
    /\ cur' = [cur EXCEPT ![p] = <<>>]
    /\ Goto(p, "select")
    /\ UNCHANGED <<handleVars, watch, sup, supVars, reset, syms, gate, sourceVars, rx>>

\* The receiver is gone: stop the connector; this end is not reported.
SessionUndeliverable(p) ==
    /\ pc[p] = "send" /\ ~rx
    /\ cur' = [cur EXCEPT ![p] = <<>>]
    /\ Goto(p, "haltQuietly")
    /\ UNCHANGED <<handleVars, watch, sup, supVars, reset, syms, gate, sent,
                   sourceVars, out, rx>>

\* mutant: the flag that asks for a reset is never set
ResetOnEnd_Never(p) == FALSE

\* mutant: every end of a session resets the gate
ResetOnEnd_AlsoAtStop(p) == TRUE

\* reset_monotonic, set by the arm that saw the stream end
ResetOnEnd(p) == reset[p]

\* prx.recv() yields None
StreamEndSeen(p) ==
    /\ pc[p] = "select" /\ Receiving(p) /\ prx[p] = <<>> /\ src[p] = "done"
    /\ reset' = [reset EXCEPT ![p] = TRUE]
    /\ Goto(p, "halt")
    /\ UNCHANGED <<handleVars, watch, sup, supVars, cur, syms, gate, sent,
                   sourceVars, out, rx>>

\* h.stop().await: the connector's task sees the stop where it waits for its
\* next update; where it waits for room, only an attentive one does.
ConnectorStopped(p) ==
    /\ pc[p] \in {"halt", "haltQuietly"}
    /\ src[p] \in {"up", "done"} \/ Attentive
    /\ src' = [src EXCEPT ![p] = "done"]
    /\ IF pc[p] = "halt"
       THEN Goto(p, "reset") /\ UNCHANGED prx
       ELSE Goto(p, "none") /\ prx' = [prx EXCEPT ![p] = <<>>]
    /\ UNCHANGED <<handleVars, watch, sup, supVars, cur, reset, syms, gate, sent,
                   attempt, wanted, budget, out, rx>>

\* reset_symbols for the session's own symbols
GateReset(p) ==
    /\ pc[p] = "reset"
    /\ gate' = [gate EXCEPT ![p] =
                  [s \in Symbol |-> IF ResetOnEnd(p) /\ s \in syms[p] THEN 0 ELSE @[s]]]
    /\ Goto(p, "notify")
    /\ UNCHANGED <<handleVars, watch, sup, supVars, cur, reset, syms, sent,
                   sourceVars, out, rx>>

\* event_tx.send; the task ends and its receiver of the stream is dropped.
Notify(p) ==
    /\ pc[p] = "notify"
    /\ event_rx' = event_rx \cup {p}
    /\ prx' = [prx EXCEPT ![p] = <<>>]
    /\ Goto(p, "none")
    /\ UNCHANGED <<handleVars, watch, sup, active, told, cur, reset, syms, gate, sent,
                   attempt, wanted, src, budget, out, rx>>

\* The reaper of MonotonicGate: an entry that no update has touched for
\* ENTRY_TTL goes.  (An update that waits a day to be sent is left out.)
Reap(p, s) ==
    /\ gate[p][s] # 0 /\ cur[p] = <<>>
    /\ gate' = [gate EXCEPT ![p][s] = 0]
    /\ sent' = [sent EXCEPT ![p][s] = 0]
    /\ UNCHANGED <<handleVars, watch, sup, supVars, pc, cur, reset, syms,
                   sourceVars, out, rx>>

-----------------------------------------------------------------------------

Session(p) ==
    \/ SessionStops(p) \/ SessionReceives(p) \/ SessionSends(p)
    \/ SessionUndeliverable(p) \/ StreamEndSeen(p) \/ ConnectorStopped(p)
    \/ GateReset(p) \/ Notify(p)

Next ==
    \/ Stop \/ StopReturns \/ DropHandle \/ Receive \/ DropReceiver
    \/ OuterWakes \/ OuterReturns \/ OuterCancelled
    \/ SupervisorCloses \/ SupervisorReturns
    \/ \E p \in Provider :
          \/ \E ss \in SUBSET Symbol : RequestStart(p, ss)
          \/ StartAnswered(p) \/ StartFailed(p) \/ Spawn(p) \/ Discarded(p)
          \/ Preempt(p) \/ SessionEnded(p)
          \/ Produce(p) \/ Block(p) \/ Unblock(p) \/ ProviderEnds(p)
          \/ Session(p)
          \/ \E s \in Symbol : Reap(p, s)

Spec == Init /\ [][Next]_vars

\* The runtime polls every task, and a connector that can see a stop obeys
\* it.  Nothing obliges a caller to stop, or a provider to send, to end or to
\* answer a start attempt.
Fairness ==
    /\ WF_vars(StopReturns)
    /\ WF_vars(OuterWakes \/ OuterReturns) /\ WF_vars(OuterCancelled)
    /\ WF_vars(SupervisorCloses) /\ WF_vars(SupervisorReturns)
    /\ \A p \in Provider :
          /\ WF_vars(SessionEnded(p)) /\ WF_vars(Session(p)) /\ WF_vars(Unblock(p))
          /\ WF_vars(Spawn(p)) /\ WF_vars(Discarded(p))

FairSpec == Spec /\ Fairness

\* ... and the consumer keeps receiving for as long as it holds the receiver.
ConsumedSpec == FairSpec /\ WF_vars(Receive)

-----------------------------------------------------------------------------
(* Safety *)

TaskTypes ==
    /\ handle \in {"held", "stopping", "stopped", "dropped"}
    /\ outer \in {"running", "waiting", "done", "cancelled"}
    /\ watch \in {"false", "true", "dropped"}
    /\ sup \in {"open", "awaiting", "returned"}
    /\ active \subseteq Provider /\ told \subseteq Provider /\ event_rx \subseteq Provider
    /\ pc \in [Provider ->
                 {"none", "select", "send", "halt", "haltQuietly", "reset", "notify"}]
    /\ reset \in [Provider -> BOOLEAN] /\ syms \in [Provider -> SUBSET Symbol]
    /\ attempt \in [Provider -> {"none", "asked", "answered", "discarded"}]
    /\ wanted \in [Provider -> SUBSET Symbol]
    /\ src \in [Provider -> {"up", "blocked", "done"}]
    /\ rx \in BOOLEAN

ChannelTypes ==
    /\ cur \in [Provider -> Seq(Update)] /\ prx \in [Provider -> Seq(Update)]
    /\ \A p \in Provider :
          /\ Len(cur[p]) = IF pc[p] = "send" THEN 1 ELSE 0
          /\ Len(prx[p]) <= InCapacity
    /\ out \in Seq(Update) /\ Len(out) <= OutCapacity
    /\ budget \in 0 .. Budget

GateTypes ==
    /\ gate \in [Provider -> [Symbol -> Ts]]
    /\ sent \in [Provider -> [Symbol -> Ts]]

TypeOK == TaskTypes /\ ChannelTypes /\ GateTypes

\* Between a provider's reconnections its updates for a symbol reach the
\* consumer with timestamps that never decrease, through stops, preemptions
\* and the sessions that follow them.
InOrder ==
    EnforceMonotonic =>
      \A p \in Provider : pc[p] = "send" => cur[p][1].ts >= sent[p][cur[p][1].sym]

\* The gate never runs ahead of the consumer: an update it has accepted is
\* delivered, or still in its session's hand, unless the receiver is gone.
\* So no stop or preemption loses an accepted update.
AcceptedIsDelivered ==
    rx => \A p \in Provider : \A s \in Symbol :
            gate[p][s] > sent[p][s] => pc[p] = "send" /\ cur[p][1].sym = s

\* A provider whose stream ended begins its next session with a clean gate,
\* so a feed that restarts its clock is not silenced.
ReconnectStartsClean ==
    [][\A p \in Provider :
          p \notin active /\ p \in active' /\ reset[p]
             => \A s \in syms[p] : gate[p][s] = 0]_vars

\* When stop() returns, supervisor and sessions have ended, and the tasks of
\* the connectors with them.  Start attempts are not waited for: one that is
\* still unanswered runs on, and the task of a stream that nobody took may run
\* until its abort takes effect.  It is then out of reach of every session.
StoppedMeansGone ==
    handle = "stopped" =>
      /\ sup = "returned"
      /\ \A p \in Provider : pc[p] = "none" /\ (src[p] = "done" \/ attempt[p] = "discarded")

-----------------------------------------------------------------------------
(* Liveness *)

\* The caller has asked for the end of the stream, or its consumer has left; or
\* the supervisor has returned, and a connector's task still runs.
Ending ==
    handle = "stopping" \/ ~rx \/ (sup = "returned" /\ \E p \in Provider : src[p] # "done")

\* stop() has returned, if it was called, and with it outer task, supervisor and
\* all connector tasks.
Gone ==
    /\ handle # "stopping" /\ sup = "returned" /\ (outer = "done" \/ handle = "dropped")
    /\ \A p \in Provider : src[p] = "done"

\* Whether it is stopped or its consumer leaves, the stream winds down with all
\* it has opened, before the shutdown, during it, or by a start attempt that is
\* answered when the supervisor has returned; and stop() returns.  Excepted is a
\* supervisor whose handle was dropped (see DropTerminates).
StreamWindsDown == Ending ~> (Gone \/ (handle = "dropped" /\ sup # "returned"))

-----------------------------------------------------------------------------
(* What the documentation says and the code does not do *)

\* router_stream_slow_consumer.rs: "Stop should work even with potential
\* backpressure".
StopTerminates == handle = "stopping" ~> handle = "stopped"

\* stream.rs: "Dropping or stopping the returned `StreamHandle` terminates all
\* supervised tasks".
DropTerminates == handle = "dropped" ~> (sup = "returned" /\ AllJoined)

\* The same sentence, of stop(): no task the supervisor has spawned is left.
StopTerminatesAll ==
    handle = "stopped" => AllJoined /\ \A p \in Provider : attempt[p] = "none"
=============================================================================
