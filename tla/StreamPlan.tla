------------------------------ MODULE StreamPlan ------------------------------
(***************************************************************************)
(* Opening a stream: `stream_updates_with_backoff` of router/stream.rs.    *)
(* A policy is configured and checked, the request is split into groups of *)
(* one kind and exchange, each group is planned and its supervisors are    *)
(* spawned at once, and the call then waits for every supervisor's first   *)
(* answer.  It succeeds when all of them do; otherwise the supervisors are *)
(* aborted and the stop flag is raised.                                    *)
(*                                                                         *)
(* A supervisor is seen from outside: it is starting, running or winding   *)
(* down, it answers once, and it has a session with a provider or not;     *)
(* StreamSupervisor and StreamSession are its insides.  The stop flag is a *)
(* watch channel: `gone` when its sender was dropped while it was unset.   *)
(* What spins in a session when that happens is modelled in StreamSession. *)
(***************************************************************************)
EXTENDS RoutingPolicy, SequencesExt

CONSTANTS Symbol, Kind, Exchange,
          Rules, Lists,    \* what a caller may configure ...
          Requests,        \* ... and ask for
          MaxEntries,      \* bound on the rules of a policy and its global entry
          MaxReconnects    \* bound on the sessions a supervisor opens

ASSUME NoneAssumption == None \notin Symbol \union Kind \union Exchange
ASSUME RulesAssumption ==
    /\ Lists \subseteq Seq(Connector \union Unknown)
    /\ Rules \subseteq [symbol : Symbol \union {None}, kind : Kind \union {None},
                        exchange : Exchange \union {None}, list : Lists, strict : BOOLEAN]

\* A security has a symbol and perhaps an exchange; a prediction has neither.
Instrument ==
    [symbol : Symbol, kind : Kind, exchange : Exchange \union {None}]
        \union [symbol : {None}, kind : Kind, exchange : {None}]

ASSUME RequestsAssumption == Requests \subseteq SUBSET Instrument
ASSUME BoundsAssumption == MaxEntries \in Nat /\ MaxReconnects \in Nat \ {0}

VARIABLES
    policy,     \* cfg.routing_policy
    capable,    \* connectors with the streaming capability that support the kinds
    request,    \* the instruments asked for
    todo,       \* groups of by_group that are not planned yet
    pc, error,  \* where the call is, and the error it returned
    sups,       \* the supervisors spawned
    task,       \* the supervisor tasks
    answer,     \* what each has sent to its init receiver
    session,    \* whether a session of the supervisor is running
    sending,    \* supervisors whose session waits for room in tx_out.send
    opened,     \* sessions each supervisor has opened (bounded, not in the code)
    flag,       \* the stop flag
    rx          \* the consumer's receiver

planVars == <<policy, capable, request, todo, sups>>
supVars == <<task, answer, session, sending, opened>>
vars == <<planVars, supVars, pc, error, flag, rx>>

-----------------------------------------------------------------------------
(* Planning one group *)

Group == [kind : Kind, exchange : Exchange \union {None}]
GroupOf(inst) == [kind |-> inst.kind, exchange |-> inst.exchange]

\* An entry of by_group, with what the policy answers about its instruments
\* for each connector; the policy does not change, and it is asked once here.
View(req, g) ==
    LET asked == {i.symbol : i \in {j \in req : GroupOf(j) = g}}
        ctx(s) == [symbol |-> s, kind |-> g.kind, exchange |-> g.exchange]
    IN  [group |-> g, asked |-> asked, symbols |-> asked \ {None},
         rank |-> [s \in asked |-> [c \in capable |-> ProviderRank(policy, ctx(s), c)]]]

Allowed(v, c) == {s \in v.symbols : v.rank[s][c] # Excluded}
Scored(v) == {c \in capable : Allowed(v, c) # {}}
Union(v) == UNION {Allowed(v, c) : c \in Scored(v)}

\* min_rank over every instrument of the group, predictions included
BestRank(v, c) == Min({v.rank[s][c] : s \in v.asked} \union {Unlisted})

\* the order of `providers`
Before(v, c, d) ==
    \/ BestRank(v, c) < BestRank(v, d)
    \/ BestRank(v, c) = BestRank(v, d) /\ c < d

Providers(v) == SetToSortSeq(Scored(v), LAMBDA c, d : Before(v, c, d))
First(v) == CHOOSE c \in Scored(v) : \A d \in Scored(v) \ {c} : Before(v, c, d)

\* symbols that strict rules keep from every capable connector
Forbidden(v) == {s \in v.symbols : \A c \in capable : v.rank[s][c] = Excluded}

\* The early returns, in their order: nobody is scored, a prediction is in
\* the group, or symbols were rejected.
PlanError(v) ==
    IF Scored(v) = {}
    THEN IF capable # {} /\ Forbidden(v) # {} THEN "strict" ELSE "unsupported"
    ELSE IF None \in v.asked THEN "unsupported"
    ELSE IF (v.symbols \ Union(v)) \cap Forbidden(v) # {} THEN "strict"
    ELSE "none"

\* group_has_explicit
Explicit(v) == \E s \in v.symbols, c \in Scored(v) : v.rank[s][c] < Unlisted

\* mutant: the primary is the first provider of the group that may stream it
Primary_GroupOrder(v, s) ==
    CHOOSE c \in Scored(v) :
        /\ s \in Allowed(v, c)
        /\ \A d \in Scored(v) \ {c} : s \in Allowed(v, d) => Before(v, c, d)

\* ranked[0]: the best rank for this symbol, then the place in `providers`
Primary(v, s) ==
    CHOOSE c \in Scored(v) :
        /\ s \in Allowed(v, c)
        /\ \A d \in Scored(v) \ {c} :
              s \in Allowed(v, d) => \/ v.rank[s][c] < v.rank[s][d]
                                     \/ v.rank[s][c] = v.rank[s][d] /\ Before(v, c, d)

\* KindSupervisorParams: the chain, and provider_allow along it
Supervisor(v, p, required) ==
    [group |-> v.group, primary |-> p, required |-> required,
     chain |-> <<p>> \o SelectSeq(Providers(v), LAMBDA c : c # p),
     allow |-> [c \in Scored(v) |-> Allowed(v, c) \cap required]]

\* mutant: the group is never split
Supervisors_OneForAll(v) == {Supervisor(v, First(v), Union(v))}

Supervisors(v) ==
    IF Explicit(v)
    THEN LET primary == [s \in Union(v) |-> Primary(v, s)]
         IN  {Supervisor(v, p, {s \in Union(v) : primary[s] = p}) : p \in Range(primary)}
    ELSE {Supervisor(v, First(v), Union(v))}

-----------------------------------------------------------------------------
(* Configuration and planning *)

Init ==
    /\ policy = NoPolicy /\ capable \in SUBSET Connector
    /\ request = {} /\ todo = {} /\ sups = {}
    /\ pc = "configuring" /\ error = "none"
    /\ task = <<>> /\ answer = <<>> /\ session = <<>> /\ sending = {} /\ opened = <<>>
    /\ flag = "unset" /\ rx = "open"

Entries(p) == Len(p.rules) + Bit(p.global # None)

\* the builder's providers_* calls
Configure ==
    /\ pc = "configuring" /\ Entries(policy) < MaxEntries
    /\ \E r \in Rules : policy' = AddRule(policy, r)
    /\ UNCHANGED <<capable, request, todo, sups, supVars, pc, error, flag, rx>>

ConfigureGlobal ==
    /\ pc = "configuring" /\ Entries(policy) < MaxEntries
    /\ \E list \in Lists, strict \in BOOLEAN : policy' = SetGlobal(policy, list, strict)
    /\ UNCHANGED <<capable, request, todo, sups, supVars, pc, error, flag, rx>>

\* mutant: unknown keys are dropped without an error
Build_Silent ==
    /\ pc = "configuring"
    /\ pc' = IF N = 0 THEN "failed" ELSE "ready"
    /\ error' = IF pc' = "failed" THEN "invalid" ELSE "none"
    /\ UNCHANGED <<planVars, supVars, flag, rx>>

\* BorsaBuilder::build
Build ==
    /\ pc = "configuring"
    /\ pc' = IF UnknownKeys(policy) # {} \/ N = 0 THEN "failed" ELSE "ready"
    /\ error' = IF pc' = "failed" THEN "invalid" ELSE "none"
    /\ UNCHANGED <<planVars, supVars, flag, rx>>

\* the call, up to the grouping
Open ==
    /\ pc = "ready"
    /\ \E req \in Requests :
          /\ request' = req
          /\ todo' = {View(req, GroupOf(i)) : i \in req}
          /\ pc' = IF req = {} THEN "failed" ELSE "planning"
          /\ error' = IF req = {} THEN "invalid" ELSE "none"
    /\ UNCHANGED <<policy, capable, sups, supVars, flag, rx>>

\* One turn of the loop over by_group, a hash map: groups come in any order.
\* Spawned supervisors run from here on.
Plan(v) ==
    /\ pc = "planning" /\ v \in todo
    /\ PlanError(v) = "none"
    /\ sups' = sups \union Supervisors(v)
    /\ todo' = todo \ {v}
    /\ task' = [s \in sups' |-> IF s \in sups THEN task[s] ELSE "starting"]
    /\ answer' = [s \in sups' |-> IF s \in sups THEN answer[s] ELSE "pending"]
    /\ session' = [s \in sups' |-> IF s \in sups THEN session[s] ELSE FALSE]
    /\ opened' = [s \in sups' |-> IF s \in sups THEN opened[s] ELSE 0]
    /\ pc' = IF todo' = {} THEN "awaiting" ELSE "planning"
    /\ UNCHANGED <<policy, capable, request, sending, error, flag, rx>>

\* An early return: the senders and receivers of the call are dropped, the
\* join handles too, which aborts nothing.
Refuse(v) ==
    /\ pc = "planning" /\ v \in todo
    /\ PlanError(v) # "none"
    /\ pc' = "failed" /\ error' = PlanError(v)
    /\ flag' = "gone" /\ rx' = "gone"
    /\ UNCHANGED <<planVars, supVars>>

\* The caller drops the future while it waits for the answers.
Cancel ==
    /\ pc = "awaiting"
    /\ pc' = "cancelled"
    /\ flag' = "gone" /\ rx' = "gone"
    /\ UNCHANGED <<planVars, supVars, error>>

-----------------------------------------------------------------------------
(* The outcome *)

\* mutant: only a full success ends the wait
AllAnswered_OnlyOk == \A s \in sups : answer[s] = "ok"

\* every init receiver is awaited, whatever the ones before it said
AllAnswered == \A s \in sups : answer[s] # "pending"

\* mutant: one group that works is enough
Succeeded_Partly == \E s \in sups : answer[s] = "ok"

\* success_kinds and init_errors
Succeeded == sups # {} /\ \A s \in sups : answer[s] = "ok"

\* mutant: without an actionable error there is no error
CollapsedError_None == IF \E s \in sups : answer[s] = "failed" THEN "providers" ELSE "none"

\* collapse_stream_errors: refusals alone make the capability unsupported
CollapsedError == IF \E s \in sups : answer[s] = "failed" THEN "providers" ELSE "unsupported"

Succeed ==
    /\ pc = "awaiting" /\ AllAnswered /\ Succeeded
    /\ pc' = "open"
    /\ UNCHANGED <<planVars, supVars, error, flag, rx>>

\* mutant: the flag is dropped, not raised
Fail_NoFlag ==
    /\ pc = "awaiting" /\ AllAnswered /\ ~Succeeded
    /\ pc' = "failed"
    /\ error' = CollapsedError
    /\ task' = [s \in sups |-> "ended"]
    /\ flag' = "gone" /\ rx' = "gone"
    /\ UNCHANGED <<planVars, answer, session, sending, opened>>

\* The supervisors are aborted and the flag is raised: an aborted supervisor
\* does not wait for its sessions, the flag ends them.
Fail ==
    /\ pc = "awaiting" /\ AllAnswered /\ ~Succeeded
    /\ pc' = "failed"
    /\ error' = CollapsedError
    /\ task' = [s \in sups |-> "ended"]
    /\ flag' = "set" /\ rx' = "gone"
    /\ UNCHANGED <<planVars, answer, session, sending, opened>>

\* StreamHandle::stop, seen by the outer task
Stop ==
    /\ pc = "open"
    /\ pc' = "stopping" /\ flag' = "set"
    /\ UNCHANGED <<planVars, supVars, error, rx>>

\* the consumer drops its receiver ...
Leave ==
    /\ pc = "open" /\ rx = "open"
    /\ rx' = "gone"
    /\ UNCHANGED <<planVars, supVars, pc, error, flag>>

\* ... and the outer task sees the channel closed
NoticeLeave ==
    /\ pc = "open" /\ rx = "gone"
    /\ pc' = "stopping" /\ flag' = "set"
    /\ UNCHANGED <<planVars, supVars, error, rx>>

\* the outer task has joined every supervisor
Join ==
    /\ pc = "stopping" /\ \A s \in sups : task[s] = "ended"
    /\ pc' = "stopped"
    /\ UNCHANGED <<planVars, supVars, error, flag, rx>>

-----------------------------------------------------------------------------
(* The supervisors and their sessions *)

\* the first session answers the call
Start(s) ==
    /\ task[s] = "starting"
    /\ task' = [task EXCEPT ![s] = "running"]
    /\ answer' = [answer EXCEPT ![s] = "ok"]
    /\ session' = [session EXCEPT ![s] = TRUE]
    /\ opened' = [opened EXCEPT ![s] = 1]
    /\ UNCHANGED <<planVars, sending, pc, error, flag, rx>>

\* the startup round is exhausted
GiveUp(s) ==
    /\ task[s] = "starting"
    /\ \E a \in {"failed", "unsupported"} : answer' = [answer EXCEPT ![s] = a]
    /\ task' = [task EXCEPT ![s] = "ended"]
    /\ UNCHANGED <<planVars, session, sending, opened, pc, error, flag, rx>>

\* the session is at its select!, not inside a send
Polls(s) == session[s] /\ s \notin sending

\* the provider ends its stream
Disconnect(s) ==
    /\ Polls(s) /\ flag # "gone"
    /\ session' = [session EXCEPT ![s] = FALSE]
    /\ UNCHANGED <<planVars, task, answer, sending, opened, pc, error, flag, rx>>

\* The session takes an update in hand, for which the channel may be full: it
\* waits in tx_out.send, where neither flag nor stop signal is polled.  (The
\* stops come first in its biased select!.)
Send(s) ==
    /\ Polls(s) /\ flag = "unset" /\ task[s] # "stopping"
    /\ sending' = sending \union {s}
    /\ UNCHANGED <<planVars, task, answer, session, opened, pc, error, flag, rx>>

\* the consumer has made room
Sent(s) ==
    /\ s \in sending /\ rx = "open"
    /\ sending' = sending \ {s}
    /\ UNCHANGED <<planVars, task, answer, session, opened, pc, error, flag, rx>>

\* the send fails: the receiver is gone
SendFails(s) ==
    /\ s \in sending /\ rx = "gone"
    /\ sending' = sending \ {s}
    /\ session' = [session EXCEPT ![s] = FALSE]
    /\ UNCHANGED <<planVars, task, answer, opened, pc, error, flag, rx>>

Reconnect(s) ==
    /\ task[s] = "running" /\ ~session[s] /\ opened[s] < MaxReconnects
    /\ session' = [session EXCEPT ![s] = TRUE]
    /\ opened' = [opened EXCEPT ![s] = @ + 1]
    /\ UNCHANGED <<planVars, task, answer, sending, pc, error, flag, rx>>

\* stop_watch yields (a value or an error) or the consumer is gone: Shutdown
WindDown(s) ==
    /\ task[s] \in {"starting", "running"}
    /\ flag # "unset" \/ rx = "gone"
    /\ task' = [task EXCEPT ![s] = "stopping"]
    /\ UNCHANGED <<planVars, answer, session, sending, opened, pc, error, flag, rx>>

\* A session ends at the raised flag or at its own stop signal; with the
\* flag gone it looks at nothing else.
EndSession(s) ==
    /\ Polls(s)
    /\ flag = "set" \/ (flag = "unset" /\ task[s] = "stopping")
    /\ session' = [session EXCEPT ![s] = FALSE]
    /\ UNCHANGED <<planVars, task, answer, sending, opened, pc, error, flag, rx>>

\* AwaitAll
Finish(s) ==
    /\ task[s] = "stopping" /\ ~session[s]
    /\ task' = [task EXCEPT ![s] = "ended"]
    /\ UNCHANGED <<planVars, answer, session, sending, opened, pc, error, flag, rx>>

-----------------------------------------------------------------------------

CallStep ==
    \/ Configure \/ ConfigureGlobal \/ Build \/ Open
    \/ \E v \in todo : Plan(v) \/ Refuse(v)
    \/ Cancel \/ Succeed \/ Fail \/ Stop \/ Leave \/ NoticeLeave \/ Join

SupervisorStep(s) ==
    \/ Start(s) \/ GiveUp(s) \/ Disconnect(s) \/ Reconnect(s)
    \/ Send(s) \/ Sent(s) \/ SendFails(s)
    \/ WindDown(s) \/ EndSession(s) \/ Finish(s)

Next == CallStep \/ \E s \in sups : SupervisorStep(s)

\* Tokio polls every task that is ready, and a supervisor answers its startup
\* (StartupResolves of StreamSupervisor).  Callers, consumers and providers
\* owe nothing: in particular no consumer need make room for a send.
Fairness ==
    /\ WF_vars(\E v \in todo : Plan(v) \/ Refuse(v))
    /\ WF_vars(Succeed \/ Fail) /\ WF_vars(NoticeLeave) /\ WF_vars(Join)
    /\ WF_vars(\E s \in sups : Start(s) \/ GiveUp(s))
    /\ WF_vars(\E s \in sups : WindDown(s))
    /\ WF_vars(\E s \in sups : EndSession(s))
    /\ WF_vars(\E s \in sups : SendFails(s))
    /\ WF_vars(\E s \in sups : Finish(s))

Spec == Init /\ [][Next]_vars /\ Fairness

-----------------------------------------------------------------------------

TypeOK ==
    /\ capable \subseteq Connector /\ request \subseteq Instrument /\ {v.group : v \in todo} \subseteq Group
    /\ pc \in {"configuring", "ready", "planning", "awaiting", "open", "failed",
               "cancelled", "stopping", "stopped"}
    /\ error \in {"none", "invalid", "strict", "unsupported", "providers"}
    /\ task \in [sups -> {"starting", "running", "stopping", "ended"}]
    /\ answer \in [sups -> {"pending", "ok", "failed", "unsupported"}]
    /\ session \in [sups -> BOOLEAN] /\ sending \subseteq {s \in sups : session[s]}
    /\ opened \in [sups -> 0..MaxReconnects]
    /\ flag \in {"unset", "set", "gone"} /\ rx \in {"open", "gone"}
    /\ pc = "failed" <=> error # "none"

\* An open stream covers the request: each symbol of each group belongs to
\* exactly one supervisor, and that one has started.
OpenCoversRequest ==
    pc \in {"open", "stopping", "stopped"} =>
        \A i \in request : \E s \in sups :
            /\ s.group = GroupOf(i) /\ i.symbol \in s.required /\ answer[s] = "ok"
            /\ \A t \in sups \ {s} : t.group = s.group => t.required \cap s.required = {}

\* What a supervisor relies on: its primary may stream all it is to cover.
\* Without it the startup round might never be exhausted.
PrimaryCoversAll ==
    \A s \in sups : s.required # {} /\ s.allow[s.primary] = s.required

\* the rank by the rule the loop finds
LoopRank(g, s, c) ==
    LET ctx == [symbol |-> s, kind |-> g.kind, exchange |-> g.exchange]
    IN  RankOf(EntryOf(policy, BestByLoop(policy.rules, ctx)), c)

\* Each symbol starts with the connector the policy ranks best for it, in
\* whichever way its group was planned, and no connector of the chain may
\* stream a symbol that a strict rule keeps from it.
PolicyIsObeyed ==
    \A s \in sups : \A sym \in s.required :
        /\ \A c \in capable : LoopRank(s.group, sym, s.primary) <= LoopRank(s.group, sym, c)
        /\ \A c \in DOMAIN s.allow :
              sym \in s.allow[c] <=> LoopRank(s.group, sym, c) # Excluded

\* no connector that could stream the instrument may
ClosedToAll(i) ==
    /\ i.symbol # None /\ capable # {}
    /\ \A c \in capable : LoopRank(GroupOf(i), i.symbol, c) = Excluded

\* supervisors gave up, and none of them for a failure
RefusalsAlone ==
    /\ \A s \in sups : answer[s] \in {"ok", "unsupported"}
    /\ \E s \in sups : answer[s] = "unsupported"

\* The error of a call says what happened, whichever it is.  Strict: a symbol of
\* the request is closed to all capable connectors, of which there are some.
\* Unsupported: nobody is capable, a prediction was asked for, or supervisors
\* met refusals only.  Providers: one met a failure.  Invalid: a policy with an
\* unknown key, no connector, or an empty request; and every policy with an
\* unknown key is told so, whatever is asked.
RefusalIsTrue ==
    /\ error = "strict" => \E i \in request : ClosedToAll(i)
    /\ error = "unsupported" =>
          capable = {} \/ (\E i \in request : i.symbol = None) \/ RefusalsAlone
    /\ error = "providers" => \E s \in sups : answer[s] = "failed"
    /\ error = "invalid" => UnknownKeys(policy) # {} \/ N = 0 \/ request = {}
    /\ pc # "configuring" /\ UnknownKeys(policy) # {} => error = "invalid"

\* The consumer does not leave the sessions waiting for room for ever.  (Once
\* the flag is up each session sends at most what it has in hand, so that it is
\* enough that each is served at some time.)
ConsumerReceives == []<>(sending = {})

AllEnded == \A s \in sups : task[s] = "ended" /\ ~session[s]

\* The call always returns, and when it does because a supervisor failed to
\* start, nothing of any group keeps running: every supervisor ends and so does
\* every session, whatever its send waits for.
CallReturns ==
    pc = "planning" \/ (pc = "failed" /\ error = "providers")
        ~> \/ pc \in {"open", "cancelled", "stopping", "stopped"}
           \/ pc = "failed" /\ (error = "providers" => AllEnded)

\* The same after a stop, for a consumer that still makes room or has left; one
\* that only awaits stop() with a full channel is StopBlocks of StreamSession.
NothingOutlivesStop == ConsumerReceives => (pc = "stopping" ~> AllEnded)

\* Opening a stream ends, and so does all that a stopped or failed one began.
EverythingEnds == CallReturns /\ NothingOutlivesStop
=============================================================================
