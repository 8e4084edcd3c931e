-------------------------------- MODULE CallPath --------------------------------
(***************************************************************************)
(* One request for one item on its way to the connectors: fetch_single     *)
(* (borsa/src/core.rs) in both strategies, and below it, for each          *)
(* connector, the stack that the middleware builder makes: cache,          *)
(* blacklist, quota, raw connector.  Several callers ask for the same item *)
(* at once, from outside or from within the library (CallOrigin).          *)
(*                                                                         *)
(* A caller's futures run in its own task, so whatever happens between two *)
(* awaits is one step.  The awaits are those of the negative store, of     *)
(* another caller's load of the same key, of the cache's own locks once a  *)
(* caller has won the key, and of the raw connector; a timeout, or in      *)
(* latency mode another provider's success, drops a call at any of them.   *)
(* Quota models when the quota refuses; here it may refuse any call from   *)
(* outside.                                                                *)
(***************************************************************************)
EXTENDS Naturals

CONSTANTS
    Caller,
    N,              \* connectors that have the capability, in routing order
    Items,          \* what the connectors may have to say of an item
    Windows,        \* per connector: what it may say of its window, in ticks
    PositiveCache,  \* values for "the positive store is on": CacheConfig's
    NegativeCache   \* time to live is not zero, and the same for negative

Provider == 0 .. N - 1

\* What a connector has to say: here it is, there is no such item, or another
\* permanent error, such as an argument that it does not accept.
Verdicts == {"ok", "not_found", "rejected"}

ASSUME CallPathAssumption ==
    /\ N \in Nat \ {0}
    /\ Items \subseteq [Provider -> Verdicts]
    /\ \A p \in Provider : Windows[p] \subseteq Nat \ {0}
    /\ PositiveCache \subseteq BOOLEAN /\ NegativeCache \subseteq BOOLEAN

Errors == {"not_found", "rejected", "timeout", "refused", "failed"}
Results == {"ok"} \cup Errors

\* Where a call is: not made, made and not polled, past the negative store,
\* waiting for another's load, loading, at the raw connector; told the outcome
\* of another's load; about to write an error to the negative store; ended.
Stages == {"none", "start", "lookup", "waiting", "loading", "raw"}
At(stage) == [at |-> stage, of |-> "none"]
Handed(r) == [at |-> "handed", of |-> r]
Storing(r) == [at |-> "storing", of |-> r]
Done(r) == [at |-> "done", of |-> r]

Calls == {At(s) : s \in Stages}
         \cup {Handed(r) : r \in Results} \cup {Storing(r) : r \in Errors}
         \cup {Done(r) : r \in Results}

VARIABLES
    strategy, positiveOn, negativeOn,  \* configuration
    verdict,   \* per connector: what it has to say (the environment)
    origin,    \* per caller: who started its request
    fetch,     \* per caller: its request is running, or how it ended
    call,      \* per caller and connector: a stage or a result
    positive,  \* connectors whose positive store holds the item
    negative,  \* per connector: the error in its negative store, or "none"
    until,     \* BlacklistConnector's deadline, in ticks from now
    promised,  \* history: ticks until the end of the longest window that a
               \* connector announced to calls from outside, of those that
               \* are not over yet
    ahead,     \* history: the callers from outside who were at the connector
               \* already when that window was announced
    cut        \* history: the connectors of which one of these has learned of
               \* a shorter window since

config == <<strategy, positiveOn, negativeOn, verdict>>
requestVars == <<origin, fetch, call>>
history == <<promised, ahead, cut>>
stackVars == <<positive, negative, until, history>>
vars == <<config, requestVars, stackVars>>

Init ==
    /\ strategy \in {"priority", "latency"}
    /\ positiveOn \in PositiveCache /\ negativeOn \in NegativeCache
    /\ verdict \in Items
    /\ origin = [c \in Caller |-> "external"]
    /\ fetch = [c \in Caller |-> "idle"]
    /\ call = [c \in Caller |-> [p \in Provider |-> At("none")]]
    /\ positive = {} /\ negative = [p \in Provider |-> "none"]
    /\ until = [p \in Provider |-> 0] /\ promised = [p \in Provider |-> 0]
    /\ ahead = [p \in Provider |-> {}] /\ cut = {}

-----------------------------------------------------------------------------
(* fetch_single *)

\* Priority makes the first call, latency all of them.
Fetch(c) ==
    /\ fetch[c] # "running"
    /\ fetch' = [fetch EXCEPT ![c] = "running"]
    /\ \E o \in {"external", "internal"} : origin' = [origin EXCEPT ![c] = o]
    /\ call' = [call EXCEPT ![c] =
                  [p \in Provider |->
                     At(IF p = 0 \/ strategy = "latency" THEN "start" ELSE "none")]]
    /\ UNCHANGED <<config, stackVars>>

\* mutant: one provider that does not know the item speaks for all
Collapse_AnyNotFound(calls) ==
    IF \A p \in Provider : calls[p] = Done("timeout") THEN "all_timed_out"
    ELSE IF \E p \in Provider : calls[p] = Done("not_found") THEN "not_found"
    ELSE "all_failed"

\* collapse_errors
Collapse(calls) ==
    IF \A p \in Provider : calls[p] = Done("timeout") THEN "all_timed_out"
    ELSE IF \A p \in Provider : calls[p] = Done("not_found") THEN "not_found"
    ELSE "all_failed"

Outcome(calls) ==
    IF \E p \in Provider : calls[p] = Done("ok") THEN "ok"
    ELSE IF \A p \in Provider : calls[p].at = "done" THEN Collapse(calls)
    ELSE "running"

\* mutant: in a race the others go on after a success
Continue_KeepsOthers(p, calls) ==
    IF calls[p] # Done("ok") /\ strategy = "priority" /\ p + 1 \in Provider
    THEN [calls EXCEPT ![p + 1] = At("start")]
    ELSE calls

\* What the caller's task does with its calls once the call of p has a
\* result: a success drops the others, an error makes the next by priority.
Continue(p, calls) ==
    CASE calls[p] = Done("ok") ->
           [q \in Provider |-> IF calls[q].at = "done" THEN calls[q] ELSE At("none")]
      [] calls[p] # Done("ok") /\ strategy = "priority" /\ p + 1 \in Provider ->
           [calls EXCEPT ![p + 1] = At("start")]
      [] OTHER -> calls

\* The call of c to p has ended with r; base is what else has happened to
\* the calls in this step.
Answer(c, p, r, base) ==
    LET calls == [base[c] EXCEPT ![p] = Done(r)]
    IN  /\ fetch' = [fetch EXCEPT ![c] = Outcome(calls)]
        /\ call' = [base EXCEPT ![c] = Continue(p, calls)]

\* tokio::time::timeout polls the call first, so one that was not polled yet,
\* or can go on, does.
MayTimeOut(s) == s \in {"lookup", "waiting", "loading", "raw", "storing"}

\* provider_call_with_timeout: the call is dropped where it awaits.
Timeout(c, p) ==
    /\ MayTimeOut(call[c][p].at)
    /\ Answer(c, p, "timeout", call)
    /\ UNCHANGED <<config, origin, stackVars>>

\* join_with_deadline: a fan-out's own deadline drops the whole request.
Deadline(c) ==
    /\ fetch[c] = "running"
    /\ fetch' = [fetch EXCEPT ![c] = "request_timeout"]
    /\ call' = [call EXCEPT ![c] = [p \in Provider |-> At("none")]]
    /\ UNCHANGED <<config, origin, stackVars>>

-----------------------------------------------------------------------------
(* The cache *)

\* mutant: temporary errors are remembered too
Permanent_Any(r) == r \in Errors

\* BorsaError::is_permanent
Permanent(r) == r \in {"not_found", "rejected"}

\* cached_or_load_neg after the load: a permanent error is first stored.
AfterLoad(c, p, r, base) ==
    IF Permanent(r) /\ negativeOn
    THEN /\ call' = [base EXCEPT ![c][p] = Storing(r)]
         /\ UNCHANGED fetch
    ELSE Answer(c, p, r, base)

\* The negative store is asked first.
ReadNegative(c, p) ==
    /\ call[c][p] = At("start")
    /\ IF negative[p] # "none"
       THEN Answer(c, p, negative[p], call)
       ELSE /\ call' = [call EXCEPT ![c][p] = At("lookup")]
            /\ UNCHANGED fetch
    /\ UNCHANGED <<config, origin, stackVars>>

StoreNegative(c, p) ==
    /\ call[c][p].at = "storing"
    /\ LET e == call[c][p].of
       IN  negative' = [negative EXCEPT ![p] = e] /\ Answer(c, p, e, call)
    /\ UNCHANGED <<config, origin, positive, until, history>>

\* Another caller loads the item from p: try_get_with has one load of a key
\* at a time.
Loading(p) == positiveOn /\ \E c \in Caller : call[c][p].at \in {"loading", "raw"}

Hit(c, p) ==
    /\ call[c][p].at \in {"lookup", "waiting"}
    /\ p \in positive
    /\ Answer(c, p, "ok", call)
    /\ UNCHANGED <<config, origin, stackVars>>

Wait(c, p) ==
    /\ call[c][p] = At("lookup")
    /\ p \notin positive /\ Loading(p)
    /\ call' = [call EXCEPT ![c][p] = At("waiting")]
    /\ UNCHANGED <<config, origin, fetch, stackVars>>

\* The load of p ended with r for the caller c and for all who wait for it.
Release(c, p, r) ==
    [d \in Caller |->
       IF call[d][p] = At("waiting") THEN [call[d] EXCEPT ![p] = Handed(r)] ELSE call[d]]

\* A waiting caller's task goes on with the outcome of the load.
Resume(c, p) ==
    /\ call[c][p].at = "handed"
    /\ AfterLoad(c, p, call[c][p].of, call)
    /\ UNCHANGED <<config, origin, stackVars>>

-----------------------------------------------------------------------------
(* The loader: blacklist, quota, raw connector *)

\* The caller wins the key, and others may wait for it, before its loader is
\* polled.  One whose leader was dropped goes from waiting to loading itself.
Load(c, p) ==
    /\ call[c][p].at \in {"lookup", "waiting"}
    /\ p \notin positive /\ ~Loading(p)
    /\ call' = [call EXCEPT ![c][p] = At("loading")]
    /\ UNCHANGED <<config, origin, fetch, stackVars>>

\* mutant: a call from outside is let through while the blacklist holds
Blacklisted_Never(c, p) == FALSE

\* pre_call of both layers lets internal calls pass.
Blacklisted(c, p) == origin[c] = "external" /\ until[p] > 0

CallConnector(c, p) ==
    /\ call[c][p] = At("loading") /\ ~Blacklisted(c, p)
    /\ call' = [call EXCEPT ![c][p] = At("raw")]
    /\ ahead' = [ahead EXCEPT ![p] = @ \ {c}]
    /\ UNCHANGED <<config, origin, fetch, positive, negative, until, promised, cut>>

\* TemporarilyBlacklisted or QuotaExceeded, which those who wait are told too.
Refuse(c, p) ==
    /\ call[c][p] = At("loading") /\ origin[c] = "external"
    /\ AfterLoad(c, p, "refused", Release(c, p, "refused"))
    /\ UNCHANGED <<config, origin, stackVars>>

Returns(c, p, r) ==
    /\ call[c][p] = At("raw")
    /\ positive' = IF r = "ok" /\ positiveOn THEN positive \cup {p} ELSE positive
    /\ AfterLoad(c, p, r, Release(c, p, r))
    /\ UNCHANGED <<config, origin, negative>>

\* A connector says what it has to say, or fails for a reason that may pass.
ConnectorAnswers(c, p) ==
    /\ \E r \in {verdict[p], "failed"} : Returns(c, p, r)
    /\ UNCHANGED <<until, history>>

\* History: connector p announces the window w to the caller c.
Announced(c, p, w) ==
    IF w >= promised[p]
    THEN /\ promised' = [promised EXCEPT ![p] = w]
         /\ ahead' = [ahead EXCEPT ![p] =
                        {d \in Caller \ {c} : call[d][p] = At("raw") /\ origin[d] = "external"}]
         /\ cut' = cut \ {p}
    ELSE /\ cut' = IF c \in ahead[p] THEN cut \cup {p} ELSE cut
         /\ UNCHANGED <<promised, ahead>>

\* RateLimitExceeded: handle_error overwrites the deadline, unless the call
\* is internal.
RateLimited(c, p) ==
    /\ Returns(c, p, "failed")
    /\ IF origin[c] = "external"
       THEN \E w \in Windows[p] : until' = [until EXCEPT ![p] = w] /\ Announced(c, p, w)
       ELSE UNCHANGED <<until, history>>

-----------------------------------------------------------------------------
(* Time *)

\* mutant: time runs on below zero
Before_NoFloor(n) == n - 1

Before(n) == IF n = 0 THEN 0 ELSE n - 1

Tick ==
    /\ \E p \in Provider : promised[p] > 0
    /\ until' = [p \in Provider |-> Before(until[p])]
    /\ promised' = [p \in Provider |-> Before(promised[p])]
    /\ ahead' = [p \in Provider |-> IF promised'[p] = 0 THEN {} ELSE ahead[p]]
    /\ cut' = {p \in cut : promised'[p] > 0}
    /\ UNCHANGED <<config, requestVars, positive, negative>>

\* Entries of either store reach the end of their lives.
ExpirePositive(p) ==
    /\ p \in positive
    /\ positive' = positive \ {p}
    /\ UNCHANGED <<config, requestVars, negative, until, history>>

ExpireNegative(p) ==
    /\ negative[p] # "none"
    /\ negative' = [negative EXCEPT ![p] = "none"]
    /\ UNCHANGED <<config, requestVars, positive, until, history>>

-----------------------------------------------------------------------------

Call(c, p) ==
    \/ ReadNegative(c, p) \/ StoreNegative(c, p)
    \/ Hit(c, p) \/ Wait(c, p) \/ Resume(c, p)
    \/ Load(c, p) \/ CallConnector(c, p) \/ Refuse(c, p)

Next ==
    \/ Tick
    \/ \E p \in Provider : ExpirePositive(p) \/ ExpireNegative(p)
    \/ \E c \in Caller :
          \/ Fetch(c) \/ Deadline(c)
          \/ \E p \in Provider :
                \/ Call(c, p) \/ Timeout(c, p)
                \/ ConnectorAnswers(c, p) \/ RateLimited(c, p)

Spec == Init /\ [][Next]_vars

-----------------------------------------------------------------------------
(* Safety *)

Answers == {"ok", "not_found", "all_timed_out", "all_failed", "request_timeout"}

TypeOK ==
    /\ strategy \in {"priority", "latency"}
    /\ positiveOn \in BOOLEAN /\ negativeOn \in BOOLEAN
    /\ verdict \in [Provider -> Verdicts]
    /\ origin \in [Caller -> {"external", "internal"}]
    /\ fetch \in [Caller -> {"idle", "running"} \cup Answers]
    /\ call \in [Caller -> [Provider -> Calls]]
    /\ positive \subseteq Provider
    /\ negative \in [Provider -> {"none"} \cup Errors]
    /\ until \in [Provider -> Nat] /\ promised \in [Provider -> Nat]
    /\ ahead \in [Provider -> SUBSET Caller] /\ cut \subseteq Provider

\* A request ends with NotFound only where every connector says so:
\* refusals, failures, timeouts and what another caller was told never turn
\* into a NotFound, now or through the negative store later.
NotFoundIsTrue ==
  \A c \in Caller :
    fetch[c] = "not_found" => \A p \in Provider : verdict[p] = "not_found"

\* What the stores hold for a connector is what that connector has to say.  A
\* quota, a rate limit or an outage, which pass, are never remembered, by
\* whoever loads or waits.
StoresAreTrue ==
    /\ \A p \in positive : verdict[p] = "ok"
    /\ \A p \in Provider : negative[p] \in {"none", verdict[p]} \ {"ok"}

\* A request that is running has a call that can go on, and one that is not
\* running has left no call behind for others to wait for.
NoOrphanCall ==
    \A c \in Caller :
      fetch[c] = "running" <=> \E p \in Provider : call[c][p].at \notin {"none", "done"}

-----------------------------------------------------------------------------
(* Action properties *)

\* Whatever windows the connectors announce, no call from outside reaches a
\* connector before the last of them has passed, with one exception.  The
\* deadline is overwritten (blacklist.rs:57-60), so a shorter window that the
\* connector announces later counts instead; but only a call that was at the
\* connector already when the longer one was announced can learn of it, since
\* the blacklist keeps all others away.  (With windows of one length there is no
\* exception.)
BlacklistHonoured ==
    [][\A c \in Caller : \A p \in Provider :
          call[c][p] # At("raw") /\ call'[c][p] = At("raw") /\ origin[c] = "external"
             => promised[p] = 0 \/ p \in cut]_vars

\* What a comment says (blacklist.rs:68-69) and the code does not do: the
\* provider's window is honoured when it is available, however late an answer
\* with another window comes.
ProviderWindowHonoured ==
    [][\A c \in Caller : \A p \in Provider :
          call[c][p] # At("raw") /\ call'[c][p] = At("raw") /\ origin[c] = "external"
             => promised[p] = 0]_vars
=============================================================================
