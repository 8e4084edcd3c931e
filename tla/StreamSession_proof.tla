------------------------- MODULE StreamSession_proof -------------------------
(***************************************************************************)
(* Proofs about StreamSession for all providers, symbols, capacities and   *)
(* bounds, with and without timestamp enforcement, and for connectors that *)
(* heed a stop anywhere as for those that do not.                          *)
(*                                                                         *)
(* The inductive invariant has three parts besides the types: Teardown     *)
(* orders the tasks that a stop waits for and says whose connector tasks   *)
(* may run, Books ties the supervisor's Active providers to the session    *)
(* tasks and keeps start attempts apart from them, and Gates ties each     *)
(* gate to what has been forwarded.                                        *)
(***************************************************************************)
EXTENDS StreamSession, TLAPS

Teardown ==
    /\ handle = "stopped" => outer = "done"
    /\ outer = "done" => sup = "returned"
    /\ sup = "returned" => AllJoined /\ \A p \in Provider : ~Unclaimed(p)
    /\ \A p \in Provider :
          pc[p] \in {"none", "reset", "notify"} /\ attempt[p] \in {"none", "asked"}
             => src[p] = "done"

Books ==
    \A p \in Provider :
      /\ p \in event_rx => p \in active /\ pc[p] = "none"
      /\ pc[p] # "none" => p \in active
      /\ attempt[p] # "none" => p \notin active
      /\ reset[p] => pc[p] \in {"halt", "reset", "notify", "none"}

\* The gate of p has forgotten s because p's stream ended; the history
\* follows when the next session is spawned.
Cleared(p, s) == reset[p] /\ s \in syms[p] /\ pc[p] \in {"notify", "none"}

GateOf(p) ==
    /\ pc[p] = "send" /\ EnforceMonotonic =>
         /\ cur[p][1].ts = gate[p][cur[p][1].sym]
         /\ cur[p][1].ts >= sent[p][cur[p][1].sym]
    /\ \A s \in Symbol :
         /\ Cleared(p, s) => gate[p][s] = 0
         /\ ~Cleared(p, s) => gate[p][s] >= sent[p][s]
         /\ rx /\ gate[p][s] > sent[p][s] => pc[p] = "send" /\ cur[p][1].sym = s
         /\ ~EnforceMonotonic => gate[p][s] = 0

Gates == \A p \in Provider : GateOf(p)

IInv == TypeOK /\ Teardown /\ Books /\ Gates

LEMMA InitInv == Init => IInv
<1> SUFFICES ASSUME Init PROVE IInv
  OBVIOUS
<1>0. PICK first \in Provider, ss \in SUBSET Symbol :
         /\ active = {first}
         /\ pc = [p \in Provider |-> IF p = first THEN "select" ELSE "none"]
         /\ syms = [p \in Provider |-> IF p = first THEN ss ELSE {}]
         /\ src = [p \in Provider |-> IF p = first THEN "up" ELSE "done"]
  BY AllowAssumption DEF Init
<1>1. TypeOK
  <2>1. TaskTypes
    BY <1>0, AllowAssumption DEF Init, TaskTypes
  <2>2. ChannelTypes
    BY <1>0, BoundsAssumption DEF Init, ChannelTypes
  <2>3. GateTypes
    BY BoundsAssumption DEF Init, GateTypes, Ts
  <2> QED
    BY <2>1, <2>2, <2>3 DEF TypeOK
<1>2. Teardown
  BY <1>0 DEF Init, Teardown
<1>3. Books
  BY <1>0 DEF Init, Books
<1>4. ASSUME NEW p \in Provider PROVE GateOf(p)
  <2>1. pc[p] # "send" /\ ~reset[p]
    BY <1>0 DEF Init
  <2>2. \A s \in Symbol : gate[p][s] = 0 /\ sent[p][s] = 0
    BY AllowAssumption DEF Init
  <2>3. \A s \in Symbol : ~(gate[p][s] > sent[p][s]) /\ gate[p][s] >= sent[p][s]
    BY <2>2
  <2> QED
    BY <2>1, <2>2, <2>3 DEF GateOf
<1> QED
  BY <1>1, <1>2, <1>3, <1>4 DEF IInv, Gates

-----------------------------------------------------------------------------
(* Types *)

\* The types of what a session task has at hand.
LEMMA InHand ==
    ASSUME TypeOK, NEW p \in Provider, pc[p] = "send"
    PROVE  /\ cur[p] = <<cur[p][1]>>
           /\ cur[p][1] \in Update
           /\ cur[p][1].sym \in Symbol
           /\ cur[p][1].ts \in 1 .. MaxTs
<1>1. cur[p] \in Seq(Update) /\ Len(cur[p]) = 1
  BY DEF TypeOK, ChannelTypes
<1>2. cur[p][1] \in Update /\ cur[p] = <<cur[p][1]>>
  BY <1>1
<1> QED
  BY <1>1, <1>2 DEF Update

\* The types of the update that waits first in a connector's channel.
LEMMA AtHead ==
    ASSUME TypeOK, NEW p \in Provider, prx[p] # <<>>
    PROVE  /\ Head(prx[p]) \in Update
           /\ Head(prx[p]).sym \in Symbol
           /\ Head(prx[p]).ts \in 1 .. MaxTs
           /\ Tail(prx[p]) \in Seq(Update)
           /\ Len(Tail(prx[p])) <= InCapacity
<1>1. prx[p] \in Seq(Update) /\ Len(prx[p]) <= InCapacity
  BY DEF TypeOK, ChannelTypes
<1>2. Head(prx[p]) \in Update /\ Tail(prx[p]) \in Seq(Update)
  BY <1>1
<1>3. Len(Tail(prx[p])) <= InCapacity
  BY <1>1, BoundsAssumption
<1> QED
  BY <1>2, <1>3 DEF Update

LEMMA TaskStep == TypeOK /\ [Next]_vars => TaskTypes'
<1> SUFFICES ASSUME TaskTypes, [Next]_vars PROVE TaskTypes'
  BY DEF TypeOK
<1> USE DEF handleVars, supVars, sessionVars, sourceVars
<1>1. CASE Stop \/ StopReturns \/ DropHandle \/ Receive \/ DropReceiver
  BY ZenonT(40), <1>1 DEF TaskTypes, Stop, StopReturns, DropHandle, Receive, DropReceiver
<1>2. CASE OuterWakes \/ OuterReturns \/ OuterCancelled
  BY <1>2 DEF TaskTypes, OuterWakes, OuterReturns, OuterCancelled
<1>3. CASE SupervisorCloses \/ SupervisorReturns
  BY <1>3 DEF TaskTypes, SupervisorCloses, SupervisorReturns
<1>4. ASSUME NEW p \in Provider,
             \/ \E ss \in SUBSET Symbol : RequestStart(p, ss)
             \/ StartAnswered(p) \/ StartFailed(p) \/ Discarded(p)
      PROVE  TaskTypes'
  BY <1>4 DEF TaskTypes, RequestStart, StartAnswered, StartFailed, Discarded, AttemptOver
<1>11. ASSUME NEW p \in Provider, Spawn(p) PROVE TaskTypes'
  BY <1>11 DEF TaskTypes, Spawn, AttemptOver
<1>5. ASSUME NEW p \in Provider, Preempt(p) \/ SessionEnded(p)
      PROVE  TaskTypes'
  BY <1>5 DEF TaskTypes, Preempt, SessionEnded
<1>6. ASSUME NEW p \in Provider,
             Produce(p) \/ Block(p) \/ Unblock(p) \/ ProviderEnds(p)
      PROVE  TaskTypes'
  BY <1>6 DEF TaskTypes, Produce, Block, Unblock, ProviderEnds
<1>7. ASSUME NEW p \in Provider,
             SessionStops(p) \/ SessionReceives(p) \/ SessionSends(p) \/ SessionUndeliverable(p)
      PROVE  TaskTypes'
  BY <1>7 DEF TaskTypes, SessionStops, SessionReceives, SessionSends,
              SessionUndeliverable, Goto
<1>8. ASSUME NEW p \in Provider,
             StreamEndSeen(p) \/ ConnectorStopped(p) \/ GateReset(p) \/ Notify(p)
      PROVE  TaskTypes'
  BY ZenonT(60), <1>8 DEF TaskTypes, StreamEndSeen, ConnectorStopped, GateReset, Notify, Goto
<1>9. ASSUME NEW p \in Provider, NEW s \in Symbol, Reap(p, s)
      PROVE  TaskTypes'
  BY <1>9 DEF TaskTypes, Reap
<1>10. CASE UNCHANGED vars
  BY <1>10 DEF TaskTypes, vars
<1> QED
  BY <1>1, <1>2, <1>3, <1>4, <1>5, <1>6, <1>7, <1>8, <1>9, <1>10, <1>11
     DEF Next, Session

LEMMA GateTypeStep == TypeOK /\ [Next]_vars => GateTypes'
<1> SUFFICES ASSUME TypeOK, [Next]_vars PROVE GateTypes'
  OBVIOUS
<1> USE DEF handleVars, supVars, sessionVars, sourceVars
<1>1. ASSUME UNCHANGED <<gate, sent>> PROVE GateTypes'
  BY <1>1 DEF TypeOK, GateTypes
<1>2. CASE \/ Stop \/ StopReturns \/ DropHandle \/ Receive \/ DropReceiver
           \/ OuterWakes \/ OuterReturns \/ OuterCancelled
           \/ SupervisorCloses \/ SupervisorReturns
  BY <1>1, <1>2 DEF Stop, StopReturns, DropHandle, Receive, DropReceiver, OuterWakes,
              OuterReturns, OuterCancelled, SupervisorCloses, SupervisorReturns
<1>3. ASSUME NEW p \in Provider, Spawn(p) PROVE GateTypes'
  <2>1. Forget(p) \in [Provider -> [Symbol -> Ts]]
    BY BoundsAssumption DEF TypeOK, GateTypes, Forget, Ts
  <2> QED
    BY <1>3, <2>1 DEF TypeOK, GateTypes, Spawn
<1>4. ASSUME NEW p \in Provider,
             \/ Preempt(p) \/ SessionEnded(p)
             \/ Produce(p) \/ Block(p) \/ Unblock(p) \/ ProviderEnds(p)
             \/ \E ss \in SUBSET Symbol : RequestStart(p, ss)
             \/ StartAnswered(p) \/ StartFailed(p) \/ Discarded(p)
      PROVE  GateTypes'
  BY <1>1, <1>4 DEF Preempt, SessionEnded, Produce, Block, Unblock, ProviderEnds,
                    RequestStart, StartAnswered, StartFailed, Discarded
<1>5. ASSUME NEW p \in Provider,
             \/ SessionStops(p) \/ SessionUndeliverable(p) \/ StreamEndSeen(p)
             \/ ConnectorStopped(p) \/ Notify(p)
      PROVE  GateTypes'
  BY <1>1, <1>5 DEF SessionStops, SessionUndeliverable, StreamEndSeen,
                    ConnectorStopped, Notify
<1>6. ASSUME NEW p \in Provider, SessionReceives(p)
      PROVE  GateTypes'
  <2> DEFINE u == Head(prx[p])
  <2>1. u.sym \in Symbol /\ u.ts \in Ts
    BY <1>6, AtHead, BoundsAssumption DEF SessionReceives, Ts
  <2>2. Remember(p, u) \in [Provider -> [Symbol -> Ts]]
    BY <2>1 DEF TypeOK, GateTypes, Remember
  <2>3. UNCHANGED sent /\ (gate' = Remember(p, u) \/ gate' = gate)
    BY <1>6 DEF SessionReceives
  <2> QED
    BY <2>2, <2>3 DEF TypeOK, GateTypes
<1>7. ASSUME NEW p \in Provider, SessionSends(p)
      PROVE  GateTypes'
  <2>1. cur[p][1].sym \in Symbol /\ cur[p][1].ts \in Ts
    BY <1>7, InHand, BoundsAssumption DEF SessionSends, Ts
  <2> QED
    BY <1>7, <2>1 DEF TypeOK, GateTypes, SessionSends
<1>8. ASSUME NEW p \in Provider, GateReset(p)
      PROVE  GateTypes'
  BY <1>8, BoundsAssumption DEF TypeOK, GateTypes, GateReset, Ts
<1>9. ASSUME NEW p \in Provider, NEW s \in Symbol, Reap(p, s)
      PROVE  GateTypes'
  BY <1>9, BoundsAssumption DEF TypeOK, GateTypes, Reap, Ts
<1>10. CASE UNCHANGED vars
  BY <1>1, <1>10 DEF vars
<1> QED
  BY <1>2, <1>3, <1>4, <1>5, <1>6, <1>7, <1>8, <1>9, <1>10 DEF Next, Session

\* One session task moves, and its hand with it.
Hands ==
    /\ cur \in [Provider -> Seq(Update)]
    /\ \A p \in Provider : Len(cur[p]) = IF pc[p] = "send" THEN 1 ELSE 0

LEMMA HandFull ==
    ASSUME TypeOK, NEW p \in Provider, NEW u \in Update,
           cur' = [cur EXCEPT ![p] = <<u>>], Goto(p, "send")
    PROVE  Hands'
<1>1. <<u>> \in Seq(Update) /\ Len(<<u>>) = 1
  OBVIOUS
<1>2. ASSUME NEW q \in Provider PROVE Len(cur'[q]) = IF pc'[q] = "send" THEN 1 ELSE 0
  <2>1. CASE q = p
    BY <1>1, <2>1 DEF TypeOK, TaskTypes, ChannelTypes, Goto
  <2>2. CASE q # p
    BY <2>2 DEF TypeOK, TaskTypes, ChannelTypes, Goto
  <2> QED
    BY <2>1, <2>2
<1> QED
  BY <1>1, <1>2 DEF TypeOK, ChannelTypes, Hands

LEMMA HandEmpty ==
    ASSUME TypeOK, NEW p \in Provider, NEW label, label # "send",
           cur' = [cur EXCEPT ![p] = <<>>], Goto(p, label)
    PROVE  Hands'
<1>1. <<>> \in Seq(Update) /\ Len(<<>>) = 0
  OBVIOUS
<1>2. ASSUME NEW q \in Provider PROVE Len(cur'[q]) = IF pc'[q] = "send" THEN 1 ELSE 0
  <2>1. CASE q = p
    BY <1>1, <2>1 DEF TypeOK, TaskTypes, ChannelTypes, Goto
  <2>2. CASE q # p
    BY <2>2 DEF TypeOK, TaskTypes, ChannelTypes, Goto
  <2> QED
    BY <2>1, <2>2
<1> QED
  BY <1>1, <1>2 DEF TypeOK, ChannelTypes, Hands

LEMMA HandKept ==
    ASSUME TypeOK, NEW p \in Provider, NEW label, label # "send", pc[p] # "send",
           UNCHANGED cur, Goto(p, label)
    PROVE  Hands'
<1>1. ASSUME NEW q \in Provider PROVE Len(cur'[q]) = IF pc'[q] = "send" THEN 1 ELSE 0
  <2>1. CASE q = p
    BY <2>1 DEF TypeOK, TaskTypes, ChannelTypes, Goto
  <2>2. CASE q # p
    BY <2>2 DEF TypeOK, TaskTypes, ChannelTypes, Goto
  <2> QED
    BY <2>1, <2>2
<1> QED
  BY <1>1 DEF TypeOK, ChannelTypes, Hands

LEMMA ChannelStep == TypeOK /\ Books /\ [Next]_vars => ChannelTypes'
<1> SUFFICES ASSUME TypeOK, Books, [Next]_vars PROVE ChannelTypes'
  OBVIOUS
<1> USE BoundsAssumption DEF handleVars, supVars, sessionVars, sourceVars
<1>1. ASSUME UNCHANGED <<cur, prx, out, budget, pc>> PROVE ChannelTypes'
  BY <1>1 DEF TypeOK, ChannelTypes
<1>2. CASE \/ Stop \/ StopReturns \/ DropHandle
           \/ OuterWakes \/ OuterReturns \/ OuterCancelled \/ SupervisorCloses
  BY <1>1, <1>2 DEF Stop, StopReturns, DropHandle, OuterWakes,
              OuterReturns, OuterCancelled, SupervisorCloses
<1>14. CASE SupervisorReturns
  BY <1>14 DEF TypeOK, ChannelTypes, SupervisorReturns
<1>3. CASE Receive \/ DropReceiver
  <2>1. out' \in Seq(Update) /\ Len(out') <= OutCapacity
    <3>1. CASE Receive
      BY <3>1 DEF TypeOK, ChannelTypes, Receive
    <3>2. CASE DropReceiver
      BY <3>2 DEF TypeOK, ChannelTypes, DropReceiver
    <3> QED
      BY <1>3, <3>1, <3>2
  <2> QED
    BY <1>3, <2>1 DEF TypeOK, ChannelTypes, Receive, DropReceiver
<1>4. ASSUME NEW p \in Provider, Spawn(p) PROVE ChannelTypes'
  <2>1. pc[p] # "send"
    BY <1>4 DEF Books, Spawn
  <2> QED
    BY <1>4, <2>1 DEF TypeOK, TaskTypes, ChannelTypes, Spawn
<1>5. ASSUME NEW p \in Provider,
             \/ Preempt(p) \/ SessionEnded(p) \/ Block(p) \/ Unblock(p) \/ ProviderEnds(p)
             \/ \E ss \in SUBSET Symbol : RequestStart(p, ss)
             \/ StartAnswered(p) \/ StartFailed(p) \/ Discarded(p)
      PROVE  ChannelTypes'
  BY <1>1, <1>5 DEF Preempt, SessionEnded, Block, Unblock, ProviderEnds,
                    RequestStart, StartAnswered, StartFailed, Discarded
<1>6. ASSUME NEW p \in Provider, Produce(p)
      PROVE  ChannelTypes'
  <2>1. PICK s \in Symbol, t \in 1 .. MaxTs :
          prx' = [prx EXCEPT ![p] = Append(@, [provider |-> p, sym |-> s, ts |-> t])]
    BY <1>6 DEF Produce
  <2>2. [provider |-> p, sym |-> s, ts |-> t] \in Update
    BY DEF Update
  <2>3. /\ prx' \in [Provider -> Seq(Update)]
        /\ \A q \in Provider : Len(prx'[q]) <= InCapacity
    BY <1>6, <2>1, <2>2 DEF TypeOK, ChannelTypes, Produce
  <2> QED
    BY <1>6, <2>3 DEF TypeOK, ChannelTypes, Produce
<1>7. ASSUME NEW p \in Provider, SessionStops(p) \/ SessionUndeliverable(p)
      PROVE  ChannelTypes'
  <2>1. Hands'
    <3>1. CASE SessionStops(p)
      BY <3>1, HandEmpty, "halt" # "send" DEF SessionStops
    <3>2. CASE SessionUndeliverable(p)
      BY <3>2, HandEmpty, "haltQuietly" # "send" DEF SessionUndeliverable
    <3> QED
      BY <1>7, <3>1, <3>2
  <2> QED
    BY <1>7, <2>1 DEF TypeOK, ChannelTypes, Hands, SessionStops, SessionUndeliverable
<1>8. ASSUME NEW p \in Provider, SessionReceives(p)
      PROVE  ChannelTypes'
  <2> DEFINE u == Head(prx[p])
  <2>1. /\ prx' \in [Provider -> Seq(Update)]
        /\ \A q \in Provider : Len(prx'[q]) <= InCapacity
    BY <1>8, AtHead DEF TypeOK, ChannelTypes, SessionReceives
  <2>2. CASE u.sym \in Allow[p] /\ Accepts(p, u)
    <3>1. Hands'
      BY <1>8, <2>2, AtHead, HandFull DEF SessionReceives
    <3> QED
      BY <1>8, <2>1, <3>1 DEF TypeOK, ChannelTypes, Hands, SessionReceives
  <2>3. CASE ~(u.sym \in Allow[p] /\ Accepts(p, u))
    BY <1>8, <2>1, <2>3 DEF TypeOK, ChannelTypes, SessionReceives
  <2> QED
    BY <2>2, <2>3
<1>9. ASSUME NEW p \in Provider, SessionSends(p)
      PROVE  ChannelTypes'
  <2>1. out' \in Seq(Update) /\ Len(out') <= OutCapacity
    <3>1. PICK u \in Update : cur[p] = <<u>>
      BY <1>9, InHand DEF SessionSends
    <3>2. out' = Append(out, u)
      BY <1>9, <3>1 DEF TypeOK, ChannelTypes, SessionSends
    <3>3. out \in Seq(Update) /\ Len(out) < OutCapacity
      BY <1>9 DEF TypeOK, ChannelTypes, SessionSends, Room
    <3> QED
      BY <3>2, <3>3
  <2>2. Hands'
    BY <1>9, HandEmpty, "select" # "send" DEF SessionSends
  <2> QED
    BY <1>9, <2>1, <2>2 DEF TypeOK, ChannelTypes, Hands, SessionSends
<1>10. ASSUME NEW p \in Provider, StreamEndSeen(p) \/ GateReset(p)
       PROVE  ChannelTypes'
  BY <1>10 DEF TypeOK, TaskTypes, ChannelTypes, StreamEndSeen, GateReset, Goto
<1>11. ASSUME NEW p \in Provider, ConnectorStopped(p) \/ Notify(p)
       PROVE  ChannelTypes'
  <2>1. Hands'
    <3>1. CASE ConnectorStopped(p)
      <4>1. CASE pc[p] = "halt"
        BY <3>1, <4>1, HandKept, "reset" # "send" DEF ConnectorStopped
      <4>2. CASE pc[p] = "haltQuietly"
        BY <3>1, <4>2, HandKept, "none" # "send" DEF ConnectorStopped
      <4> QED
        BY <3>1, <4>1, <4>2 DEF ConnectorStopped
    <3>2. CASE Notify(p)
      BY <3>2, HandKept, "none" # "send" DEF Notify
    <3> QED
      BY <1>11, <3>1, <3>2
  <2>2. prx' = prx \/ prx' = [prx EXCEPT ![p] = <<>>]
    BY <1>11 DEF ConnectorStopped, Notify
  <2>3. /\ prx' \in [Provider -> Seq(Update)]
        /\ \A q \in Provider : Len(prx'[q]) <= InCapacity
    <3>1. <<>> \in Seq(Update) /\ Len(<<>>) = 0
      OBVIOUS
    <3>2. CASE prx' = prx
      BY <3>2 DEF TypeOK, ChannelTypes
    <3>3. CASE prx' = [prx EXCEPT ![p] = <<>>]
      BY <3>1, <3>3 DEF TypeOK, ChannelTypes
    <3> QED
      BY <2>2, <3>2, <3>3
  <2> QED
    BY <1>11, <2>1, <2>3 DEF TypeOK, ChannelTypes, Hands, ConnectorStopped, Notify
<1>12. ASSUME NEW p \in Provider, NEW s \in Symbol, Reap(p, s)
       PROVE  ChannelTypes'
  BY <1>1, <1>12 DEF Reap
<1>13. CASE UNCHANGED vars
  BY <1>1, <1>13 DEF vars
<1> QED
  BY <1>2, <1>3, <1>4, <1>5, <1>6, <1>7, <1>8, <1>9, <1>10, <1>11, <1>12, <1>13, <1>14
     DEF Next, Session

-----------------------------------------------------------------------------
(* Teardown and bookkeeping *)

LEMMA TeardownStep == TypeOK /\ Books /\ Teardown /\ [Next]_vars => Teardown'
<1> SUFFICES ASSUME TypeOK, Books, Teardown, [Next]_vars PROVE Teardown'
  OBVIOUS
<1> USE DEF handleVars, supVars, sessionVars, sourceVars, AllJoined, Unclaimed, Teardown
<1>1. CASE Stop \/ StopReturns \/ DropHandle \/ Receive \/ DropReceiver
  BY <1>1 DEF Stop, StopReturns, DropHandle, Receive, DropReceiver
<1>2. CASE OuterWakes \/ OuterReturns \/ OuterCancelled
  BY <1>2 DEF OuterWakes, OuterReturns, OuterCancelled
<1>3. CASE SupervisorCloses \/ SupervisorReturns
  BY <1>3 DEF SupervisorCloses, SupervisorReturns, Unclaimed
<1>4. ASSUME NEW p \in Provider,
             \/ \E ss \in SUBSET Symbol : RequestStart(p, ss)
             \/ StartAnswered(p) \/ StartFailed(p)
      PROVE  Teardown'
  BY <1>4 DEF TypeOK, TaskTypes, RequestStart, StartAnswered, StartFailed, AttemptOver, Unclaimed
<1>10. ASSUME NEW p \in Provider, Spawn(p) \/ Discarded(p)
       PROVE  Teardown'
  BY <1>10 DEF TypeOK, TaskTypes, Spawn, Discarded, AttemptOver, Unclaimed
<1>5. ASSUME NEW p \in Provider,
             \/ Preempt(p) \/ SessionEnded(p)
             \/ Produce(p) \/ Block(p) \/ Unblock(p) \/ ProviderEnds(p)
      PROVE  Teardown'
  BY <1>5 DEF TypeOK, TaskTypes, Preempt, SessionEnded, Produce, Block, Unblock, ProviderEnds
<1>6. ASSUME NEW p \in Provider,
             SessionStops(p) \/ SessionReceives(p) \/ SessionSends(p) \/ SessionUndeliverable(p)
      PROVE  Teardown'
  BY <1>6 DEF TypeOK, TaskTypes, SessionStops, SessionReceives, SessionSends,
              SessionUndeliverable, MayStop, Goto
<1>7. ASSUME NEW p \in Provider,
             StreamEndSeen(p) \/ ConnectorStopped(p) \/ GateReset(p) \/ Notify(p)
      PROVE  Teardown'
  BY <1>7 DEF TypeOK, TaskTypes, StreamEndSeen, ConnectorStopped, GateReset, Notify, Goto
<1>8. ASSUME NEW p \in Provider, NEW s \in Symbol, Reap(p, s)
      PROVE  Teardown'
  BY <1>8 DEF Reap
<1>9. CASE UNCHANGED vars
  BY <1>9 DEF vars
<1> QED
  BY <1>1, <1>2, <1>3, <1>4, <1>5, <1>6, <1>7, <1>8, <1>9, <1>10 DEF Next, Session

LEMMA BooksStep == TypeOK /\ Books /\ [Next]_vars => Books'
<1> SUFFICES ASSUME TypeOK, Books, [Next]_vars PROVE Books'
  OBVIOUS
<1> USE DEF handleVars, supVars, sessionVars, sourceVars, Books
<1>1. CASE Stop \/ StopReturns \/ DropHandle \/ Receive \/ DropReceiver
  BY <1>1 DEF Stop, StopReturns, DropHandle, Receive, DropReceiver
<1>2. CASE \/ OuterWakes \/ OuterReturns \/ OuterCancelled
           \/ SupervisorCloses \/ SupervisorReturns
  BY <1>2 DEF OuterWakes, OuterReturns, OuterCancelled, SupervisorCloses, SupervisorReturns,
              Unclaimed
<1>3. ASSUME NEW p \in Provider, Spawn(p) PROVE Books'
  BY <1>3 DEF TypeOK, TaskTypes, Spawn, AttemptOver
<1>9. ASSUME NEW p \in Provider,
             \/ \E ss \in SUBSET Symbol : RequestStart(p, ss)
             \/ StartAnswered(p) \/ StartFailed(p) \/ Discarded(p)
      PROVE  Books'
  BY <1>9 DEF TypeOK, TaskTypes, RequestStart, StartAnswered, StartFailed, Discarded, AttemptOver
<1>4. ASSUME NEW p \in Provider,
             \/ Preempt(p) \/ SessionEnded(p)
             \/ Produce(p) \/ Block(p) \/ Unblock(p) \/ ProviderEnds(p)
      PROVE  Books'
  BY <1>4 DEF Preempt, SessionEnded, Produce, Block, Unblock, ProviderEnds
<1>5. ASSUME NEW p \in Provider,
             SessionStops(p) \/ SessionReceives(p) \/ SessionSends(p) \/ SessionUndeliverable(p)
      PROVE  Books'
  BY <1>5 DEF TypeOK, TaskTypes, SessionStops, SessionReceives, SessionSends,
              SessionUndeliverable, MayStop, Goto
<1>6. ASSUME NEW p \in Provider,
             StreamEndSeen(p) \/ ConnectorStopped(p) \/ GateReset(p) \/ Notify(p)
      PROVE  Books'
  BY <1>6 DEF TypeOK, TaskTypes, StreamEndSeen, ConnectorStopped, GateReset, Notify, Goto
<1>7. ASSUME NEW p \in Provider, NEW s \in Symbol, Reap(p, s)
      PROVE  Books'
  BY <1>7 DEF Reap
<1>8. CASE UNCHANGED vars
  BY <1>8 DEF vars
<1> QED
  BY <1>1, <1>2, <1>3, <1>4, <1>5, <1>6, <1>7, <1>8, <1>9 DEF Next, Session

-----------------------------------------------------------------------------
(* Gates *)

\* What a step leaves alone for provider q, GateOf(q) survives.
LEMMA GateFrame ==
    ASSUME TypeOK, NEW q \in Provider, GateOf(q), rx' => rx,
           gate'[q] = gate[q], sent'[q] = sent[q], cur'[q] = cur[q],
           pc'[q] = pc[q], reset'[q] = reset[q], syms'[q] = syms[q]
    PROVE  GateOf(q)'
  BY DEF GateOf, Cleared

LEMMA GatesStep == TypeOK /\ Books /\ Gates /\ [Next]_vars => Gates'
<1> SUFFICES ASSUME TypeOK, Books, Gates, [Next]_vars, NEW q \in Provider
             PROVE  GateOf(q)'
  BY DEF Gates
<1> USE DEF handleVars, supVars, sessionVars, sourceVars
<1>0. GateOf(q) /\ q \in Provider
  BY DEF Gates
<1>1. ASSUME UNCHANGED sessionVars, rx' => rx PROVE GateOf(q)'
  BY <1>0, <1>1, GateFrame
<1>2. CASE \/ Stop \/ StopReturns \/ DropHandle \/ Receive \/ DropReceiver
           \/ OuterWakes \/ OuterReturns \/ OuterCancelled
           \/ SupervisorCloses \/ SupervisorReturns
  BY <1>1, <1>2 DEF Stop, StopReturns, DropHandle, Receive, DropReceiver, OuterWakes,
              OuterReturns, OuterCancelled, SupervisorCloses, SupervisorReturns
<1>3. ASSUME NEW p \in Provider,
             \/ Preempt(p) \/ SessionEnded(p)
             \/ Produce(p) \/ Block(p) \/ Unblock(p) \/ ProviderEnds(p)
             \/ \E ss \in SUBSET Symbol : RequestStart(p, ss)
             \/ StartAnswered(p) \/ StartFailed(p) \/ Discarded(p)
      PROVE  GateOf(q)'
  BY <1>1, <1>3 DEF Preempt, SessionEnded, Produce, Block, Unblock, ProviderEnds,
                    RequestStart, StartAnswered, StartFailed, Discarded
<1>4. \A s \in Symbol : gate[q][s] \in Nat /\ sent[q][s] \in Nat
  BY BoundsAssumption DEF TypeOK, GateTypes, Ts
<1>5. ASSUME NEW p \in Provider, Spawn(p) PROVE GateOf(q)'
  <2>1. CASE p # q
    BY <1>0, <1>5, <2>1, GateFrame DEF Spawn, Forget, TypeOK, TaskTypes, GateTypes
  <2>2. CASE p = q
    <3>1. pc[q] = "none" /\ pc'[q] = "select" /\ rx' = rx /\ gate' = gate
      BY <1>5, <2>2 DEF Books, Spawn, TypeOK, TaskTypes
    <3>2. \A s \in Symbol : sent'[q][s] = IF Cleared(q, s) THEN 0 ELSE sent[q][s]
      BY <1>5, <2>2, <3>1 DEF Spawn, Forget, Cleared, TypeOK, GateTypes
    <3>3. \A s \in Symbol : ~Cleared(q, s)'
      BY <3>1 DEF Cleared
    <3>4. \A s \in Symbol :
             /\ gate[q][s] >= sent'[q][s]
             /\ ~(rx /\ gate[q][s] > sent'[q][s])
             /\ ~EnforceMonotonic => gate[q][s] = 0
      BY <1>0, <1>4, <3>1, <3>2 DEF GateOf
    <3> QED
      BY <3>1, <3>3, <3>4 DEF GateOf
  <2> QED
    BY <2>1, <2>2
<1>6. ASSUME NEW p \in Provider, SessionStops(p) \/ StreamEndSeen(p) \/ ConnectorStopped(p)
      PROVE  GateOf(q)'
  <2>1. CASE p # q
    <3>1. /\ rx' = rx /\ gate' = gate /\ sent' = sent /\ syms' = syms
          /\ pc'[q] = pc[q]
      BY <1>6, <2>1 DEF SessionStops, StreamEndSeen, ConnectorStopped, Goto, TypeOK, TaskTypes
    <3>2. cur'[q] = cur[q] /\ reset'[q] = reset[q]
      BY <1>6, <2>1
         DEF SessionStops, StreamEndSeen, ConnectorStopped, TypeOK, TaskTypes, ChannelTypes
    <3> QED
      BY <1>0, <3>1, <3>2, GateFrame
  <2>2. CASE p = q
    <3>1. /\ pc[q] \in {"select", "halt", "haltQuietly", "send"} /\ pc[q] # "send"
          /\ pc'[q] \in {"halt", "reset", "none"}
          /\ pc'[q] = "none" => ~reset'[q]
      BY <1>6, <2>2
         DEF Books, SessionStops, StreamEndSeen, ConnectorStopped, MayStop, Goto,
             TypeOK, TaskTypes
    <3>2. rx' = rx /\ gate' = gate /\ sent' = sent /\ syms' = syms
      BY <1>6 DEF SessionStops, StreamEndSeen, ConnectorStopped
    <3>3. \A s \in Symbol : ~Cleared(q, s) /\ ~Cleared(q, s)'
      BY <3>1 DEF Cleared
    <3> QED
      BY <1>0, <3>1, <3>2, <3>3 DEF GateOf
  <2> QED
    BY <2>1, <2>2
<1>7. ASSUME NEW p \in Provider, SessionReceives(p)
      PROVE  GateOf(q)'
  <2> DEFINE u == Head(prx[p])
  <2>1. CASE UNCHANGED <<gate, cur, pc>>
    BY <1>0, <1>7, <2>1, GateFrame DEF SessionReceives
  <2>2. CASE /\ p # q
             /\ gate' = Remember(p, u) /\ cur' = [cur EXCEPT ![p] = <<u>>] /\ Goto(p, "send")
    BY <1>0, <1>7, <2>2, GateFrame
       DEF SessionReceives, Remember, Goto, TypeOK, TaskTypes, ChannelTypes, GateTypes
  <2>3. CASE /\ p = q /\ Accepts(p, u)
             /\ gate' = Remember(p, u) /\ cur' = [cur EXCEPT ![p] = <<u>>] /\ Goto(p, "send")
    <3>1. /\ pc[q] = "select" /\ pc'[q] = "send" /\ ~reset[q] /\ reset' = reset
          /\ sent' = sent /\ rx' = rx
      BY <1>7, <2>3 DEF Books, SessionReceives, Goto, TypeOK, TaskTypes
    <3>2. cur'[q] = <<u>> /\ cur'[q][1] = u
      BY <2>3 DEF TypeOK, ChannelTypes
    <3>3. u.sym \in Symbol /\ u.ts \in 1 .. MaxTs
      BY <1>7, AtHead DEF SessionReceives
    <3>4. \A s \in Symbol : ~Cleared(q, s) /\ ~Cleared(q, s)'
      BY <3>1 DEF Cleared
    <3>5. CASE EnforceMonotonic
      <4>1. \A s \in Symbol : gate'[q][s] = IF s = u.sym THEN u.ts ELSE gate[q][s]
        BY <2>3, <3>3, <3>5 DEF Remember, TypeOK, GateTypes
      <4>2. u.ts >= sent[q][u.sym]
        BY <1>0, <1>4, <2>3, <3>3, <3>4, <3>5 DEF Accepts, GateOf
      <4>3. \A s \in Symbol : s # u.sym => gate[q][s] >= sent[q][s] /\ ~(rx /\ gate[q][s] > sent[q][s])
        BY <1>0, <3>1, <3>4 DEF GateOf
      <4> QED
        BY <3>1, <3>2, <3>3, <3>4, <3>5, <4>1, <4>2, <4>3 DEF GateOf
    <3>6. CASE ~EnforceMonotonic
      <4>1. gate' = gate
        BY <2>3, <3>6 DEF Remember
      <4> QED
        BY <1>0, <3>1, <3>2, <3>4, <3>6, <4>1 DEF GateOf
    <3> QED
      BY <3>5, <3>6
  <2> QED
    BY <1>7, <2>1, <2>2, <2>3 DEF SessionReceives
<1>8. ASSUME NEW p \in Provider, SessionSends(p)
      PROVE  GateOf(q)'
  <2>1. CASE p # q
    BY <1>0, <1>8, <2>1, GateFrame
       DEF SessionSends, Goto, TypeOK, TaskTypes, ChannelTypes, GateTypes
  <2>2. CASE p = q
    <3> DEFINE u == cur[q][1]
    <3>1. /\ pc[q] = "send" /\ pc'[q] = "select" /\ ~reset[q]
          /\ rx' = rx /\ gate' = gate /\ reset' = reset
      BY <1>8, <2>2 DEF Books, SessionSends, Goto, TypeOK, TaskTypes
    <3>2. u.sym \in Symbol /\ u.ts \in 1 .. MaxTs
      BY <3>1, InHand
    <3>3. \A s \in Symbol : ~Cleared(q, s) /\ ~Cleared(q, s)'
      BY <3>1 DEF Cleared
    <3>4. \A s \in Symbol :
            sent'[q][s] = IF EnforceMonotonic /\ s = u.sym THEN u.ts ELSE sent[q][s]
      BY <1>8, <2>2, <3>2 DEF SessionSends, TypeOK, GateTypes
    <3>5. \A s \in Symbol :
             /\ gate[q][s] >= sent'[q][s]
             /\ ~(rx /\ gate[q][s] > sent'[q][s])
      <4>1. CASE EnforceMonotonic
        BY <1>0, <1>4, <3>1, <3>2, <3>3, <3>4, <4>1 DEF GateOf
      <4>2. CASE ~EnforceMonotonic
        BY <1>0, <1>4, <3>1, <3>3, <3>4, <4>2 DEF GateOf
      <4> QED
        BY <4>1, <4>2
    <3> QED
      BY <1>0, <3>1, <3>3, <3>5 DEF GateOf
  <2> QED
    BY <2>1, <2>2
<1>9. ASSUME NEW p \in Provider, SessionUndeliverable(p)
      PROVE  GateOf(q)'
  <2>1. CASE p # q
    BY <1>0, <1>9, <2>1, GateFrame
       DEF SessionUndeliverable, Goto, TypeOK, TaskTypes, ChannelTypes
  <2>2. CASE p = q
    <3>1. /\ pc[q] = "send" /\ pc'[q] = "haltQuietly" /\ ~rx'
          /\ gate' = gate /\ sent' = sent
      BY <1>9, <2>2 DEF SessionUndeliverable, Goto, TypeOK, TaskTypes
    <3>2. \A s \in Symbol : ~Cleared(q, s) /\ ~Cleared(q, s)'
      BY <3>1 DEF Cleared
    <3> QED
      BY <1>0, <3>1, <3>2 DEF GateOf
  <2> QED
    BY <2>1, <2>2
<1>10. ASSUME NEW p \in Provider, GateReset(p)
       PROVE  GateOf(q)'
  <2>1. CASE p # q
    BY <1>0, <1>10, <2>1, GateFrame
       DEF GateReset, Goto, TypeOK, TaskTypes, GateTypes
  <2>2. CASE p = q
    <3>1. /\ pc[q] = "reset" /\ pc'[q] = "notify" /\ rx' = rx
          /\ sent' = sent /\ reset' = reset /\ syms' = syms
      BY <1>10, <2>2 DEF GateReset, Goto, TypeOK, TaskTypes
    <3>2. \A s \in Symbol : ~Cleared(q, s) /\ (Cleared(q, s)' <=> reset[q] /\ s \in syms[q])
      BY <3>1 DEF Cleared
    <3>3. \A s \in Symbol : gate'[q][s] = IF reset[q] /\ s \in syms[q] THEN 0 ELSE gate[q][s]
      BY <1>10, <2>2 DEF GateReset, ResetOnEnd, TypeOK, GateTypes
    <3> QED
      BY <1>0, <1>4, <3>1, <3>2, <3>3 DEF GateOf
  <2> QED
    BY <2>1, <2>2
<1>11. ASSUME NEW p \in Provider, Notify(p)
       PROVE  GateOf(q)'
  <2>1. CASE p # q
    BY <1>0, <1>11, <2>1, GateFrame DEF Notify, Goto, TypeOK, TaskTypes
  <2>2. CASE p = q
    <3>1. /\ pc[q] = "notify" /\ pc'[q] = "none" /\ rx' = rx /\ gate' = gate
          /\ sent' = sent /\ reset' = reset /\ syms' = syms
      BY <1>11, <2>2 DEF Notify, Goto, TypeOK, TaskTypes
    <3>2. \A s \in Symbol : Cleared(q, s)' <=> Cleared(q, s)
      BY <3>1 DEF Cleared
    <3> QED
      BY <1>0, <3>1, <3>2 DEF GateOf
  <2> QED
    BY <2>1, <2>2
<1>12. ASSUME NEW p \in Provider, NEW s \in Symbol, Reap(p, s)
       PROVE  GateOf(q)'
  <2>1. CASE p # q
    BY <1>0, <1>12, <2>1, GateFrame DEF Reap, TypeOK, GateTypes
  <2>2. CASE p = q
    <3>1. pc[q] # "send" /\ pc' = pc /\ rx' = rx /\ reset' = reset /\ syms' = syms
      <4>1. cur[q] = <<>> /\ Len(<<>>) = 0
        BY <1>12, <2>2 DEF Reap
      <4>2. Len(cur[q]) = IF pc[q] = "send" THEN 1 ELSE 0
        BY DEF TypeOK, ChannelTypes
      <4>3. Len(cur[q]) = 0
        BY <4>1
      <4>4. pc[q] # "send"
        BY <4>2, <4>3
      <4> QED
        BY <1>12, <4>4 DEF Reap
    <3>2. \A t \in Symbol : Cleared(q, t)' <=> Cleared(q, t)
      BY <3>1 DEF Cleared
    <3>3. \A t \in Symbol :
             /\ gate'[q][t] = IF t = s THEN 0 ELSE gate[q][t]
             /\ sent'[q][t] = IF t = s THEN 0 ELSE sent[q][t]
      BY <1>12, <2>2 DEF Reap, TypeOK, GateTypes
    <3> QED
      BY <1>0, <1>4, <3>1, <3>2, <3>3 DEF GateOf
  <2> QED
    BY <2>1, <2>2
<1>13. CASE UNCHANGED vars
  BY <1>1, <1>13 DEF vars
<1> QED
  BY <1>2, <1>3, <1>5, <1>6, <1>7, <1>8, <1>9, <1>10, <1>11, <1>12, <1>13
     DEF Next, Session

-----------------------------------------------------------------------------

LEMMA NextInv == IInv /\ [Next]_vars => IInv'
  BY TaskStep, ChannelStep, GateTypeStep, TeardownStep, BooksStep, GatesStep
     DEF IInv, TypeOK

\* The inductive invariant holds in every behaviour.
THEOREM Inductive == Spec => []IInv
  BY InitInv, NextInv, PTL DEF Spec

\* Tasks, channels and gates keep their types; no channel exceeds its capacity
\* and a session holds an update exactly while it is sending.
THEOREM TypeCorrect == Spec => []TypeOK
<1>1. IInv => TypeOK
  BY DEF IInv
<1> QED
  BY <1>1, Inductive, PTL

\* When stop() returns, supervisor, sessions and their connector tasks have
\* ended; a connector task that still runs is one that a start attempt brought
\* too late, already dropped and without a session.
THEOREM StopLeavesNothing == Spec => []StoppedMeansGone
<1>1. IInv => StoppedMeansGone
  BY DEF IInv, Teardown, StoppedMeansGone, AllJoined, Unclaimed, TypeOK, TaskTypes
<1> QED
  BY <1>1, Inductive, PTL

\* A session never sends a timestamp older than one it, or an earlier session
\* of the provider, has sent since the provider last reconnected.
THEOREM OrderKept == Spec => []InOrder
<1>1. IInv => InOrder
  BY DEF IInv, Gates, GateOf, InOrder
<1> QED
  BY <1>1, Inductive, PTL

\* An accepted update is delivered or in hand while the receiver lives.
THEOREM NothingAcceptedIsLost == Spec => []AcceptedIsDelivered
<1>1. IInv => AcceptedIsDelivered
  BY DEF IInv, Gates, GateOf, AcceptedIsDelivered
<1> QED
  BY <1>1, Inductive, PTL

\* The session that follows the end of a provider's stream finds the gate
\* without entries for the symbols of the session before it.
THEOREM CleanReconnect == Spec => ReconnectStartsClean
<1> DEFINE Clean ==
      \A p \in Provider :
         p \notin active /\ p \in active' /\ reset[p] => \A s \in syms[p] : gate[p][s] = 0
<1>1. IInv => Clean
  <2> SUFFICES ASSUME IInv, NEW p \in Provider, p \notin active, reset[p], NEW s \in syms[p]
               PROVE  gate[p][s] = 0
    OBVIOUS
  <2>1. pc[p] = "none" /\ s \in Symbol
    BY DEF IInv, Books, TypeOK, TaskTypes
  <2> QED
    BY <2>1 DEF IInv, Gates, GateOf, Cleared
<1>2. IInv /\ [Next]_vars => [Clean]_vars
  BY <1>1
<1> QED
  BY <1>2, Inductive, PTL DEF Spec, ReconnectStartsClean
=============================================================================
