----------------------------- MODULE CallPath_proof -----------------------------
(***************************************************************************)
(* Proofs about CallPath, for any callers, connectors and configuration.   *)
(*                                                                         *)
(* The invariant has two halves.  StackInv: the stores hold only what is   *)
(* so, and the negative ones nothing that may pass.  CallInv: the results  *)
(* in the calls are so too, whoever told them, and the calls of a request  *)
(* have the shape that its strategy gives them.  Most steps change the     *)
(* calls in one of two ways, each a lemma: the calls evolve and no request *)
(* learns of it, or one call gets its answer and its request goes on or    *)
(* ends.                                                                   *)
(***************************************************************************)
EXTENDS CallPath, TLAPS

Idle(s) == s.at \in {"none", "done"}

Believable(p, r) == r \in Verdicts => r = verdict[p]

StackInv ==
    /\ strategy \in {"priority", "latency"}
    /\ positiveOn \in BOOLEAN /\ negativeOn \in BOOLEAN
    /\ verdict \in [Provider -> Verdicts]
    /\ positive \subseteq Provider /\ \A p \in positive : verdict[p] = "ok"
    /\ negative \in [Provider -> {"none", "not_found", "rejected"}]
    /\ \A p \in Provider : Believable(p, negative[p])
    /\ until \in [Provider -> Nat] /\ promised \in [Provider -> Nat]
    /\ ahead \in [Provider -> SUBSET Caller] /\ cut \subseteq Provider

\* Results told and not yet known to the request, or known, are so; only
\* permanent errors are about to be stored.
GoodCalls(calls) ==
    /\ calls \in [Caller -> [Provider -> Calls]]
    /\ \A c \in Caller : \A p \in Provider :
          /\ Believable(p, calls[c][p].of)
          /\ calls[c][p].at = "storing" => Permanent(calls[c][p].of)

\* By priority one call is under way, those before it have failed and those
\* after it are not made; in a race every call is made.
Shape(c) ==
    IF fetch[c] # "running" THEN \A p \in Provider : Idle(call[c][p])
    ELSE /\ \A p \in Provider : call[c][p] # Done("ok")
         /\ strategy = "latency" =>
               /\ \A p \in Provider : call[c][p].at # "none"
               /\ \E p \in Provider : ~Idle(call[c][p])
         /\ strategy = "priority" =>
               \E p \in Provider :
                  /\ ~Idle(call[c][p])
                  /\ \A q \in Provider :
                        /\ q < p => call[c][q].at = "done"
                        /\ q > p => call[c][q] = At("none")

CallInv ==
    /\ origin \in [Caller -> {"external", "internal"}]
    /\ fetch \in [Caller -> {"idle", "running"} \cup Answers]
    /\ GoodCalls(call)
    /\ \A c \in Caller :
          /\ fetch[c] = "not_found" => \A p \in Provider : call[c][p] = Done("not_found")
          /\ Shape(c)

IInv == StackInv /\ CallInv

-----------------------------------------------------------------------------
(* How the calls change *)

\* base is what the calls have become, with nothing ended and nothing begun.
Evolves(base) ==
    /\ GoodCalls(base)
    /\ \A c \in Caller : \A p \in Provider :
          /\ Idle(call[c][p]) => base[c][p] = call[c][p]
          /\ ~Idle(call[c][p]) => ~Idle(base[c][p])

\* A request whose own calls evolve, and that is none the wiser, stays well.
LEMMA EvolutionOf ==
    ASSUME IInv, NEW base, Evolves(base), UNCHANGED config,
           NEW c \in Caller, fetch'[c] = fetch[c], call'[c] = base[c]
    PROVE  /\ fetch'[c] = "not_found" => \A p \in Provider : call'[c][p] = Done("not_found")
           /\ Shape(c)'
<1>1. fetch'[c] = "not_found" => \A p \in Provider : call'[c][p] = Done("not_found")
  <2>1. ASSUME NEW p \in Provider, call[c][p] = Done("not_found")
        PROVE  call'[c][p] = Done("not_found")
    <3>1. Idle(call[c][p])  BY <2>1 DEF Idle, Done
    <3>2. QED  BY <2>1, <3>1 DEF Evolves
  <2>2. QED  BY <2>1 DEF IInv, CallInv
<1>2. CASE fetch[c] # "running"
  BY <1>1, <1>2 DEF IInv, CallInv, Shape, Evolves
<1>3. CASE fetch[c] = "running"
  <2>1. \A p \in Provider : call'[c][p] # Done("ok")
    <3>1. SUFFICES ASSUME NEW p \in Provider, call'[c][p] = Done("ok") PROVE FALSE
      OBVIOUS
    <3>2. Idle(base[c][p])  BY <3>1 DEF Idle, Done
    <3>3. Idle(call[c][p])  BY <3>2 DEF Evolves
    <3>4. call[c][p] = Done("ok")  BY <3>1, <3>3 DEF Evolves
    <3>5. QED  BY <3>4, <1>3 DEF IInv, CallInv, Shape
  <2>2. strategy = "latency" =>
             /\ \A p \in Provider : call'[c][p].at # "none"
             /\ \E p \in Provider : ~Idle(call'[c][p])
    BY <1>3 DEF IInv, CallInv, Shape, Evolves, Idle
  <2>3. ASSUME strategy = "priority"
        PROVE  \E p \in Provider :
                /\ ~Idle(call'[c][p])
                /\ \A q \in Provider :
                      /\ q < p => call'[c][q].at = "done"
                      /\ q > p => call'[c][q] = At("none")
    <3>1. PICK p \in Provider :
                /\ ~Idle(call[c][p])
                /\ \A q \in Provider :
                      /\ q < p => call[c][q].at = "done"
                      /\ q > p => call[c][q] = At("none")
      BY <2>3, <1>3 DEF IInv, CallInv, Shape
    <3>2. ~Idle(call'[c][p])  BY <3>1 DEF Evolves
    <3>3. ASSUME NEW q \in Provider
          PROVE  /\ q < p => call'[c][q].at = "done"
                 /\ q > p => call'[c][q] = At("none")
      <4>1. q < p => call'[c][q] = call[c][q]  BY <3>1 DEF Evolves, Idle
      <4>2. q > p => call'[c][q] = call[c][q]  BY <3>1 DEF Evolves, Idle, At
      <4>3. QED  BY <3>1, <4>1, <4>2
    <3>4. QED  BY <3>2, <3>3
  <2>4. QED  BY <2>1, <2>2, <2>3, <1>1, <1>3 DEF Shape, config
<1>4. QED  BY <1>2, <1>3

\* Calls that evolve keep the invariant, with no request the wiser.
LEMMA Evolution ==
    ASSUME IInv, Evolves(call'), UNCHANGED <<config, origin, fetch>>
    PROVE  CallInv'
<1>1. GoodCalls(call)'
  BY DEF Evolves, GoodCalls, Believable, config
<1>2. ASSUME NEW c \in Caller
      PROVE  /\ fetch'[c] = "not_found" => \A p \in Provider : call'[c][p] = Done("not_found")
             /\ Shape(c)'
  BY EvolutionOf
<1>3. QED  BY <1>1, <1>2 DEF IInv, CallInv

\* Nothing evolves by itself, and the outcome of a load may be handed to those
\* who wait for it.
LEMMA StutterEvolves ==
    ASSUME IInv PROVE Evolves(call)
BY DEF IInv, CallInv, Evolves

LEMMA ReleaseEvolves ==
    ASSUME IInv, NEW c \in Caller, NEW p \in Provider, NEW r \in Results,
           Believable(p, r)
    PROVE  Evolves(Release(c, p, r))
<1> DEFINE base == Release(c, p, r)
<1>1. base \in [Caller -> [Provider -> Calls]]
  BY DEF IInv, CallInv, GoodCalls, Release, Calls, Handed
<1>2. ASSUME NEW d \in Caller, NEW q \in Provider
      PROVE  /\ Believable(q, base[d][q].of)
             /\ base[d][q].at = "storing" => Permanent(base[d][q].of)
             /\ Idle(call[d][q]) => base[d][q] = call[d][q]
             /\ ~Idle(call[d][q]) => ~Idle(base[d][q])
  <2>1. CASE q = p /\ call[d][p] = At("waiting")
    <3>1. base[d][q] = Handed(r)
      BY <2>1 DEF IInv, CallInv, GoodCalls, Release
    <3>2. base[d][q].at = "handed" /\ base[d][q].of = r /\ call[d][q].at = "waiting"
      BY <2>1, <3>1 DEF Handed, At
    <3>3. QED  BY <2>1, <3>2 DEF Idle
  <2>2. CASE ~(q = p /\ call[d][p] = At("waiting"))
    <3>1. base[d][q] = call[d][q]
      BY <2>2 DEF IInv, CallInv, GoodCalls, Release
    <3>2. QED  BY <3>1 DEF IInv, CallInv, GoodCalls
  <2>3. QED  BY <2>1, <2>2
<1>3. QED  BY <1>1, <1>2 DEF Evolves, GoodCalls

\* A call that is not idle belongs to a request that is running.
LEMMA BusyMeansRunning ==
    ASSUME IInv, NEW c \in Caller, NEW p \in Provider, ~Idle(call[c][p])
    PROVE  fetch[c] = "running"
BY DEF IInv, CallInv, Shape

\* One call moves on.
LEMMA MoveEvolves ==
    ASSUME IInv, NEW base, Evolves(base), NEW c \in Caller, NEW p \in Provider,
           ~Idle(call[c][p]), NEW s \in Calls, ~Idle(s), Believable(p, s.of),
           s.at = "storing" => Permanent(s.of)
    PROVE  Evolves([base EXCEPT ![c][p] = s])
<1> DEFINE next == [base EXCEPT ![c][p] = s]
<1>1. base \in [Caller -> [Provider -> Calls]]  BY DEF Evolves, GoodCalls
<1>2. next \in [Caller -> [Provider -> Calls]]  BY <1>1
<1>3. \A d \in Caller : \A q \in Provider :
         next[d][q] = IF d = c /\ q = p THEN s ELSE base[d][q]
  BY <1>1
<1>4. QED  BY <1>2, <1>3 DEF Evolves, GoodCalls

-----------------------------------------------------------------------------
(* An answer *)

\* What a request's calls are when one of them has ended with r, before the
\* request looks at it.
Answered(base, c, p, r) == [base[c] EXCEPT ![p] = Done(r)]

LEMMA AnsweredCalls ==
    ASSUME IInv, NEW base, Evolves(base), NEW c \in Caller, NEW p \in Provider,
           NEW r \in Results, Believable(p, r)
    PROVE  /\ Answered(base, c, p, r) \in [Provider -> Calls]
           /\ \A q \in Provider :
                 /\ q # p => Answered(base, c, p, r)[q] = base[c][q]
                 /\ Believable(q, Answered(base, c, p, r)[q].of)
                 /\ Answered(base, c, p, r)[q].at = "storing"
                       => Permanent(Answered(base, c, p, r)[q].of)
           /\ Answered(base, c, p, r)[p] = Done(r)
<1> DEFINE calls == Answered(base, c, p, r)
<1>1. base[c] \in [Provider -> Calls]  BY DEF Evolves, GoodCalls
<1>2. Done(r) \in Calls  BY DEF Calls
<1>3. calls \in [Provider -> Calls]  BY <1>1, <1>2 DEF Answered
<1>4. calls[p] = Done(r)  BY <1>1 DEF Answered
<1>5. \A q \in Provider : q # p => calls[q] = base[c][q]  BY <1>1 DEF Answered
<1>6. Done(r).at = "done" /\ Done(r).of = r  BY DEF Done
<1>7. QED  BY <1>3, <1>4, <1>5, <1>6 DEF Evolves, GoodCalls

\* The answer leaves the request's calls believable.
LEMMA ContinueIsGood ==
    ASSUME NEW calls \in [Provider -> Calls], NEW p \in Provider,
           \A q \in Provider :
              /\ Believable(q, calls[q].of)
              /\ calls[q].at = "storing" => Permanent(calls[q].of)
    PROVE  /\ Continue(p, calls) \in [Provider -> Calls]
           /\ \A q \in Provider :
                 /\ Believable(q, Continue(p, calls)[q].of)
                 /\ Continue(p, calls)[q].at = "storing"
                       => Permanent(Continue(p, calls)[q].of)
<1>1. At("none") \in Calls /\ At("start") \in Calls
  BY DEF Calls, Stages
<1>2. At("none").of = "none" /\ At("start").of = "none"
      /\ At("none").at = "none" /\ At("start").at = "start"
  BY DEF At
<1>3. \A q \in Provider : Believable(q, "none")  BY DEF Believable, Verdicts
<1>4. CASE calls[p] = Done("ok")
  <2>1. Continue(p, calls) =
           [q \in Provider |-> IF calls[q].at = "done" THEN calls[q] ELSE At("none")]
    BY <1>4 DEF Continue
  <2>2. QED  BY <2>1, <1>1, <1>2, <1>3
<1>5. CASE calls[p] # Done("ok") /\ strategy = "priority" /\ p + 1 \in Provider
  <2>1. Continue(p, calls) = [calls EXCEPT ![p + 1] = At("start")]
    BY <1>5 DEF Continue
  <2>2. QED  BY <1>5, <2>1, <1>1, <1>2, <1>3
<1>6. CASE calls[p] # Done("ok") /\ ~(strategy = "priority" /\ p + 1 \in Provider)
  <2>1. Continue(p, calls) = calls  BY <1>6 DEF Continue
  <2>2. QED  BY <2>1
<1>7. QED  BY <1>4, <1>5, <1>6

\* What a request makes of an answer.
LEMMA AnswerKeepsShape ==
    ASSUME IInv, NEW base, Evolves(base), UNCHANGED config,
           NEW c \in Caller, NEW p \in Provider, ~Idle(call[c][p]),
           NEW r \in Results, Believable(p, r),
           fetch'[c] = Outcome(Answered(base, c, p, r)),
           call'[c] = Continue(p, Answered(base, c, p, r))
    PROVE  /\ fetch'[c] \in {"running"} \cup Answers
           /\ fetch'[c] = "not_found" => \A q \in Provider : call'[c][q] = Done("not_found")
           /\ Shape(c)'
<1> DEFINE calls == Answered(base, c, p, r)
           AllDone == \A q \in Provider : calls[q].at = "done"
<1> USE CallPathAssumption
<1>1. fetch[c] = "running"  BY BusyMeansRunning
<1>2. /\ calls \in [Provider -> Calls]
      /\ \A q \in Provider : q # p => calls[q] = base[c][q]
      /\ calls[p] = Done(r)
  BY AnsweredCalls
<1>3. At("none").at = "none" /\ At("start").at = "start" /\ Done(r).at = "done"
      /\ Done(r).of = r /\ Done("ok").of = "ok" /\ Done("ok").at = "done"
  BY DEF At, Done
<1> HIDE DEF calls
<1>4. CASE r = "ok"
  <2>1. fetch'[c] = "ok"  BY <1>2, <1>4 DEF Outcome, calls
  <2>2. call'[c] = [q \in Provider |-> IF calls[q].at = "done" THEN calls[q] ELSE At("none")]
    BY <1>2, <1>4 DEF Continue, calls
  <2>3. \A q \in Provider : Idle(call'[c][q])  BY <2>2, <1>3 DEF Idle
  <2>4. QED  BY <2>1, <2>3 DEF Shape, Answers
<1>5. CASE r # "ok"
  <2>1. \A q \in Provider : base[c][q] # Done("ok")
    <3>1. SUFFICES ASSUME NEW q \in Provider, base[c][q] = Done("ok") PROVE FALSE
      OBVIOUS
    <3>2. Idle(call[c][q])  BY <3>1, <1>3 DEF Evolves, Idle
    <3>3. call[c][q] = Done("ok")  BY <3>1, <3>2 DEF Evolves
    <3>4. QED  BY <3>3, <1>1 DEF IInv, CallInv, Shape
  <2>2. \A q \in Provider : calls[q] # Done("ok")
    BY <2>1, <1>2, <1>3, <1>5
  <2>3. ASSUME strategy = "priority"
        PROVE  \A q \in Provider :
                  /\ q < p => calls[q].at = "done"
                  /\ q > p => calls[q] = At("none")
    <3>1. PICK o \in Provider :
                /\ ~Idle(call[c][o])
                /\ \A q \in Provider :
                      /\ q < o => call[c][q].at = "done"
                      /\ q > o => call[c][q] = At("none")
      BY <2>3, <1>1 DEF IInv, CallInv, Shape
    <3>2. o = p
      <4>1. ~(p < o)  BY <3>1 DEF Idle
      <4>2. ~(p > o)  BY <3>1, <1>3 DEF Idle
      <4>3. QED  BY <4>1, <4>2 DEF Provider
    <3>3. ASSUME NEW q \in Provider
          PROVE  /\ q < p => calls[q].at = "done"
                 /\ q > p => calls[q] = At("none")
      <4>1. q < p => q # p /\ Idle(call[c][q])  BY <3>1, <3>2 DEF Idle, Provider
      <4>2. q > p => q # p /\ Idle(call[c][q])  BY <3>1, <3>2, <1>3 DEF Idle, Provider
      <4>3. QED  BY <4>1, <4>2, <3>1, <3>2, <1>2 DEF Evolves
    <3>4. QED  BY <3>3
  <2>4. CASE AllDone
    <3>1. fetch'[c] = Collapse(calls)  BY <2>2, <2>4 DEF Outcome, calls
    <3>2. ~(strategy = "priority" /\ p + 1 \in Provider)
      BY <2>3, <2>4, <1>3 DEF Provider
    <3>3. call'[c] = calls  BY <3>2, <2>2, <1>2 DEF Continue, calls
    <3>4. \A q \in Provider : Idle(call'[c][q])  BY <3>3, <2>4 DEF Idle
    <3>5. fetch'[c] = "not_found" => \A q \in Provider : call'[c][q] = Done("not_found")
      BY <3>1, <3>3 DEF Collapse
    <3>6. fetch'[c] \in Answers /\ fetch'[c] # "running"  BY <3>1 DEF Collapse, Answers
    <3>7. QED  BY <3>4, <3>5, <3>6 DEF Shape
  <2>5. CASE ~AllDone
    <3>1. fetch'[c] = "running"  BY <2>2, <2>5 DEF Outcome, calls
    <3>2. CASE strategy = "latency"
      <4>1. call'[c] = calls  BY <3>2, <2>2, <1>2 DEF Continue, calls
      <4>2. \A q \in Provider : calls[q].at # "none"
        <5>1. \A q \in Provider : call[c][q].at # "none"
          BY <3>2, <1>1 DEF IInv, CallInv, Shape
        <5>2. \A q \in Provider : base[c][q].at # "none"
          BY <5>1 DEF Evolves, Idle
        <5>3. QED  BY <5>2, <1>2, <1>3
      <4>3. PICK q \in Provider : calls[q].at # "done"  BY <2>5
      <4>4. ~Idle(calls[q])  BY <4>2, <4>3 DEF Idle
      <4>5. QED  BY <3>1, <3>2, <4>1, <4>2, <4>4, <2>2 DEF Shape, config
    <3>3. CASE strategy = "priority"
      <4>1. p + 1 \in Provider
        <5>1. PICK q \in Provider : calls[q].at # "done"  BY <2>5
        <5>2. q > p  BY <5>1, <2>3, <3>3, <1>2, <1>3 DEF Provider
        <5>3. QED  BY <5>2 DEF Provider
      <4>2. call'[c] = [calls EXCEPT ![p + 1] = At("start")]
        BY <4>1, <3>3, <2>2, <1>2 DEF Continue, calls
      <4>3. ~Idle(call'[c][p + 1])  BY <4>1, <4>2, <1>2, <1>3 DEF Idle
      <4>4. \A q \in Provider :
               /\ q < p + 1 => call'[c][q].at = "done"
               /\ q > p + 1 => call'[c][q] = At("none")
        <5>1. ASSUME NEW q \in Provider, q < p + 1 PROVE call'[c][q].at = "done"
          <6>1. q < p \/ q = p  BY <5>1 DEF Provider
          <6>2. q # p + 1  BY <5>1 DEF Provider
          <6>3. call'[c][q] = calls[q]  BY <4>2, <6>2, <1>2
          <6>4. QED  BY <6>1, <6>3, <2>3, <3>3, <1>2, <1>3
        <5>2. ASSUME NEW q \in Provider, q > p + 1 PROVE call'[c][q] = At("none")
          <6>1. q > p /\ q # p + 1  BY <5>2 DEF Provider
          <6>2. call'[c][q] = calls[q]  BY <4>2, <6>1, <1>2
          <6>3. QED  BY <6>1, <6>2, <2>3, <3>3
        <5>3. QED  BY <5>1, <5>2
      <4>5. \A q \in Provider : call'[c][q] # Done("ok")
        BY <4>2, <2>2, <1>2, <1>3
      <4>6. strategy' = "priority" /\ strategy' # "latency"  BY <3>3 DEF config
      <4>7. QED  BY <3>1, <4>1, <4>3, <4>4, <4>5, <4>6 DEF Shape
    <3>4. QED  BY <3>2, <3>3 DEF IInv, StackInv
  <2>6. QED  BY <2>4, <2>5
<1>6. QED  BY <1>4, <1>5

\* One call is answered, the others evolve.
LEMMA AnswerInv ==
    ASSUME IInv, NEW base, Evolves(base), UNCHANGED <<config, origin>>,
           NEW c \in Caller, NEW p \in Provider, ~Idle(call[c][p]),
           NEW r \in Results, Believable(p, r), Answer(c, p, r, base)
    PROVE  CallInv'
<1> DEFINE calls == Answered(base, c, p, r)
<1>1. base \in [Caller -> [Provider -> Calls]]  BY DEF Evolves, GoodCalls
<1>2. /\ fetch' = [fetch EXCEPT ![c] = Outcome(calls)]
      /\ call' = [base EXCEPT ![c] = Continue(p, calls)]
  BY DEF Answer, Answered
<1>3. /\ Continue(p, calls) \in [Provider -> Calls]
      /\ \A q \in Provider :
            /\ Believable(q, Continue(p, calls)[q].of)
            /\ Continue(p, calls)[q].at = "storing"
                  => Permanent(Continue(p, calls)[q].of)
  BY AnsweredCalls, ContinueIsGood
<1> HIDE DEF calls
<1>4. fetch \in [Caller -> {"idle", "running"} \cup Answers]  BY DEF IInv, CallInv
<1>5. /\ fetch'[c] = Outcome(calls) /\ call'[c] = Continue(p, calls)
      /\ \A d \in Caller : d # c => fetch'[d] = fetch[d] /\ call'[d] = base[d]
  BY <1>1, <1>2, <1>4
<1>6. /\ fetch'[c] \in {"running"} \cup Answers
      /\ fetch'[c] = "not_found" => \A q \in Provider : call'[c][q] = Done("not_found")
      /\ Shape(c)'
  BY <1>5, AnswerKeepsShape DEF calls
<1>7. GoodCalls(call)'
  <2>1. call' \in [Caller -> [Provider -> Calls]]  BY <1>1, <1>2, <1>3
  <2>2. ASSUME NEW d \in Caller, NEW q \in Provider
        PROVE  /\ Believable(q, call'[d][q].of)
               /\ call'[d][q].at = "storing" => Permanent(call'[d][q].of)
    <3>1. CASE d = c  BY <3>1, <1>3, <1>5
    <3>2. CASE d # c  BY <3>2, <1>5 DEF Evolves, GoodCalls
    <3>3. QED  BY <3>1, <3>2
  <2>3. QED  BY <2>1, <2>2 DEF GoodCalls, Believable, config
<1>8. ASSUME NEW d \in Caller
      PROVE  /\ fetch'[d] = "not_found" => \A q \in Provider : call'[d][q] = Done("not_found")
             /\ Shape(d)'
  <2>1. CASE d = c  BY <2>1, <1>6
  <2>2. CASE d # c  BY <2>2, <1>5, EvolutionOf
  <2>3. QED  BY <2>1, <2>2
<1>9. fetch' \in [Caller -> {"idle", "running"} \cup Answers]
  BY <1>2, <1>4, <1>5, <1>6
<1>10. QED  BY <1>7, <1>8, <1>9 DEF IInv, CallInv

\* The same behind the cache, where an error may have to be stored first.
LEMMA AfterLoadInv ==
    ASSUME IInv, NEW base, Evolves(base), UNCHANGED <<config, origin>>,
           NEW c \in Caller, NEW p \in Provider, ~Idle(call[c][p]),
           NEW r \in Results, Believable(p, r), AfterLoad(c, p, r, base)
    PROVE  CallInv'
<1>1. CASE Permanent(r) /\ negativeOn
  <2>1. r \in Errors  BY <1>1 DEF Permanent, Errors
  <2>2. call' = [base EXCEPT ![c][p] = Storing(r)] /\ UNCHANGED fetch
    BY <1>1 DEF AfterLoad
  <2>3. /\ Storing(r) \in Calls /\ ~Idle(Storing(r))
        /\ Storing(r).of = r
    BY <2>1 DEF Calls, Storing, Idle
  <2>4. Evolves(call')  BY <1>1, <2>2, <2>3, MoveEvolves
  <2>5. QED  BY <2>2, <2>4, Evolution
<1>2. CASE ~(Permanent(r) /\ negativeOn)
  BY <1>2, AnswerInv DEF AfterLoad
<1>3. QED  BY <1>1, <1>2

-----------------------------------------------------------------------------
(* The invariant *)

LEMMA InitInv == Init => IInv
<1> SUFFICES ASSUME Init PROVE IInv
  OBVIOUS
<1> USE CallPathAssumption
<1>1. /\ At("none").at = "none" /\ At("none").of = "none" /\ At("none") \in Calls
      /\ At("none") # Done("not_found")
  BY DEF At, Done, Calls, Stages
<1>2. StackInv  BY DEF Init, StackInv, Believable, Verdicts
<1>3. GoodCalls(call)  BY <1>1 DEF Init, GoodCalls, Believable, Verdicts
<1>4. \A c \in Caller : fetch[c] = "idle" /\ Shape(c)
  BY <1>1 DEF Init, Shape, Idle
<1>5. QED  BY <1>2, <1>3, <1>4 DEF Init, IInv, CallInv

\* Steps that leave the stores alone keep their half of the invariant.
LEMMA StackUnchanged ==
    ASSUME IInv, UNCHANGED <<config, stackVars>> PROVE StackInv'
BY DEF IInv, StackInv, Believable, config, stackVars, history

\* A request that begins.
LEMMA FetchInv ==
    ASSUME IInv, NEW c \in Caller, Fetch(c) PROVE IInv'
<1> USE CallPathAssumption
<1> DEFINE first == [p \in Provider |->
                       At(IF p = 0 \/ strategy = "latency" THEN "start" ELSE "none")]
<1>1. StackInv'  BY StackUnchanged DEF Fetch
<1>2. /\ At("none").at = "none" /\ At("none").of = "none" /\ At("none") \in Calls
      /\ At("start").at = "start" /\ At("start").of = "none" /\ At("start") \in Calls
      /\ Done("ok").at = "done"
  BY DEF At, Calls, Stages, Done
<1>3. /\ fetch' = [fetch EXCEPT ![c] = "running"]
      /\ call' = [call EXCEPT ![c] = first]
      /\ UNCHANGED config
      /\ origin' \in [Caller -> {"external", "internal"}]
  BY DEF Fetch, IInv, CallInv
<1>4. first \in [Provider -> Calls]  BY <1>2
<1>5. /\ fetch' \in [Caller -> {"idle", "running"} \cup Answers]
      /\ fetch'[c] = "running" /\ call'[c] = first
      /\ \A d \in Caller : d # c => fetch'[d] = fetch[d] /\ call'[d] = call[d]
  BY <1>3 DEF IInv, CallInv, GoodCalls
<1>6. GoodCalls(call)'
  <2>1. call' \in [Caller -> [Provider -> Calls]]
    BY <1>3, <1>4 DEF IInv, CallInv, GoodCalls
  <2>2. ASSUME NEW p \in Provider
        PROVE  /\ Believable(p, first[p].of)
               /\ first[p].at # "storing"
    BY <1>2 DEF Believable, Verdicts
  <2>3. ASSUME NEW d \in Caller, NEW p \in Provider
        PROVE  /\ Believable(p, call'[d][p].of)
               /\ call'[d][p].at = "storing" => Permanent(call'[d][p].of)
    <3>1. CASE d = c  BY <3>1, <1>5, <2>2
    <3>2. CASE d # c  BY <3>2, <1>5 DEF IInv, CallInv, GoodCalls
    <3>3. QED  BY <3>1, <3>2
  <2>4. QED  BY <1>3, <2>1, <2>3 DEF GoodCalls, Believable, config
<1>7. Shape(c)'
  <2>1. 0 \in Provider  BY DEF Provider
  <2>2. \A p \in Provider : first[p] # Done("ok")  BY <1>2
  <2>3. first[0] = At("start")  BY <2>1
  <2>4. \A p \in Provider : p > 0 /\ strategy = "priority" => first[p] = At("none")
    OBVIOUS
  <2>5. strategy = "latency" => \A p \in Provider : first[p].at # "none"
    BY <1>2
  <2>6. ~Idle(first[0])  BY <2>3, <1>2 DEF Idle
  <2>7. \A p \in Provider : ~(p < 0)  BY DEF Provider
  <2>8. QED  BY <1>3, <1>5, <2>1, <2>2, <2>4, <2>5, <2>6, <2>7 DEF Shape, config
<1>8. ASSUME NEW d \in Caller
      PROVE  /\ fetch'[d] = "not_found" => \A p \in Provider : call'[d][p] = Done("not_found")
             /\ Shape(d)'
  <2>1. CASE d = c  BY <2>1, <1>5, <1>7
  <2>2. CASE d # c  BY <2>2, <1>3, <1>5, StutterEvolves, EvolutionOf
  <2>3. QED  BY <2>1, <2>2
<1>9. QED  BY <1>1, <1>3, <1>5, <1>6, <1>8 DEF IInv, CallInv

\* A request that is dropped whole.
LEMMA DeadlineInv ==
    ASSUME IInv, NEW c \in Caller, Deadline(c) PROVE IInv'
<1> DEFINE none == [p \in Provider |-> At("none")]
<1>1. StackInv'  BY StackUnchanged DEF Deadline
<1>2. At("none").at = "none" /\ At("none").of = "none" /\ At("none") \in Calls
  BY DEF At, Calls, Stages
<1>3. /\ fetch' = [fetch EXCEPT ![c] = "request_timeout"]
      /\ call' = [call EXCEPT ![c] = none]
      /\ UNCHANGED <<config, origin>>
  BY DEF Deadline
<1>4. none \in [Provider -> Calls]  BY <1>2
<1>5. /\ fetch' \in [Caller -> {"idle", "running"} \cup Answers]
      /\ fetch'[c] = "request_timeout" /\ call'[c] = none
      /\ \A d \in Caller : d # c => fetch'[d] = fetch[d] /\ call'[d] = call[d]
  BY <1>3 DEF IInv, CallInv, GoodCalls, Answers
<1>6. GoodCalls(call)'
  <2>1. call' \in [Caller -> [Provider -> Calls]]
    BY <1>3, <1>4 DEF IInv, CallInv, GoodCalls
  <2>2. ASSUME NEW d \in Caller, NEW p \in Provider
        PROVE  /\ Believable(p, call'[d][p].of)
               /\ call'[d][p].at = "storing" => Permanent(call'[d][p].of)
    <3>1. CASE d = c  BY <3>1, <1>5, <1>2 DEF Believable, Verdicts
    <3>2. CASE d # c  BY <3>2, <1>5 DEF IInv, CallInv, GoodCalls
    <3>3. QED  BY <3>1, <3>2
  <2>3. QED  BY <1>3, <2>1, <2>2 DEF GoodCalls, Believable, config
<1>7. Shape(c)'  BY <1>5, <1>2 DEF Shape, Idle
<1>8. ASSUME NEW d \in Caller
      PROVE  /\ fetch'[d] = "not_found" => \A p \in Provider : call'[d][p] = Done("not_found")
             /\ Shape(d)'
  <2>1. CASE d = c  BY <2>1, <1>5, <1>7
  <2>2. CASE d # c  BY <2>2, <1>3, <1>5, StutterEvolves, EvolutionOf
  <2>3. QED  BY <2>1, <2>2
<1>9. QED  BY <1>1, <1>3, <1>5, <1>6, <1>8 DEF IInv, CallInv

\* A call of c goes from one await to the next.
LEMMA MoveInv ==
    ASSUME IInv, UNCHANGED <<config, origin, fetch, stackVars>>,
           NEW c \in Caller, NEW p \in Provider, ~Idle(call[c][p]),
           NEW s \in {"lookup", "waiting", "loading", "raw"},
           call' = [call EXCEPT ![c][p] = At(s)]
    PROVE  IInv'
<1>1. /\ At(s) \in Calls /\ ~Idle(At(s)) /\ At(s).at # "storing"
      /\ Believable(p, At(s).of)
  BY DEF At, Calls, Stages, Idle, Believable, Verdicts
<1>2. Evolves(call')  BY <1>1, StutterEvolves, MoveEvolves
<1>3. CallInv'  BY <1>2, Evolution
<1>4. QED  BY <1>3, StackUnchanged DEF IInv

\* An answer, or an outcome behind the cache, that leaves the stores alone.
LEMMA QuietAnswerInv ==
    ASSUME IInv, UNCHANGED <<config, origin, stackVars>>, NEW base, Evolves(base),
           NEW c \in Caller, NEW p \in Provider, ~Idle(call[c][p]),
           NEW r \in Results, Believable(p, r),
           Answer(c, p, r, base) \/ AfterLoad(c, p, r, base)
    PROVE  IInv'
BY AnswerInv, AfterLoadInv, StackUnchanged DEF IInv

LEMMA CallSteps ==
    ASSUME IInv, NEW c \in Caller, NEW p \in Provider, Call(c, p) \/ Timeout(c, p)
    PROVE  IInv'
<1> USE StutterEvolves
<1>1. CASE ReadNegative(c, p)
  <2>1. ~Idle(call[c][p])  BY <1>1 DEF ReadNegative, At, Idle
  <2>2. CASE negative[p] # "none"
    <3>1. negative[p] \in Results /\ Believable(p, negative[p])
      BY <2>2 DEF IInv, StackInv, Results, Errors
    <3>2. Answer(c, p, negative[p], call) /\ UNCHANGED <<config, origin, stackVars>>
      BY <1>1, <2>2 DEF ReadNegative
    <3>3. QED  BY <2>1, <3>1, <3>2, QuietAnswerInv
  <2>3. CASE negative[p] = "none"
    BY <1>1, <2>1, <2>3, MoveInv DEF ReadNegative
  <2>4. QED  BY <2>2, <2>3
<1>2. CASE StoreNegative(c, p)
  <2>1. ~Idle(call[c][p])  BY <1>2 DEF StoreNegative, Idle
  <2>2. PICK e \in {"not_found", "rejected"} : e = call[c][p].of /\ Believable(p, e)
    BY <1>2 DEF StoreNegative, IInv, CallInv, GoodCalls, Permanent
  <2>3. /\ negative' = [negative EXCEPT ![p] = e]
        /\ Answer(c, p, e, call)
        /\ UNCHANGED <<config, origin, positive, until, history>>
    BY <1>2, <2>2 DEF StoreNegative
  <2>4. CallInv'
    BY <2>1, <2>2, <2>3, AnswerInv DEF Results, Errors
  <2>5. StackInv'
    BY <2>2, <2>3 DEF IInv, StackInv, Believable, config, history
  <2>6. QED  BY <2>4, <2>5 DEF IInv
<1>3. CASE Hit(c, p)
  <2>1. ~Idle(call[c][p])  BY <1>3 DEF Hit, Idle
  <2>2. Believable(p, "ok") /\ "ok" \in Results
    BY <1>3 DEF Hit, IInv, StackInv, Believable, Results
  <2>3. QED  BY <1>3, <2>1, <2>2, QuietAnswerInv DEF Hit
<1>4. CASE Wait(c, p)
  <2>1. ~Idle(call[c][p])  BY <1>4 DEF Wait, At, Idle
  <2>2. QED  BY <1>4, <2>1, MoveInv DEF Wait
<1>5. CASE Resume(c, p)
  <2>1. ~Idle(call[c][p])  BY <1>5 DEF Resume, Idle
  <2>2. call[c][p].of \in Results
    <3>1. call[c][p] \in Calls  BY DEF IInv, CallInv, GoodCalls
    <3>2. QED  BY <1>5, <3>1 DEF Resume, Calls, Stages, At, Handed, Storing, Done
  <2>3. Believable(p, call[c][p].of)  BY DEF IInv, CallInv, GoodCalls
  <2>4. QED  BY <1>5, <2>1, <2>2, <2>3, QuietAnswerInv DEF Resume
<1>6. CASE Load(c, p)
  <2>1. ~Idle(call[c][p])  BY <1>6 DEF Load, Idle
  <2>2. QED  BY <1>6, <2>1, MoveInv DEF Load
<1>7. CASE CallConnector(c, p)
  <2>1. ~Idle(call[c][p])  BY <1>7 DEF CallConnector, At, Idle
  <2>2. /\ UNCHANGED <<config, origin, fetch, positive, negative, until, promised, cut>>
        /\ ahead' = [ahead EXCEPT ![p] = @ \ {c}]
    BY <1>7 DEF CallConnector
  <2>3. StackInv'
    BY <2>2 DEF IInv, StackInv, Believable, config
  <2>4. CallInv'
    <3>1. call' = [call EXCEPT ![c][p] = At("raw")]
      BY <1>7 DEF CallConnector
    <3>2. /\ At("raw") \in Calls /\ ~Idle(At("raw")) /\ At("raw").at # "storing"
          /\ Believable(p, At("raw").of)
      BY DEF At, Calls, Stages, Idle, Believable, Verdicts
    <3>3. Evolves(call')  BY <2>1, <3>1, <3>2, StutterEvolves, MoveEvolves
    <3>4. QED  BY <2>2, <3>3, Evolution
  <2>5. QED  BY <2>3, <2>4 DEF IInv
<1>8. CASE Refuse(c, p)
  <2>1. ~Idle(call[c][p])  BY <1>8 DEF Refuse, At, Idle
  <2>2. Believable(p, "refused") /\ "refused" \in Results
    BY DEF Believable, Verdicts, Results, Errors
  <2>3. Evolves(Release(c, p, "refused"))  BY <2>2, ReleaseEvolves
  <2>4. QED  BY <1>8, <2>1, <2>2, <2>3, QuietAnswerInv DEF Refuse
<1>9. CASE Timeout(c, p)
  <2>1. ~Idle(call[c][p])  BY <1>9 DEF Timeout, MayTimeOut, Idle
  <2>2. Believable(p, "timeout") /\ "timeout" \in Results
    BY DEF Believable, Verdicts, Results, Errors
  <2>3. QED  BY <1>9, <2>1, <2>2, QuietAnswerInv DEF Timeout
<1>10. QED
  BY <1>1, <1>2, <1>3, <1>4, <1>5, <1>6, <1>7, <1>8, <1>9 DEF Call

\* The connector itself ends a load.
LEMMA ReturnSteps ==
    ASSUME IInv, NEW c \in Caller, NEW p \in Provider,
           ConnectorAnswers(c, p) \/ RateLimited(c, p)
    PROVE  IInv'
<1> USE CallPathAssumption
<1>1. PICK r \in Results : Believable(p, r) /\ Returns(c, p, r)
  BY DEF ConnectorAnswers, RateLimited, Results, Errors, Believable, Verdicts, IInv, StackInv
<1>2. ~Idle(call[c][p])  BY <1>1 DEF Returns, At, Idle
<1>3. Evolves(Release(c, p, r))  BY <1>1, ReleaseEvolves
<1>4. CallInv'
  BY <1>1, <1>2, <1>3, AfterLoadInv DEF Returns
<1>5. /\ positive' \subseteq Provider /\ \A q \in positive' : verdict'[q] = "ok"
      /\ UNCHANGED <<config, negative>>
  BY <1>1 DEF Returns, Believable, Verdicts, IInv, StackInv, config
<1>6. /\ until' \in [Provider -> Nat] /\ promised' \in [Provider -> Nat]
      /\ ahead' \in [Provider -> SUBSET Caller] /\ cut' \subseteq Provider
  <2>1. CASE UNCHANGED <<until, history>>
    BY <2>1 DEF IInv, StackInv, history
  <2>2. ASSUME NEW w \in Windows[p], until' = [until EXCEPT ![p] = w], Announced(c, p, w)
        PROVE  <1>6
    BY <2>2 DEF Announced, IInv, StackInv
  <2>3. QED  BY <2>1, <2>2 DEF ConnectorAnswers, RateLimited
<1>7. StackInv'
  BY <1>5, <1>6 DEF IInv, StackInv, Believable, config
<1>8. QED  BY <1>4, <1>7 DEF IInv

\* Time passes; no call is concerned.
LEMMA ClockSteps ==
    ASSUME IInv,
           Tick \/ \E p \in Provider : ExpirePositive(p) \/ ExpireNegative(p)
    PROVE  IInv'
<1>1. UNCHANGED <<config, requestVars>>
  BY DEF Tick, ExpirePositive, ExpireNegative
<1>2. CallInv'
  <2>1. UNCHANGED <<config, origin, fetch, call>>  BY <1>1 DEF requestVars
  <2>2. Evolves(call')  BY <2>1, StutterEvolves
  <2>3. QED  BY <2>1, <2>2, Evolution
<1>3. StackInv'
  <2>1. CASE Tick
    <3>1. /\ until' \in [Provider -> Nat] /\ promised' \in [Provider -> Nat]
          /\ UNCHANGED <<positive, negative>>
      BY <2>1 DEF Tick, Before, IInv, StackInv
    <3>2. ahead' \in [Provider -> SUBSET Caller] /\ cut' \subseteq Provider
      BY <2>1 DEF Tick, IInv, StackInv
    <3>3. QED  BY <3>1, <3>2, <1>1 DEF IInv, StackInv, Believable, config
  <2>2. ASSUME NEW p \in Provider, ExpirePositive(p) PROVE StackInv'
    BY <2>2, <1>1 DEF ExpirePositive, IInv, StackInv, Believable, config, history
  <2>3. ASSUME NEW p \in Provider, ExpireNegative(p) PROVE StackInv'
    BY <2>3, <1>1 DEF ExpireNegative, IInv, StackInv, Believable, Verdicts, config, history
  <2>4. QED  BY <2>1, <2>2, <2>3
<1>4. QED  BY <1>2, <1>3 DEF IInv

LEMMA NextInv == IInv /\ [Next]_vars => IInv'
<1> SUFFICES ASSUME IInv, [Next]_vars PROVE IInv'
  OBVIOUS
<1>1. CASE UNCHANGED vars
  <2>1. UNCHANGED <<config, origin, fetch, call, stackVars>>
    BY <1>1 DEF vars, requestVars
  <2>2. Evolves(call')  BY <2>1, StutterEvolves
  <2>3. QED  BY <2>1, <2>2, Evolution, StackUnchanged DEF IInv
<1>2. CASE Next
  BY <1>2, FetchInv, DeadlineInv, CallSteps, ReturnSteps, ClockSteps DEF Next
<1>3. QED  BY <1>1, <1>2

LEMMA Inductive == Spec => []IInv
BY InitInv, NextInv, PTL DEF Spec

-----------------------------------------------------------------------------
(* What follows *)

\* Every variable has its type, for any number of callers and connectors.
THEOREM TypeCorrect == Spec => []TypeOK
<1>1. IInv => TypeOK
  BY DEF IInv, StackInv, CallInv, GoodCalls, TypeOK, Errors
<1>2. QED  BY <1>1, Inductive, PTL

\* fetch_single answers NotFound only where every connector says so.
THEOREM NotFoundHolds == Spec => []NotFoundIsTrue
<1>1. IInv => NotFoundIsTrue
  <2>1. Done("not_found").of = "not_found"  BY DEF Done
  <2>2. SUFFICES ASSUME IInv, NEW c \in Caller, fetch[c] = "not_found",
                        NEW p \in Provider
                 PROVE  verdict[p] = "not_found"
    BY DEF NotFoundIsTrue, IInv, StackInv
  <2>3. call[c][p].of = "not_found"  BY <2>1, <2>2 DEF IInv, CallInv
  <2>4. Believable(p, call[c][p].of)  BY <2>2 DEF IInv, CallInv, GoodCalls
  <2>5. QED  BY <2>3, <2>4 DEF Believable, Verdicts
<1>2. QED  BY <1>1, Inductive, PTL

\* The cache holds for a connector only what that connector has to say, and no
\* error that passes.
THEOREM StoresHold == Spec => []StoresAreTrue
<1>1. IInv => StoresAreTrue
  BY DEF IInv, StackInv, Believable, Verdicts, StoresAreTrue
<1>2. QED  BY <1>1, Inductive, PTL

\* A request that is over has left no call behind, and one that runs is not
\* stuck between two calls.
THEOREM NoCallIsLeft == Spec => []NoOrphanCall
<1>1. IInv => NoOrphanCall
  BY DEF IInv, StackInv, CallInv, Shape, Idle, NoOrphanCall
<1>2. QED  BY <1>1, Inductive, PTL

\* The calls that wait for the raw connector were doing so before.
NoNewRaw(calls) ==
    \A c \in Caller : \A p \in Provider :
       calls[c][p] = At("raw") => call[c][p] = At("raw")

LEMMA AnswerReachesNobody ==
    ASSUME NEW base \in [Caller -> [Provider -> Calls]], NoNewRaw(base),
           NEW c \in Caller, NEW p \in Provider, NEW r \in Results,
           Answer(c, p, r, base) \/ AfterLoad(c, p, r, base)
    PROVE  NoNewRaw(call')
<1> DEFINE calls == [base[c] EXCEPT ![p] = Done(r)]
<1>1. /\ At("raw").at = "raw" /\ At("none").at = "none" /\ At("start").at = "start"
      /\ Done(r).at = "done" /\ Storing(r).at = "storing"
  BY DEF At, Done, Storing
<1>2. base[c] \in [Provider -> Calls]  OBVIOUS
<1>3. calls \in [Provider -> Calls]  BY <1>2 DEF Calls
<1>4. CASE Answer(c, p, r, base)
  <2>1. call' = [base EXCEPT ![c] = Continue(p, calls)]  BY <1>4 DEF Answer
  <2>2. \A q \in Provider : calls[q] = At("raw") => base[c][q] = At("raw")
    BY <1>1, <1>2
  <2>3. \A q \in Provider : Continue(p, calls)[q] \in {calls[q], At("none"), At("start")}
    <3> HIDE DEF calls
    <3>1. QED  BY <1>3 DEF Continue
  <2>4. \A q \in Provider : Continue(p, calls)[q] = At("raw") => base[c][q] = At("raw")
    BY <1>1, <2>2, <2>3
  <2>5. QED  BY <2>1, <2>4 DEF NoNewRaw
<1>5. CASE call' = [base EXCEPT ![c][p] = Storing(r)]
  BY <1>1, <1>5 DEF NoNewRaw
<1>6. QED  BY <1>4, <1>5 DEF AfterLoad

\* Only CallConnector takes a call to the raw connector.
LEMMA OnlyCallConnector ==
    ASSUME IInv, Next,
           \A c \in Caller : \A p \in Provider : ~CallConnector(c, p)
    PROVE  NoNewRaw(call')
<1> USE CallPathAssumption
<1>1. call \in [Caller -> [Provider -> Calls]] /\ NoNewRaw(call)
  BY DEF IInv, CallInv, GoodCalls, NoNewRaw
<1>2. /\ At("raw").at = "raw" /\ At("none").at = "none" /\ At("start").at = "start"
      /\ At("lookup").at = "lookup" /\ At("waiting").at = "waiting"
      /\ At("loading").at = "loading"
  BY DEF At
<1>3. ASSUME NEW c \in Caller, NEW p \in Provider, NEW r \in Results
      PROVE  /\ Release(c, p, r) \in [Caller -> [Provider -> Calls]]
             /\ NoNewRaw(Release(c, p, r))
  <2>1. Handed(r) \in Calls /\ Handed(r).at = "handed"  BY DEF Calls, Handed
  <2>2. QED  BY <1>1, <1>2, <2>1 DEF Release, NoNewRaw
<1>4. CASE UNCHANGED call
  BY <1>1, <1>4 DEF NoNewRaw
<1>5. ASSUME NEW c \in Caller, Fetch(c) \/ Deadline(c) PROVE NoNewRaw(call')
  BY <1>1, <1>2, <1>5 DEF Fetch, Deadline, NoNewRaw
<1>6. ASSUME NEW c \in Caller, NEW p \in Provider, Call(c, p) \/ Timeout(c, p)
      PROVE  NoNewRaw(call')
  <2>1. ASSUME NEW s \in {"lookup", "waiting", "loading"},
               call' = [call EXCEPT ![c][p] = At(s)]
        PROVE  NoNewRaw(call')
    BY <1>1, <1>2, <2>1 DEF NoNewRaw
  <2>2. CASE ReadNegative(c, p)
    <3>1. CASE negative[p] # "none"
      <4>1. negative[p] \in Results /\ Answer(c, p, negative[p], call)
        BY <2>2, <3>1 DEF ReadNegative, IInv, StackInv, Results, Errors
      <4>2. QED  BY <1>1, <4>1, AnswerReachesNobody
    <3>2. CASE negative[p] = "none"
      BY <2>1, <2>2, <3>2 DEF ReadNegative
    <3>3. QED  BY <3>1, <3>2
  <2>3. CASE StoreNegative(c, p) \/ Resume(c, p)
    <3>1. call[c][p].of \in Results
      <4>1. call[c][p] \in Calls  BY <1>1
      <4>2. QED  BY <2>3, <4>1 DEF StoreNegative, Resume, Calls, Stages, At, Handed,
                                   Storing, Done, Results
    <3>2. Answer(c, p, call[c][p].of, call) \/ AfterLoad(c, p, call[c][p].of, call)
      BY <2>3 DEF StoreNegative, Resume
    <3>3. QED  BY <1>1, <3>1, <3>2, AnswerReachesNobody
  <2>4. CASE Hit(c, p)
    BY <1>1, <2>4, AnswerReachesNobody DEF Hit, Results
  <2>5. CASE Wait(c, p) \/ Load(c, p)
    BY <2>1, <2>5 DEF Wait, Load
  <2>6. CASE Refuse(c, p)
    <3>1. "refused" \in Results  BY DEF Results, Errors
    <3>2. QED  BY <1>3, <2>6, <3>1, AnswerReachesNobody DEF Refuse
  <2>7. CASE Timeout(c, p)
    BY <1>1, <2>7, AnswerReachesNobody DEF Timeout, Results, Errors
  <2>8. QED  BY <1>6, <2>2, <2>3, <2>4, <2>5, <2>6, <2>7 DEF Call
<1>7. ASSUME NEW c \in Caller, NEW p \in Provider,
             ConnectorAnswers(c, p) \/ RateLimited(c, p)
      PROVE  NoNewRaw(call')
  <2>1. PICK r \in Results : Returns(c, p, r)
    BY <1>7 DEF ConnectorAnswers, RateLimited, Results, Errors,
       Verdicts, IInv, StackInv
  <2>2. QED  BY <1>3, <2>1, AnswerReachesNobody DEF Returns
<1>8. QED
  BY <1>4, <1>5, <1>6, <1>7 DEF Next, Tick, ExpirePositive, ExpireNegative, requestVars

\* A call that has failed is no longer at the connector.
LEMMA FailedIsOver ==
    ASSUME NEW base \in [Caller -> [Provider -> Calls]], NEW c \in Caller, NEW p \in Provider,
           AfterLoad(c, p, "failed", base)
    PROVE  call'[c][p] # At("raw")
<1> USE CallPathAssumption
<1> DEFINE calls == [base[c] EXCEPT ![p] = Done("failed")]
<1>1. /\ At("raw").at = "raw" /\ Done("failed").at = "done" /\ Done("failed") # Done("ok")
      /\ ~Permanent("failed")
  BY DEF At, Done, Permanent
<1>2. call' = [base EXCEPT ![c] = Continue(p, calls)]
  BY <1>1 DEF AfterLoad, Answer
<1>3. calls \in [Provider -> Calls] /\ calls[p] = Done("failed")
  BY DEF Calls, Results, Errors
<1> HIDE DEF calls
<1>4. Continue(p, calls)[p] = Done("failed")
  <2>1. p + 1 # p  BY DEF Provider
  <2>2. QED  BY <1>1, <1>3, <2>1 DEF Continue
<1>5. QED  BY <1>1, <1>2, <1>4

\* Whoever is at the connector after a step was there before, in the same
\* request, unless the step has taken the call there.
LEMMA RawStays ==
    ASSUME IInv, Next,
           \A c \in Caller : \A p \in Provider : ~CallConnector(c, p),
           NEW c \in Caller, NEW p \in Provider, call'[c][p] = At("raw")
    PROVE  call[c][p] = At("raw") /\ origin'[c] = origin[c]
<1>1. call[c][p] = At("raw")
  BY OnlyCallConnector DEF NoNewRaw
<1>2. ASSUME NEW d \in Caller, Fetch(d) PROVE origin'[c] = origin[c]
  <2>1. CASE d = c
    <3>1. call'[c][p] = At(IF p = 0 \/ strategy = "latency" THEN "start" ELSE "none")
      BY <1>2, <2>1 DEF Fetch, IInv, CallInv, GoodCalls
    <3>2. QED  BY <3>1 DEF At
  <2>2. CASE d # c
    BY <1>2, <2>2 DEF Fetch, IInv, CallInv
  <2>3. QED  BY <2>1, <2>2
<1>3. CASE ~ \E d \in Caller : Fetch(d)
  <2>1. ASSUME Tick PROVE origin' = origin  BY <2>1 DEF Tick, requestVars
  <2>2. ASSUME NEW q \in Provider, ExpirePositive(q) \/ ExpireNegative(q)
        PROVE  origin' = origin
    BY <2>2 DEF ExpirePositive, ExpireNegative, requestVars
  <2>3. ASSUME NEW d \in Caller, Deadline(d) PROVE origin' = origin
    BY <2>3 DEF Deadline
  <2>4. ASSUME NEW d \in Caller, NEW q \in Provider, Call(d, q) \/ Timeout(d, q)
        PROVE  origin' = origin
    BY <2>4 DEF Call, Timeout, ReadNegative, StoreNegative, Hit, Wait, Resume, Load, CallConnector,
       Refuse
  <2>5. ASSUME NEW d \in Caller, NEW q \in Provider, ConnectorAnswers(d, q) \/ RateLimited(d, q)
        PROVE  origin' = origin
    BY <2>5 DEF ConnectorAnswers, RateLimited, Returns
  <2>6. origin' = origin  BY <1>3, <2>1, <2>2, <2>3, <2>4, <2>5 DEF Next
  <2>7. QED  BY <1>1, <2>6
<1>4. QED  BY <1>1, <1>2, <1>3

\* What is known of a blacklisting: its deadline is the end of the last window,
\* or one of those who were at the connector before has cut that short; and who
\* is at the connector while that window lasts was there before, or it is cut.
Kept ==
    /\ \A p \in Provider :
          until[p] <= promised[p] /\ (until[p] = promised[p] \/ p \in cut)
    /\ \A c \in Caller : \A p \in Provider :
          call[c][p] = At("raw") /\ origin[c] = "external" =>
              promised[p] = 0 \/ p \in cut \/ c \in ahead[p]

LEMMA AnnouncedKeeps ==
    ASSUME IInv, Kept, NEW c \in Caller, NEW p \in Provider, RateLimited(c, p),
           origin[c] = "external"
    PROVE  Kept'
<1> USE CallPathAssumption
<1>1. PICK w \in Windows[p] : until' = [until EXCEPT ![p] = w] /\ Announced(c, p, w)
  BY DEF RateLimited
<1>2. /\ until \in [Provider -> Nat] /\ promised \in [Provider -> Nat] /\ w \in Nat
      /\ ahead \in [Provider -> SUBSET Caller] /\ w # 0
  BY DEF IInv, StackInv
<1>3. call[c][p] = At("raw")
  BY DEF RateLimited, Returns
<1>4. call'[c][p] # At("raw")
  <2>1. Release(c, p, "failed") \in [Caller -> [Provider -> Calls]]
    BY DEF Release, Calls, Handed, Results, Errors, IInv, CallInv, GoodCalls
  <2>2. AfterLoad(c, p, "failed", Release(c, p, "failed"))
    BY DEF RateLimited, Returns
  <2>3. QED  BY <2>1, <2>2, FailedIsOver
<1>5. ASSUME NEW d \in Caller, NEW q \in Provider, call'[d][q] = At("raw")
      PROVE  call[d][q] = At("raw") /\ origin'[d] = origin[d] /\ (d = c => q # p)
  <2>1. Next  BY DEF Next
  <2>2. \A e \in Caller : \A x \in Provider : ~CallConnector(e, x)
    <3> SUFFICES ASSUME NEW e \in Caller, NEW x \in Provider, CallConnector(e, x) PROVE FALSE
      OBVIOUS
    <3>1. At("raw") # At("loading")  BY DEF At
    <3>2. call' = [call EXCEPT ![e][x] = At("raw")] /\ call[e][x] = At("loading")
      BY DEF CallConnector
    <3>3. call'[c][p] = At("raw")
      BY <1>3, <3>1, <3>2 DEF IInv, CallInv, GoodCalls
    <3>4. QED  BY <1>4, <3>3
  <2>3. QED  BY <1>4, <1>5, <2>1, <2>2, RawStays
<1>6. CASE w >= promised[p]
  <2>1. /\ promised' = [promised EXCEPT ![p] = w]
        /\ ahead' = [ahead EXCEPT ![p] =
                       {d \in Caller \ {c} : call[d][p] = At("raw") /\ origin[d] = "external"}]
        /\ cut' = cut \ {p}
    BY <1>1, <1>6 DEF Announced
  <2>2. ASSUME NEW q \in Provider
        PROVE  until'[q] <= promised'[q] /\ (until'[q] = promised'[q] \/ q \in cut')
    BY <1>1, <1>2, <2>1 DEF Kept
  <2>3. ASSUME NEW d \in Caller, NEW q \in Provider, call'[d][q] = At("raw"),
               origin'[d] = "external"
        PROVE  promised'[q] = 0 \/ q \in cut' \/ d \in ahead'[q]
    <3>1. call[d][q] = At("raw") /\ origin[d] = "external" /\ (d = c => q # p)
      BY <1>5, <2>3
    <3>2. CASE q = p
      BY <1>2, <2>1, <3>1, <3>2
    <3>3. CASE q # p
      BY <1>2, <2>1, <3>1, <3>3 DEF Kept
    <3>4. QED  BY <3>2, <3>3
  <2>4. QED  BY <2>2, <2>3 DEF Kept
<1>7. CASE ~ (w >= promised[p])
  <2>1. /\ cut' = IF c \in ahead[p] THEN cut \cup {p} ELSE cut
        /\ UNCHANGED <<promised, ahead>>
    BY <1>1, <1>7 DEF Announced
  <2>2. w < promised[p] /\ promised[p] # 0
    BY <1>2, <1>7
  <2>3. p \in cut' /\ cut \subseteq cut'
    BY <1>3, <2>1, <2>2 DEF Kept
  <2>4. ASSUME NEW q \in Provider
        PROVE  until'[q] <= promised'[q] /\ (until'[q] = promised'[q] \/ q \in cut')
    BY <1>1, <1>2, <2>1, <2>2, <2>3 DEF Kept
  <2>5. ASSUME NEW d \in Caller, NEW q \in Provider, call'[d][q] = At("raw"),
               origin'[d] = "external"
        PROVE  promised'[q] = 0 \/ q \in cut' \/ d \in ahead'[q]
    BY <1>5, <2>1, <2>3, <2>5 DEF Kept
  <2>6. QED  BY <2>4, <2>5 DEF Kept
<1>8. QED  BY <1>6, <1>7

LEMMA ConnectorCalledKeeps ==
    ASSUME IInv, Kept, NEW c \in Caller, NEW p \in Provider, CallConnector(c, p)
    PROVE  Kept' /\ (origin[c] = "external" => promised[p] = 0 \/ p \in cut)
<1>1. /\ call' = [call EXCEPT ![c][p] = At("raw")]
      /\ ahead' = [ahead EXCEPT ![p] = @ \ {c}]
      /\ UNCHANGED <<origin, until, promised, cut>>
      /\ origin[c] = "external" => ~ (until[p] > 0)
  BY DEF CallConnector, Blacklisted
<1>2. /\ until \in [Provider -> Nat] /\ ahead \in [Provider -> SUBSET Caller]
      /\ call \in [Caller -> [Provider -> Calls]]
  BY DEF IInv, StackInv, CallInv, GoodCalls
<1>3. origin[c] = "external" => promised[p] = 0 \/ p \in cut
  <2>1. origin[c] = "external" => until[p] = 0  BY <1>1, <1>2
  <2>2. QED  BY <2>1 DEF Kept
<1>4. ASSUME NEW d \in Caller, NEW q \in Provider, call'[d][q] = At("raw"),
             origin[d] = "external"
      PROVE  promised[q] = 0 \/ q \in cut \/ d \in ahead'[q]
  <2>1. CASE d = c /\ q = p
    BY <1>3, <1>4, <2>1
  <2>2. CASE ~ (d = c /\ q = p)
    <3>1. call[d][q] = At("raw")  BY <1>1, <1>2, <1>4, <2>2
    <3>2. d \in ahead[q] => d \in ahead'[q]  BY <1>1, <1>2, <2>2
    <3>3. QED  BY <1>4, <3>1, <3>2 DEF Kept
  <2>3. QED  BY <2>1, <2>2
<1>5. QED  BY <1>1, <1>3, <1>4 DEF Kept

LEMMA TickKeeps ==
    ASSUME IInv, Kept, Tick
    PROVE  Kept'
<1>1. /\ until \in [Provider -> Nat] /\ promised \in [Provider -> Nat]
      /\ UNCHANGED <<origin, call>>
      /\ until' = [p \in Provider |-> Before(until[p])]
      /\ promised' = [p \in Provider |-> Before(promised[p])]
      /\ ahead' = [p \in Provider |-> IF promised'[p] = 0 THEN {} ELSE ahead[p]]
      /\ cut' = {p \in cut : promised'[p] > 0}
  BY DEF Tick, IInv, StackInv, requestVars
<1>2. ASSUME NEW p \in Provider
      PROVE  /\ until'[p] <= promised'[p]
             /\ until'[p] = promised'[p] \/ p \in cut'
             /\ promised'[p] = 0 \/ (promised'[p] > 0 /\ promised[p] # 0)
  <2>1. /\ until'[p] = Before(until[p]) /\ promised'[p] = Before(promised[p])
        /\ until[p] \in Nat /\ promised[p] \in Nat /\ until[p] <= promised[p]
    BY <1>1 DEF Kept
  <2>2. /\ until'[p] \in Nat /\ promised'[p] \in Nat /\ until'[p] <= promised'[p]
        /\ until[p] = promised[p] => until'[p] = promised'[p]
        /\ promised'[p] = 0 \/ (promised'[p] > 0 /\ promised[p] # 0)
    BY <2>1 DEF Before
  <2>3. CASE promised'[p] = 0
    BY <2>2, <2>3
  <2>4. CASE promised'[p] > 0
    BY <1>1, <2>2, <2>4 DEF Kept
  <2>5. QED  BY <2>2, <2>3, <2>4
<1>3. ASSUME NEW c \in Caller, NEW p \in Provider, call'[c][p] = At("raw"),
             origin'[c] = "external"
      PROVE  promised'[p] = 0 \/ p \in cut' \/ c \in ahead'[p]
  BY <1>1, <1>2, <1>3 DEF Kept
<1>4. QED  BY <1>2, <1>3 DEF Kept

LEMMA NextKeeps == IInv /\ Kept /\ [Next]_vars => Kept'
<1> SUFFICES ASSUME IInv, Kept, [Next]_vars PROVE Kept'
  OBVIOUS
<1>1. CASE UNCHANGED vars
  BY <1>1 DEF vars, requestVars, stackVars, history, Kept
<1>2. CASE Tick
  BY <1>2, TickKeeps
<1>3. CASE \E c \in Caller : \E p \in Provider : CallConnector(c, p)
  BY <1>3, ConnectorCalledKeeps
<1>4. CASE \E c \in Caller : \E p \in Provider : RateLimited(c, p) /\ origin[c] = "external"
  BY <1>4, AnnouncedKeeps
<1>5. CASE /\ Next /\ ~Tick
           /\ ~\E c \in Caller : \E p \in Provider : CallConnector(c, p)
           /\ ~\E c \in Caller : \E p \in Provider :
                  RateLimited(c, p) /\ origin[c] = "external"
  <2>1. UNCHANGED <<until, history>>
    BY <1>5 DEF Next, ExpirePositive, ExpireNegative, Fetch, Deadline, Call,
       Timeout, ReadNegative, StoreNegative, Hit, Wait, Resume, Load, CallConnector,
       Refuse, ConnectorAnswers, RateLimited, stackVars
  <2>2. ASSUME NEW c \in Caller, NEW p \in Provider, call'[c][p] = At("raw")
        PROVE  call[c][p] = At("raw") /\ origin'[c] = origin[c]
    BY <1>5, <2>2, RawStays
  <2>3. QED  BY <2>1, <2>2 DEF Kept, history
<1>6. QED  BY <1>1, <1>2, <1>3, <1>4, <1>5

\* The blacklist, for any windows: a connector that announced a rate limit is
\* left alone, by calls from outside, until the last window that it announced is
\* over, or until a shorter one is of which a call has learned that was there
\* before the longer one was announced.
THEOREM BlacklistHolds == Spec => BlacklistHonoured
<1>1. Init => Kept
  BY DEF Init, Kept, At
<1>2. IInv /\ Kept /\ [Next]_vars =>
         [\A c \in Caller : \A p \in Provider :
            call[c][p] # At("raw") /\ call'[c][p] = At("raw") /\ origin[c] = "external"
               => promised[p] = 0 \/ p \in cut]_vars
  <2> SUFFICES ASSUME IInv, Kept, Next, NEW c \in Caller, NEW p \in Provider,
                      call[c][p] # At("raw"), call'[c][p] = At("raw"),
                      origin[c] = "external"
               PROVE  promised[p] = 0 \/ p \in cut
    BY DEF vars, requestVars
  <2>1. PICK d \in Caller, q \in Provider : CallConnector(d, q)
    BY OnlyCallConnector DEF NoNewRaw
  <2>2. call' = [call EXCEPT ![d][q] = At("raw")]  BY <2>1 DEF CallConnector
  <2>3. d = c /\ q = p  BY <2>2 DEF IInv, CallInv, GoodCalls
  <2>4. QED  BY <2>1, <2>3, ConnectorCalledKeeps
<1>3. QED  BY <1>1, <1>2, NextKeeps, Inductive, PTL DEF Spec, BlacklistHonoured

=============================================================================
