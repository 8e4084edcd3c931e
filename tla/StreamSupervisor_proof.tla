------------------------ MODULE StreamSupervisor_proof ------------------------
(***************************************************************************)
(* Proofs about StreamSupervisor for every number of providers, every set  *)
(* of symbols and every plan.  The inductive invariant IInv ties the       *)
(* supervisor's provider states to the start attempts and sessions around  *)
(* it; type correctness, the true picture, the startup invariant and the   *)
(* implementation of StreamContract all follow from it.                    *)
(*                                                                         *)
(* The last two parts are about the scan: that no idle provider is left    *)
(* with work in an open round, and that the scan in closed form, which the *)
(* handlers use, is the loop of compute_needed_starts.                     *)
(***************************************************************************)
EXTENDS StreamSupervisor, Basics_proof

-----------------------------------------------------------------------------
(* The round of starts that a handler appends *)

\* req asks only idle providers, and only for symbols they may stream.
Legit(req, ps) ==
    /\ req \in [Provider -> SUBSET Symbol]
    /\ \A i \in Provider :
          req[i] # {} => IsIdle(ps, i) /\ req[i] \subseteq allow[i]

\* Symbols are held exactly by Connecting and Active providers, as allowed.
Held(ps, sb) ==
    \A i \in Provider :
      /\ sb[i] # {} <=> ps[i] \in {"Connecting", "Active"}
      /\ sb[i] \subseteq allow[i]

\* Each Connecting provider, and no other, has one attempt in flight.
Attempts(ps, sb, st) ==
    \A i \in Provider : st[i] = IF ps[i] = "Connecting" THEN <<sb[i]>> ELSE <<>>

\* The same providers are Active, for the same symbols.
SameActive(ps, sb, ps2, sb2) ==
    \A i \in Provider :
      /\ ps2[i] = "Active" <=> ps[i] = "Active"
      /\ ps[i] = "Active" => sb2[i] = sb[i]

\* Whatever the cursors are, a round is legitimate.
LEMMA RoundLegit ==
    ASSUME NEW ps, NEW sb, NEW si, NEW sc, NEW ex
    PROVE  Legit(Round(ps, sb, si, sc, ex), ps)
<1> DEFINE req == Round(ps, sb, si, sc, ex)
<1>1. CASE req = [i \in Provider |-> {}]
  BY <1>1 DEF Legit
<1>2. CASE req = Requests(allow, ps, sb, sc, si)
  <2>1. req = [i \in Provider |-> Takes(allow, ps, sb, sc, si, i)]
    BY <1>2 DEF Requests
  <2>2. ASSUME NEW i \in Provider, NEW s \in Takes(allow, ps, sb, sc, si, i)
        PROVE  s \in Symbol /\ IsIdle(ps, i) /\ s \in allow[i]
    BY <2>2 DEF Takes, Candidate, Needed
  <2>3. \A i \in Provider : Takes(allow, ps, sb, sc, si, i) \in SUBSET Symbol
    BY <2>2
  <2> QED
    BY <2>1, <2>2, <2>3 DEF Legit
<1> QED
  BY <1>1, <1>2 DEF Round

\* The index arithmetic stays within the chain.
LEMMA NextProvider ==
    ASSUME NEW i \in Provider
    PROVE  (i + 1) % N \in Provider
  BY NAssumption DEF Provider

LEMMA FirstProvider == 0 \in Provider
  BY NAssumption DEF Provider

\* Marking the requested providers and spawning their attempts keeps the
\* types, Held and Attempts, and touches no Active provider.
LEMMA Marking ==
    ASSUME NEW ps \in [Provider -> ProviderState],
           NEW sb \in [Provider -> SUBSET Symbol],
           NEW st \in [Provider -> Seq(SUBSET Symbol)],
           NEW req, Legit(req, ps)
    PROVE  /\ MarkConnecting(ps, req) \in [Provider -> ProviderState]
           /\ MarkSymbols(sb, req) \in [Provider -> SUBSET Symbol]
           /\ SpawnStarts(st, req) \in [Provider -> Seq(SUBSET Symbol)]
           /\ SameActive(ps, sb, MarkConnecting(ps, req), MarkSymbols(sb, req))
           /\ Held(ps, sb) => Held(MarkConnecting(ps, req), MarkSymbols(sb, req))
           /\ Attempts(ps, sb, st) =>
                Attempts(MarkConnecting(ps, req), MarkSymbols(sb, req), SpawnStarts(st, req))
<1>1. req \in [Provider -> SUBSET Symbol]
  BY DEF Legit
<1>2. MarkConnecting(ps, req) \in [Provider -> ProviderState]
  BY DEF MarkConnecting, ProviderState
<1>3. MarkSymbols(sb, req) \in [Provider -> SUBSET Symbol]
  BY <1>1 DEF MarkSymbols
<1>4. SpawnStarts(st, req) \in [Provider -> Seq(SUBSET Symbol)]
  BY <1>1 DEF SpawnStarts
<1>5. SameActive(ps, sb, MarkConnecting(ps, req), MarkSymbols(sb, req))
  BY DEF SameActive, Legit, IsIdle, MarkConnecting, MarkSymbols
<1>6. ASSUME Held(ps, sb)
      PROVE  Held(MarkConnecting(ps, req), MarkSymbols(sb, req))
  BY <1>6 DEF Held, Legit, MarkConnecting, MarkSymbols
<1>7. ASSUME Attempts(ps, sb, st)
      PROVE  Attempts(MarkConnecting(ps, req), MarkSymbols(sb, req), SpawnStarts(st, req))
  <2> SUFFICES ASSUME NEW i \in Provider
               PROVE  SpawnStarts(st, req)[i] =
                        IF MarkConnecting(ps, req)[i] = "Connecting"
                        THEN <<MarkSymbols(sb, req)[i]>> ELSE <<>>
    BY DEF Attempts
  <2>1. CASE req[i] = {}
    BY <1>7, <2>1 DEF Attempts, MarkConnecting, MarkSymbols, SpawnStarts
  <2>2. CASE req[i] # {}
    <3>1. st[i] = <<>>
      BY <1>7, <2>2 DEF Attempts, Legit, IsIdle
    <3>2. Append(<<>>, req[i]) = <<req[i]>>
      OBVIOUS
    <3> QED
      BY <2>2, <3>1, <3>2 DEF MarkConnecting, MarkSymbols, SpawnStarts
  <2> QED
    BY <2>1, <2>2
<1> QED
  BY <1>2, <1>3, <1>4, <1>5, <1>6, <1>7

\* The same for the variables of the supervisor after a handler.
LEMMA Settled ==
    ASSUME NEW ps \in [Provider -> ProviderState],
           NEW sb \in [Provider -> SUBSET Symbol],
           NEW st \in [Provider -> Seq(SUBSET Symbol)],
           NEW req, Legit(req, ps), Held(ps, sb),
           pstate' = MarkConnecting(ps, req),
           subs' = MarkSymbols(sb, req),
           starts' = SpawnStarts(st, req),
           allow' = allow
    PROVE  /\ pstate' \in [Provider -> ProviderState]
           /\ subs' \in [Provider -> SUBSET Symbol]
           /\ starts' \in [Provider -> Seq(SUBSET Symbol)]
           /\ SameActive(ps, sb, pstate', subs')
           /\ Held(pstate, subs)'
           /\ Attempts(ps, sb, st) => Attempts(pstate, subs, starts)'
<1>1. /\ MarkConnecting(ps, req) \in [Provider -> ProviderState]
      /\ MarkSymbols(sb, req) \in [Provider -> SUBSET Symbol]
      /\ SpawnStarts(st, req) \in [Provider -> Seq(SUBSET Symbol)]
  BY Marking
<1>2. SameActive(ps, sb, MarkConnecting(ps, req), MarkSymbols(sb, req))
  BY Marking
<1>3. Held(MarkConnecting(ps, req), MarkSymbols(sb, req))
  BY Marking
<1>4. Attempts(ps, sb, st) =>
        Attempts(MarkConnecting(ps, req), MarkSymbols(sb, req), SpawnStarts(st, req))
  BY Marking
<1>5. Held(pstate, subs)'
  BY <1>3 DEF Held
<1>6. Attempts(ps, sb, st) => Attempts(pstate, subs, starts)'
  BY <1>4 DEF Attempts
<1> QED
  BY <1>1, <1>2, <1>5, <1>6

-----------------------------------------------------------------------------
(* The inductive invariant *)

Begun == phase \in {"Spawned", "Startup", "Running"}

\* Sessions and their unhandled ends belong to Active providers.
Sessions ==
    /\ \A i \in live \cup event_rx : pstate[i] = "Active"
    /\ live \cap event_rx = {}

\* An Active provider still has a session or an end to be handled.
ActiveIsKnown ==
    Begun /\ ~closed =>
      \A i \in Provider : pstate[i] = "Active" => i \in live \cup event_rx

\* Until initialization is answered nothing is Active and no round is over.
Starting ==
    /\ Begun => (notified = "none" <=> phase \in {"Spawned", "Startup"})
    /\ notified = "none" => ~AnyActive(pstate) /\ ~round_exhausted
    /\ notified = "err" => phase = "Exited" /\ ~AnyActive(pstate)

IInv ==
    /\ TypeOK
    /\ Held(pstate, subs)
    /\ Begun => Attempts(pstate, subs, starts)
    /\ Sessions
    /\ ActiveIsKnown
    /\ Starting

LEMMA InitInv == Init => IInv
<1> SUFFICES ASSUME Init PROVE IInv
  OBVIOUS
<1>1. TypeOK
  BY FirstProvider, PlansAssumption, BackoffAssumption DEF Init, TypeOK, ProviderState
<1>2. allow \in [Provider -> SUBSET Symbol]
  BY PlansAssumption DEF Init
<1>3. Held(pstate, subs) /\ Attempts(pstate, subs, starts)
  BY <1>2 DEF Init, Held, Attempts
<1>4. Sessions /\ ActiveIsKnown /\ Starting
  BY DEF Init, Sessions, ActiveIsKnown, Starting, AnyActive
<1> QED
  BY <1>1, <1>3, <1>4 DEF IInv

LEMMA KickOffInv == IInv /\ KickOff => IInv'
<1> SUFFICES ASSUME IInv, KickOff PROVE IInv'
  OBVIOUS
<1> DEFINE req == Round(pstate, subs, start_index, scan_cursor, round_exhausted)
<1>1. Legit(req, pstate)
  BY RoundLegit
<1>2. /\ phase = "Spawned" /\ phase' = "Startup"
      /\ pstate' = MarkConnecting(pstate, req)
      /\ subs' = MarkSymbols(subs, req)
      /\ starts' = SpawnStarts(starts, req)
      /\ UNCHANGED <<allow, start_index, scan_cursor, round_exhausted, attempted,
                     backoff_ms, notified, live, told, sending, event_rx,
                     stop_watch, closed, deserted, steady>>
  BY DEF KickOff, sessionVars, envVars
<1> HIDE DEF req
<1>3. /\ pstate \in [Provider -> ProviderState]
      /\ subs \in [Provider -> SUBSET Symbol]
      /\ starts \in [Provider -> Seq(SUBSET Symbol)]
      /\ Held(pstate, subs) /\ Attempts(pstate, subs, starts)
  BY <1>2 DEF IInv, TypeOK, Begun
<1>4. /\ pstate' \in [Provider -> ProviderState]
      /\ subs' \in [Provider -> SUBSET Symbol]
      /\ starts' \in [Provider -> Seq(SUBSET Symbol)]
      /\ SameActive(pstate, subs, pstate', subs')
      /\ Held(pstate, subs)' /\ Attempts(pstate, subs, starts)'
  BY <1>1, <1>2, <1>3, Settled
<1>5. TypeOK'
  BY <1>2, <1>4 DEF IInv, TypeOK
<1>6. Sessions' /\ ActiveIsKnown' /\ Starting'
  BY <1>2, <1>4
     DEF IInv, TypeOK, Sessions, ActiveIsKnown, Starting, AnyActive, Begun, SameActive
<1> QED
  BY <1>4, <1>5, <1>6 DEF IInv

LEMMA StartOkInv ==
    ASSUME IInv, NEW i \in Provider, StartOk(i) PROVE IInv'
<1> DEFINE syms == Head(starts[i])
           ps   == [pstate EXCEPT ![i] = "Active"]
           sb   == [subs EXCEPT ![i] = syms]
           next == (i + 1) % N
           req  == Round(ps, sb, next, next, FALSE)
           st   == Answered(i)
<1>1. Legit(req, ps)
  BY RoundLegit
<1>2. /\ Open /\ starts[i] # <<>>
      /\ pstate' = MarkConnecting(ps, req)
      /\ subs' = MarkSymbols(sb, req)
      /\ starts' = SpawnStarts(st, req)
      /\ start_index' = next /\ scan_cursor' = next /\ round_exhausted' = FALSE
      /\ attempted' \in BOOLEAN
      /\ told' = (told \ {i}) \cup LowerOverlaps(ps, sb, i, syms)
      /\ live' = live \cup {i}
      /\ backoff_ms' \in {backoff_ms, MinBackoff}
      /\ notified' = IF phase = "Startup" THEN "ok" ELSE notified
      /\ phase' = "Running"
      /\ UNCHANGED <<allow, sending, event_rx, stop_watch, closed, deserted, steady>>
  BY DEF StartOk, Settle, envVars, IInv, TypeOK
<1>3. /\ pstate[i] = "Connecting" /\ starts[i] = <<subs[i]>>
      /\ Attempts(pstate, subs, starts) /\ Begun
  BY <1>2 DEF IInv, Attempts, Begun, Open
<1>4. syms = subs[i] /\ Tail(starts[i]) = <<>> /\ syms \in SUBSET Symbol
  BY <1>3 DEF IInv, TypeOK
<1>5. /\ ps \in [Provider -> ProviderState]
      /\ sb \in [Provider -> SUBSET Symbol]
      /\ st \in [Provider -> Seq(SUBSET Symbol)]
  BY <1>3, <1>4 DEF IInv, TypeOK, ProviderState, Answered
<1>6. Held(ps, sb)
  BY <1>3, <1>4 DEF IInv, TypeOK, Held
<1>7. Attempts(ps, sb, st)
  BY <1>3, <1>4 DEF IInv, TypeOK, Attempts, Answered
<1>8. next \in Provider
  BY NextProvider
<1>9. LowerOverlaps(ps, sb, i, syms) \subseteq Provider
  BY DEF LowerOverlaps
<1>10. \A j \in Provider : ps[j] = IF j = i THEN "Active" ELSE pstate[j]
  BY DEF IInv, TypeOK
<1> HIDE DEF syms, ps, sb, next, req, st
<1>11. /\ pstate' \in [Provider -> ProviderState]
       /\ subs' \in [Provider -> SUBSET Symbol]
       /\ starts' \in [Provider -> Seq(SUBSET Symbol)]
       /\ SameActive(ps, sb, pstate', subs')
       /\ Held(pstate, subs)' /\ Attempts(pstate, subs, starts)'
  BY <1>1, <1>2, <1>5, <1>6, <1>7, Settled
<1>12. TypeOK'
  <2>1. backoff_ms' \in Nat /\ (backoff_ms' <= MinBackoff \/ backoff_ms' <= MaxBackoff)
    BY <1>2, BackoffAssumption DEF IInv, TypeOK
  <2> QED
    BY <1>2, <1>8, <1>9, <1>11, <2>1 DEF IInv, TypeOK
<1>14. i \notin event_rx
  BY <1>3 DEF IInv, Sessions
<1>15. Sessions'
  BY <1>2, <1>10, <1>11, <1>14 DEF IInv, TypeOK, Sessions, SameActive
<1>16. ActiveIsKnown'
  BY <1>2, <1>3, <1>10, <1>11 DEF IInv, ActiveIsKnown, SameActive
<1>17. Starting'
  BY <1>2 DEF IInv, TypeOK, Starting, Open, Begun
<1> QED
  BY <1>11, <1>12, <1>15, <1>16, <1>17 DEF IInv

LEMMA StartFailInv ==
    ASSUME IInv, NEW i \in Provider, StartFail(i) PROVE IInv'
<1> DEFINE ps   == [pstate EXCEPT ![i] = "InCooldown"]
           sb   == [subs EXCEPT ![i] = {}]
           next == (i + 1) % N
           exhausted == round_exhausted \/ FinishesRound(i)
           gaveUp == phase = "Startup" /\ ~AnyActive(ps) /\ exhausted
           req  == Round(ps, sb, start_index, next, exhausted)
           st   == Answered(i)
<1>1. Legit(req, ps)
  BY RoundLegit
<1>2. /\ Open /\ starts[i] # <<>>
      /\ pstate' = MarkConnecting(ps, req)
      /\ subs' = MarkSymbols(sb, req)
      /\ starts' = SpawnStarts(st, req)
      /\ start_index' = start_index /\ scan_cursor' = next
      /\ round_exhausted' = exhausted /\ exhausted \in BOOLEAN
      /\ attempted' \in BOOLEAN
      /\ phase' = IF gaveUp THEN "Exited" ELSE phase
      /\ notified' = IF gaveUp THEN "err" ELSE notified
      /\ told' = IF gaveUp THEN Provider ELSE told
      /\ UNCHANGED <<allow, backoff_ms, live, sending, event_rx, stop_watch, closed,
                     deserted, steady>>
  BY DEF StartFail, Settle, envVars, IInv, TypeOK, FinishesRound
<1>3. /\ pstate[i] = "Connecting" /\ starts[i] = <<subs[i]>>
      /\ Attempts(pstate, subs, starts) /\ Begun
  BY <1>2 DEF IInv, Attempts, Begun, Open
<1>4. Tail(starts[i]) = <<>>
  BY <1>3 DEF IInv, TypeOK
<1>5. /\ ps \in [Provider -> ProviderState]
      /\ sb \in [Provider -> SUBSET Symbol]
      /\ st \in [Provider -> Seq(SUBSET Symbol)]
  BY <1>3, <1>4 DEF IInv, TypeOK, ProviderState, Answered
<1>6. Held(ps, sb)
  BY DEF IInv, TypeOK, Held
<1>7. Attempts(ps, sb, st)
  BY <1>3, <1>4 DEF IInv, TypeOK, Attempts, Answered
<1>8. next \in Provider
  BY NextProvider
<1>9. \A j \in Provider : ps[j] = IF j = i THEN "InCooldown" ELSE pstate[j]
  BY DEF IInv, TypeOK
<1>10. AnyActive(ps) <=> AnyActive(pstate)
  BY <1>3, <1>9 DEF AnyActive
<1> HIDE DEF ps, sb, next, req, st
<1>11. /\ pstate' \in [Provider -> ProviderState]
       /\ subs' \in [Provider -> SUBSET Symbol]
       /\ starts' \in [Provider -> Seq(SUBSET Symbol)]
       /\ SameActive(ps, sb, pstate', subs')
       /\ Held(pstate, subs)' /\ Attempts(pstate, subs, starts)'
  BY <1>1, <1>2, <1>5, <1>6, <1>7, Settled
<1>12. TypeOK'
  BY <1>2, <1>8, <1>11 DEF IInv, TypeOK
<1>13. i \notin live \cup event_rx
  BY <1>3 DEF IInv, Sessions
<1>14. Sessions' /\ ActiveIsKnown'
  BY <1>2, <1>3, <1>9, <1>11, <1>13
     DEF IInv, TypeOK, Sessions, ActiveIsKnown, SameActive, Begun
<1>15. AnyActive(pstate') <=> AnyActive(pstate)
  BY <1>10, <1>11 DEF SameActive, AnyActive
<1>16. Starting'
  BY <1>2, <1>10, <1>15 DEF IInv, TypeOK, Starting, Open, Begun
<1> QED
  BY <1>11, <1>12, <1>14, <1>16 DEF IInv

LEMMA SessionEndedInv ==
    ASSUME IInv, NEW i \in Provider, SessionEnded(i) PROVE IInv'
<1> DEFINE ps  == [pstate EXCEPT ![i] = "InCooldown"]
           sb  == [subs EXCEPT ![i] = {}]
           req == Round(ps, sb, start_index, scan_cursor, round_exhausted)
<1>1. Legit(req, ps)
  BY RoundLegit
<1>2. /\ Open /\ i \in event_rx
      /\ event_rx' = event_rx \ {i}
      /\ pstate' = MarkConnecting(ps, req)
      /\ subs' = MarkSymbols(sb, req)
      /\ starts' = SpawnStarts(starts, req)
      /\ attempted' \in BOOLEAN
      /\ UNCHANGED <<allow, start_index, scan_cursor, round_exhausted, backoff_ms,
                     phase, notified, live, told, sending, stop_watch, closed,
                     deserted, steady>>
  BY DEF SessionEnded, Settle, envVars, IInv, TypeOK
<1>3. pstate[i] = "Active" /\ i \notin live
  BY <1>2 DEF IInv, Sessions
<1>4. Attempts(pstate, subs, starts) /\ Begun
  BY <1>2 DEF IInv, Begun, Open
<1>5. /\ ps \in [Provider -> ProviderState]
      /\ sb \in [Provider -> SUBSET Symbol]
      /\ starts \in [Provider -> Seq(SUBSET Symbol)]
  BY DEF IInv, TypeOK, ProviderState
<1>6. Held(ps, sb)
  BY DEF IInv, TypeOK, Held
<1>7. Attempts(ps, sb, starts)
  BY <1>3, <1>4 DEF IInv, TypeOK, Attempts
<1>8. \A j \in Provider : ps[j] = IF j = i THEN "InCooldown" ELSE pstate[j]
  BY DEF IInv, TypeOK
<1> HIDE DEF ps, sb, req
<1>9. /\ pstate' \in [Provider -> ProviderState]
      /\ subs' \in [Provider -> SUBSET Symbol]
      /\ starts' \in [Provider -> Seq(SUBSET Symbol)]
      /\ SameActive(ps, sb, pstate', subs')
      /\ Held(pstate, subs)' /\ Attempts(pstate, subs, starts)'
  BY <1>1, <1>2, <1>5, <1>6, <1>7, Settled
<1>10. TypeOK'
  BY <1>2, <1>9 DEF IInv, TypeOK
<1>11. Sessions' /\ ActiveIsKnown'
  BY <1>2, <1>3, <1>4, <1>8, <1>9
     DEF IInv, TypeOK, Sessions, ActiveIsKnown, SameActive, Begun
<1>12. notified # "none" /\ notified # "err"
  BY <1>2, <1>3 DEF IInv, Starting, AnyActive
<1>13. Starting'
  BY <1>2, <1>12 DEF IInv, Starting, Open, Begun
<1> QED
  BY <1>9, <1>10, <1>11, <1>13 DEF IInv

LEMMA BackoffTickInv == IInv /\ BackoffTick => IInv'
<1> SUFFICES ASSUME IInv, BackoffTick PROVE IInv'
  OBVIOUS
<1> DEFINE ps == [i \in Provider |->
                    IF pstate[i] = "InCooldown" THEN "IdleFromCooldown" ELSE pstate[i]]
           fruitless == attempted /\ ~AnyActive(ps)
           gaveUp == fruitless /\ round_exhausted /\ phase = "Startup"
           si  == IF fruitless THEN 0 ELSE start_index
           req == Round(ps, subs, si, si, FALSE)
<1>1. Legit(req, ps)
  BY RoundLegit
<1>2. ~(round_exhausted /\ phase = "Startup")
  BY DEF IInv, Starting, BackoffTick, Begun, Open
<1>3. /\ Open
      /\ pstate' = MarkConnecting(ps, req)
      /\ subs' = MarkSymbols(subs, req)
      /\ starts' = SpawnStarts(starts, req)
      /\ start_index' = si /\ scan_cursor' = si
      /\ round_exhausted' = FALSE /\ attempted' \in BOOLEAN
      /\ backoff_ms' = IF attempted THEN IncreaseBackoff ELSE backoff_ms
      /\ UNCHANGED <<allow, phase, notified, told, live, sending, event_rx,
                     stop_watch, closed, deserted, steady>>
  BY <1>2 DEF BackoffTick, Settle, envVars
<1>4. Attempts(pstate, subs, starts) /\ Begun
  BY <1>3 DEF IInv, Begun, Open
<1>5. /\ ps \in [Provider -> ProviderState]
      /\ subs \in [Provider -> SUBSET Symbol]
      /\ starts \in [Provider -> Seq(SUBSET Symbol)]
  BY DEF IInv, TypeOK, ProviderState
<1>6. Held(ps, subs)
  BY DEF IInv, TypeOK, Held
<1>7. Attempts(ps, subs, starts)
  BY <1>4 DEF Attempts
<1>8. si \in Provider
  BY FirstProvider DEF IInv, TypeOK
<1>9. \A j \in Provider : ps[j] = "Active" <=> pstate[j] = "Active"
  OBVIOUS
<1>10. IncreaseBackoff \in Nat /\ IncreaseBackoff <= MaxBackoff
  BY BackoffAssumption DEF IncreaseBackoff, IInv, TypeOK
<1> HIDE DEF ps, si, req
<1>11. /\ pstate' \in [Provider -> ProviderState]
       /\ subs' \in [Provider -> SUBSET Symbol]
       /\ starts' \in [Provider -> Seq(SUBSET Symbol)]
       /\ SameActive(ps, subs, pstate', subs')
       /\ Held(pstate, subs)' /\ Attempts(pstate, subs, starts)'
  BY <1>1, <1>3, <1>5, <1>6, <1>7, Settled
<1>12. TypeOK'
  <2>1. backoff_ms' \in Nat /\ (backoff_ms' <= MinBackoff \/ backoff_ms' <= MaxBackoff)
    BY <1>3, <1>10 DEF IInv, TypeOK
  <2> QED
    BY <1>3, <1>8, <1>11, <2>1 DEF IInv, TypeOK
<1>13. Sessions' /\ ActiveIsKnown' /\ Starting'
  BY <1>3, <1>4, <1>9, <1>11
     DEF IInv, TypeOK, Sessions, ActiveIsKnown, Starting, SameActive, AnyActive, Begun
<1> QED
  BY <1>11, <1>12, <1>13 DEF IInv

LEMMA ShutdownInv == IInv /\ Shutdown => IInv'
<1> SUFFICES ASSUME IInv, Shutdown PROVE IInv'
  OBVIOUS
<1> DEFINE req == Round(pstate, subs, start_index, scan_cursor, round_exhausted)
<1>1. Legit(req, pstate)
  BY RoundLegit
<1>2. /\ Open
      /\ phase' = "Closing" /\ told' = Provider
      /\ pstate' = MarkConnecting(pstate, req)
      /\ subs' = MarkSymbols(subs, req)
      /\ attempted' \in BOOLEAN
      /\ UNCHANGED <<allow, start_index, scan_cursor, round_exhausted, backoff_ms,
                     notified, starts, live, sending, event_rx, stop_watch, closed,
                     deserted, steady>>
  BY DEF Shutdown, Settle, envVars, IInv, TypeOK
<1> HIDE DEF req
<1>3. /\ pstate \in [Provider -> ProviderState]
      /\ subs \in [Provider -> SUBSET Symbol]
      /\ starts \in [Provider -> Seq(SUBSET Symbol)]
      /\ Held(pstate, subs)
  BY DEF IInv, TypeOK
<1>4. /\ MarkConnecting(pstate, req) \in [Provider -> ProviderState]
      /\ MarkSymbols(subs, req) \in [Provider -> SUBSET Symbol]
      /\ SameActive(pstate, subs, MarkConnecting(pstate, req), MarkSymbols(subs, req))
      /\ Held(MarkConnecting(pstate, req), MarkSymbols(subs, req))
  BY <1>1, <1>3, Marking
<1>5. TypeOK'
  BY <1>2, <1>4 DEF IInv, TypeOK
<1>6. Held(pstate, subs)'
  BY <1>2, <1>4 DEF Held
<1>7. /\ notified # "err"
      /\ notified = "none" => ~AnyActive(pstate') /\ ~round_exhausted'
  BY <1>2, <1>4 DEF IInv, Starting, Open, SameActive, AnyActive
<1>8. Sessions' /\ ActiveIsKnown' /\ Starting'
  BY <1>2, <1>4, <1>7
     DEF IInv, TypeOK, Sessions, ActiveIsKnown, Starting, SameActive, Begun
<1> QED
  BY <1>2, <1>5, <1>6, <1>8 DEF IInv, Begun

\* Steps that leave the provider states alone.
LEMMA AwaitAllInv == IInv /\ AwaitAll => IInv'
<1> SUFFICES ASSUME IInv, AwaitAll PROVE IInv'
  OBVIOUS
<1> USE DEF AwaitAll, smVars, sessionVars, envVars
<1>1. TypeOK' /\ Held(pstate, subs)'
  BY DEF IInv, TypeOK, Held
<1>2. Sessions' /\ ActiveIsKnown' /\ Starting' /\ ~Begun'
  BY DEF IInv, Sessions, ActiveIsKnown, Starting, Begun
<1> QED
  BY <1>1, <1>2 DEF IInv

LEMMA StartDroppedInv ==
    ASSUME IInv, NEW i \in Provider, StartDropped(i) PROVE IInv'
<1> USE DEF StartDropped, smVars, sessionVars, envVars
<1>1. starts' \in [Provider -> Seq(SUBSET Symbol)]
  BY DEF IInv, TypeOK, Answered
<1>2. TypeOK' /\ Held(pstate, subs)'
  BY <1>1 DEF IInv, TypeOK, Held
<1>3. Sessions' /\ ActiveIsKnown' /\ Starting' /\ ~Begun'
  BY DEF IInv, Sessions, ActiveIsKnown, Starting, Begun
<1> QED
  BY <1>2, <1>3 DEF IInv

LEMMA SessionEndsInv ==
    ASSUME IInv, NEW i \in Provider, NEW notify \in BOOLEAN,
           SessionEnds(i, notify), notify \/ closed
    PROVE  IInv'
<1> USE DEF SessionEnds, smVars, envVars
<1>1. TypeOK' /\ Held(pstate, subs)'
  BY DEF IInv, TypeOK, Held
<1>2. Begun' => Attempts(pstate, subs, starts)'
  BY DEF IInv, Begun, Attempts
<1>3. Sessions' /\ Starting'
  BY DEF IInv, Sessions, Starting, Begun
<1>4. ActiveIsKnown'
  BY DEF IInv, ActiveIsKnown, Begun
<1> QED
  BY <1>1, <1>2, <1>3, <1>4 DEF IInv

\* An update taken in hand, or handed over, is no matter of the supervisor's.
LEMMA SendingInv ==
    ASSUME IInv, NEW i \in Provider, SessionSends(i) \/ UpdateSent(i) PROVE IInv'
<1>1. /\ sending' \subseteq live
      /\ UNCHANGED <<allow, pstate, subs, start_index, scan_cursor, round_exhausted,
                     attempted, backoff_ms, phase, notified, starts, live, told,
                     event_rx, stop_watch, closed, deserted, steady>>
  BY DEF SessionSends, UpdateSent, Polls, IInv, TypeOK, smVars, envVars
<1> QED
  BY <1>1 DEF IInv, TypeOK, Held, Attempts, Sessions, ActiveIsKnown, Starting, Begun

LEMMA RouterInv == IInv /\ (Stop \/ DropReceiver \/ Desert \/ Abort \/ Mend) => IInv'
<1> SUFFICES ASSUME IInv, Stop \/ DropReceiver \/ Desert \/ Abort \/ Mend PROVE IInv'
  OBVIOUS
<1> USE DEF Stop, DropReceiver, Desert, Abort, Mend, HandedOut, smVars, sessionVars, envVars
<1>1. TypeOK' /\ Held(pstate, subs)'
  BY ZenonT(40), RecoveriesAssumption DEF IInv, TypeOK, Held
<1>2. Begun' => Attempts(pstate, subs, starts)'
  BY DEF IInv, Begun, Attempts
<1>3. Sessions'
  BY DEF IInv, Sessions
<1>5. Starting'
  <2>1. CASE Abort
    <3>1. notified = "ok" /\ notified' = "ok" /\ phase' = "Exited"
      BY <2>1
    <3> QED
      BY <3>1 DEF Starting, Begun
  <2>2. CASE ~Abort
    <3>1. UNCHANGED <<phase, notified, pstate, round_exhausted>>
      BY <2>2
    <3> QED
      BY <3>1 DEF IInv, Starting, Begun, AnyActive
  <2> QED
    BY <2>1, <2>2
<1>4. ActiveIsKnown'
  BY DEF IInv, ActiveIsKnown, Begun
<1> QED
  BY <1>1, <1>2, <1>3, <1>4, <1>5 DEF IInv

LEMMA NextInv == IInv /\ [Next]_vars => IInv'
<1> SUFFICES ASSUME IInv, [Next]_vars PROVE IInv'
  OBVIOUS
<1>1. CASE KickOff
  BY <1>1, KickOffInv
<1>2. CASE BackoffTick
  BY <1>2, BackoffTickInv
<1>3. CASE Shutdown
  BY <1>3, ShutdownInv
<1>4. CASE AwaitAll
  BY <1>4, AwaitAllInv
<1>5. ASSUME NEW i \in Provider, StartOk(i) PROVE IInv'
  BY <1>5, StartOkInv
<1>6. ASSUME NEW i \in Provider, StartFail(i) PROVE IInv'
  BY <1>6, StartFailInv
<1>7. ASSUME NEW i \in Provider, StartDropped(i) PROVE IInv'
  BY <1>7, StartDroppedInv
<1>8. ASSUME NEW i \in Provider, SessionEnded(i) PROVE IInv'
  BY <1>8, SessionEndedInv
<1>9. ASSUME NEW i \in Provider,
             SessionStopped(i) \/ ProviderEnded(i) \/ SessionDownstreamGone(i)
      PROVE  IInv'
  BY <1>9, SessionEndsInv DEF SessionStopped, ProviderEnded, SessionDownstreamGone
<1>10. CASE Stop \/ DropReceiver \/ Desert \/ Abort \/ Mend
  BY <1>10, RouterInv
<1>12. ASSUME NEW i \in Provider, SessionSends(i) \/ UpdateSent(i) PROVE IInv'
  BY <1>12, SendingInv
<1>11. CASE UNCHANGED vars
  <2>1. UNCHANGED <<allow, pstate, subs, start_index, scan_cursor, round_exhausted,
                    attempted, backoff_ms, phase, notified, starts, live, told,
                    sending, event_rx, stop_watch, closed, deserted, steady>>
    BY <1>11 DEF vars, smVars, sessionVars, envVars
  <2> QED
    BY <2>1 DEF IInv, TypeOK, Held, Attempts, Sessions, ActiveIsKnown, Starting, Begun
<1> QED
  BY <1>1, <1>2, <1>3, <1>4, <1>5, <1>6, <1>7, <1>8, <1>9, <1>10, <1>11,
     <1>12 DEF Next

\* The invariant that carries all results below.
THEOREM Inductive == Spec => []IInv
  BY InitInv, NextInv, PTL DEF Spec

-----------------------------------------------------------------------------
(* What follows from it *)

\* The supervisor's fields, channels and flags keep their types, the indices
\* stay within the chain and the delay below its bound.
THEOREM TypeCorrect == Spec => []TypeOK
<1>1. IInv => TypeOK
  BY DEF IInv
<1> QED
  BY <1>1, Inductive, PTL

\* The supervisor's provider states are always a true picture of the start
\* attempts and sessions around it.
THEOREM PictureIsTrue == Spec => []ViewMatchesTasks
<1>1. IInv => ViewMatchesTasks
  <2> SUFFICES ASSUME IInv, Open, NEW i \in Provider
               PROVE  /\ starts[i] = IF pstate[i] = "Connecting" THEN <<subs[i]>> ELSE <<>>
                      /\ subs[i] # {} <=> pstate[i] \in {"Connecting", "Active"}
                      /\ i \in live \cup event_rx => pstate[i] = "Active"
                      /\ pstate[i] = "Active" /\ ~closed => i \in live \cup event_rx
                      /\ ~(i \in live /\ i \in event_rx)
    BY DEF ViewMatchesTasks
  <2>1. Begun
    BY DEF Open, Begun
  <2>2. starts[i] = IF pstate[i] = "Connecting" THEN <<subs[i]>> ELSE <<>>
    BY <2>1 DEF IInv, Attempts
  <2>3. subs[i] # {} <=> pstate[i] \in {"Connecting", "Active"}
    BY DEF IInv, Held
  <2> QED
    BY <2>1, <2>2, <2>3 DEF IInv, Sessions, ActiveIsKnown
<1> QED
  BY <1>1, Inductive, PTL

\* No startup goes on after its round is over.
THEOREM StartupHasRound == Spec => []StartupNotExhausted
<1>1. IInv => StartupNotExhausted
  BY DEF IInv, Starting, Begun, StartupNotExhausted
<1> QED
  BY <1>1, Inductive, PTL

\* A running supervisor stops a session only for an Active one of higher
\* priority that shares a symbol with it.
THEOREM PreemptionJustified == Spec => PreemptionIsJustified
<1> DEFINE Justified ==
      Open' => \A j \in told' \ told :
                 \E i \in Provider :
                    i < j /\ pstate'[i] = "Active" /\ subs'[i] \cap subs[j] # {}
<1>1. ASSUME IInv, Next PROVE Justified
  <2>1. ASSUME NEW i \in Provider, StartOk(i), NEW j \in told' \ told
        PROVE  i < j /\ pstate'[i] = "Active" /\ subs'[i] \cap subs[j] # {}
    <3> DEFINE syms == Head(starts[i])
               ps   == [pstate EXCEPT ![i] = "Active"]
               sb   == [subs EXCEPT ![i] = syms]
               next == (i + 1) % N
               req  == Round(ps, sb, next, next, FALSE)
    <3>1. /\ pstate' = MarkConnecting(ps, req)
          /\ subs' = MarkSymbols(sb, req)
          /\ told' = (told \ {i}) \cup LowerOverlaps(ps, sb, i, syms)
      BY <2>1 DEF StartOk, Settle
    <3>2. ps[i] = "Active" /\ sb[i] = syms /\ i \in DOMAIN ps
      BY <1>1 DEF IInv, TypeOK
    <3>3. Legit(req, ps)
      BY RoundLegit
    <3>4. req[i] = {}
      BY <3>2, <3>3 DEF Legit, IsIdle
    <3>5. pstate'[i] = "Active" /\ subs'[i] = syms
      BY <3>1, <3>2, <3>4 DEF MarkConnecting, MarkSymbols
    <3>6. j \in Provider /\ j > i /\ sb[j] \cap syms # {}
      BY <2>1, <3>1 DEF LowerOverlaps
    <3>7. i < j /\ i # j
      BY <3>6 DEF Provider
    <3>8. sb[j] = subs[j]
      BY <1>1, <3>6, <3>7 DEF IInv, TypeOK
    <3> QED
      BY <3>5, <3>6, <3>7, <3>8
  <2>2. ASSUME NEW i \in Provider, StartFail(i) PROVE Open' => told' = told
    BY <2>2 DEF StartFail, Open
  <2>3. CASE BackoffTick
    BY <2>3 DEF BackoffTick, Open
  <2>4. CASE Shutdown \/ Abort
    BY <2>4 DEF Shutdown, Abort, Open
  <2>5. CASE KickOff \/ AwaitAll \/ Stop \/ DropReceiver \/ Desert \/ Mend
    BY <2>5 DEF KickOff, AwaitAll, Stop, DropReceiver, Desert, Mend, sessionVars
  <2>6. ASSUME NEW i \in Provider,
               \/ StartDropped(i) \/ SessionEnded(i) \/ SessionSends(i) \/ UpdateSent(i)
               \/ SessionStopped(i) \/ ProviderEnded(i) \/ SessionDownstreamGone(i)
        PROVE  told' = told
    BY <2>6 DEF StartDropped, SessionEnded, SessionSends, UpdateSent, SessionStopped, ProviderEnded,
                SessionDownstreamGone, SessionEnds, sessionVars
  <2> QED
    BY <1>1, <2>1, <2>2, <2>3, <2>4, <2>5, <2>6 DEF Next
<1>2. IInv /\ [Next]_vars => [Justified]_vars
  BY <1>1
<1> QED
  BY <1>2, Inductive, PTL DEF Spec, PreemptionIsJustified

-----------------------------------------------------------------------------
(* What a preemption takes off the air *)

AllOrNothing(sb) == \A i \in Provider : sb[i] \in {{}, Symbol}

\* Where every provider may stream every symbol, each carries all or none.
UniformInv == (\A k \in Provider : allow[k] = Symbol) => AllOrNothing(subs)

\* In such a plan a round asks for all symbols or for none.
LEMMA RoundAllOrNothing ==
    ASSUME NEW ps, NEW sb, AllOrNothing(sb), \A k \in Provider : allow[k] = Symbol,
           NEW si, NEW sc, NEW ex
    PROVE  AllOrNothing(Round(ps, sb, si, sc, ex))
<1> DEFINE req == Requests(allow, ps, sb, sc, si)
<1>1. ASSUME NEW j \in Provider, NEW s \in Symbol, NEW t \in Symbol, s \in Needed(allow, sb, j)
      PROVE  t \in Needed(allow, sb, j)
  <2>1. \A k \in Provider : s \in sb[k] <=> t \in sb[k]
    BY DEF AllOrNothing
  <2> QED
    BY <1>1, <2>1 DEF Needed, Covered, HeldBefore
<1>2. ASSUME NEW j \in Provider, NEW s \in Symbol, NEW t \in Symbol
      PROVE  Candidate(allow, ps, sb, sc, si, j, s) <=> Candidate(allow, ps, sb, sc, si, j, t)
  BY <1>1 DEF Candidate
<1>3. ASSUME NEW i \in Provider, NEW s \in Takes(allow, ps, sb, sc, si, i), NEW t \in Symbol
      PROVE  t \in Takes(allow, ps, sb, sc, si, i)
  <2>1. /\ s \in Symbol /\ Candidate(allow, ps, sb, sc, si, i, s)
        /\ \A j \in Provider : (j < i /\ Distance(sc, j) < Distance(sc, i))
                                  => ~Candidate(allow, ps, sb, sc, si, j, s)
    BY DEF Takes
  <2>2. Candidate(allow, ps, sb, sc, si, i, t)
    BY <1>2, <2>1
  <2>3. \A j \in Provider : (j < i /\ Distance(sc, j) < Distance(sc, i))
                              => ~Candidate(allow, ps, sb, sc, si, j, t)
    BY <1>2, <2>1
  <2> QED
    BY <2>2, <2>3 DEF Takes
<1>4. \A i \in Provider : Takes(allow, ps, sb, sc, si, i) \subseteq Symbol
  BY DEF Takes
<1>5. \A i \in Provider : Takes(allow, ps, sb, sc, si, i) \in {{}, Symbol}
  BY <1>3, <1>4
<1> QED
  BY <1>5 DEF Round, Requests, AllOrNothing

\* A handler that first sets provider i's symbols to syms, all or none.
LEMMA SettledAllOrNothing ==
    ASSUME UniformInv, subs \in [Provider -> SUBSET Symbol], allow' = allow,
           NEW sb, NEW ps, NEW si, NEW sc, NEW ex,
           AllOrNothing(subs) => AllOrNothing(sb),
           subs' = MarkSymbols(sb, Round(ps, sb, si, sc, ex))
    PROVE  UniformInv'
<1> SUFFICES ASSUME \A k \in Provider : allow[k] = Symbol PROVE AllOrNothing(subs)'
  BY DEF UniformInv
<1>1. AllOrNothing(sb)
  BY DEF UniformInv
<1>2. AllOrNothing(Round(ps, sb, si, sc, ex))
  BY <1>1, RoundAllOrNothing
<1> QED
  BY <1>1, <1>2 DEF AllOrNothing, MarkSymbols

\* The one attempt in flight for a Connecting provider is for its symbols.
LEMMA AttemptIs ==
    ASSUME IInv, NEW i \in Provider, Open, starts[i] # <<>>
    PROVE  starts[i] = <<subs[i]>> /\ Head(starts[i]) = subs[i]
<1>1. Attempts(pstate, subs, starts)
  BY DEF IInv, Begun, Open
<1>2. starts[i] = <<subs[i]>>
  BY <1>1 DEF Attempts
<1> QED
  BY <1>2

LEMMA UniformStep == IInv /\ UniformInv /\ [Next]_vars => UniformInv'
<1> SUFFICES ASSUME IInv, UniformInv, [Next]_vars PROVE UniformInv'
  OBVIOUS
<1>0. subs \in [Provider -> SUBSET Symbol]
  BY DEF IInv, TypeOK
<1>1. CASE KickOff
  <2>1. allow' = allow
        /\ subs' = MarkSymbols(subs, Round(pstate, subs, start_index, scan_cursor, round_exhausted))
    BY <1>1 DEF KickOff
  <2> QED BY <1>0, <2>1, SettledAllOrNothing
<1>2. ASSUME NEW i \in Provider, StartOk(i) PROVE UniformInv'
  <2> DEFINE ps   == [pstate EXCEPT ![i] = "Active"]
             sb   == [subs EXCEPT ![i] = Head(starts[i])]
             next == (i + 1) % N
  <2>1. allow' = allow /\ subs' = MarkSymbols(sb, Round(ps, sb, next, next, FALSE))
    BY <1>2 DEF StartOk, Settle
  <2>2. Head(starts[i]) = subs[i]
    BY <1>2, AttemptIs DEF StartOk
  <2>3. sb = subs
    BY <1>0, <2>2
  <2> HIDE DEF sb, ps, next
  <2> QED BY <1>0, <2>1, <2>3, SettledAllOrNothing
<1>3. ASSUME NEW i \in Provider, StartFail(i) PROVE UniformInv'
  <2> DEFINE ps   == [pstate EXCEPT ![i] = "InCooldown"]
             sb   == [subs EXCEPT ![i] = {}]
             next == (i + 1) % N
             exhausted == round_exhausted \/ FinishesRound(i)
  <2>1. allow' = allow /\ subs' = MarkSymbols(sb, Round(ps, sb, start_index, next, exhausted))
    BY <1>3 DEF StartFail, Settle
  <2>2. AllOrNothing(subs) => AllOrNothing(sb)
    BY <1>0 DEF AllOrNothing
  <2> HIDE DEF sb, ps, next, exhausted
  <2> QED BY <1>0, <2>1, <2>2, SettledAllOrNothing
<1>4. ASSUME NEW i \in Provider, SessionEnded(i) PROVE UniformInv'
  <2> DEFINE ps == [pstate EXCEPT ![i] = "InCooldown"]
             sb == [subs EXCEPT ![i] = {}]
  <2>1. allow' = allow
        /\ subs' = MarkSymbols(sb, Round(ps, sb, start_index, scan_cursor, round_exhausted))
    BY <1>4 DEF SessionEnded, Settle
  <2>2. AllOrNothing(subs) => AllOrNothing(sb)
    BY <1>0 DEF AllOrNothing
  <2> HIDE DEF sb, ps
  <2> QED BY <1>0, <2>1, <2>2, SettledAllOrNothing
<1>5. CASE BackoffTick
  <2> DEFINE ps == [i \in Provider |->
                      IF pstate[i] = "InCooldown" THEN "IdleFromCooldown" ELSE pstate[i]]
             si == IF attempted /\ ~AnyActive(ps) THEN 0 ELSE start_index
  <2>1. allow' = allow
    BY <1>5 DEF BackoffTick
  <2>2. subs' = subs \/ subs' = MarkSymbols(subs, Round(ps, subs, si, si, FALSE))
    BY <1>5 DEF BackoffTick, Settle
  <2> HIDE DEF ps, si
  <2>3. CASE subs' = subs
    BY <2>1, <2>3 DEF UniformInv, AllOrNothing
  <2>4. CASE subs' = MarkSymbols(subs, Round(ps, subs, si, si, FALSE))
    <3>1. AllOrNothing(subs) => AllOrNothing(subs)
      OBVIOUS
    <3> QED BY <1>0, <2>1, <2>4, <3>1, SettledAllOrNothing
  <2> QED BY <2>2, <2>3, <2>4
<1>6. CASE Shutdown
  <2>1. allow' = allow
        /\ subs' = MarkSymbols(subs, Round(pstate, subs, start_index, scan_cursor, round_exhausted))
    BY <1>6 DEF Shutdown, Settle
  <2> QED BY <1>0, <2>1, SettledAllOrNothing
<1>7. CASE UNCHANGED <<allow, subs>>
  BY <1>7 DEF UniformInv, AllOrNothing
<1>8. ASSUME AwaitAll \/ Stop \/ DropReceiver \/ Desert \/ Abort \/ Mend
             \/ \E i \in Provider : \/ StartDropped(i) \/ SessionStopped(i)
                                     \/ SessionSends(i) \/ UpdateSent(i)
                                     \/ ProviderEnded(i) \/ SessionDownstreamGone(i)
      PROVE  UNCHANGED <<allow, subs>>
  BY <1>8 DEF AwaitAll, Stop, DropReceiver, Desert, Abort, Mend, StartDropped,
              SessionSends, UpdateSent, SessionStopped,
              ProviderEnded, SessionDownstreamGone, SessionEnds, smVars
<1> QED
  BY <1>1, <1>2, <1>3, <1>4, <1>5, <1>6, <1>7, <1>8 DEF Next, vars, smVars

\* A preemption stops sessions only for one that carries all they do, where
\* the plan is uniform; and it is always for one of higher priority that
\* shares a symbol.
THEOREM PreemptionSound == Spec => PreemptionIsSound
<1> DEFINE Keeps ==
      Open' /\ (\A k \in Provider : allow[k] = Symbol) =>
        \A j \in told' \ told : \A s \in subs[j] :
           \E i \in Provider : i < j /\ pstate'[i] = "Active" /\ s \in subs'[i]
    Justified ==
      Open' => \A j \in told' \ told :
                 \E i \in Provider :
                    i < j /\ pstate'[i] = "Active" /\ subs'[i] \cap subs[j] # {}
<1>1. ASSUME IInv, IInv', UniformInv', [Justified]_vars, [Next]_vars PROVE [Keeps]_vars
  <2> SUFFICES ASSUME vars' # vars PROVE Keeps
    OBVIOUS
  <2>0. Justified /\ Next
    BY <1>1
  <2>2. allow' = allow
    BY <2>0 DEF Next, KickOff, BackoffTick, Shutdown, AwaitAll, StartOk, StartFail,
                StartDropped, SessionEnded, SessionSends, UpdateSent, SessionStopped,
                ProviderEnded, SessionDownstreamGone, SessionEnds, Stop, DropReceiver,
                Desert, Abort, Mend, envVars
  <2>3. ASSUME Open', \A k \in Provider : allow[k] = Symbol,
               NEW j \in told' \ told, NEW s \in subs[j]
        PROVE  \E i \in Provider : i < j /\ pstate'[i] = "Active" /\ s \in subs'[i]
    <3>1. PICK i \in Provider : i < j /\ pstate'[i] = "Active" /\ subs'[i] \cap subs[j] # {}
      BY <2>0, <2>3
    <3>2. subs'[i] \in {{}, Symbol}
      BY <1>1, <2>2, <2>3 DEF UniformInv, AllOrNothing
    <3>3. subs'[i] = Symbol
      BY <3>1, <3>2
    <3>4. j \in Provider
      BY <1>1 DEF IInv, TypeOK
    <3>5. s \in Symbol
      BY <1>1, <2>3, <3>4 DEF IInv, TypeOK
    <3> QED
      BY <3>1, <3>3, <3>5
  <2> QED
    BY <2>3
<1>2. Init => UniformInv
  BY DEF Init, UniformInv, AllOrNothing
<1>3. Spec => []UniformInv
  BY <1>2, UniformStep, Inductive, PTL DEF Spec
<1>4. Spec => [][Justified]_vars
  BY PreemptionJustified DEF PreemptionIsJustified
<1>5. Spec => [][Keeps]_vars
  BY <1>1, <1>3, <1>4, Inductive, PTL DEF Spec
<1> QED
  BY <1>5, PreemptionJustified DEF PreemptionIsSound, PreemptionKeepsCoverage

-----------------------------------------------------------------------------
(* Starts and priority *)

\* A provider that a round asks is asked for nothing that a provider of higher
\* priority held when the round began.
LEMMA RoundRespects ==
    ASSUME NEW ps, NEW sb, NEW si, NEW sc, NEW ex, NEW i \in Provider, NEW j \in Provider, j < i
    PROVE  Round(ps, sb, si, sc, ex)[i] \cap sb[j] = {}
<1>1. Takes(allow, ps, sb, sc, si, i) \cap sb[j] = {}
  BY DEF Takes, Candidate, Needed, Covered, HeldBefore
<1> QED
  BY <1>1 DEF Round, Requests

\* A handler's round, from the attempts st and the symbols sb that it leaves:
\* sb has no more than the supervisor had.
LEMMA SettledRespects ==
    ASSUME NEW ps, NEW sb, NEW si, NEW sc, NEW ex, NEW st,
           NEW i \in Provider, NEW j \in Provider, j < i,
           sb[j] = subs[j] \/ (sb[j] = {} /\ ~IsIdle(ps, j)),
           st[i] = starts[i] \/ (st[i] = <<>> /\ starts[i] # <<>>),
           starts[i] \in Seq(SUBSET Symbol),
           Len(starts'[i]) > Len(starts[i]),
           subs' = MarkSymbols(sb, Round(ps, sb, si, sc, ex)),
           starts' = SpawnStarts(st, Round(ps, sb, si, sc, ex))
    PROVE  subs'[i] \cap subs[j] \cap subs'[j] = {}
<1> DEFINE req == Round(ps, sb, si, sc, ex)
<1>1. req[i] # {}
  <2> SUFFICES ASSUME req[i] = {} PROVE FALSE
    OBVIOUS
  <2>1. starts'[i] = st[i]
    BY DEF SpawnStarts
  <2>2. CASE st[i] = starts[i]
    BY <2>1, <2>2
  <2>3. CASE st[i] = <<>> /\ starts[i] # <<>>
    BY <2>1, <2>3
  <2> QED BY <2>2, <2>3
<1>2. subs'[i] = req[i] /\ req[i] \cap sb[j] = {}
  BY <1>1, RoundRespects DEF MarkSymbols
<1>3. CASE sb[j] = subs[j]
  BY <1>2, <1>3
<1>4. CASE sb[j] # subs[j]
  <2>0. Legit(req, ps)
    BY RoundLegit
  <2> HIDE DEF req
  <2>1. sb[j] = {} /\ req[j] = {}
    BY <1>4, <2>0 DEF Legit
  <2>2. subs'[j] = {}
    BY <2>1 DEF MarkSymbols, req
  <2> QED BY <2>2
<1> QED
  BY <1>3, <1>4

\* Whatever the order of failures, ends and ticks, no start is requested for a
\* symbol that a provider of higher priority holds.
THEOREM StartsByPriority == Spec => StartsRespectPriority
<1> DEFINE Respects ==
      \A i, j \in Provider :
          Len(starts'[i]) > Len(starts[i]) /\ j < i /\ Open'
             => subs'[i] \cap subs[j] \cap subs'[j] = {}
<1>1. ASSUME IInv, Next PROVE Respects
  <2> SUFFICES ASSUME NEW i \in Provider, NEW j \in Provider,
                      Len(starts'[i]) > Len(starts[i]), j < i
               PROVE  subs'[i] \cap subs[j] \cap subs'[j] = {}
    OBVIOUS
  <2>0. /\ subs \in [Provider -> SUBSET Symbol] /\ pstate \in [Provider -> ProviderState]
        /\ starts \in [Provider -> Seq(SUBSET Symbol)]
    BY <1>1 DEF IInv, TypeOK
  <2>1. CASE KickOff
    <3>1. /\ subs' = MarkSymbols(subs, Round(pstate, subs, start_index, scan_cursor, round_exhausted))
          /\ starts' = SpawnStarts(starts, Round(pstate, subs, start_index, scan_cursor, round_exhausted))
      BY <2>1 DEF KickOff
    <3> QED BY <2>0, <3>1, SettledRespects
  <2>2. ASSUME NEW k \in Provider, StartOk(k) PROVE subs'[i] \cap subs[j] \cap subs'[j] = {}
    <3> DEFINE ps   == [pstate EXCEPT ![k] = "Active"]
               sb   == [subs EXCEPT ![k] = Head(starts[k])]
               next == (k + 1) % N
               st   == Answered(k)
    <3>1. /\ subs' = MarkSymbols(sb, Round(ps, sb, next, next, FALSE))
          /\ starts' = SpawnStarts(st, Round(ps, sb, next, next, FALSE))
      BY <2>2 DEF StartOk, Settle
    <3>2. starts[k] = <<subs[k]>> /\ Head(starts[k]) = subs[k]
      BY <1>1, <2>2, AttemptIs DEF StartOk
    <3>3. sb = subs
      BY <2>0, <3>2
    <3>4. st[i] = starts[i] \/ (st[i] = <<>> /\ starts[i] # <<>>)
      BY <2>0, <3>2 DEF Answered
    <3>5. /\ subs' = MarkSymbols(subs, Round(ps, subs, next, next, FALSE))
          /\ starts[i] \in Seq(SUBSET Symbol)
      BY <2>0, <3>1, <3>3
    <3> HIDE DEF ps, sb, next, st
    <3> QED BY <3>1, <3>3, <3>4, <3>5, SettledRespects
  <2>3. ASSUME NEW k \in Provider, StartFail(k) PROVE subs'[i] \cap subs[j] \cap subs'[j] = {}
    <3> DEFINE ps   == [pstate EXCEPT ![k] = "InCooldown"]
               sb   == [subs EXCEPT ![k] = {}]
               next == (k + 1) % N
               ex   == round_exhausted \/ FinishesRound(k)
               st   == Answered(k)
    <3>1. /\ subs' = MarkSymbols(sb, Round(ps, sb, start_index, next, ex))
          /\ starts' = SpawnStarts(st, Round(ps, sb, start_index, next, ex))
      BY <2>3 DEF StartFail, Settle
    <3>2. starts[k] = <<subs[k]>>
      BY <1>1, <2>3, AttemptIs DEF StartFail
    <3>3. sb[j] = subs[j] \/ (sb[j] = {} /\ ~IsIdle(ps, j))
      BY <2>0 DEF IsIdle
    <3>4. st[i] = starts[i] \/ (st[i] = <<>> /\ starts[i] # <<>>)
      BY <2>0, <3>2 DEF Answered
    <3> HIDE DEF ps, sb, next, ex, st
    <3> QED BY ZenonT(40), <2>0, <3>1, <3>3, <3>4, SettledRespects
  <2>4. ASSUME NEW k \in Provider, SessionEnded(k) PROVE subs'[i] \cap subs[j] \cap subs'[j] = {}
    <3> DEFINE ps == [pstate EXCEPT ![k] = "InCooldown"]
               sb == [subs EXCEPT ![k] = {}]
    <3>1. /\ subs' = MarkSymbols(sb, Round(ps, sb, start_index, scan_cursor, round_exhausted))
          /\ starts' = SpawnStarts(starts, Round(ps, sb, start_index, scan_cursor, round_exhausted))
      BY <2>4 DEF SessionEnded, Settle
    <3>2. sb[j] = subs[j] \/ (sb[j] = {} /\ ~IsIdle(ps, j))
      BY <2>0 DEF IsIdle
    <3> HIDE DEF ps, sb
    <3> QED BY <2>0, <3>1, <3>2, SettledRespects
  <2>5. CASE BackoffTick
    <3> DEFINE ps == [l \in Provider |->
                        IF pstate[l] = "InCooldown" THEN "IdleFromCooldown" ELSE pstate[l]]
               si == IF attempted /\ ~AnyActive(ps) THEN 0 ELSE start_index
    <3>1. \/ starts' = starts
          \/ /\ subs' = MarkSymbols(subs, Round(ps, subs, si, si, FALSE))
             /\ starts' = SpawnStarts(starts, Round(ps, subs, si, si, FALSE))
      BY <2>5 DEF BackoffTick, Settle
    <3>2. starts' # starts
      BY <2>0
    <3> HIDE DEF ps, si
    <3>3. /\ subs' = MarkSymbols(subs, Round(ps, subs, si, si, FALSE))
          /\ starts' = SpawnStarts(starts, Round(ps, subs, si, si, FALSE))
      BY <3>1, <3>2
    <3> QED BY ZenonT(40), <2>0, <3>3, SettledRespects
  <2>6. ASSUME NEW k \in Provider, StartDropped(k) PROVE FALSE
    <3>1. starts' = [starts EXCEPT ![k] = Tail(@)] /\ starts[k] # <<>>
      BY <2>6 DEF StartDropped, Answered
    <3>2. Len(Tail(starts[k])) < Len(starts[k])
      BY <2>0, <3>1
    <3>3. \A l \in Provider : Len(starts'[l]) <= Len(starts[l])
      BY <2>0, <3>1, <3>2
    <3> QED BY <2>0, <3>3
  <2>7. ASSUME starts' = starts PROVE FALSE
    BY <2>0, <2>7
  <2>8. ASSUME Shutdown \/ AwaitAll \/ Stop \/ DropReceiver \/ Desert \/ Abort \/ Mend
               \/ \E k \in Provider : SessionSends(k) \/ UpdateSent(k)
               \/ \E l \in Provider : SessionStopped(l) \/ ProviderEnded(l) \/ SessionDownstreamGone(l)
        PROVE  starts' = starts
    BY <2>8 DEF Shutdown, AwaitAll, Stop, DropReceiver, Desert, Abort, Mend,
                SessionSends, UpdateSent, SessionStopped,
                ProviderEnded, SessionDownstreamGone, SessionEnds
  <2> QED
    BY <1>1, <2>1, <2>2, <2>3, <2>4, <2>5, <2>6, <2>7, <2>8 DEF Next
<1>2. IInv /\ [Next]_vars => [Respects]_vars
  BY <1>1
<1> QED
  BY <1>2, Inductive, PTL DEF Spec, StartsRespectPriority

-----------------------------------------------------------------------------
(* The supervisor implements StreamContract *)

\* The stage is what phase and notified say, in the states IInv allows.
LEMMA StageIs ==
    ASSUME IInv
    PROVE  /\ phase \in {"Spawned", "Startup"} => notified = "none" /\ Stage = "starting"
           /\ notified = "err" => Stage = "failed"
           /\ phase = "Running" => notified = "ok" /\ Stage = "open"
           /\ phase \in {"Closing", "Exited"} /\ notified # "err" => Stage = "closing"
           /\ phase = "Closing" => notified # "err"
  BY DEF IInv, TypeOK, Starting, Begun, Stage, Open

\* Sessions that go on for the same symbols serve the same.
LEMMA ServingKept ==
    ASSUME live' = live, \A j \in Provider : j \in live => subs'[j] = subs[j]
    PROVE  Serving' = Serving
  BY DEF Serving

LEMMA ContractInit == Init => Contract!Init
<1> SUFFICES ASSUME Init PROVE Contract!Init
  OBVIOUS
<1>1. allow \in [Provider -> SUBSET Symbol]
  BY PlansAssumption DEF Init
<1>2. Stage = "starting"
  BY DEF Init, Stage
<1>3. Serving = [i \in Provider |-> {}]
  BY DEF Init, Serving
<1> QED
  BY <1>1, <1>2, <1>3 DEF Contract!Init, Contract!Nobody

\* A successful start is a provider joining with the symbols it was asked for.
LEMMA StartOkJoins ==
    ASSUME IInv, IInv', NEW i \in Provider, StartOk(i)
    PROVE  Contract!Join(i)
<1> DEFINE syms == Head(starts[i])
           ps   == [pstate EXCEPT ![i] = "Active"]
           sb   == [subs EXCEPT ![i] = syms]
           next == (i + 1) % N
           req  == Round(ps, sb, next, next, FALSE)
<1>1. /\ Open /\ starts[i] # <<>>
      /\ pstate' = MarkConnecting(ps, req)
      /\ subs' = MarkSymbols(sb, req)
      /\ live' = live \cup {i}
      /\ notified' = IF phase = "Startup" THEN "ok" ELSE notified
      /\ phase' = "Running" /\ allow' = allow
  BY DEF StartOk, Settle
<1>2. pstate[i] = "Connecting" /\ starts[i] = <<subs[i]>>
  BY <1>1 DEF IInv, Attempts, Begun, Open
<1>3. syms = subs[i] /\ subs[i] # {} /\ subs[i] \subseteq allow[i]
  BY <1>2 DEF IInv, Held
<1>4. i \notin live
  BY <1>2 DEF IInv, Sessions
<1>5. \A j \in Provider : ps[j] = "Active" => subs'[j] = sb[j]
  <2>1. Legit(req, ps)
    BY RoundLegit
  <2> QED
    BY <1>1, <2>1 DEF Legit, IsIdle, MarkSymbols
<1>6. \A j \in Provider : j \in live \cup {i} => ps[j] = "Active" /\ sb[j] = subs[j]
  BY <1>3, <1>4 DEF IInv, TypeOK, Sessions
<1>7. \A j \in Provider : j \in live \cup {i} => subs'[j] = subs[j]
  BY <1>5, <1>6
<1> HIDE DEF ps, sb, syms, next, req
<1>8. Serving' = [Serving EXCEPT ![i] = subs[i]]
  BY <1>1, <1>7 DEF Serving
<1>9. Serving[i] = {}
  BY <1>4 DEF Serving
<1>10. Stage \in {"starting", "open"}
  BY <1>1, StageIs DEF IInv, Starting, Open
<1>11. Stage' = "open"
  <2>1. notified' = "ok"
    BY <1>1, StageIs DEF Open
  <2> QED
    BY <1>1, <2>1 DEF Stage, Open
<1> QED
  BY <1>1, <1>3, <1>8, <1>9, <1>10, <1>11 DEF Contract!Join

\* A session that ends is a provider leaving.
LEMMA SessionLeaves ==
    ASSUME IInv, NEW i \in Provider, NEW notify, SessionEnds(i, notify)
    PROVE  Contract!Leave(i)
<1>1. /\ i \in live /\ live' = live \ {i}
      /\ UNCHANGED <<allow, pstate, subs, phase, notified>>
  BY DEF SessionEnds, smVars
<1>2. subs[i] # {}
  BY <1>1 DEF IInv, Sessions, Held
<1>3. Serving[i] # {} /\ Serving' = [Serving EXCEPT ![i] = {}]
  BY <1>1, <1>2 DEF Serving
<1>4. Stage' = Stage
  BY <1>1 DEF Stage, Open
<1> QED
  BY <1>1, <1>3, <1>4 DEF Contract!Leave

\* A failed start is invisible, unless it ends the startup.
LEMMA StartFailMaps ==
    ASSUME IInv, NEW i \in Provider, StartFail(i)
    PROVE  Contract!GiveUp \/ UNCHANGED <<allow, Stage, Serving>>
<1> DEFINE ps   == [pstate EXCEPT ![i] = "InCooldown"]
           sb   == [subs EXCEPT ![i] = {}]
           next == (i + 1) % N
           exhausted == round_exhausted \/ FinishesRound(i)
           gaveUp == phase = "Startup" /\ ~AnyActive(ps) /\ exhausted
           req  == Round(ps, sb, start_index, next, exhausted)
<1>1. /\ Open /\ starts[i] # <<>>
      /\ subs' = MarkSymbols(sb, req)
      /\ phase' = IF gaveUp THEN "Exited" ELSE phase
      /\ notified' = IF gaveUp THEN "err" ELSE notified
      /\ allow' = allow /\ live' = live
  BY DEF StartFail, Settle
<1>2. pstate[i] = "Connecting"
  BY <1>1 DEF IInv, Attempts, Begun, Open
<1>3. \A j \in Provider : j \in live => ps[j] = "Active" /\ sb[j] = subs[j]
  BY <1>2 DEF IInv, TypeOK, Sessions
<1>4. \A j \in Provider : ps[j] = "Active" => subs'[j] = sb[j]
  <2>1. Legit(req, ps)
    BY RoundLegit
  <2> QED
    BY <1>1, <2>1 DEF Legit, IsIdle, MarkSymbols
<1>5. \A j \in Provider : j \in live => subs'[j] = subs[j]
  BY <1>3, <1>4
<1> HIDE DEF ps, sb, next, req
<1>6. Serving' = Serving
  BY <1>1, <1>5, ServingKept
<1>7. CASE gaveUp
  <2>1. Stage = "starting"
    BY <1>7, StageIs DEF IInv, Starting
  <2>2. Stage' = "failed"
    BY <1>1, <1>7 DEF Stage
  <2> QED
    BY <1>1, <1>6, <2>1, <2>2 DEF Contract!GiveUp
<1>8. CASE ~gaveUp
  BY <1>1, <1>6, <1>8 DEF Stage, Open
<1> QED
  BY <1>7, <1>8

\* So are a handled session end, a tick and the starts issued at first.
LEMMA SessionEndedHidden ==
    ASSUME IInv, NEW i \in Provider, SessionEnded(i)
    PROVE  UNCHANGED <<allow, Stage, Serving>>
<1> DEFINE ps  == [pstate EXCEPT ![i] = "InCooldown"]
           sb  == [subs EXCEPT ![i] = {}]
           req == Round(ps, sb, start_index, scan_cursor, round_exhausted)
<1>1. /\ i \in event_rx /\ subs' = MarkSymbols(sb, req)
      /\ UNCHANGED <<allow, phase, notified, live>>
  BY DEF SessionEnded, Settle
<1>2. \A j \in Provider : j \in live => ps[j] = "Active" /\ sb[j] = subs[j]
  BY <1>1 DEF IInv, TypeOK, Sessions
<1>3. \A j \in Provider : ps[j] = "Active" => subs'[j] = sb[j]
  <2>1. Legit(req, ps)
    BY RoundLegit
  <2> QED
    BY <1>1, <2>1 DEF Legit, IsIdle, MarkSymbols
<1>4. Serving' = Serving
  BY <1>1, <1>2, <1>3, ServingKept
<1> QED
  BY <1>1, <1>4 DEF Stage, Open

LEMMA BackoffTickHidden ==
    ASSUME IInv, BackoffTick PROVE UNCHANGED <<allow, Stage, Serving>>
<1> DEFINE ps == [i \in Provider |->
                    IF pstate[i] = "InCooldown" THEN "IdleFromCooldown" ELSE pstate[i]]
           si  == IF attempted /\ ~AnyActive(ps) THEN 0 ELSE start_index
           req == Round(ps, subs, si, si, FALSE)
<1>1. ~(round_exhausted /\ phase = "Startup")
  BY DEF IInv, Starting, BackoffTick, Begun, Open
<1>2. subs' = MarkSymbols(subs, req) /\ UNCHANGED <<allow, phase, notified, live>>
  BY <1>1 DEF BackoffTick, Settle
<1>3. \A j \in Provider : j \in live => ps[j] = "Active"
  BY DEF IInv, Sessions
<1>4. \A j \in Provider : ps[j] = "Active" => subs'[j] = subs[j]
  <2>1. Legit(req, ps)
    BY RoundLegit
  <2> QED
    BY <1>2, <2>1 DEF Legit, IsIdle, MarkSymbols, IInv, TypeOK
<1>5. Serving' = Serving
  BY <1>2, <1>3, <1>4, ServingKept
<1> QED
  BY <1>2, <1>5 DEF Stage, Open

LEMMA KickOffHidden ==
    ASSUME IInv, KickOff PROVE UNCHANGED <<allow, Stage, Serving>>
<1>1. live = {} /\ notified = "none"
  BY DEF KickOff, IInv, TypeOK, Starting, AnyActive, Sessions, Begun
<1>2. UNCHANGED <<allow, live, notified>>
  BY DEF KickOff, sessionVars
<1> QED
  BY <1>1, <1>2 DEF KickOff, Stage, Serving

\* Stopping the supervisor, or aborting its task, closes the stream.
LEMMA ShutdownCloses ==
    ASSUME IInv, Shutdown \/ Abort PROVE Contract!Close
<1> DEFINE req == Round(pstate, subs, start_index, scan_cursor, round_exhausted)
<1>1. /\ Open /\ notified # "err" /\ phase' \in {"Closing", "Exited"}
      /\ UNCHANGED <<allow, notified, live>>
      /\ subs' = subs \/ subs' = MarkSymbols(subs, req)
  BY DEF Shutdown, Abort, Open, Settle, smVars, IInv, Starting
<1>2. \A j \in Provider : j \in live => pstate[j] = "Active"
  BY DEF IInv, Sessions
<1>3. \A j \in Provider : pstate[j] = "Active" => subs'[j] = subs[j]
  <2>1. Legit(req, pstate)
    BY RoundLegit
  <2> QED
    BY <1>1, <2>1 DEF Legit, IsIdle, MarkSymbols, IInv, TypeOK
<1>4. Serving' = Serving
  BY <1>1, <1>2, <1>3, ServingKept
<1>5. Stage \in {"starting", "open"}
  BY <1>1, StageIs DEF Open
<1>6. Stage' = "closing"
  BY <1>1 DEF Stage, Open, IInv, TypeOK
<1> QED
  BY <1>1, <1>4, <1>5, <1>6 DEF Contract!Close

LEMMA ContractStep ==
    ASSUME IInv, IInv', [Next]_vars
    PROVE  [Contract!Next]_(Contract!vars)
<1> USE DEF Contract!vars
<1>1. ASSUME NEW i \in Provider, StartOk(i) PROVE Contract!Next
  BY <1>1, StartOkJoins DEF Contract!Next
<1>2. ASSUME NEW i \in Provider, StartFail(i)
      PROVE  Contract!GiveUp \/ UNCHANGED <<allow, Stage, Serving>>
  BY <1>2, StartFailMaps
<1>3. ASSUME NEW i \in Provider,
             SessionStopped(i) \/ ProviderEnded(i) \/ SessionDownstreamGone(i)
      PROVE  Contract!Next
  BY <1>3, SessionLeaves
     DEF SessionStopped, ProviderEnded, SessionDownstreamGone, Contract!Next
<1>4. ASSUME NEW i \in Provider, SessionEnded(i) PROVE UNCHANGED <<allow, Stage, Serving>>
  BY <1>4, SessionEndedHidden
<1>5. CASE KickOff
  BY <1>5, KickOffHidden
<1>6. CASE BackoffTick
  BY <1>6, BackoffTickHidden
<1>7. CASE Shutdown \/ Abort
  BY <1>7, ShutdownCloses DEF Contract!Next
<1>8. CASE AwaitAll
  <2>1. phase = "Closing" /\ phase' = "Exited" /\ UNCHANGED <<allow, notified, live, subs>>
    BY <1>8 DEF AwaitAll, smVars, sessionVars
  <2>2. notified # "err"
    BY <2>1, StageIs
  <2> QED
    BY <2>1, <2>2 DEF Stage, Open, Serving
<1>9. ASSUME NEW i \in Provider, StartDropped(i) PROVE UNCHANGED <<allow, Stage, Serving>>
  BY <1>9 DEF StartDropped, smVars, sessionVars, Stage, Open, Serving
<1>10. CASE Stop \/ DropReceiver \/ Desert \/ Mend
  BY <1>10 DEF Stop, DropReceiver, Desert, Mend, smVars, sessionVars, Stage, Open, Serving
<1>12. ASSUME NEW i \in Provider, SessionSends(i) \/ UpdateSent(i)
       PROVE  UNCHANGED <<allow, Stage, Serving>>
  BY <1>12 DEF SessionSends, UpdateSent, smVars, Stage, Open, Serving
<1>11. CASE UNCHANGED vars
  BY <1>11 DEF vars, smVars, sessionVars, Stage, Open, Serving
<1> QED
  BY <1>1, <1>2, <1>3, <1>4, <1>5, <1>6, <1>7, <1>8, <1>9, <1>10, <1>11,
     <1>12 DEF Next, Contract!Next

\* Every behaviour of the supervisor is one that StreamContract allows.
THEOREM Implementation == Spec => ImplementsContract
  BY ContractInit, ContractStep, Inductive, PTL
     DEF Spec, ImplementsContract, Contract!Spec

-----------------------------------------------------------------------------
(* No idle provider is left with work.  What a scan leaves undone can only    *)
(* lie beyond start_index; that up to three providers leave nothing needs a   *)
(* second fact, that the provider behind a cursor that has moved is in its    *)
(* cooldown.                                                                  *)

\* A set of providers has a first one.
LEMMA FirstOf ==
    ASSUME NEW S \in SUBSET Provider, S # {}
    PROVE  \E m \in S : \A j \in S : m <= j
<1>1. S \in SUBSET Nat
  BY DEF Provider
<1> QED
  BY <1>1, LeastNatural

\* the remainders that the code computes, without the remainder
LEMMA NextIs ==
    ASSUME NEW k \in Provider
    PROVE  (k + 1) % N = IF k = N - 1 THEN 0 ELSE k + 1
  BY NAssumption DEF Provider

LEMMA DistanceIs ==
    ASSUME NEW f \in Provider, NEW t \in Provider
    PROVE  Distance(f, t) = IF f <= t THEN t - f ELSE t - f + N
<1>1. CASE f <= t
  <2>1. t - f \in 0..(N - 1)
    BY <1>1, NAssumption DEF Provider
  <2> QED
    BY <1>1, <2>1, NAssumption DEF Distance
<1>2. CASE t < f
  <2>1. t - f + N \in 0..(N - 1) /\ t - f = (-1) * N + (t - f + N)
    BY <1>2, NAssumption DEF Provider
  <2> QED
    BY <1>2, <2>1, NAssumption DEF Distance, Provider
<1> QED
  BY <1>1, <1>2 DEF Provider

\* With at most three providers, the one that a scan does not reach is next to
\* the cursor: it is the provider right behind it or lies in front of the one
\* that has just given up its symbols.
LEMMA ThreeScanned ==
    ASSUME N <= 3, NEW sc \in Provider, NEW si \in Provider,
           NEW i \in Provider, i \notin Scanned(sc, si),
           NEW k \in Provider, k < i
    PROVE  sc # si /\ ((i + 1) % N = sc) /\ sc # (k + 1) % N
<1>1. sc # si /\ ~(Distance(sc, i) <= Distance(sc, si))
  BY DEF Scanned
<1>2. /\ N \in 1..3 /\ i \in 0..2 /\ k \in 0..2 /\ sc \in 0..2 /\ si \in 0..2
      /\ i < N /\ sc < N /\ si < N
  BY NAssumption DEF Provider
<1>3. /\ Distance(sc, i) = IF sc <= i THEN i - sc ELSE i - sc + N
      /\ Distance(sc, si) = IF sc <= si THEN si - sc ELSE si - sc + N
  BY DistanceIs
<1>4. /\ (i + 1) % N = IF i = N - 1 THEN 0 ELSE i + 1
      /\ (k + 1) % N = IF k = N - 1 THEN 0 ELSE k + 1
  BY NextIs
<1> QED
  BY <1>1, <1>2, <1>3, <1>4

-----------------------------------------------------------------------------
(* What a round leaves undone *)

Work(ps, sb, i) == IsIdle(ps, i) /\ Needed(allow, sb, i) # {}

\* A provider that has work after a round had it before, and the scan did not
\* reach it.
LEMMA RoundLeaves ==
    ASSUME NEW ps, NEW sb, Held(ps, sb), NEW si, NEW sc \in Provider,
           allow \in [Provider -> SUBSET Symbol],
           NEW req, req = Round(ps, sb, si, sc, FALSE),
           NEW i \in Provider, Work(MarkConnecting(ps, req), MarkSymbols(sb, req), i)
    PROVE  i \notin Scanned(sc, si) /\ Work(ps, sb, i)
<1> DEFINE sb2 == MarkSymbols(sb, req)
<1>1. Legit(req, ps)
  BY RoundLegit
<1>2. req[i] = {} /\ IsIdle(ps, i)
  BY DEF Work, IsIdle, MarkConnecting
<1>3. PICK s \in Needed(allow, sb2, i) : TRUE
  BY DEF Work
<1>4. \A j \in Provider : sb[j] \subseteq sb2[j]
  <2> TAKE j \in Provider
  <2>1. CASE req[j] = {}
    BY <2>1 DEF MarkSymbols
  <2>2. CASE req[j] # {}
    <3>1. sb[j] = {}
      BY <1>1, <2>2 DEF Legit, Held, IsIdle
    <3> QED
      BY <3>1
  <2> QED
    BY <2>1, <2>2
<1> HIDE DEF sb2
<1>5. s \in Needed(allow, sb, i) /\ ~HeldBefore(sb2, i, s) /\ s \in Symbol
  BY <1>3, <1>4 DEF Needed, Covered, HeldBefore
<1>6. req = [j \in Provider |-> Takes(allow, ps, sb, sc, si, j)]
  BY <1>2, <1>5 DEF Round, HasWork, Requests
<1>7. ASSUME i \in Scanned(sc, si) PROVE FALSE
  <2> DEFINE Earlier == {j \in Provider : /\ j < i /\ Distance(sc, j) < Distance(sc, i)
                                          /\ Candidate(allow, ps, sb, sc, si, j, s)}
  <2>1. Candidate(allow, ps, sb, sc, si, i, s)
    BY <1>2, <1>5, <1>7 DEF Candidate
  <2>2. Earlier # {}
    BY <1>2, <1>5, <1>6, <2>1 DEF Takes
  <2>3. PICK m \in Earlier : \A j \in Earlier : m <= j
    BY <2>2, FirstOf
  <2>4. ASSUME NEW j \in Provider, j < m, Distance(sc, j) < Distance(sc, m)
        PROVE  ~Candidate(allow, ps, sb, sc, si, j, s)
    <3>1. \A k \in Provider : Distance(sc, k) \in Int
      <4> TAKE k \in Provider
      <4>1. Distance(sc, k) = IF sc <= k THEN k - sc ELSE k - sc + N
        BY DistanceIs
      <4> QED
        BY <4>1, NAssumption DEF Provider
    <3>2. Distance(sc, j) < Distance(sc, i) /\ j < i
      <4>1. i \in Int /\ j \in Int /\ m \in Int /\ m \in Provider
        BY <2>3, NAssumption DEF Provider
      <4> QED
        BY <2>3, <2>4, <3>1, <4>1
    <3>3. ~(m <= j)
      BY <2>3, <2>4, NAssumption DEF Provider
    <3> QED
      BY <2>3, <3>2, <3>3
  <2>5. s \in req[m]
    BY <1>5, <1>6, <2>3, <2>4 DEF Takes
  <2>6. s \in sb2[m] /\ m \in Provider /\ m < i
    BY <2>3, <2>5 DEF sb2, MarkSymbols
  <2> QED
    BY <1>5, <2>6 DEF HeldBefore
<1> QED
  BY <1>2, <1>5, <1>7 DEF Work

-----------------------------------------------------------------------------
(* The steps *)

\* Before the first step the cursor is at the start.  Afterwards, when it is
\* not, the provider it has just left has failed and is in its cooldown: a
\* tick, which ends the cooldown, brings the cursor back.
CursorInv ==
    /\ phase = "Spawned" => scan_cursor = start_index
    /\ Open /\ scan_cursor # start_index =>
          \A k \in Provider : (k + 1) % N = scan_cursor => pstate[k] = "InCooldown"

WInv == IInv /\ CursorInv /\ NoIdleWork

\* A handler that does not work on an exhausted round: ps and sb are the
\* provider states before its trailing scan.
LEMMA SettledWork ==
    ASSUME allow \in [Provider -> SUBSET Symbol], allow' = allow,
           NEW ps, NEW sb, Held(ps, sb),
           scan_cursor' \in Provider, start_index' \in Provider,
           ~round_exhausted' =>
              /\ pstate' = MarkConnecting(ps, Round(ps, sb, start_index', scan_cursor', FALSE))
              /\ subs' = MarkSymbols(sb, Round(ps, sb, start_index', scan_cursor', FALSE)),
           ~round_exhausted' /\ N <= 3 =>
              \A i \in Provider : Work(ps, sb, i) => i \in Scanned(scan_cursor', start_index')
    PROVE  NoIdleWork'
<1> SUFFICES ASSUME ~round_exhausted', NEW i \in Provider,
                    IsIdle(pstate', i), Needed(allow, subs', i) # {}
             PROVE  N > 3 /\ i \notin Scanned(scan_cursor', start_index')
  BY DEF NoIdleWork, Open, IsIdle, Needed, Covered, HeldBefore, Scanned
<1> DEFINE sc == scan_cursor'
           si == start_index'
           req == Round(ps, sb, si, sc, FALSE)
<1>1. Work(MarkConnecting(ps, req), MarkSymbols(sb, req), i)
  BY DEF Work
<1> HIDE DEF req
<1>2. i \notin Scanned(sc, si) /\ Work(ps, sb, i)
  BY <1>1, RoundLeaves DEF req
<1>3. N > 3
  BY <1>2, NAssumption
<1> QED
  BY <1>2, <1>3

\* What the steps below have in common.
LEMMA Frame ==
    ASSUME IInv, [Next]_vars
    PROVE  /\ IInv'
           /\ pstate \in [Provider -> ProviderState] /\ subs \in [Provider -> SUBSET Symbol]
           /\ Held(pstate, subs)
           /\ allow \in [Provider -> SUBSET Symbol]
           /\ scan_cursor \in Provider /\ start_index \in Provider
           /\ scan_cursor' \in Provider /\ start_index' \in Provider
<1>1. IInv'
  BY NextInv
<1>2. scan_cursor' \in Provider /\ start_index' \in Provider
  BY <1>1 DEF IInv, TypeOK
<1> QED
  BY <1>1, <1>2, PlansAssumption DEF IInv, TypeOK

\* A cursor at the start scans the whole ring.
LEMMA WholeRing == \A sc \in Provider : Scanned(sc, sc) = Provider
  BY DEF Scanned

\* A provider that releases its symbols gives work only to those behind it in
\* priority.
LEMMA Released ==
    ASSUME Held(pstate, subs), NEW k \in Provider,
           pstate \in [Provider -> ProviderState], subs \in [Provider -> SUBSET Symbol],
           NEW i \in Provider,
           Work([pstate EXCEPT ![k] = "InCooldown"], [subs EXCEPT ![k] = {}], i)
    PROVE  /\ IsIdle(pstate, i) /\ i # k
           /\ Work(pstate, subs, i) \/ k < i
<1> DEFINE ps == [pstate EXCEPT ![k] = "InCooldown"]
           sb == [subs EXCEPT ![k] = {}]
<1>1. i # k /\ IsIdle(pstate, i)
  BY DEF Work, IsIdle
<1>2. PICK s \in Needed(allow, sb, i) : TRUE
  BY DEF Work
<1>3. \A j \in Provider : sb[j] = IF j = k THEN {} ELSE subs[j]
  OBVIOUS
<1> HIDE DEF sb
<1>4. CASE s \in Needed(allow, subs, i)
  BY <1>1, <1>4 DEF Work
<1>5. CASE s \notin Needed(allow, subs, i)
  <2>1. s \in allow[i] /\ HeldBefore(subs, i, s) /\ ~HeldBefore(sb, i, s)
    BY <1>2, <1>5 DEF Needed, Covered, HeldBefore
  <2>2. k < i
    BY <1>3, <2>1 DEF HeldBefore
  <2> QED
    BY <1>1, <2>2
<1> QED
  BY <1>4, <1>5

LEMMA KickOffWork == WInv /\ KickOff => WInv'
<1> SUFFICES ASSUME WInv, KickOff PROVE WInv'
  OBVIOUS
<1>1. /\ IInv /\ IInv' /\ Held(pstate, subs)
      /\ allow \in [Provider -> SUBSET Symbol]
      /\ scan_cursor' \in Provider /\ start_index' \in Provider
  BY Frame DEF WInv, Next
<1>2. /\ allow' = allow /\ phase = "Spawned" /\ phase' = "Startup"
      /\ scan_cursor' = scan_cursor /\ start_index' = start_index
      /\ round_exhausted' = round_exhausted
      /\ pstate' = MarkConnecting(pstate, Round(pstate, subs, start_index, scan_cursor, round_exhausted))
      /\ subs' = MarkSymbols(subs, Round(pstate, subs, start_index, scan_cursor, round_exhausted))
  BY DEF KickOff
<1>3. scan_cursor' = start_index' /\ ~round_exhausted
  BY <1>1, <1>2 DEF WInv, CursorInv, IInv, Starting, Begun
<1>4. ~round_exhausted' =>
        /\ pstate' = MarkConnecting(pstate, Round(pstate, subs, start_index', scan_cursor', FALSE))
        /\ subs' = MarkSymbols(subs, Round(pstate, subs, start_index', scan_cursor', FALSE))
  <2>1. ~round_exhausted' => round_exhausted = FALSE
    BY <1>1, <1>2 DEF IInv, TypeOK
  <2> QED
    BY <1>2, <2>1
<1>5. NoIdleWork'
  BY <1>1, <1>2, <1>3, <1>4, WholeRing, SettledWork
<1>6. CursorInv'
  BY <1>2, <1>3 DEF CursorInv
<1> QED
  BY <1>1, <1>5, <1>6 DEF WInv

LEMMA StartOkWork == ASSUME WInv, NEW k \in Provider, StartOk(k) PROVE WInv'
<1> DEFINE ps   == [pstate EXCEPT ![k] = "Active"]
           sb   == [subs EXCEPT ![k] = Head(starts[k])]
           next == (k + 1) % N
<1>1. /\ IInv /\ IInv' /\ Held(pstate, subs)
      /\ pstate \in [Provider -> ProviderState] /\ subs \in [Provider -> SUBSET Symbol]
      /\ allow \in [Provider -> SUBSET Symbol]
      /\ scan_cursor' \in Provider /\ start_index' \in Provider
  BY Frame DEF WInv, Next
<1>2. /\ allow' = allow /\ phase' = "Running"
      /\ scan_cursor' = next /\ start_index' = next
      /\ pstate' = MarkConnecting(ps, Round(ps, sb, next, next, FALSE))
      /\ subs' = MarkSymbols(sb, Round(ps, sb, next, next, FALSE))
  BY DEF StartOk, Settle
<1>3. starts[k] = <<subs[k]>> /\ Head(starts[k]) = subs[k] /\ pstate[k] = "Connecting"
  <2>1. starts[k] = <<subs[k]>> /\ Head(starts[k]) = subs[k] /\ Open /\ starts[k] # <<>>
    BY <1>1, AttemptIs DEF StartOk
  <2>2. Attempts(pstate, subs, starts)
    BY <1>1, <2>1 DEF IInv, Begun, Open
  <2> QED
    BY <2>1, <2>2 DEF Attempts
<1>4. Held(ps, sb)
  BY <1>1, <1>3 DEF Held
<1> HIDE DEF ps, sb, next
<1>5. NoIdleWork'
  BY <1>1, <1>2, <1>4, WholeRing, SettledWork
<1>6. CursorInv'
  BY <1>2 DEF CursorInv
<1> QED
  BY <1>1, <1>5, <1>6 DEF WInv

LEMMA StartFailWork == ASSUME WInv, NEW k \in Provider, StartFail(k) PROVE WInv'
<1> DEFINE ps   == [pstate EXCEPT ![k] = "InCooldown"]
           sb   == [subs EXCEPT ![k] = {}]
           next == (k + 1) % N
           exhausted == round_exhausted \/ FinishesRound(k)
<1>1. /\ IInv /\ IInv' /\ Held(pstate, subs)
      /\ pstate \in [Provider -> ProviderState] /\ subs \in [Provider -> SUBSET Symbol]
      /\ allow \in [Provider -> SUBSET Symbol]
      /\ scan_cursor' \in Provider /\ start_index' \in Provider
  BY Frame DEF WInv, Next
<1>2. /\ allow' = allow /\ Open /\ phase' # "Spawned"
      /\ scan_cursor' = next /\ start_index' = start_index
      /\ round_exhausted' = exhausted
      /\ pstate' = MarkConnecting(ps, Round(ps, sb, start_index, next, exhausted))
      /\ subs' = MarkSymbols(sb, Round(ps, sb, start_index, next, exhausted))
  BY DEF StartFail, Settle, Open
<1>3. Held(ps, sb)
  BY <1>1 DEF Held
<1>4. ASSUME ~exhausted, N <= 3, NEW i \in Provider, Work(ps, sb, i)
      PROVE  i \in Scanned(next, start_index)
  <2>1. ~Work(pstate, subs, i)
    BY <1>2, <1>4, NAssumption DEF WInv, NoIdleWork, Work
  <2>2. k < i
    BY <1>1, <1>4, <2>1, Released
  <2> QED
    BY <1>1, <1>2, <1>4, <2>2, ThreeScanned
<1>5. \A j \in Provider : (j + 1) % N = next => j = k
  <2> TAKE j \in Provider
  <2>1. /\ (j + 1) % N = IF j = N - 1 THEN 0 ELSE j + 1
        /\ (k + 1) % N = IF k = N - 1 THEN 0 ELSE k + 1
    BY NextIs
  <2> QED
    BY <2>1, NAssumption DEF Provider
<1>6. pstate'[k] = "InCooldown"
  <2>1. ps[k] = "InCooldown"
    BY <1>1
  <2> HIDE DEF ps, sb, exhausted
  <2>2. Legit(Round(ps, sb, start_index, next, exhausted), ps)
    BY RoundLegit
  <2> QED
    BY <1>2, <2>1, <2>2 DEF Legit, IsIdle, MarkConnecting
<1>7. CursorInv'
  BY <1>2, <1>5, <1>6 DEF CursorInv
<1>8. ~round_exhausted' =>
        /\ pstate' = MarkConnecting(ps, Round(ps, sb, start_index', scan_cursor', FALSE))
        /\ subs' = MarkSymbols(sb, Round(ps, sb, start_index', scan_cursor', FALSE))
  <2>1. ~round_exhausted' => exhausted = FALSE
    BY <1>1, <1>2 DEF IInv, TypeOK, FinishesRound
  <2> QED
    BY <1>2, <2>1
<1> HIDE DEF ps, sb, next, exhausted
<1>9. NoIdleWork'
  <2>1. ~round_exhausted' /\ N <= 3 =>
           \A i \in Provider : Work(ps, sb, i) => i \in Scanned(scan_cursor', start_index')
    BY <1>2, <1>4
  <2> QED
    BY <1>1, <1>2, <1>3, <1>8, <2>1, SettledWork
<1> QED
  BY <1>1, <1>7, <1>9 DEF WInv

LEMMA SessionEndedWork == ASSUME WInv, NEW k \in Provider, SessionEnded(k) PROVE WInv'
<1> DEFINE ps == [pstate EXCEPT ![k] = "InCooldown"]
           sb == [subs EXCEPT ![k] = {}]
<1>1. /\ IInv /\ IInv' /\ Held(pstate, subs)
      /\ pstate \in [Provider -> ProviderState] /\ subs \in [Provider -> SUBSET Symbol]
      /\ allow \in [Provider -> SUBSET Symbol]
      /\ scan_cursor' \in Provider /\ start_index' \in Provider
  BY Frame DEF WInv, Next
<1>2. /\ allow' = allow /\ Open /\ phase' = phase
      /\ scan_cursor' = scan_cursor /\ start_index' = start_index
      /\ round_exhausted' = round_exhausted
      /\ pstate' = MarkConnecting(ps, Round(ps, sb, start_index, scan_cursor, round_exhausted))
      /\ subs' = MarkSymbols(sb, Round(ps, sb, start_index, scan_cursor, round_exhausted))
  BY DEF SessionEnded, Settle
<1>3. Held(ps, sb)
  BY <1>1 DEF Held
<1>4. ASSUME ~round_exhausted, N <= 3, NEW i \in Provider, Work(ps, sb, i)
      PROVE  i \in Scanned(scan_cursor, start_index)
  <2> SUFFICES ASSUME i \notin Scanned(scan_cursor, start_index) PROVE FALSE
    OBVIOUS
  <2>1. ~Work(pstate, subs, i)
    BY <1>2, <1>4, NAssumption DEF WInv, NoIdleWork, Work
  <2>2. k < i /\ IsIdle(pstate, i)
    BY <1>1, <1>4, <2>1, Released
  <2>3. scan_cursor # start_index /\ (i + 1) % N = scan_cursor
    BY <1>1, <1>2, <1>4, <2>2, ThreeScanned
  <2> QED
    BY <1>2, <2>2, <2>3 DEF WInv, CursorInv, IsIdle
<1>5. \A j \in Provider : pstate[j] = "InCooldown" => pstate'[j] = "InCooldown"
  <2>1. \A j \in Provider : pstate[j] = "InCooldown" => ps[j] = "InCooldown"
    BY <1>1
  <2> HIDE DEF ps, sb
  <2>2. Legit(Round(ps, sb, start_index, scan_cursor, round_exhausted), ps)
    BY RoundLegit
  <2> QED
    BY <1>2, <2>1, <2>2 DEF Legit, IsIdle, MarkConnecting
<1>6. CursorInv'
  BY <1>2, <1>5 DEF WInv, CursorInv, Open
<1>7. ~round_exhausted' =>
        /\ pstate' = MarkConnecting(ps, Round(ps, sb, start_index', scan_cursor', FALSE))
        /\ subs' = MarkSymbols(sb, Round(ps, sb, start_index', scan_cursor', FALSE))
  <2>1. ~round_exhausted' => round_exhausted = FALSE
    BY <1>1, <1>2 DEF IInv, TypeOK
  <2> QED
    BY <1>2, <2>1
<1> HIDE DEF ps, sb
<1>8. NoIdleWork'
  <2>1. ~round_exhausted' /\ N <= 3 =>
           \A i \in Provider : Work(ps, sb, i) => i \in Scanned(scan_cursor', start_index')
    BY <1>2, <1>4
  <2> QED
    BY <1>1, <1>2, <1>3, <1>7, <2>1, SettledWork
<1> QED
  BY <1>1, <1>6, <1>8 DEF WInv

LEMMA BackoffTickWork == WInv /\ BackoffTick => WInv'
<1> SUFFICES ASSUME WInv, BackoffTick PROVE WInv'
  OBVIOUS
<1> DEFINE ps == [i \in Provider |->
                    IF pstate[i] = "InCooldown" THEN "IdleFromCooldown" ELSE pstate[i]]
           si == IF attempted /\ ~AnyActive(ps) THEN 0 ELSE start_index
<1>1. /\ IInv /\ IInv' /\ Held(pstate, subs)
      /\ pstate \in [Provider -> ProviderState]
      /\ allow \in [Provider -> SUBSET Symbol]
      /\ scan_cursor' \in Provider /\ start_index' \in Provider
  BY Frame DEF WInv, Next
<1>2. ~(round_exhausted /\ phase = "Startup")
  BY <1>1 DEF IInv, Starting, Begun, BackoffTick, Open
<1>3. /\ allow' = allow /\ Open /\ phase' = phase
      /\ scan_cursor' = si /\ start_index' = si
      /\ pstate' = MarkConnecting(ps, Round(ps, subs, si, si, FALSE))
      /\ subs' = MarkSymbols(subs, Round(ps, subs, si, si, FALSE))
  BY <1>2 DEF BackoffTick, Settle
<1>4. Held(ps, subs)
  BY <1>1 DEF Held
<1> HIDE DEF ps, si
<1>5. NoIdleWork'
  BY <1>1, <1>3, <1>4, WholeRing, SettledWork
<1>6. CursorInv'
  BY <1>3 DEF CursorInv, Open
<1> QED
  BY <1>1, <1>5, <1>6 DEF WInv

LEMMA InitWork == Init => WInv
  BY InitInv DEF Init, WInv, CursorInv, NoIdleWork, Open

LEMMA NextWork == WInv /\ [Next]_vars => WInv'
<1> SUFFICES ASSUME WInv, [Next]_vars PROVE WInv'
  OBVIOUS
<1>0. IInv'
  BY NextInv DEF WInv
<1>1. CASE KickOff
  BY <1>1, KickOffWork
<1>2. CASE BackoffTick
  BY <1>2, BackoffTickWork
<1>3. ASSUME NEW k \in Provider, StartOk(k) \/ StartFail(k) \/ SessionEnded(k) PROVE WInv'
  BY <1>3, StartOkWork, StartFailWork, SessionEndedWork
<1>4. CASE Shutdown \/ AwaitAll \/ Abort \/ \E k \in Provider : StartDropped(k)
  <2>1. phase' \in {"Closing", "Exited"}
    BY <1>4 DEF Shutdown, AwaitAll, Abort, StartDropped
  <2> QED
    BY <1>0, <2>1 DEF WInv, CursorInv, NoIdleWork, Open
<1>5. ASSUME \/ Stop \/ DropReceiver \/ Desert \/ Mend \/ UNCHANGED vars
             \/ \E k \in Provider : SessionSends(k) \/ UpdateSent(k)
             \/ \E k \in Provider : SessionStopped(k) \/ ProviderEnded(k) \/ SessionDownstreamGone(k)
      PROVE  WInv'
  <2>1. UNCHANGED <<allow, pstate, subs, start_index, scan_cursor, round_exhausted, phase>>
    BY <1>5 DEF Stop, DropReceiver, Desert, Mend, vars, smVars, SessionSends, UpdateSent,
                SessionStopped, ProviderEnded,
                SessionDownstreamGone, SessionEnds
  <2>2. CursorInv'
    BY <2>1 DEF WInv, CursorInv, Open
  <2>3. NoIdleWork'
    BY <2>1 DEF WInv, NoIdleWork, Open, IsIdle, Needed, Covered, HeldBefore, Scanned
  <2> QED
    BY <1>0, <2>2, <2>3 DEF WInv
<1> QED
  BY <1>1, <1>2, <1>3, <1>4, <1>5 DEF Next

\* In an open round every idle provider that could take a symbol has been
\* asked, but for those beyond start_index in a chain of more than three.
THEOREM NobodyIsForgotten == Spec => []NoIdleWork
<1>1. WInv => NoIdleWork
  BY DEF WInv
<1> QED
  BY <1>1, InitWork, NextWork, PTL DEF Spec

-----------------------------------------------------------------------------
(* The scan in closed form is the loop *)

\* What the whole ring takes: the closed form, without the end of the scan.
Share(ps, sb, sc, i) == Takes(allow, ps, sb, sc, sc, i)

\* What the loop has made of a view once it has visited the providers up to
\* distance k from the cursor.
VisitedTo(view, sc, k) ==
    LET got(i) == Distance(sc, i) <= k /\ Share(view.ps, view.sb, sc, i) # {}
    IN  [ps |-> [i \in Provider |-> IF got(i) THEN "Connecting" ELSE view.ps[i]],
         sb |-> [i \in Provider |-> IF got(i) THEN Share(view.ps, view.sb, sc, i)
                                               ELSE view.sb[i]]]

ViewType == [ps : [Provider -> ProviderState], sb : [Provider -> SUBSET Symbol]]

\* A symbol that is not covered is not held before, so the first disjunct of
\* should_include_instrument adds nothing.
LEMMA NeededIs ==
    ASSUME NEW sb, NEW i \in Provider
    PROVE  Needed(allow, sb, i) = {s \in allow[i] : ~HeldBefore(sb, i, s)}
BY DEF Needed, Covered, HeldBefore

LEMMA VisitType ==
    ASSUME NEW view \in ViewType, NEW i \in Provider, allow \in [Provider -> SUBSET Symbol]
    PROVE  Visit(allow, view, i) \in ViewType
<1>1. Needed(allow, view.sb, i) \in SUBSET Symbol
  BY DEF Needed
<1> HIDE DEF Needed
<1>2. view.ps \in [Provider -> ProviderState] /\ view.sb \in [Provider -> SUBSET Symbol]
  BY DEF ViewType
<1> DEFINE p == [view.ps EXCEPT ![i] = "Connecting"]
           b == [view.sb EXCEPT ![i] = Needed(allow, view.sb, i)]
<1>3. p \in [Provider -> ProviderState] /\ b \in [Provider -> SUBSET Symbol]
  BY <1>1, <1>2 DEF ProviderState
<1> HIDE DEF p, b
<1>4. [ps |-> p, sb |-> b] \in ViewType
  BY <1>3 DEF ViewType
<1> QED
  BY <1>4 DEF Visit, p, b

LEMMA DistanceNat ==
    ASSUME NEW f \in Provider, NEW t \in Provider
    PROVE  Distance(f, t) \in 0..(N - 1) /\ (f + Distance(f, t)) % N = t
<1>1. Distance(f, t) = IF f <= t THEN t - f ELSE t - f + N
  BY DistanceIs
<1>2. Distance(f, t) \in 0..(N - 1)
  BY <1>1, NAssumption DEF Provider
<1>3. CASE f <= t
  BY <1>1, <1>3, NAssumption DEF Provider
<1>4. CASE t < f
  <2>1. t \in 0..(N - 1) /\ f + Distance(f, t) = 1 * N + t /\ f + Distance(f, t) \in Int
    BY <1>1, <1>4, NAssumption DEF Provider
  <2> QED
    BY <1>2, <2>1, NAssumption
<1> QED
  BY <1>2, <1>3, <1>4 DEF Provider

\* The k-th turn of the loop is at the provider of distance k.
LEMMA TurnIs ==
    ASSUME NEW sc \in Provider, NEW k \in 0..(N - 1)
    PROVE  (sc + k) % N \in Provider /\ Distance(sc, (sc + k) % N) = k
<1>1. (sc + k) % N = IF sc + k < N THEN sc + k ELSE sc + k - N
  <2>1. CASE sc + k < N
    BY <2>1, NAssumption DEF Provider
  <2>2. CASE sc + k >= N
    <3>1. sc + k - N \in 0..(N - 1) /\ sc + k = 1 * N + (sc + k - N)
      BY <2>2, NAssumption DEF Provider
    <3> QED
      BY <2>2, <3>1, NAssumption DEF Provider
  <2> QED
    BY <2>1, <2>2, NAssumption DEF Provider
<1>2. (sc + k) % N \in Provider
  BY <1>1, NAssumption DEF Provider
<1>3. Distance(sc, (sc + k) % N) =
          IF sc <= (sc + k) % N THEN ((sc + k) % N) - sc ELSE ((sc + k) % N) - sc + N
  BY <1>2, DistanceIs
<1> QED
  BY <1>1, <1>2, <1>3, NAssumption DEF Provider

\* The providers are told apart by their distance.
LEMMA DistanceInjective ==
    ASSUME NEW sc \in Provider, NEW i \in Provider, NEW j \in Provider,
           Distance(sc, i) = Distance(sc, j)
    PROVE  i = j
BY DistanceNat

\* What a provider needs, as the loop sees it at its turn, is its share of the
\* scan: what those in front of it did not take.
LEMMA NeededAtTurn ==
    ASSUME allow \in [Provider -> SUBSET Symbol], NEW view \in ViewType,
           Held(view.ps, view.sb), NEW sc \in Provider, NEW i \in Provider,
           IsIdle(view.ps, i)
    PROVE  Needed(allow, VisitedTo(view, sc, Distance(sc, i) - 1).sb, i)
               = Share(view.ps, view.sb, sc, i)
<1> DEFINE ps == view.ps
           sb == view.sb
           D(j) == Distance(sc, j)
           seen == VisitedTo(view, sc, D(i) - 1).sb
           Wants(j, s) == IsIdle(ps, j) /\ s \in Needed(allow, sb, j)
<1>1. \A j \in Provider : D(j) \in Nat
  BY DistanceNat
<1>2. \A j \in Provider : \A s : s \in Share(ps, sb, sc, j) <=>
          /\ Wants(j, s)
          /\ \A k \in Provider : k < j /\ D(k) < D(j) => ~Wants(k, s)
  <2>1. \A j \in Provider : j \in Scanned(sc, sc)
    BY DEF Scanned
  <2>2. \A j \in Provider : \A s : s \in Needed(allow, sb, j) => s \in Symbol
    BY DEF Needed
  <2> QED
    BY <2>1, <2>2 DEF Share, Takes, Candidate
<1>3. \A j \in Provider : Share(ps, sb, sc, j) # {} => sb[j] = {}
  BY <1>2 DEF Held, IsIdle
<1>4. \A j \in Provider : seen[j] = sb[j] \union
          (IF D(j) < D(i) THEN Share(ps, sb, sc, j) ELSE {})
  <2> TAKE j \in Provider
  <2>1. D(j) <= D(i) - 1 <=> D(j) < D(i)
    BY <1>1
  <2>2. seen[j] = IF D(j) < D(i) /\ Share(ps, sb, sc, j) # {} THEN Share(ps, sb, sc, j)
                  ELSE sb[j]
    BY <2>1 DEF VisitedTo
  <2> QED
    BY <1>3, <2>2
<1> HIDE DEF seen, D
<1>5. ASSUME NEW s \in allow[i]
      PROVE  HeldBefore(seen, i, s) <=>
                \/ HeldBefore(sb, i, s)
                \/ \E j \in Provider : j < i /\ D(j) < D(i) /\ s \in Share(ps, sb, sc, j)
  BY <1>4 DEF HeldBefore
<1>6. ASSUME NEW s, NEW j \in Provider, j < i, D(j) < D(i), Wants(j, s)
      PROVE  \E m \in Provider : m < i /\ D(m) < D(i) /\ s \in Share(ps, sb, sc, m)
  <2> DEFINE Front == {k \in Provider : k < i /\ D(k) < D(i) /\ Wants(k, s)}
  <2>1. Front # {} /\ Front \in SUBSET Provider
    BY <1>6
  <2>2. PICK m \in Front : \A k \in Front : m <= k
    BY <2>1, FirstOf
  <2>3. m \in Provider /\ m < i /\ D(m) < D(i) /\ Wants(m, s)
    BY <2>2
  <2>4. ASSUME NEW k \in Provider, k < m, D(k) < D(m), Wants(k, s) PROVE FALSE
    <3>1. k < i /\ D(k) < D(i) /\ ~(m <= k)
      BY <1>1, <2>3, <2>4 DEF Provider
    <3> QED
      BY <2>2, <2>4, <3>1
  <2>5. s \in Share(ps, sb, sc, m)
    BY <1>2, <2>3, <2>4
  <2> QED
    BY <2>3, <2>5
<1>7. ASSUME NEW s
      PROVE  s \in Needed(allow, seen, i) <=> s \in Share(ps, sb, sc, i)
  <2>1. s \in Needed(allow, seen, i) <=> s \in allow[i] /\ ~HeldBefore(seen, i, s)
    BY NeededIs
  <2>2. s \in Needed(allow, sb, i) <=> s \in allow[i] /\ ~HeldBefore(sb, i, s)
    BY NeededIs
  <2>3. s \in Needed(allow, seen, i) <=>
            /\ Wants(i, s)
            /\ ~\E j \in Provider : j < i /\ D(j) < D(i) /\ s \in Share(ps, sb, sc, j)
    BY <1>5, <2>1, <2>2
  <2>4. (\E j \in Provider : j < i /\ D(j) < D(i) /\ s \in Share(ps, sb, sc, j)) <=>
            \E j \in Provider : j < i /\ D(j) < D(i) /\ Wants(j, s)
    BY <1>2, <1>6
  <2> QED
    BY <1>2, <2>3, <2>4
<1>8. Needed(allow, seen, i) = Share(ps, sb, sc, i)
  BY <1>7
<1> QED
  BY <1>8 DEF seen, D

\* A turn of the loop within the ring.
LEMMA VisitNext ==
    ASSUME allow \in [Provider -> SUBSET Symbol], NEW view \in ViewType,
           Held(view.ps, view.sb), NEW sc \in Provider, NEW i \in Provider
    PROVE  Visit(allow, VisitedTo(view, sc, Distance(sc, i) - 1), i)
               = VisitedTo(view, sc, Distance(sc, i))
<1> DEFINE k == Distance(sc, i)
           old == VisitedTo(view, sc, k - 1)
           new == VisitedTo(view, sc, k)
           mine == Share(view.ps, view.sb, sc, i)
<1>1. k \in Nat /\ \A j \in Provider : Distance(sc, j) \in Nat
  BY DistanceNat
<1>2. \A j \in Provider : j # i => Distance(sc, j) # k
  BY DistanceInjective
<1>3. \A j \in Provider : j # i => old.ps[j] = new.ps[j] /\ old.sb[j] = new.sb[j]
  <2>1. \A j \in Provider : j # i => (Distance(sc, j) <= k - 1 <=> Distance(sc, j) <= k)
    BY <1>1, <1>2
  <2> QED
    BY <2>1 DEF VisitedTo
<1>4. old.ps[i] = view.ps[i] /\ old.sb[i] = view.sb[i]
  BY <1>1 DEF VisitedTo
<1>5. /\ new.ps[i] = IF mine # {} THEN "Connecting" ELSE view.ps[i]
      /\ new.sb[i] = IF mine # {} THEN mine ELSE view.sb[i]
  BY <1>1 DEF VisitedTo
<1>6. IsIdle(view.ps, i) => Needed(allow, old.sb, i) = mine
  BY NeededAtTurn
<1>7. mine # {} => IsIdle(view.ps, i)
  BY DEF Share, Takes, Candidate
<1>8. /\ old = [ps |-> [j \in Provider |-> old.ps[j]], sb |-> [j \in Provider |-> old.sb[j]]]
      /\ new = [ps |-> [j \in Provider |-> new.ps[j]], sb |-> [j \in Provider |-> new.sb[j]]]
  BY DEF VisitedTo
<1> HIDE DEF old, new, mine, k
<1>9. IsIdle(old.ps, i) <=> IsIdle(view.ps, i)
  BY <1>4 DEF IsIdle
<1>10. CASE mine = {}
  <2>1. new = old
    BY <1>3, <1>4, <1>5, <1>8, <1>10
  <2>2. Visit(allow, old, i) = old
    BY <1>6, <1>9, <1>10 DEF Visit
  <2> QED
    BY <2>1, <2>2 DEF old, new, k
<1>11. CASE mine # {}
  <2>1. Visit(allow, old, i) = [ps |-> [old.ps EXCEPT ![i] = "Connecting"],
                                sb |-> [old.sb EXCEPT ![i] = mine]]
    BY <1>6, <1>7, <1>8, <1>9, <1>11 DEF Visit
  <2>2. [old.ps EXCEPT ![i] = "Connecting"] = [j \in Provider |-> new.ps[j]]
    BY <1>3, <1>5, <1>8, <1>11
  <2>3. [old.sb EXCEPT ![i] = mine] = [j \in Provider |-> new.sb[j]]
    BY <1>3, <1>5, <1>8, <1>11
  <2> QED
    BY <1>8, <2>1, <2>2, <2>3 DEF old, new, k
<1> QED
  BY <1>10, <1>11

\* When the cursor is at the start the loop visits it twice, to no effect.
LEMMA VisitAgain ==
    ASSUME allow \in [Provider -> SUBSET Symbol], NEW view \in ViewType,
           Held(view.ps, view.sb), NEW sc \in Provider
    PROVE  Visit(allow, VisitedTo(view, sc, N - 1), sc) = VisitedTo(view, sc, N - 1)
<1> DEFINE all == VisitedTo(view, sc, N - 1)
           mine == Share(view.ps, view.sb, sc, sc)
<1>1. \A j \in Provider : Distance(sc, j) <= N - 1 /\ Distance(sc, j) \in Nat
  BY DistanceNat, NAssumption
<1>2. Distance(sc, sc) = 0
  BY DistanceIs DEF Provider
<1>3. /\ all.ps[sc] = IF mine # {} THEN "Connecting" ELSE view.ps[sc]
      /\ all.sb[sc] = IF mine # {} THEN mine ELSE view.sb[sc]
  BY <1>1 DEF VisitedTo
<1>4. SUFFICES ASSUME IsIdle(all.ps, sc) PROVE Needed(allow, all.sb, sc) = {}
  BY DEF Visit
<1>5. mine = {} /\ IsIdle(view.ps, sc)
  BY <1>3, <1>4 DEF IsIdle
<1>6. Needed(allow, view.sb, sc) = {}
  <2>1. \A j \in Provider : ~(Distance(sc, j) < Distance(sc, sc))
    BY <1>1, <1>2
  <2>2. \A s \in Needed(allow, view.sb, sc) : s \in mine
    BY <1>5, <2>1 DEF Share, Takes, Candidate, Scanned, Needed
  <2> QED
    BY <1>5, <2>2
<1>7. \A j \in Provider : view.sb[j] \subseteq all.sb[j]
  <2> TAKE j \in Provider
  <2>1. Share(view.ps, view.sb, sc, j) # {} => view.sb[j] = {}
    BY DEF Share, Takes, Candidate, Held, IsIdle
  <2>2. all.sb[j] = IF Share(view.ps, view.sb, sc, j) # {} THEN Share(view.ps, view.sb, sc, j)
                    ELSE view.sb[j]
    BY <1>1 DEF VisitedTo
  <2> QED
    BY <2>1, <2>2
<1> HIDE DEF all
<1>8. \A s \in allow[sc] : HeldBefore(view.sb, sc, s) => HeldBefore(all.sb, sc, s)
  BY <1>7 DEF HeldBefore
<1> QED
  BY <1>6, <1>8, NeededIs

\* The closed form is what the loop has made of the view at its last turn.
LEMMA ClosedForm ==
    ASSUME NEW view \in ViewType, NEW sc \in Provider, NEW si \in Provider,
           NEW k, k = IF sc = si THEN N - 1 ELSE Distance(sc, si),
           NEW req, req = Requests(allow, view.ps, view.sb, sc, si)
    PROVE  VisitedTo(view, sc, k) = [ps |-> MarkConnecting(view.ps, req),
                                     sb |-> MarkSymbols(view.sb, req)]
<1>1. ASSUME NEW i \in Provider
      PROVE  req[i] = IF Distance(sc, i) <= k THEN Share(view.ps, view.sb, sc, i) ELSE {}
  <2>1. Distance(sc, i) <= k <=> i \in Scanned(sc, si)
    BY DistanceNat, NAssumption DEF Scanned
  <2>2. req[i] = Takes(allow, view.ps, view.sb, sc, si, i)
    BY DEF Requests
  <2>3. CASE i \notin Scanned(sc, si)
    BY <2>1, <2>2, <2>3 DEF Takes, Candidate
  <2>4. CASE i \in Scanned(sc, si)
    <3>1. \A j \in Provider : Distance(sc, j) < Distance(sc, i) => j \in Scanned(sc, si)
      <4> TAKE j \in Provider
      <4>1. Distance(sc, j) \in Nat /\ Distance(sc, i) \in Nat /\ Distance(sc, si) \in Nat
        BY DistanceNat
      <4> QED
        BY <2>4, <4>1 DEF Scanned
    <3>2. \A j \in Provider : j \in Scanned(sc, sc)
      BY DEF Scanned
    <3>3. Takes(allow, view.ps, view.sb, sc, si, i) = Share(view.ps, view.sb, sc, i)
      BY <2>4, <3>1, <3>2 DEF Takes, Candidate, Share
    <3> QED
      BY <2>1, <2>2, <2>4, <3>3
  <2> QED
    BY <2>3, <2>4
<1> QED
  BY <1>1 DEF VisitedTo, MarkConnecting, MarkSymbols

\* The loop of compute_needed_starts ends with the requests of the closed
\* form, whatever the number of providers and the place of the cursors.
LEMMA LoopIsClosedForm ==
    ASSUME allow \in [Provider -> SUBSET Symbol], NEW view \in ViewType,
           Held(view.ps, view.sb), NEW sc \in Provider, NEW si \in Provider,
           NEW req, req = Requests(allow, view.ps, view.sb, sc, si)
    PROVE  AfterLoop(allow, view, sc, si) =
               [ps |-> MarkConnecting(view.ps, req), sb |-> MarkSymbols(view.sb, req)]
<1> DEFINE Result(f) == f = [k \in 0..N |->
                Visit(allow, IF k = 0 THEN view ELSE f[k - 1], (sc + k) % N)]
           at(k) == (sc + k) % N
<1>1. at(0) = sc /\ at(N) = sc /\ \A k \in 0..N : at(k) \in Provider
  <2>1. at(0) = sc
    BY NAssumption DEF Provider
  <2>2. at(N) = sc
    <3>1. sc + N = 1 * N + sc
      BY NAssumption DEF Provider
    <3> QED
      BY <3>1, NAssumption DEF Provider
  <2>3. \A k \in 0..N : k = N \/ k \in 0..(N - 1)
    BY NAssumption
  <2> QED
    BY <2>1, <2>2, <2>3, TurnIs
<1> HIDE DEF at
<1>2. \E f : Result(f)
  <2> DEFINE base == Visit(allow, view, at(0))
             step == [k \in 1..N |-> [v \in ViewType |-> Visit(allow, v, at(k))]]
  <2>1. N \in Nat /\ base \in ViewType /\ 0 \in 0..N /\ \A k \in 1..N : k \in 0..N
    BY <1>1, VisitType, NAssumption
  <2>2. step \in [1..N -> [ViewType -> ViewType]]
    <3>1. \A k \in 1..N, v \in ViewType : Visit(allow, v, at(k)) \in ViewType
      BY <1>1, <2>1, VisitType
    <3> QED
      BY <3>1
  <2>3. \A k \in 1..N, v \in ViewType : step[k][v] = Visit(allow, v, at(k))
    OBVIOUS
  <2> HIDE DEF step, base
  <2>4. PICK f : IsLoop(f, N, ViewType, base, step)
    BY <2>1, <2>2, LoopFunction
  <2>5. \A k \in 0..N : k = 0 \/ (k # 0 /\ k \in 1..N /\ k - 1 \in 0..N)
    BY NAssumption
  <2>6. \A k \in 0..N : f[k] = Visit(allow, IF k = 0 THEN view ELSE f[k - 1], at(k))
    BY <2>3, <2>4, <2>5 DEF IsLoop, base
  <2>7. f = [k \in 0..N |-> f[k]]
    BY <2>4 DEF IsLoop
  <2>8. f = [k \in 0..N |-> Visit(allow, IF k = 0 THEN view ELSE f[k - 1], at(k))]
    BY <2>6, <2>7
  <2> QED
    BY <2>8 DEF at
<1> DEFINE after == CHOOSE f : Result(f)
<1>3. AfterLoop(allow, view, sc, si) = after[LastTurn(sc, si)]
  BY DEF AfterLoop
<1>4. Result(after)
  BY <1>2
<1> HIDE DEF after
<1>5. \A k \in 0..N : after[k] = Visit(allow, IF k = 0 THEN view ELSE after[k - 1], at(k))
  BY <1>4 DEF at
<1>6. VisitedTo(view, sc, -1) = view
  <2>1. \A i \in Provider : ~(Distance(sc, i) <= -1)
    BY DistanceNat
  <2>2. view = [ps |-> [i \in Provider |-> view.ps[i]], sb |-> [i \in Provider |-> view.sb[i]]]
    BY DEF ViewType
  <2> QED
    BY <2>1, <2>2 DEF VisitedTo
<1> DEFINE T == {k \in 0..(N - 1) : after[k] = VisitedTo(view, sc, k)}
<1>7. 0 \in T
  <2>1. 0 \in 0..N /\ 0 \in 0..(N - 1) /\ Distance(sc, sc) = 0 /\ 0 - 1 = -1
    BY DistanceIs, NAssumption DEF Provider
  <2>2. Visit(allow, VisitedTo(view, sc, 0 - 1), sc) = VisitedTo(view, sc, 0)
    BY <2>1, VisitNext
  <2> QED
    BY <1>1, <1>5, <1>6, <2>1, <2>2
<1>8. ASSUME NEW k \in 1..(N - 1), k - 1 \in T PROVE k \in T
  <2>1. k \in 0..N /\ k \in 0..(N - 1) /\ k # 0
    BY NAssumption
  <2>2. at(k) \in Provider /\ Distance(sc, at(k)) = k
    BY <2>1, TurnIs DEF at
  <2>3. Visit(allow, VisitedTo(view, sc, k - 1), at(k)) = VisitedTo(view, sc, k)
    BY <2>2, VisitNext
  <2> QED
    BY <1>5, <1>8, <2>1, <2>3
<1>9. \A k \in 0..(N - 1) : after[k] = VisitedTo(view, sc, k)
  <2>1. N - 1 \in Nat
    BY NAssumption
  <2> HIDE DEF T
  <2>2. 0..(N - 1) \subseteq T
    BY <1>7, <1>8, <2>1, IntervalInduction
  <2> QED
    BY <2>2 DEF T
<1>10. LastTurn(sc, si) \in 1..N /\ at(LastTurn(sc, si)) = si
  <2>1. \E k \in 1..N : at(k) = si
    <3>1. CASE si = sc
      BY <1>1, <3>1, NAssumption
    <3>2. CASE si # sc
      <4>1. Distance(sc, si) \in 0..(N - 1) /\ at(Distance(sc, si)) = si
        BY DistanceNat DEF at
      <4>2. Distance(sc, si) # 0
        BY <1>1, <3>2, <4>1
      <4>3. Distance(sc, si) \in 1..N
        BY <4>1, <4>2, NAssumption
      <4> QED
        BY <4>1, <4>3
    <3> QED
      BY <3>1, <3>2
  <2>2. \E k \in 1..N : AtStart(sc, si, k)
    BY <2>1 DEF AtStart, at
  <2> QED
    BY <2>2 DEF LastTurn, AtStart, at
<1> DEFINE last == LastTurn(sc, si)
<1>11. CASE last = N
  <2>1. si = sc
    BY <1>1, <1>10, <1>11
  <2>2. N \in 0..N /\ N # 0 /\ N - 1 \in 0..(N - 1)
    BY NAssumption
  <2>3. after[N] = Visit(allow, VisitedTo(view, sc, N - 1), sc)
    BY <1>1, <1>5, <1>9, <2>2
  <2>4. after[N] = VisitedTo(view, sc, N - 1)
    BY <2>3, VisitAgain
  <2> QED
    BY <1>3, <1>11, <2>1, <2>4, ClosedForm
<1>12. CASE last # N
  <2>1. last \in 0..(N - 1) /\ last # 0
    BY <1>10, <1>12, NAssumption
  <2>2. Distance(sc, si) = last
    BY <1>10, <2>1, TurnIs DEF at
  <2>3. si # sc
    BY <2>1, <2>2, DistanceIs DEF Provider
  <2> QED
    BY <1>3, <1>9, <2>1, <2>2, <2>3, ClosedForm
<1> QED
  BY <1>11, <1>12

\* The closed form that the handlers of StreamSupervisor use is the loop of
\* compute_needed_starts, for every chain and for everything that a
\* supervisor may come to hold.
THEOREM ScanIsLoop == Spec => []ClosedFormIsLoop
<1>1. IInv => ClosedFormIsLoop
  <2> SUFFICES ASSUME IInv, NEW view \in Views(allow), CarriesSymbols(view),
                      NEW sc \in Provider, NEW si \in Provider
               PROVE  LET req == Requests(allow, view.ps, view.sb, sc, si)
                      IN  AfterLoop(allow, view, sc, si) =
                              [ps |-> MarkConnecting(view.ps, req),
                               sb |-> MarkSymbols(view.sb, req)]
    BY DEF ClosedFormIsLoop
  <2>1. allow \in [Provider -> SUBSET Symbol]
    BY PlansAssumption DEF IInv, TypeOK
  <2>2. view \in ViewType /\ \A i \in Provider : view.sb[i] \subseteq allow[i]
    BY DEF Views, ViewType
  <2>3. Held(view.ps, view.sb)
    BY <2>2 DEF CarriesSymbols, Held
  <2> QED
    BY <2>1, <2>2, <2>3, LoopIsClosedForm
<1> QED
  BY Inductive, <1>1, PTL
=============================================================================
