---------------------------- MODULE StreamContract ----------------------------
(***************************************************************************)
(* What a stream supervisor promises to the router that spawned it and to  *)
(* the caller that consumes the stream, without cursors, rounds, cooldowns *)
(* or timers.  A supervisor begins by opening its first session or by      *)
(* giving up with nothing open, unless the call that waits for it is left  *)
(* before that; while open, providers join and leave, one                  *)
(* session each and only for symbols they may stream; once it closes no    *)
(* provider joins any more and the sessions that are left come to an end.  *)
(* StreamSupervisor implements this module.                                *)
(***************************************************************************)
CONSTANTS Provider, Symbol

VARIABLES allow,    \* the symbols each provider may stream
          stage,    \* "starting", "failed", "open" or "closing"
          serving   \* the symbols of each provider's session, {} for none

vars == <<allow, stage, serving>>

Nobody == [i \in Provider |-> {}]

Init ==
    /\ allow \in [Provider -> SUBSET Symbol]
    /\ stage = "starting"
    /\ serving = Nobody

\* A session with provider i opens; the first one settles initialization.
Join(i) ==
    /\ stage \in {"starting", "open"}
    /\ stage' = "open"
    /\ serving[i] = {}
    /\ \E S \in SUBSET allow[i] :
          S # {} /\ serving' = [serving EXCEPT ![i] = S]
    /\ UNCHANGED allow

Leave(i) ==
    /\ serving[i] # {}
    /\ serving' = [serving EXCEPT ![i] = {}]
    /\ UNCHANGED <<allow, stage>>

GiveUp ==
    /\ stage = "starting"
    /\ stage' = "failed"
    /\ UNCHANGED <<allow, serving>>

\* The stream is stopped or left, or the call is before it has a stream.
Close ==
    /\ stage \in {"starting", "open"}
    /\ stage' = "closing"
    /\ UNCHANGED <<allow, serving>>

Next == GiveUp \/ Close \/ \E i \in Provider : Join(i) \/ Leave(i)

Spec == Init /\ [][Next]_vars
=============================================================================
