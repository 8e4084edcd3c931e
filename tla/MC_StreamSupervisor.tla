------------------------- MODULE MC_StreamSupervisor -------------------------
(* Instances of StreamSupervisor for TLC.                                   *)
EXTENDS StreamSupervisor, TLC

MCOne == 1
MCTwo == 2
MCThree == 3

\* group mode of stream.rs without explicit preferences: all may stream all
UniformPlans == {[i \in Provider |-> Symbol]}

\* per-symbol preferences: only the primary is sure to allow everything
ChainPlans == {a \in [Provider -> SUBSET Symbol] : a[0] = Symbol}

NoRecovery == {}
FirstOrSecond == {{0}, {1}}

Symmetry == Permutations(Symbol)
=============================================================================
