------------------------------ MODULE MC_CallPath ------------------------------
(* Instances of CallPath for TLC.                                           *)
EXTENDS CallPath, TLC

MCOne == 1
MCTwo == 2

On == {TRUE}

\* An item that every connector has, that all but the first have, that none
\* has, and one that the first rejects and the others do not have.
SomeItems ==
    {[p \in Provider |-> "ok"],
     [p \in Provider |-> IF p = 0 THEN "not_found" ELSE "ok"],
     [p \in Provider |-> "not_found"],
     [p \in Provider |-> IF p = 0 THEN "rejected" ELSE "not_found"]}

OnOrOff == BOOLEAN

\* The first connector asks for a longer or a shorter pause, the others have no
\* rate limits.
FirstLimited == [p \in Provider |-> IF p = 0 THEN {1, 2} ELSE {}]

Symmetry == Permutations(Caller)
=============================================================================
