-------------------------------- MODULE Places --------------------------------
(***************************************************************************)
(* Sets put in order, sequences sorted and sequences filtered, given by    *)
(* the place of each element instead of by a recursion.                    *)
(***************************************************************************)
EXTENDS Integers, Sequences, FiniteSets

\* the elements of S, of which R holds the pairs in order
InOrder(S, R) ==
    [k \in 1..Cardinality(S) |->
        CHOOSE x \in S : Cardinality({y \in S : <<y, x>> \in R}) = k]

\* a set of numbers in ascending order
Ascending(S) == InOrder(S, {p \in S \X S : p[1] <= p[2]})

\* a sort: the elements of s, of whose places R holds the pairs in order
Sorted(s, R) ==
    LET order == InOrder(DOMAIN s, R)
    IN  [k \in DOMAIN s |-> s[order[k]]]

\* filter and retain: the elements of s at the places P, in their order
Selected(s, P) ==
    LET order == Ascending(P)
    IN  [k \in 1..Cardinality(P) |-> s[order[k]]]
=============================================================================
