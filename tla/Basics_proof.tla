----------------------------- MODULE Basics_proof -----------------------------
(***************************************************************************)
(* Facts that the proofs of the other modules share: least elements,       *)
(* induction along an interval, the function that a loop computes, and the *)
(* places of elements in a finite order.  The induction theorems of the    *)
(* library take an operator as a parameter; here sets and functions are    *)
(* used in its place.                                                      *)
(***************************************************************************)
EXTENDS Places, FiniteSetTheorems, WellFoundedInduction, TLAPS

-----------------------------------------------------------------------------
(* Least elements *)

\* A set of naturals has a least element.
LEMMA LeastNatural ==
    ASSUME NEW S \in SUBSET Nat, S # {}
    PROVE  \E m \in S : \A n \in S : m <= n
    <1> DEFINE R == {ss \in Nat \X Nat : ss[1] < ss[2]}
    <1>1. IsWellFoundedOn(R, Nat)
        BY NatLessThanWellFounded DEF OpToRel
    <1>2. \A x, y \in Nat : x < y => <<x, y>> \in R
        OBVIOUS
    <1> HIDE DEF R
    <1>3. PICK m \in S : \A n \in S : ~ (<<n, m>> \in R)
        BY <1>1, WFMin
    <1>4. \A n \in S : ~ (n < m)
        BY <1>2, <1>3
    <1> QED BY <1>3, <1>4

-----------------------------------------------------------------------------
(* Induction *)

\* What holds of 0 and of each number after one it holds of, up to n, holds
\* of all up to n.
LEMMA IntervalInduction ==
    ASSUME NEW n \in Nat, NEW T, 0 \in T, \A i \in 1..n : i - 1 \in T => i \in T
    PROVE  0..n \subseteq T
    <1> DEFINE S == {i \in 0..n : i \notin T}
    <1> SUFFICES ASSUME S # {} PROVE FALSE
        OBVIOUS
    <1>1. PICK m \in S : \A i \in S : m <= i
        <2>1. S \in SUBSET Nat
            OBVIOUS
        <2> HIDE DEF S
        <2> QED BY <2>1, LeastNatural
    <1>2. m \in 1..n
        BY <1>1
    <1>3. m - 1 \notin S /\ m - 1 \in 0..n
        BY <1>1, <1>2
    <1> QED BY <1>2, <1>3

\* The same for all naturals.
LEMMA NaturalInduction ==
    ASSUME NEW T, 0 \in T, \A i \in Nat : i \in T => i + 1 \in T
    PROVE  Nat \subseteq T
    <1> SUFFICES ASSUME NEW n \in Nat PROVE n \in T
        OBVIOUS
    <1>1. \A i \in 1..n : i - 1 \in T => i \in T
        OBVIOUS
    <1>2. 0..n \subseteq T
        BY <1>1, IntervalInduction
    <1> QED BY <1>2

\* A loop over 1..n that starts from base and takes step[i][x] at its i-th
\* turn computes a function of the number of turns.
IsLoop(f, n, S, base, step) ==
    /\ f \in [0..n -> S] /\ f[0] = base
    /\ \A i \in 1..n : f[i] = step[i][f[i - 1]]

LEMMA LoopFunction ==
    ASSUME NEW n \in Nat, NEW S, NEW base \in S, NEW step \in [1..n -> [S -> S]]
    PROVE  \E f : IsLoop(f, n, S, base, step)
    <1> DEFINE P(k) == \E f : IsLoop(f, k, S, base, step)
               T == {k \in 0..n : P(k)}
    <1>1. 0 \in T
        <2>1. IsLoop([i \in 0..0 |-> base], 0, S, base, step)
            BY DEF IsLoop
        <2> QED BY <2>1
    <1>2. ASSUME NEW k \in 1..n, k - 1 \in T
          PROVE  k \in T
        <2>1. PICK f : IsLoop(f, k - 1, S, base, step)
            BY <1>2
        <2> DEFINE g == [i \in 0..k |-> IF i = k THEN step[k][f[k - 1]] ELSE f[i]]
        <2>2. k \in 0..n /\ k - 1 \in 0..k - 1 /\ 0..k = (0..k - 1) \union {k}
            OBVIOUS
        <2>3. f[k - 1] \in S /\ step[k][f[k - 1]] \in S
            BY <2>1, <2>2 DEF IsLoop
        <2>4. g \in [0..k -> S]
            BY <2>1, <2>2, <2>3 DEF IsLoop
        <2>5. g[0] = base
            BY <2>1 DEF IsLoop
        <2>6. ASSUME NEW i \in 1..k
              PROVE  g[i] = step[i][g[i - 1]]
            <3>1. g[i - 1] = f[i - 1]
                OBVIOUS
            <3>2. CASE i = k
                BY <3>1, <3>2
            <3>3. CASE i # k
                <4>1. i \in 1..k - 1 /\ g[i] = f[i]
                    BY <3>3
                <4> QED BY <2>1, <3>1, <4>1 DEF IsLoop
            <3> QED BY <3>2, <3>3
        <2> HIDE DEF g
        <2>7. IsLoop(g, k, S, base, step)
            BY <2>4, <2>5, <2>6 DEF IsLoop
        <2> QED BY <2>2, <2>7
    <1>3. n \in 0..n
        OBVIOUS
    <1> HIDE DEF T
    <1>4. n \in T
        BY <1>1, <1>2, <1>3, IntervalInduction
    <1> QED BY <1>4 DEF T

\* The same for a loop whose first turn makes the base.
IsLoopFromOne(f, n, S, base, step) ==
    /\ f \in [1..n -> S] /\ f[1] = base
    /\ \A i \in 2..n : f[i] = step[i][f[i - 1]]

LEMMA LoopFromOne ==
    ASSUME NEW n \in Nat \ {0}, NEW S, NEW base \in S, NEW step \in [2..n -> [S -> S]]
    PROVE  \E f : IsLoopFromOne(f, n, S, base, step)
    <1> DEFINE later == [i \in 1..(n - 1) |-> step[i + 1]]
    <1>1. later \in [1..(n - 1) -> [S -> S]] /\ n - 1 \in Nat
        OBVIOUS
    <1>2. \A i \in 1..(n - 1) : later[i] = step[i + 1]
        OBVIOUS
    <1> HIDE DEF later
    <1>3. PICK g : IsLoop(g, n - 1, S, base, later)
        BY <1>1, LoopFunction
    <1> DEFINE f == [i \in 1..n |-> g[i - 1]]
    <1>4. f \in [1..n -> S] /\ f[1] = base
        BY <1>3 DEF IsLoop
    <1>5. ASSUME NEW i \in 2..n PROVE f[i] = step[i][f[i - 1]]
        <2>1. i - 1 \in 1..(n - 1) /\ f[i] = g[i - 1] /\ f[i - 1] = g[i - 1 - 1] /\ i - 1 + 1 = i
            OBVIOUS
        <2> HIDE DEF f
        <2>2. g[i - 1] = later[i - 1][g[i - 1 - 1]]
            BY <1>3, <2>1 DEF IsLoop
        <2>3. later[i - 1] = step[i]
            BY <1>2, <2>1
        <2> QED BY <2>1, <2>2, <2>3
    <1> HIDE DEF f
    <1> QED BY <1>4, <1>5 DEF IsLoopFromOne

-----------------------------------------------------------------------------
(* Places *)

\* R, a set of pairs, orders S totally.
Orders(R, S) ==
    /\ \A x \in S : <<x, x>> \in R
    /\ \A x, y \in S : <<x, y>> \in R \/ <<y, x>> \in R
    /\ \A x, y \in S : <<x, y>> \in R /\ <<y, x>> \in R => x = y
    /\ \A x, y, z \in S : <<x, y>> \in R /\ <<y, z>> \in R => <<x, z>> \in R

\* place[x] is the number of elements up to x.
Placing(place, R, S) == place = [x \in S |-> Cardinality({y \in S : <<y, x>> \in R})]

\* In a finite order each element has a place, the number of elements up to
\* it, and each place has an element.
LEMMA PlacesOfOrder ==
    ASSUME NEW S, IsFiniteSet(S), NEW R, Orders(R, S),
           NEW place, Placing(place, R, S)
    PROVE  /\ place \in [S -> 1..Cardinality(S)]
           /\ \A x, y \in S : x # y /\ <<x, y>> \in R => place[x] < place[y]
           /\ \A k \in 1..Cardinality(S) : \E x \in S : place[x] = k
    <1> DEFINE upto(x) == {y \in S : <<y, x>> \in R}
    <1>1. ASSUME NEW x \in S
          PROVE  /\ IsFiniteSet(upto(x)) /\ Cardinality(upto(x)) \in 1..Cardinality(S)
                 /\ place[x] = Cardinality(upto(x))
        <2>1. upto(x) \in SUBSET S /\ x \in upto(x)
            BY DEF Orders
        <2>2. place[x] = Cardinality(upto(x))
            BY DEF Placing
        <2> HIDE DEF upto
        <2>3. IsFiniteSet(upto(x)) /\ Cardinality(upto(x)) <= Cardinality(S)
            BY <2>1, FS_Subset
        <2>4. Cardinality(upto(x)) \in Nat /\ Cardinality(S) \in Nat /\ Cardinality(upto(x)) # 0
            BY <2>1, <2>3, FS_CardinalityType, FS_EmptySet
        <2> QED BY <2>2, <2>3, <2>4
    <1>2. place \in [S -> 1..Cardinality(S)]
        <2>1. place = [x \in S |-> Cardinality(upto(x))]
            BY DEF Placing
        <2> HIDE DEF upto
        <2> QED BY <1>1, <2>1
    <1>3. ASSUME NEW x \in S, NEW y \in S, x # y, <<x, y>> \in R
          PROVE  place[x] < place[y]
        <2>1. upto(x) \subseteq upto(y) /\ y \in upto(y) /\ y \notin upto(x)
            BY <1>3 DEF Orders
        <2> HIDE DEF upto
        <2>2. /\ Cardinality(upto(x)) <= Cardinality(upto(y))
              /\ Cardinality(upto(x)) # Cardinality(upto(y))
            BY <1>1, <2>1, FS_Subset
        <2> QED BY <1>1, <2>2
    <1>4. place \in Injection(S, 1..Cardinality(S))
        <2>1. ASSUME NEW x \in S, NEW y \in S, place[x] = place[y] PROVE x = y
            <3>1. place[x] \in Int /\ ~ (place[x] < place[y]) /\ ~ (place[y] < place[x])
                BY <1>2, <2>1
            <3> QED BY <1>3, <3>1 DEF Orders
        <2> HIDE DEF Orders
        <2> QED BY <1>2, <2>1 DEF Injection, IsInjective
    <1>5. IsFiniteSet(1..Cardinality(S)) /\ Cardinality(1..Cardinality(S)) = Cardinality(S)
        <2>1. Cardinality(S) \in Nat
            BY FS_CardinalityType
        <2> QED BY <2>1, FS_Interval
    <1>6. place \in Surjection(S, 1..Cardinality(S))
        BY <1>4, <1>5, FS_Injection
    <1> QED BY <1>2, <1>3, <1>6 DEF Surjection

\* InOrder lists a finite set, each element once and in order.
LEMMA InOrderIs ==
    ASSUME NEW S, IsFiniteSet(S), NEW R, Orders(R, S)
    PROVE  /\ InOrder(S, R) \in [1..Cardinality(S) -> S]
           /\ \A i, j \in 1..Cardinality(S) : i < j =>
                  InOrder(S, R)[i] # InOrder(S, R)[j] /\ <<InOrder(S, R)[i], InOrder(S, R)[j]>> \in R
           /\ \A x \in S : \E k \in 1..Cardinality(S) : InOrder(S, R)[k] = x
    <1> DEFINE n == Cardinality(S)
               place == [x \in S |-> Cardinality({y \in S : <<y, x>> \in R})]
               a == InOrder(S, R)
               nth(k) == CHOOSE x \in S : Cardinality({y \in S : <<y, x>> \in R}) = k
    <1>4. \A x \in S : place[x] = Cardinality({y \in S : <<y, x>> \in R})
        OBVIOUS
    <1>5. /\ place \in [S -> 1..n]
          /\ \A x, y \in S : x # y /\ <<x, y>> \in R => place[x] < place[y]
          /\ \A k \in 1..n : \E x \in S : place[x] = k
        <2>1. Placing(place, R, S)
            BY DEF Placing
        <2> HIDE DEF place
        <2> QED BY <2>1, PlacesOfOrder
    <1>6. a = [k \in 1..n |-> nth(k)]
        BY DEF InOrder
    <1> HIDE DEF place, n, a
    <1>7. \A k \in 1..n : a[k] \in S /\ place[a[k]] = k
        <2> TAKE k \in 1..n
        <2>1. \E x \in S : Cardinality({y \in S : <<y, x>> \in R}) = k
            BY <1>4, <1>5
        <2>2. nth(k) \in S /\ Cardinality({y \in S : <<y, nth(k)>> \in R}) = k
            BY <2>1
        <2> HIDE DEF nth
        <2>3. a[k] = nth(k)
            BY <1>6
        <2> QED BY <1>4, <2>2, <2>3
    <1>8. a \in [1..n -> S]
        <2> HIDE DEF nth
        <2> QED BY <1>6, <1>7
    <1>9. ASSUME NEW i \in 1..n, NEW j \in 1..n, i < j PROVE a[i] # a[j] /\ <<a[i], a[j]>> \in R
        <2>1. a[i] \in S /\ a[j] \in S /\ place[a[i]] = i /\ place[a[j]] = j
            BY <1>7
        <2>2. a[i] # a[j]
            BY <1>9, <2>1
        <2>3. <<a[j], a[i]>> \notin R
            <3> SUFFICES ASSUME <<a[j], a[i]>> \in R PROVE FALSE
                OBVIOUS
            <3>1. place[a[j]] < place[a[i]]
                BY <1>5, <2>1, <2>2
            <3> QED BY <1>9, <2>1, <3>1
        <2> QED BY <2>1, <2>2, <2>3 DEF Orders
    <1>10. ASSUME NEW x \in S PROVE a[place[x]] = x /\ place[x] \in 1..n
        <2>1. place[x] \in 1..n
            BY <1>5
        <2>2. a[place[x]] \in S /\ place[a[place[x]]] = place[x]
            BY <1>7, <2>1
        <2>3. ASSUME NEW y \in S, y # x PROVE place[y] # place[x]
            <3>0. <<x, y>> \in R \/ <<y, x>> \in R
                BY DEF Orders
            <3>1. place[x] < place[y] \/ place[y] < place[x]
                BY <1>5, <2>3, <3>0
            <3>2. place[x] \in Int /\ place[y] \in Int
                BY <1>5
            <3> QED BY <3>1, <3>2
        <2> QED BY <2>1, <2>2, <2>3
    <1> QED BY <1>8, <1>9, <1>10 DEF a, n

\* Ascending lists a finite set of numbers, each once and in order.
LEMMA AscendingIs ==
    ASSUME NEW S \in SUBSET Int, IsFiniteSet(S)
    PROVE  /\ Ascending(S) \in [1..Cardinality(S) -> S]
           /\ \A i, j \in 1..Cardinality(S) : i < j => Ascending(S)[i] < Ascending(S)[j]
           /\ \A x \in S : \E k \in 1..Cardinality(S) : Ascending(S)[k] = x
    <1> DEFINE R == {p \in S \X S : p[1] <= p[2]}
    <1>1. \A x, y \in S : <<x, y>> \in R <=> x <= y
        OBVIOUS
    <1>2. Ascending(S) = InOrder(S, R)
        BY DEF Ascending
    <1> HIDE DEF R
    <1>3. Orders(R, S)
        BY <1>1 DEF Orders
    <1>4. /\ Ascending(S) \in [1..Cardinality(S) -> S]
          /\ \A i, j \in 1..Cardinality(S) : i < j =>
                 Ascending(S)[i] # Ascending(S)[j] /\ <<Ascending(S)[i], Ascending(S)[j]>> \in R
          /\ \A x \in S : \E k \in 1..Cardinality(S) : Ascending(S)[k] = x
        BY <1>2, <1>3, InOrderIs
    <1>5. ASSUME NEW i \in 1..Cardinality(S), NEW j \in 1..Cardinality(S), i < j
          PROVE  Ascending(S)[i] < Ascending(S)[j]
        <2>1. /\ Ascending(S)[i] \in S /\ Ascending(S)[j] \in S
              /\ Ascending(S)[i] # Ascending(S)[j] /\ <<Ascending(S)[i], Ascending(S)[j]>> \in R
            BY <1>4, <1>5
        <2> HIDE DEF R
        <2>2. Ascending(S)[i] <= Ascending(S)[j]
            BY <1>1, <2>1
        <2>3. Ascending(S)[i] \in Int /\ Ascending(S)[j] \in Int
            BY <2>1
        <2> QED BY <2>1, <2>2, <2>3
    <1> QED BY <1>4, <1>5

\* What a sort leaves: the same elements, each once, in the order.
LEMMA SortedIs ==
    ASSUME NEW T, NEW s \in Seq(T), NEW R, Orders(R, DOMAIN s)
    PROVE  /\ Sorted(s, R) \in Seq(T) /\ DOMAIN Sorted(s, R) = DOMAIN s
           /\ \A i \in DOMAIN s : InOrder(DOMAIN s, R)[i] \in DOMAIN s
           /\ \A i, j \in DOMAIN s : i < j =>
                  /\ InOrder(DOMAIN s, R)[i] # InOrder(DOMAIN s, R)[j]
                  /\ <<InOrder(DOMAIN s, R)[i], InOrder(DOMAIN s, R)[j]>> \in R
           /\ \A x \in DOMAIN s : \E k \in DOMAIN s : InOrder(DOMAIN s, R)[k] = x
           /\ \A k \in DOMAIN s : Sorted(s, R)[k] = s[InOrder(DOMAIN s, R)[k]]
    <1> DEFINE n == Len(s)
               a == InOrder(DOMAIN s, R)
    <1>1. n \in Nat /\ DOMAIN s = 1..n
        OBVIOUS
    <1>2. IsFiniteSet(DOMAIN s) /\ Cardinality(DOMAIN s) = n
        BY SMTT(30), <1>1, FS_Interval
    <1>3. 1..Cardinality(DOMAIN s) = DOMAIN s
        BY <1>1, <1>2
    <1>4. /\ a \in [DOMAIN s -> DOMAIN s]
          /\ \A i, j \in DOMAIN s : i < j => a[i] # a[j] /\ <<a[i], a[j]>> \in R
          /\ \A x \in DOMAIN s : \E k \in DOMAIN s : a[k] = x
        <2>1. /\ a \in [1..Cardinality(DOMAIN s) -> DOMAIN s]
              /\ \A i, j \in 1..Cardinality(DOMAIN s) : i < j => a[i] # a[j] /\ <<a[i], a[j]>> \in R
              /\ \A x \in DOMAIN s : \E k \in 1..Cardinality(DOMAIN s) : a[k] = x
            BY <1>2, InOrderIs
        <2> HIDE DEF a
        <2> QED BY <1>3, <2>1
    <1>5. Sorted(s, R) = [k \in DOMAIN s |-> s[a[k]]]
        BY DEF Sorted
    <1> HIDE DEF a, n
    <1>6. \A k \in DOMAIN s : s[a[k]] \in T
        <2> TAKE k \in DOMAIN s
        <2>1. a[k] \in DOMAIN s
            BY <1>4
        <2> QED BY <2>1
    <1>7. [k \in 1..n |-> s[a[k]]] \in Seq(T) /\ DOMAIN [k \in 1..n |-> s[a[k]]] = 1..n
        BY <1>1, <1>6
    <1>8. \A i \in DOMAIN s : a[i] \in DOMAIN s
        BY <1>4
    <1>9. Sorted(s, R) \in Seq(T) /\ DOMAIN Sorted(s, R) = DOMAIN s
        BY <1>1, <1>5, <1>7
    <1>10. \A k \in DOMAIN s : Sorted(s, R)[k] = s[a[k]]
        BY <1>5
    <1> QED BY <1>4, <1>8, <1>9, <1>10 DEF a

\* What a filter leaves: the elements at the places, each once, in order.
LEMMA SelectedIs ==
    ASSUME NEW T, NEW s \in Seq(T), NEW P \in SUBSET (1..Len(s))
    PROVE  /\ Selected(s, P) \in Seq(T) /\ Len(Selected(s, P)) = Cardinality(P)
           /\ IsFiniteSet(P) /\ Cardinality(P) \in Nat
           /\ Ascending(P) \in [1..Cardinality(P) -> P]
           /\ \A i, j \in 1..Cardinality(P) : i < j => Ascending(P)[i] < Ascending(P)[j]
           /\ \A x \in P : \E k \in 1..Cardinality(P) : Ascending(P)[k] = x
           /\ \A k \in 1..Cardinality(P) : Selected(s, P)[k] = s[Ascending(P)[k]]
    <1>1. IsFiniteSet(P) /\ P \in SUBSET Int
        <2>1. Len(s) \in Int
            OBVIOUS
        <2>2. IsFiniteSet(1..Len(s))
            BY <2>1, FS_Interval
        <2>3. IsFiniteSet(P)
            BY <2>2, FS_Subset
        <2>4. 1..Len(s) \subseteq Int
            BY <2>1
        <2> QED BY <2>3, <2>4
    <1>2. Cardinality(P) \in Nat
        BY <1>1, FS_CardinalityType
    <1> DEFINE a == Ascending(P)
               n == Cardinality(P)
    <1>3. /\ a \in [1..n -> P]
          /\ \A i, j \in 1..n : i < j => a[i] < a[j]
          /\ \A x \in P : \E k \in 1..n : a[k] = x
        BY <1>1, AscendingIs
    <1>4. Selected(s, P) = [k \in 1..n |-> s[a[k]]]
        BY DEF Selected
    <1> HIDE DEF a, n
    <1>5. \A k \in 1..n : s[a[k]] \in T
        <2> TAKE k \in 1..n
        <2>1. a[k] \in 1..Len(s)
            BY <1>3
        <2> QED BY <2>1
    <1>6. [k \in 1..n |-> s[a[k]]] \in Seq(T) /\ Len([k \in 1..n |-> s[a[k]]]) = n
        BY <1>2, <1>5 DEF n
    <1> QED BY <1>1, <1>2, <1>3, <1>4, <1>6 DEF a, n
\* The place of a number in ascending order: how many there are up to it.
LEMMA PlaceIs ==
    ASSUME NEW S \in SUBSET Int, IsFiniteSet(S), NEW x \in S
    PROVE  /\ Cardinality({y \in S : y <= x}) \in 1..Cardinality(S)
           /\ Ascending(S)[Cardinality({y \in S : y <= x})] = x
    <1> DEFINE R == {p \in S \X S : p[1] <= p[2]}
               place == [z \in S |-> Cardinality({y \in S : <<y, z>> \in R})]
               k == Cardinality({y \in S : y <= x})
    <1>1. \A z, y \in S : <<z, y>> \in R <=> z <= y
        OBVIOUS
    <1>2. Ascending(S) = InOrder(S, R)
        BY DEF Ascending
    <1>3. \A z \in S : place[z] = Cardinality({y \in S : <<y, z>> \in R})
        OBVIOUS
    <1>4. Placing(place, R, S)
        BY DEF Placing
    <1> HIDE DEF R
    <1>5. Orders(R, S)
        BY <1>1 DEF Orders
    <1>6. place[x] = k
        <2>1. {y \in S : <<y, x>> \in R} = {y \in S : y <= x}
            BY <1>1
        <2> QED BY <1>3, <2>1
    <1> HIDE DEF place, k
    <1>7. /\ place \in [S -> 1..Cardinality(S)]
          /\ \A z, y \in S : z # y /\ <<z, y>> \in R => place[z] < place[y]
        BY <1>4, <1>5, PlacesOfOrder
    <1>8. k \in 1..Cardinality(S)
        BY <1>6, <1>7
    <1> DEFINE nth == CHOOSE z \in S : Cardinality({y \in S : <<y, z>> \in R}) = k
    <1>9. Ascending(S)[k] = nth
        BY <1>2, <1>8 DEF InOrder
    <1>10. nth \in S /\ Cardinality({y \in S : <<y, nth>> \in R}) = k
        <2>1. Cardinality({y \in S : <<y, x>> \in R}) = k
            BY <1>3, <1>6
        <2> QED BY <2>1
    <1> HIDE DEF nth
    <1>11. place[nth] = place[x]
        BY <1>3, <1>6, <1>10
    <1>12. nth = x
        <2>1. place[x] \in Int
            BY <1>6, <1>8
        <2>2. <<nth, x>> \in R \/ <<x, nth>> \in R
            BY <1>5, <1>10 DEF Orders
        <2>3. ~ (place[x] < place[x])
            BY <2>1
        <2> QED BY <1>7, <1>10, <1>11, <2>2, <2>3
    <1> QED BY <1>8, <1>9, <1>12 DEF k
=============================================================================
