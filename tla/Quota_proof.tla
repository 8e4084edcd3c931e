------------------------------ MODULE Quota_proof ------------------------------
(***************************************************************************)
(* Proofs about Quota, for every limit, window, number of slices and clock *)
(* resolution: types, the alignment of windows, the open fresh window, and *)
(* that the lazy reset implements RateBudget.                              *)
(***************************************************************************)
EXTENDS Quota, Integers, TLAPS

-----------------------------------------------------------------------------
(* Arithmetic *)

\* Division with remainder.
LEMMA DivMod ==
    ASSUME NEW d \in Nat \ {0}, NEW e \in Nat
    PROVE  /\ e \div d \in Nat /\ (e % d) \in 0 .. d - 1
           /\ e = ((e \div d) * d) + (e % d)
    BY SMT

\* ... has one solution.
LEMMA DivModUnique ==
    ASSUME NEW d \in Nat \ {0}, NEW q \in Nat, NEW r \in 0 .. d - 1
    PROVE  ((q * d) + r) % d = r
    BY SMT

\* A number between a multiple of d and the next one.
LEMMA Between ==
    ASSUME NEW d \in Nat \ {0}, NEW start \in Nat, start % d = 0,
           NEW t \in Nat, start <= t, t - start < d
    PROVE  t % d = t - start
    <1> DEFINE q == start \div d
    <1>1. q \in Nat /\ start = q * d
        BY DivMod
    <1>2. t = (q * d) + (t - start) /\ t - start \in 0 .. d - 1
        BY <1>1
    <1> HIDE DEF q
    <1> QED BY <1>1, <1>2, DivModUnique

\* The next multiple of d.
LEMMA NextMultiple ==
    ASSUME NEW d \in Nat \ {0}, NEW start \in Nat, start % d = 0
    PROVE  (start + d) % d = 0
    <1> DEFINE q == start \div d
    <1>1. q \in Nat /\ start = q * d
        BY DivMod
    <1>2. start + d = ((q + 1) * d) + 0 /\ q + 1 \in Nat /\ 0 \in 0 .. d - 1
        BY <1>1
    <1> HIDE DEF q
    <1> QED BY <1>2, DivModUnique

\* Moving a start time forward by the whole durations that have passed gives
\* the multiple of the duration at or before now.
LEMMA Advance ==
    ASSUME NEW d \in Nat \ {0}, NEW start \in Nat, start % d = 0,
           NEW t \in Nat, start <= t,
           NEW adv, adv = start + ((t - start) \div d) * d
    PROVE  /\ adv \in start .. t /\ t - adv < d
           /\ adv % d = 0
    <1> DEFINE q == start \div d
               k == (t - start) \div d
    <1>1. q \in Nat /\ start = q * d
        BY DivMod
    <1>2. t - start \in Nat
        OBVIOUS
    <1>3. /\ k \in Nat /\ ((t - start) % d) \in 0 .. d - 1
          /\ t - start = (k * d) + ((t - start) % d)
        BY <1>2, DivMod
    <1>4. k * d \in Nat
        BY <1>3
    <1>5. adv \in start .. t /\ t - adv < d
        BY <1>3, <1>4
    <1>6. adv = ((q + k) * d) + 0 /\ q + k \in Nat /\ 0 \in 0 .. d - 1
        BY <1>1, <1>3
    <1>7. adv % d = 0
        <2> HIDE DEF q, k
        <2> QED BY <1>6, DivModUnique
    <1> QED BY <1>5, <1>7

\* Of two different multiples of d the larger is at least d further.
LEMMA Apart ==
    ASSUME NEW d \in Nat \ {0}, NEW a \in Nat, NEW b \in Nat,
           a % d = 0, b % d = 0, a < b
    PROVE  a + d <= b
    <1>1. SUFFICES ASSUME b - a < d PROVE FALSE
        OBVIOUS
    <1>2. a <= b
        OBVIOUS
    <1>3. b % d = b - a
        BY <1>1, <1>2, Between
    <1> QED BY <1>3

\* A multiple of a multiple.
LEMMA MultipleOfMultiple ==
    ASSUME NEW d \in Nat \ {0}, NEW w \in Nat \ {0}, NEW a \in Nat,
           w % d = 0, a % w = 0
    PROVE  a % d = 0
    <1> DEFINE m == w \div d
               q == a \div w
    <1>1. m \in Nat /\ w = m * d
        BY DivMod
    <1>2. q \in Nat /\ a = q * w
        BY DivMod
    <1> HIDE DEF m, q
    <1>3. q * m \in Nat
        BY <1>1, <1>2
    <1>4. a = q * (m * d)
        BY <1>1, <1>2
    <1>5. a = ((q * m) * d) + 0 /\ 0 \in 0 .. d - 1
        BY <1>1, <1>2, <1>4
    <1> QED BY <1>3, <1>5, DivModUnique

\* The slice's length and budget are positive.
LEMMA SliceConstants ==
    SliceDuration \in Nat \ {0} /\ AllowedPerSlice \in Nat \ {0}
    <1> DEFINE ms == (Window \div TicksPerMs) \div Slices
    <1>1. Window \div TicksPerMs \in Nat
        BY QuotaAssumption, DivMod
    <1>2. ms \in Nat /\ Limit \div Slices \in Nat
        BY <1>1, QuotaAssumption, DivMod
    <1>3. AtLeastOne(ms) \in Nat \ {0}
        BY <1>2 DEF AtLeastOne
    <1>4. SliceDuration \in Nat \ {0}
        <2> HIDE DEF ms
        <2>1. AtLeastOne(ms) * TicksPerMs \in Nat \ {0}
            BY <1>3, QuotaAssumption
        <2> QED BY <2>1 DEF SliceDuration, ms
    <1> QED BY <1>2, <1>4 DEF AllowedPerSlice, AtLeastOne

\* The clock's next tick is a multiple of d exactly when it completes the
\* duration that began at start.
LEMMA Turn ==
    ASSUME NEW d \in Nat \ {0}, NEW start \in Nat, start % d = 0,
           NEW t \in Nat, start <= t, t - start < d
    PROVE  ((t + 1) % d) = 0 <=> (t + 1) - start >= d
    <1>1. CASE (t + 1) - start < d
        <2>1. t + 1 \in Nat /\ start <= t + 1 /\ (t + 1) - start > 0
            OBVIOUS
        <2>2. (t + 1) % d = (t + 1) - start
            BY <1>1, <2>1, Between
        <2> QED BY <1>1, <2>1, <2>2
    <1>2. CASE (t + 1) - start >= d
        <2>1. t + 1 = start + d
            BY <1>2
        <2>2. (t + 1) % d = 0
            BY <2>1, NextMultiple
        <2> QED BY <1>2, <2>2
    <1> QED BY <1>1, <1>2

-----------------------------------------------------------------------------
(* What a call does to the start times *)

\* A slice with calls in it began before the window that counts was over, and
\* where it began within that window its calls are among the window's.
Nested ==
    Spread =>
        /\ calls_made_in_slice > 0 => slice_start < last_reset + Window
        /\ slice_start >= last_reset => calls_made_in_slice <= calls_made_in_window

IInv == TypeOK /\ Aligned /\ Nested

Call == Allow \/ BlockedBySlice \/ BlockedByWindow

\* What Advance gives for slices, which lie Gap ticks off the multiples of
\* their length.
LEMMA AdvanceSlice ==
    ASSUME IInv
    PROVE  /\ Advanced(slice_start, SliceDuration) \in slice_start .. now
           /\ ((Advanced(slice_start, SliceDuration) - Gap) % SliceDuration) = 0
           /\ now - Advanced(slice_start, SliceDuration) < SliceDuration
    <1> DEFINE start == slice_start - Gap
               t == now - Gap
               k == (t - start) \div SliceDuration
               adv == start + k * SliceDuration
    <1>1. /\ now \in Nat /\ slice_start \in Nat /\ slice_start <= now
          /\ Gap \in Nat /\ slice_start >= Gap /\ start % SliceDuration = 0
          /\ SliceDuration \in Nat \ {0}
        BY QuotaAssumption, SliceConstants DEF IInv, TypeOK, Aligned
    <1>2. start \in Nat /\ t \in Nat /\ start <= t /\ t - start = now - slice_start
        BY <1>1
    <1> HIDE DEF start, t
    <1>3. adv \in start .. t /\ t - adv < SliceDuration /\ adv % SliceDuration = 0
        BY <1>1, <1>2, Advance
    <1>4. k \in Nat
        BY <1>1, <1>2, DivMod
    <1>5. k * SliceDuration \in Nat
        BY <1>1, <1>4
    <1>6. Advanced(slice_start, SliceDuration) = slice_start + k * SliceDuration
        BY <1>2 DEF Advanced
    <1> HIDE DEF k
    <1>7. Advanced(slice_start, SliceDuration) - Gap = adv
        BY <1>1, <1>5, <1>6 DEF start
    <1>8. adv % SliceDuration = (Advanced(slice_start, SliceDuration) - Gap) % SliceDuration
        BY <1>7
    <1> DEFINE m == k * SliceDuration
    <1>9. start = slice_start - Gap /\ t = now - Gap
        BY DEF start, t
    <1>10. m \in Nat /\ adv = start + m /\ Advanced(slice_start, SliceDuration) = slice_start + m
        BY <1>5, <1>6
    <1> HIDE DEF m, adv
    <1> QED BY <1>1, <1>3, <1>8, <1>9, <1>10

\* A call leaves the current window and slice in place, aligned and begun.
LEMMA ResetMoves ==
    ASSUME IInv, Reset, now' = now
    PROVE  /\ last_reset' \in 0 .. now /\ (last_reset' % Window) = 0
           /\ now - last_reset' < Window
           /\ slice_start' \in Gap .. now /\ ((slice_start' - Gap) % SliceDuration) = 0
           /\ Spread => now - slice_start' < SliceDuration
    <1>1. /\ now \in Nat /\ last_reset \in 0 .. now /\ slice_start \in Gap .. now
          /\ last_reset % Window = 0 /\ ((slice_start - Gap) % SliceDuration) = 0
          /\ Window \in Nat \ {0} /\ SliceDuration \in Nat \ {0} /\ Gap \in Nat
        BY QuotaAssumption, SliceConstants DEF IInv, TypeOK, Aligned
    <1>2. /\ Advanced(last_reset, Window) \in 0 .. now
          /\ (Advanced(last_reset, Window) % Window) = 0
          /\ now - Advanced(last_reset, Window) < Window
        <2>1. last_reset \in Nat /\ last_reset <= now
            BY <1>1
        <2> DEFINE adv == Advanced(last_reset, Window)
        <2>2. adv = last_reset + ((now - last_reset) \div Window) * Window
            BY DEF Advanced
        <2> HIDE DEF adv
        <2>3. adv \in last_reset .. now /\ now - adv < Window /\ adv % Window = 0
            BY <1>1, <2>1, <2>2, Advance
        <2> QED BY <2>1, <2>3 DEF adv
    <1>3. /\ Advanced(slice_start, SliceDuration) \in Gap .. now
          /\ ((Advanced(slice_start, SliceDuration) - Gap) % SliceDuration) = 0
          /\ now - Advanced(slice_start, SliceDuration) < SliceDuration
        BY <1>1, AdvanceSlice
    <1>4. /\ last_reset' = Advanced(last_reset, Window)
          /\ slice_start' = IF Spread THEN Advanced(slice_start, SliceDuration) ELSE slice_start
        BY DEF Reset
    <1> HIDE DEF Advanced
    <1> QED BY <1>1, <1>2, <1>3, <1>4

\* The counters of elapsed windows and slices read as zero, and never more
\* than what is stored.
LEMMA Counters ==
    ASSUME IInv
    PROVE  /\ InWindow \in 0 .. Limit /\ InWindow <= calls_made_in_window
           /\ InSlice \in Nat /\ InSlice <= calls_made_in_slice
    BY QuotaAssumption DEF IInv, TypeOK, InWindow, InSlice, Elapsed

\* A slice that began no more than Gap ticks into a window is over Gap ticks
\* into it, if slices end together with windows.
LEMMA SliceIsOver ==
    ASSUME IInv, Window % SliceDuration = 0,
           NEW begin \in Nat, begin % Window = 0, begin <= now, now - begin >= Gap,
           slice_start < begin
    PROVE  now - slice_start >= SliceDuration
    <1> DEFINE start == slice_start - Gap
    <1>1. /\ now \in Nat /\ slice_start \in Nat /\ start \in Nat /\ Gap \in Nat
          /\ start % SliceDuration = 0 /\ slice_start = start + Gap
          /\ Window \in Nat \ {0} /\ SliceDuration \in Nat \ {0}
        BY QuotaAssumption, SliceConstants DEF IInv, TypeOK, Aligned
    <1>2. begin % SliceDuration = 0
        BY <1>1, MultipleOfMultiple
    <1> HIDE DEF start
    <1>3. start < begin
        BY <1>1
    <1>4. start + SliceDuration <= begin
        BY <1>1, <1>2, <1>3, Apart
    <1> QED BY <1>1, <1>4

\* Gap ticks into a window that nobody has called in nobody has called in the
\* slice either.
LEMMA NestedNow ==
    ASSUME IInv, Spread, Window % SliceDuration = 0, InWindow = 0, now % Window >= Gap
    PROVE  InSlice = 0
    <1>1. /\ now \in Nat /\ last_reset \in Nat /\ slice_start \in Nat
          /\ last_reset <= now /\ slice_start <= now /\ Gap \in Nat
          /\ last_reset % Window = 0
          /\ Window \in Nat \ {0} /\ SliceDuration \in Nat \ {0}
          /\ calls_made_in_slice \in Nat
          /\ calls_made_in_slice > 0 => slice_start < last_reset + Window
          /\ slice_start >= last_reset => calls_made_in_slice <= calls_made_in_window
        BY QuotaAssumption, SliceConstants DEF IInv, TypeOK, Aligned, Nested
    <1>2. CASE calls_made_in_slice = 0
        BY <1>2 DEF InSlice
    <1>3. CASE calls_made_in_slice > 0 /\ now - last_reset >= Window
        <2> DEFINE begin == now - (now % Window)
                   q == now \div Window
        <2>1. q \in Nat /\ (now % Window) \in 0 .. Window - 1
              /\ now = (q * Window) + (now % Window)
            BY <1>1, DivMod
        <2>2. q * Window \in Nat
            BY <1>1, <2>1
        <2>3. begin = q * Window /\ begin \in Nat /\ begin <= now /\ now - begin >= Gap
            BY <1>1, <2>1, <2>2
        <2>4. begin % Window = 0
            <3>1. begin = (q * Window) + 0 /\ 0 \in 0 .. Window - 1
                BY <1>1, <2>3
            <3> HIDE DEF begin, q
            <3> QED BY <1>1, <2>1, <3>1, DivModUnique
        <2>5. now - begin < Window
            BY <1>1, <2>1, <2>3
        <2> HIDE DEF begin, q
        <2>6. last_reset + Window <= begin
            <3>1. last_reset < begin
                BY <1>1, <1>3, <2>3, <2>5
            <3> QED BY <1>1, <2>3, <2>4, <3>1, Apart
        <2>7. slice_start < begin
            BY <1>1, <1>3, <2>3, <2>6
        <2>8. now - slice_start >= SliceDuration
            BY <2>3, <2>4, <2>7, SliceIsOver
        <2> QED BY <2>8 DEF InSlice, Elapsed
    <1>4. CASE calls_made_in_slice > 0 /\ ~(now - last_reset >= Window)
        <2>1. calls_made_in_window = 0
            BY <1>4 DEF InWindow, Elapsed
        <2>2. slice_start < last_reset
            BY <1>1, <1>4, <2>1
        <2>3. now % Window = now - last_reset
            <3>1. now - last_reset < Window
                BY <1>1, <1>4
            <3> QED BY <1>1, <3>1, Between
        <2>4. now - last_reset >= Gap
            BY <2>3
        <2>5. now - slice_start >= SliceDuration
            BY <1>1, <2>2, <2>4, SliceIsOver
        <2> QED BY <2>5 DEF InSlice, Elapsed
    <1> QED BY <1>1, <1>2, <1>3, <1>4

\* A slice that a call leaves within the window has no more calls than it.
LEMMA NestedAfter ==
    ASSUME IInv, Spread, Reset, now' = now, slice_start' >= last_reset'
    PROVE  InSlice <= InWindow
    <1>1. /\ now \in Nat /\ last_reset \in Nat /\ slice_start \in Nat
          /\ last_reset <= now /\ slice_start <= now
          /\ Window \in Nat \ {0} /\ SliceDuration \in Nat \ {0}
          /\ calls_made_in_slice \in Nat /\ calls_made_in_window \in Nat
          /\ calls_made_in_slice > 0 => slice_start < last_reset + Window
          /\ slice_start >= last_reset => calls_made_in_slice <= calls_made_in_window
        BY QuotaAssumption, SliceConstants DEF IInv, TypeOK, Aligned, Nested
    <1>2. InWindow \in Nat
        BY Counters, QuotaAssumption
    <1>3. CASE Elapsed(slice_start, SliceDuration)
        BY <1>2, <1>3 DEF InSlice
    <1>4. CASE ~Elapsed(slice_start, SliceDuration)
        <2>1. slice_start' = slice_start
            <3>1. (now - slice_start) \in Nat /\ now - slice_start < SliceDuration
                BY <1>1, <1>4 DEF Elapsed
            <3>2. (now - slice_start) \div SliceDuration = 0
                BY <1>1, <3>1
            <3>3. 0 * SliceDuration = 0
                BY <1>1
            <3> QED BY <1>1, <3>2, <3>3 DEF Reset, Advanced
        <2>2. InSlice = calls_made_in_slice
            BY <1>4 DEF InSlice
        <2>3. CASE Elapsed(last_reset, Window)
            <3> DEFINE k == (now - last_reset) \div Window
            <3>1. (now - last_reset) \in Nat /\ now - last_reset >= Window
                BY <1>1, <2>3 DEF Elapsed
            <3>2. /\ k \in Nat /\ ((now - last_reset) % Window) \in 0 .. Window - 1
                  /\ now - last_reset = (k * Window) + ((now - last_reset) % Window)
                BY <1>1, <3>1, DivMod
            <3>3. k # 0
                <4>1. SUFFICES ASSUME k = 0 PROVE FALSE
                    OBVIOUS
                <4>2. 0 * Window = 0
                    BY <1>1
                <4> QED BY <1>1, <3>1, <3>2, <4>1, <4>2
            <3>4. last_reset' = last_reset + k * Window
                BY DEF Reset, Advanced
            <3> HIDE DEF k
            <3>5. k * Window >= Window /\ k * Window \in Nat
                BY <1>1, <3>2, <3>3
            <3>6. slice_start >= last_reset + Window
                BY <1>1, <2>1, <3>4, <3>5
            <3>7. calls_made_in_slice = 0
                BY <1>1, <3>6
            <3> QED BY <1>2, <2>2, <3>7
        <2>4. CASE ~Elapsed(last_reset, Window)
            <3>1. (now - last_reset) \in Nat /\ now - last_reset < Window
                BY <1>1, <2>4 DEF Elapsed
            <3>2. (now - last_reset) \div Window = 0
                BY <1>1, <3>1
            <3>3. 0 * Window = 0
                BY <1>1
            <3>4. last_reset' = last_reset
                BY <1>1, <3>2, <3>3 DEF Reset, Advanced
            <3> QED BY <1>1, <2>1, <2>2, <2>4, <3>4 DEF InWindow
        <2> QED BY <2>3, <2>4
    <1> QED BY <1>3, <1>4

-----------------------------------------------------------------------------
(* The inductive invariant *)

\* What the three outcomes of a call have in common.
LEMMA CallSteps ==
    ASSUME Call
    PROVE  /\ Reset /\ now' = now
           /\ \/ InWindow < Limit /\ calls_made_in_window' = InWindow + 1
              \/ calls_made_in_window' = InWindow
           /\ Spread => \/ /\ calls_made_in_slice' = InSlice + 1
                           /\ calls_made_in_window' = InWindow + 1
                        \/ /\ calls_made_in_slice' = InSlice
                           /\ calls_made_in_window' = InWindow
           /\ ~Spread => calls_made_in_slice' = calls_made_in_slice
    BY QuotaAssumption DEF Call, Allow, BlockedBySlice, BlockedByWindow, Refuse

\* The hint of a refusal is a time.
LEMMA HintIsNat ==
    ASSUME NEW d \in Nat, NEW start \in 0 .. now, now \in Nat, now - start < d
    PROVE  ((d - (now - start)) \div TicksPerMs) \in Nat
    <1>1. d - (now - start) \in Nat
        OBVIOUS
    <1> QED BY <1>1, QuotaAssumption, DivMod

LEMMA InitIInv == Init => IInv
    <1> SUFFICES ASSUME Init PROVE IInv
        OBVIOUS
    <1>1. TypeOK
        BY QuotaAssumption DEF Init, TypeOK
    <1>2. Aligned
        <2>1. \A d \in Nat \ {0} : 0 % d = 0
            BY DivModUnique
        <2>2. slice_start - Gap = 0 /\ slice_start >= Gap
            BY QuotaAssumption DEF Init
        <2>3. (slice_start - Gap) % SliceDuration = 0
            BY <2>1, <2>2, SliceConstants
        <2> QED BY <2>1, <2>2, <2>3, QuotaAssumption DEF Init, Aligned
    <1>3. Nested
        BY QuotaAssumption DEF Init, Nested
    <1> QED BY <1>1, <1>2, <1>3 DEF IInv

LEMMA CallKeepsIInv == IInv /\ Call => IInv'
    <1> SUFFICES ASSUME IInv, Call PROVE IInv'
        OBVIOUS
    <1>1. /\ now' = now /\ now \in 0 .. MaxTime
          /\ last_reset' \in 0 .. now /\ (last_reset' % Window) = 0
          /\ now - last_reset' < Window
          /\ slice_start' \in Gap .. now /\ ((slice_start' - Gap) % SliceDuration) = 0
          /\ Spread => now - slice_start' < SliceDuration
        BY CallSteps, ResetMoves DEF IInv, TypeOK
    <1>2. now \in Nat /\ Window \in Nat /\ SliceDuration \in Nat /\ Gap \in Nat
        BY <1>1, QuotaAssumption, SliceConstants
    <1>3. reply' \in [granted : BOOLEAN, remaining : 0 .. Limit, reset_in_ms : Nat]
        <2>1. CASE Allow
            BY <2>1, QuotaAssumption DEF Allow
        <2>2. CASE BlockedBySlice
            <3>1. slice_start' \in 0 .. now /\ now - slice_start' < SliceDuration
                <4>1. Spread
                    BY <2>2 DEF BlockedBySlice, SliceBlocks
                <4>2. slice_start' \in 0 .. now
                    BY <1>1, <1>2
                <4> QED BY <1>1, <4>1, <4>2
            <3>3. ((SliceDuration - (now - slice_start')) \div TicksPerMs) \in Nat
                BY <1>2, <3>1, HintIsNat
            <3>2. Limit - InWindow \in 0 .. Limit
                BY Counters, QuotaAssumption
            <3> QED BY <2>2, <3>2, <3>3 DEF BlockedBySlice, Refuse
        <2>3. CASE BlockedByWindow
            <3>1. ((Window - (now - last_reset')) \div TicksPerMs) \in Nat
                BY <1>1, <1>2, HintIsNat
            <3>2. Limit - InWindow \in 0 .. Limit
                BY Counters, QuotaAssumption
            <3> QED BY <2>3, <3>1, <3>2 DEF BlockedByWindow, Refuse
        <2> QED BY <2>1, <2>2, <2>3 DEF Call
    <1>4. calls_made_in_window' \in 0 .. Limit /\ calls_made_in_slice' \in Nat
        BY CallSteps, Counters, QuotaAssumption DEF IInv, TypeOK
    <1>5. TypeOK'
        BY <1>1, <1>2, <1>3, <1>4 DEF TypeOK
    <1>6. Aligned'
        <2>1. slice_start' >= Gap
            BY <1>1, <1>2
        <2>2. SliceDuration' = SliceDuration
            BY DEF SliceDuration
        <2> QED BY <1>1, <2>1, <2>2 DEF Aligned
    <1>7. Nested'
        <2>1. SUFFICES ASSUME Spread
                       PROVE  /\ slice_start' < last_reset' + Window
                              /\ slice_start' >= last_reset'
                                     => calls_made_in_slice' <= calls_made_in_window'
            BY DEF Nested
        <2>2. \A a, b \in 0 .. now : now - a < Window => b < a + Window
            BY <1>2
        <2>3. slice_start' < last_reset' + Window
            <3>1. slice_start' \in 0 .. now
                BY <1>1, <1>2
            <3> QED BY <1>1, <2>2, <3>1
        <2>4. ASSUME slice_start' >= last_reset'
              PROVE  calls_made_in_slice' <= calls_made_in_window'
            <3>1. InSlice <= InWindow
                BY <1>1, <2>1, <2>4, CallSteps, NestedAfter
            <3> QED BY <2>1, <3>1, CallSteps, Counters
        <2> QED BY <2>3, <2>4
    <1> QED BY <1>5, <1>6, <1>7 DEF IInv

LEMMA NextKeepsIInv == IInv /\ [Next]_vars => IInv'
    <1> SUFFICES ASSUME IInv, [Next]_vars PROVE IInv'
        OBVIOUS
    <1>1. CASE Tick
        BY <1>1, QuotaAssumption DEF IInv, TypeOK, Aligned, Nested, SliceDuration, Tick
    <1>2. CASE Call
        BY <1>2, CallKeepsIInv
    <1>3. CASE UNCHANGED vars
        BY <1>3 DEF IInv, TypeOK, Aligned, Nested, SliceDuration, vars
    <1> QED BY <1>1, <1>2, <1>3 DEF Next, Call

\* The window's start, slice and counters fit each other in every state, however
\* the clock has moved on between calls.
THEOREM Inductive == Spec => []IInv
    BY InitIInv, NextKeepsIInv, PTL DEF Spec

-----------------------------------------------------------------------------
(* The properties *)

\* Counters, start times and replies have their types: no subtraction of the
\* code goes below zero, and the window's counter never passes the limit.
THEOREM TypeCorrect == Spec => []TypeOK
    <1>1. IInv => TypeOK
        BY DEF IInv
    <1> QED BY <1>1, Inductive, PTL

\* Windows and slices stay on the grid laid at creation, whatever the gaps
\* between calls: the resets add no drift.
THEOREM NoDrift == Spec => []Aligned
    <1>1. IInv => Aligned
        BY DEF IInv
    <1> QED BY <1>1, Inductive, PTL

\* Where a window is a whole number of slices, the slice limit never refuses
\* the first call of a window, once the slice that reaches the Gap ticks into
\* it by which creation set the slices off is over.
THEOREM FreshWindow == Spec => []FreshWindowIsOpen
    <1>1. IInv => FreshWindowIsOpen
        <2> SUFFICES ASSUME IInv, Window % SliceDuration = 0, InWindow = 0,
                            now % Window >= Gap, SliceBlocks
                     PROVE  FALSE
            BY DEF FreshWindowIsOpen
        <2>1. InSlice = 0 /\ InSlice >= AllowedPerSlice
            BY NestedNow DEF SliceBlocks
        <2> QED BY <2>1, Counters, SliceConstants
    <1> QED BY <1>1, Inductive, PTL

-----------------------------------------------------------------------------
(* The refinement *)

LEMMA InitImplements == Init => Budget!Init
    <1> SUFFICES ASSUME Init PROVE Budget!Init
        OBVIOUS
    <1> QED BY QuotaAssumption, SliceConstants
            DEF Init, Budget!Init, Budget!Granted, InWindow, InSlice, Elapsed

LEMMA TickImplements == IInv /\ Tick => Budget!Tick
    <1> SUFFICES ASSUME IInv, Tick PROVE Budget!Tick
        OBVIOUS
    <1>1. /\ now \in Nat /\ last_reset \in Nat /\ slice_start \in Nat
          /\ last_reset <= now /\ slice_start <= now
          /\ last_reset % Window = 0 /\ ((slice_start - Gap) % SliceDuration) = 0
          /\ slice_start >= Gap /\ Gap \in Nat
          /\ Window \in Nat \ {0} /\ SliceDuration \in Nat \ {0}
        BY QuotaAssumption, SliceConstants DEF IInv, TypeOK, Aligned
    <1>2. InWindow' = IF (now' % Window) = 0 THEN 0 ELSE InWindow
        <2>1. now - last_reset < Window =>
                  (((now + 1) % Window) = 0 <=> (now + 1) - last_reset >= Window)
            BY <1>1, Turn
        <2>2. CASE now - last_reset < Window
            <3>1. InWindow = calls_made_in_window
                BY <1>1, <2>2 DEF InWindow, Elapsed
            <3>2. InWindow' = IF (now + 1) - last_reset >= Window THEN 0 ELSE calls_made_in_window
                BY DEF Tick, InWindow, Elapsed
            <3>3. now' = now + 1
                BY DEF Tick
            <3> QED BY <2>1, <2>2, <3>1, <3>2, <3>3
        <2>3. CASE now - last_reset >= Window
            <3>1. InWindow = 0 /\ (now + 1) - last_reset >= Window
                BY <1>1, <2>3 DEF InWindow, Elapsed
            <3>2. InWindow' = 0
                BY <3>1 DEF Tick, InWindow, Elapsed
            <3> QED BY <3>1, <3>2
        <2> QED BY <1>1, <2>2, <2>3
    <1>3. InSlice' = IF ((now' - Gap) % SliceDuration) = 0 THEN 0 ELSE InSlice
        <2>1. now - slice_start < SliceDuration =>
                  ((((now + 1) - Gap) % SliceDuration) = 0
                      <=> (now + 1) - slice_start >= SliceDuration)
            <3> DEFINE start == slice_start - Gap
                       t == now - Gap
            <3>1. /\ start \in Nat /\ t \in Nat /\ start <= t
                  /\ t - start = now - slice_start /\ t + 1 = (now + 1) - Gap
                  /\ (t + 1) - start = (now + 1) - slice_start
                BY <1>1
            <3>2. start % SliceDuration = 0
                BY <1>1
            <3> HIDE DEF start, t
            <3>3. t - start < SliceDuration =>
                      (((t + 1) % SliceDuration) = 0 <=> (t + 1) - start >= SliceDuration)
                BY <1>1, <3>1, <3>2, Turn
            <3> QED BY <3>1, <3>3
        <2>2. SliceDuration' = SliceDuration
            BY DEF SliceDuration
        <2>3. CASE now - slice_start < SliceDuration
            <3>1. InSlice = calls_made_in_slice
                BY <1>1, <2>3 DEF InSlice, Elapsed
            <3>2. InSlice' = IF (now + 1) - slice_start >= SliceDuration
                             THEN 0 ELSE calls_made_in_slice
                BY <2>2 DEF Tick, InSlice, Elapsed
            <3>3. now' = now + 1
                BY DEF Tick
            <3> QED BY <2>1, <2>3, <3>1, <3>2, <3>3
        <2>4. CASE now - slice_start >= SliceDuration
            <3>1. InSlice = 0 /\ (now + 1) - slice_start >= SliceDuration
                BY <1>1, <2>4 DEF InSlice, Elapsed
            <3>2. InSlice' = 0
                BY <2>2, <3>1 DEF Tick, InSlice, Elapsed
            <3> QED BY <3>1, <3>2
        <2> QED BY <1>1, <2>3, <2>4
    <1> QED BY <1>2, <1>3, QuotaAssumption DEF Tick, Budget!Tick

LEMMA CallImplements == IInv /\ Call => Budget!Grant \/ Budget!RefuseForSlice \/ Budget!RefuseForWindow
    <1> SUFFICES ASSUME IInv, Call
                 PROVE  Budget!Grant \/ Budget!RefuseForSlice \/ Budget!RefuseForWindow
        OBVIOUS
    <1>1. /\ now' = now /\ now \in Nat
          /\ last_reset' \in 0 .. now /\ (last_reset' % Window) = 0
          /\ now - last_reset' < Window
          /\ slice_start' \in Gap .. now /\ ((slice_start' - Gap) % SliceDuration) = 0
          /\ Spread => now - slice_start' < SliceDuration
          /\ Window \in Nat \ {0} /\ SliceDuration \in Nat \ {0}
        BY CallSteps, ResetMoves, QuotaAssumption, SliceConstants DEF IInv, TypeOK
    <1>2. InWindow' = calls_made_in_window'
        <2>1. \A a \in 0 .. now : now - a < Window => ~(now - a >= Window)
            BY <1>1
        <2>2. ~(now' - last_reset' >= Window)
            BY <1>1, <2>1
        <2> QED BY <2>2 DEF InWindow, Elapsed
    <1>3. Spread => InSlice' = calls_made_in_slice'
        <2>1. Gap \in Nat
            BY QuotaAssumption
        <2>2. \A a \in Gap .. now : now - a < SliceDuration => ~(now - a >= SliceDuration)
            BY <1>1, <2>1
        <2> QED BY <1>1, <2>2 DEF InSlice, Elapsed, SliceDuration
    <1>4. (now % Window) = now - last_reset'
        <2>1. last_reset' \in Nat /\ last_reset' <= now
            BY <1>1
        <2> QED BY <1>1, <2>1, Between
    <1>5. Spread => ((now - Gap) % SliceDuration) = now - slice_start'
        <2> DEFINE start == slice_start' - Gap
                   t == now - Gap
        <2>1. /\ start \in Nat /\ t \in Nat /\ start <= t
              /\ t - start = now - slice_start'
            <3>1. Gap \in Nat
                BY QuotaAssumption
            <3>2. now \in Nat /\ slice_start' \in Gap .. now
                BY <1>1
            <3>3. \A x \in Gap .. now : /\ x - Gap \in Nat /\ now - Gap \in Nat
                                      /\ x - Gap <= now - Gap
                                      /\ (now - Gap) - (x - Gap) = now - x
                BY <3>1, <3>2
            <3> QED BY <3>2, <3>3
        <2>3. start % SliceDuration = 0
            BY <1>1
        <2> HIDE DEF start
        <2>2. t - start < SliceDuration => (t % SliceDuration) = t - start
            BY <1>1, <2>1, <2>3, Between
        <2> QED BY <1>1, <2>1, <2>2
    <1>6. CASE Allow
        <2>1. Budget!Grant
            BY <1>2, <1>3, <1>6, Counters, SliceConstants, QuotaAssumption
               DEF Allow, SliceBlocks, Budget!Grant, Budget!SliceSpent, Budget!Granted
        <2> QED BY <2>1
    <1>7. CASE BlockedBySlice
        <2>1. Budget!RefuseForSlice
            BY <1>2, <1>3, <1>5, <1>7
               DEF BlockedBySlice, SliceBlocks, Refuse, Budget!RefuseForSlice,
                   Budget!SliceSpent, Budget!Refused, Budget!Ms
        <2> QED BY <2>1
    <1>8. CASE BlockedByWindow
        <2>1. Limit - InWindow = 0
            BY <1>8, Counters, QuotaAssumption DEF BlockedByWindow
        <2>2. Budget!RefuseForWindow
            BY <1>2, <1>3, <1>4, <1>8, <2>1
               DEF BlockedByWindow, Refuse, Budget!RefuseForWindow,
                   Budget!Refused, Budget!Ms
        <2> QED BY <2>2
    <1> QED BY <1>6, <1>7, <1>8 DEF Call

\* Resetting at the next call is as good as resetting on time: every answer
\* and every hint is the one a budget gives that is renewed by the clock.
THEOREM Implementation == Spec => ImplementsRateBudget
    <1>1. Init => Budget!Init
        BY InitImplements
    <1>2. IInv /\ [Next]_vars => [Budget!Next]_Budget!vars
        <2> SUFFICES ASSUME IInv, [Next]_vars PROVE [Budget!Next]_Budget!vars
            OBVIOUS
        <2>1. CASE Tick
            BY <2>1, TickImplements DEF Budget!Next
        <2>2. CASE Call
            BY <2>2, CallImplements DEF Budget!Next
        <2>3. CASE UNCHANGED vars
            BY <2>3 DEF vars, Budget!vars, InWindow, InSlice, Elapsed, SliceDuration
        <2> QED BY <2>1, <2>2, <2>3 DEF Next, Call
    <1> QED BY <1>1, <1>2, Inductive, PTL DEF Spec, Budget!Spec, ImplementsRateBudget
=============================================================================
