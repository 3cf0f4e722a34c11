------------------------- MODULE ActivityLed_proofs -------------------------
(***************************************************************************)
(* Theorems about ActivityLed, for any clock, pulse and longest pass of    *)
(* loop() that fit together: the signed comparison of actLedTick is right  *)
(* on both sides of the wrap.                                              *)
(***************************************************************************)
EXTENDS ActivityLed, TLAPS

\* An unsigned number wraps into its range.
LEMMA Wraps == ASSUME NEW n \in Nat, NEW w \in Nat \ {0}
               PROVE  n % w \in 0 .. w - 1
  OBVIOUS

\* The unsigned difference of two clock readings grows by one a tick and wraps.
LEMMA DifferenceTicks ==
  ASSUME NEW w \in Nat \ {0}, NEW n \in 0 .. w - 1, NEW c \in 0 .. w - 1,
         NEW m, m = (n + 1) % w
  PROVE  (m - c + w) % w = IF (n - c + w) % w = w - 1 THEN 0
                           ELSE ((n - c + w) % w) + 1
  OBVIOUS

\* What lies d ahead of the clock is the width less d behind it.
LEMMA DifferenceAhead ==
  ASSUME NEW w \in Nat \ {0}, NEW n \in 0 .. w - 1, NEW d \in 1 .. w - 1,
         NEW c, c = (n + d) % w
  PROVE  (n - c + w) % w = w - d
  OBVIOUS

USE ClockAssumption

\* How far the clock is past the time to switch off.
Past == (now - actLedOffMs + Wrap) % Wrap

\* While a lit LED waits for its time, that time lies Duration after the last
\* byte, and no actLedTick has come after it.
PulseInv ==
  lit = 1 /\ actLedOffMs # 0 =>
    /\ Past = IF idle >= Duration THEN idle - Duration ELSE Wrap - Duration + idle
    /\ idle <= Duration + sinceTick

IInv == TypeOK /\ PulseInv

\* The LED starts dark.
LEMMA LedInit == Init => IInv
  BY DEF Init, IInv, TypeOK, PulseInv, Horizon

\* Every pulse, tick and millisecond keeps the types.
LEMMA TypeStep == TypeOK /\ [Next]_vars => TypeOK'
<1> SUFFICES ASSUME TypeOK, [Next]_vars PROVE TypeOK'
  OBVIOUS
<1> USE DEF TypeOK
<1>1. CASE ActLedPulse
  <2>1. OffTime \in 0 .. Wrap - 1
    <3>1. now + Duration \in Nat /\ Wrap \in Nat \ {0}
      OBVIOUS
    <3> QED
      BY <3>1, Wraps DEF OffTime
  <2> QED
    BY <1>1, <2>1 DEF ActLedPulse, Horizon
<1>2. CASE ActLedTick
  BY <1>2 DEF ActLedTick
<1>3. CASE Millisecond
  <2>1. now' \in 0 .. Wrap - 1
    <3>1. now + 1 \in Nat /\ Wrap \in Nat \ {0}
      OBVIOUS
    <3> QED
      BY <1>3, <3>1, Wraps DEF Millisecond
  <2> QED
    BY <1>3, <2>1 DEF Millisecond, Horizon
<1>4. CASE UNCHANGED vars
  BY <1>4 DEF vars
<1> QED
  BY <1>1, <1>2, <1>3, <1>4 DEF Next

\* With its time less than Duration ahead the LED is not due, with its time at
\* most MaxGap past it is: what the signed comparison is for.
LEMMA ReachedInTime ==
  ASSUME IInv, lit = 1, actLedOffMs # 0
  PROVE  Reached <=> idle >= Duration
<1>1. Reached <=> 2 * Past < Wrap
  BY DEF Reached, Past
<1> HIDE DEF Past
<1> QED
  BY <1>1 DEF IInv, TypeOK, PulseInv, Horizon

\* Every pulse, tick and millisecond keeps the invariant.
LEMMA LedStep == IInv /\ [Next]_vars => IInv'
<1> SUFFICES ASSUME IInv, [Next]_vars PROVE IInv'
  OBVIOUS
<1>1. TypeOK /\ TypeOK' /\ PulseInv
  BY TypeStep DEF IInv
<1> SUFFICES PulseInv'
  BY <1>1 DEF IInv
<1>2. CASE ActLedPulse
  <2>1. /\ Wrap \in Nat \ {0} /\ now \in 0 .. Wrap - 1 /\ Duration \in 1 .. Wrap - 1
        /\ actLedOffMs' = (now + Duration) % Wrap
    BY <1>1, <1>2 DEF TypeOK, ActLedPulse, OffTime
  <2>2. Past' = Wrap - Duration
    <3>1. Past' = (now - actLedOffMs' + Wrap) % Wrap
      BY <1>2 DEF ActLedPulse, Past
    <3> QED
      BY <2>1, <3>1, DifferenceAhead, SMTT(30)
  <2> QED
    BY <1>1, <1>2, <2>2 DEF ActLedPulse, PulseInv, TypeOK
<1>3. CASE ActLedTick
  <2>1. CASE lit = 1 /\ actLedOffMs # 0
    <3>1. CASE idle >= Duration
      BY <1>3, <2>1, <3>1, ReachedInTime DEF ActLedTick, PulseInv
    <3>2. CASE ~(idle >= Duration)
      <4>1. UNCHANGED <<now, actLedOffMs, lit, idle>> /\ Past' = Past
        BY <1>3, <2>1, <3>2, ReachedInTime DEF ActLedTick, Past
      <4> HIDE DEF Past
      <4> QED
        BY <1>1, <1>3, <2>1, <3>2, <4>1 DEF ActLedTick, PulseInv, TypeOK
    <3> QED
      BY <3>1, <3>2
  <2>2. CASE ~(lit = 1 /\ actLedOffMs # 0)
    BY <1>3, <2>2 DEF ActLedTick, PulseInv
  <2> QED
    BY <2>1, <2>2
<1>4. CASE Millisecond
  <2>1. Past' = IF Past = Wrap - 1 THEN 0 ELSE Past + 1
    <3>1. /\ Wrap \in Nat \ {0} /\ now \in 0 .. Wrap - 1
          /\ actLedOffMs \in 0 .. Wrap - 1
          /\ actLedOffMs' = actLedOffMs /\ now' = (now + 1) % Wrap
      BY <1>1, <1>4 DEF TypeOK, Millisecond
    <3> QED
      BY <3>1, DifferenceTicks DEF Past
  <2> QED
    BY <1>1, <1>4, <2>1 DEF Millisecond, PulseInv, TypeOK, Horizon
<1>5. CASE UNCHANGED vars
  BY <1>1, <1>5 DEF vars, PulseInv, Past
<1> QED
  BY <1>2, <1>3, <1>4, <1>5 DEF Next

\* Clock, mark and pin keep their types.
THEOREM TypeInvariant == Spec => []TypeOK
<1>1. IInv => TypeOK
  BY DEF IInv
<1> QED
  BY <1>1, LedInit, LedStep, PTL DEF Spec

\* A lit LED whose off time is not the mark goes out at the first tick after
\* its time, whenever the clock wraps.
THEOREM AlwaysOffInTime == Spec => []OffInTime
<1>1. IInv => OffInTime
  BY DEF IInv, TypeOK, PulseInv, OffInTime, Horizon
<1> QED
  BY <1>1, LedInit, LedStep, PTL DEF Spec

\* The LED is never switched off before its time.
THEOREM NeverSwitchedOffEarly == Spec => NeverEarly
<1>1. IInv /\ [Next]_vars => [lit = 1 /\ lit' = 0 => idle >= Duration]_vars
  <2> SUFFICES ASSUME IInv, Next, lit = 1, lit' = 0 PROVE idle >= Duration
    OBVIOUS
  <2>1. actLedOffMs # 0 /\ Reached
    BY DEF Next, ActLedPulse, ActLedTick, Millisecond
  <2> QED
    BY <2>1, ReachedInTime
<1> QED
  BY <1>1, LedInit, LedStep, PTL DEF Spec, NeverEarly
=============================================================================
