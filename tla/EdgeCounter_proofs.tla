------------------------- MODULE EdgeCounter_proofs -------------------------
(***************************************************************************)
(* Theorems about EdgeCounter, for any debounce window, clock and counter  *)
(* width and any polling.                                                  *)
(***************************************************************************)
EXTENDS EdgeCounter, TLAPS

\* An unsigned number wraps into its range.
LEMMA Wraps == ASSUME NEW n \in Nat, NEW w \in Nat \ {0}
               PROVE  n % w \in 0 .. w - 1
  OBVIOUS

\* The unsigned difference of two clock readings: none at first, and one more
\* after a tick, on either side of the wrap, until it has reached its range.
LEMMA DifferenceTicks ==
  ASSUME NEW w \in Nat \ {0}, NEW n \in 0 .. w - 1, NEW c \in 0 .. w - 1,
         NEW m, m = (n + 1) % w
  PROVE  /\ (n - c + w) % w \in 0 .. w - 1
         /\ (c - c + w) % w = 0
         /\ (n - c + w) % w < w - 1 => (m - c + w) % w = ((n - c + w) % w) + 1
  OBVIOUS

USE ClockAssumption, CountWrapAssumption

\* A debounced high level that the pin or the last poll contradicts has seen
\* the pin fall since the last count.
FallInv == inputPrev = 1 /\ (pin = 0 \/ inputRaw = 0) => fell = 1

\* A level that no poll has seen is younger than the last poll.
UnseenInv ==
  /\ pin # inputRaw => unseen > 0
  /\ unseen > 0 => steady <= sincePoll

\* While a window runs, every poll found it too short: the truncated clock has
\* not wrapped past it, the level is at most one poll older than the window,
\* and no younger unless a flip went unseen.
WindowInv ==
  inputRaw # inputPrev =>
    /\ Elapsed < Debounce + sincePoll
    /\ steady <= Elapsed + MaxGap
    /\ unseen = 0 /\ blind = 0 => steady >= Elapsed

\* The last count lies before the release that followed it, a window ago, and
\* before the window that runs now.
SpacingInv ==
  /\ inputPrev = 0 /\ inputRaw = 1 => sinceCount >= Elapsed
  /\ inputPrev = 1 => sinceCount >= Debounce
  /\ inputPrev = 1 /\ inputRaw = 0 => sinceCount >= Debounce + Elapsed

IInv == TypeOK /\ FallInv /\ UnseenInv /\ WindowInv /\ SpacingInv

\* ifaceInit seeds both levels from the pin, so no window runs.
LEMMA CounterInit == Init => IInv
  BY DEF Init, IInv, TypeOK, FallInv, UnseenInv, WindowInv, SpacingInv, Horizon

\* Whatever digitalRead returns of a high pin, a poll works on 0 or 1.
LEMMA LevelIsPin == ASSUME TypeOK PROVE NewLevel = pin
  BY LevelAssumption DEF TypeOK, NewLevel, DigitalRead

\* Every poll, flip, reset and millisecond keeps the types.
LEMMA TypeStep == TypeOK /\ [Next]_vars => TypeOK'
<1> SUFFICES ASSUME TypeOK, [Next]_vars PROVE TypeOK'
  OBVIOUS
<1>0. NewLevel \in {0, 1}
  BY LevelIsPin DEF TypeOK
<1> USE DEF TypeOK, counterVars, ghostVars
<1>1. CASE IfaceEdgePoll
  <2>1. CASE RawFlip
    BY <1>0, <1>1, <2>1 DEF IfaceEdgePoll, RawFlip, RestartWindow
  <2>2. CASE Adopt
    <3>1. CountUp \in 0 .. CountWrap - 1
      <4> HIDE DEF TypeOK
      <4>1. inputCount + 1 \in Nat
        BY DEF TypeOK
      <4> QED
        BY <4>1, Wraps DEF CountUp
    <3>2. inputCount' \in 0 .. CountWrap - 1
      BY <2>2, <3>1 DEF Adopt
    <3>3. sinceCount' \in 0 .. Horizon
      BY <2>2 DEF Adopt, Horizon
    <3> QED
      BY <1>0, <1>1, <2>2, <3>2, <3>3 DEF IfaceEdgePoll, Adopt
  <2>3. CASE Hold
    BY <1>1, <2>3 DEF IfaceEdgePoll, Hold
  <2> QED
    BY <1>1, <2>1, <2>2, <2>3 DEF IfaceEdgePoll
<1>2. CASE IfaceResetCount
  BY <1>2 DEF IfaceResetCount
<1>3. CASE PinFlip
  BY <1>3 DEF PinFlip, Horizon
<1>4. CASE Millisecond
  <2>1. now' \in 0 .. Wrap - 1
    BY <1>4, Wraps DEF Millisecond
  <2>2. steady' \in 0 .. Horizon /\ sinceCount' \in 0 .. Horizon
    BY <1>4 DEF Millisecond, Tick1, Horizon
  <2> QED
    BY <1>4, <2>1, <2>2 DEF Millisecond
<1>5. CASE UNCHANGED vars
  BY <1>5 DEF vars
<1> QED
  BY <1>1, <1>2, <1>3, <1>4, <1>5 DEF Next

\* What a step makes of the time since the window was restarted.
LEMMA ElapsedStep ==
  ASSUME TypeOK
  PROVE  /\ Elapsed \in 0 .. Wrap - 1
         /\ RestartWindow /\ UNCHANGED now => Elapsed' = 0
         /\ UNCHANGED <<now, inputChangeMs>> => Elapsed' = Elapsed
         /\ Millisecond /\ Elapsed < Wrap - 1 => Elapsed' = Elapsed + 1
<1>1. /\ Wrap \in Nat \ {0}
      /\ now \in 0 .. Wrap - 1 /\ inputChangeMs \in 0 .. Wrap - 1
  BY DEF TypeOK
<1>2. Elapsed \in 0 .. Wrap - 1
  BY <1>1, DifferenceTicks DEF Elapsed
<1>3. ASSUME RestartWindow, UNCHANGED now PROVE Elapsed' = 0
  BY <1>1, <1>3, DifferenceTicks DEF Elapsed, RestartWindow
<1>4. ASSUME UNCHANGED <<now, inputChangeMs>> PROVE Elapsed' = Elapsed
  BY <1>4 DEF Elapsed
<1>5. ASSUME Millisecond, Elapsed < Wrap - 1 PROVE Elapsed' = Elapsed + 1
  BY <1>1, <1>5, DifferenceTicks DEF Elapsed, Millisecond, counterVars
<1> QED
  BY <1>2, <1>3, <1>4, <1>5

\* Every poll, flip, reset and millisecond keeps the invariant.
LEMMA CounterStep == IInv /\ [Next]_vars => IInv'
<1> SUFFICES ASSUME IInv, [Next]_vars PROVE IInv'
  OBVIOUS
<1>1. TypeOK /\ TypeOK'
  BY TypeStep DEF IInv
<1>2. FallInv /\ UnseenInv /\ WindowInv /\ SpacingInv
  BY DEF IInv
<1> SUFFICES (FallInv /\ UnseenInv /\ WindowInv /\ SpacingInv)'
  BY <1>1 DEF IInv
<1>0. NewLevel = pin
  BY <1>1, LevelIsPin
<1> USE <1>0, <1>1, <1>2
<1> USE DEF FallInv, UnseenInv, WindowInv, SpacingInv, counterVars, ghostVars
<1>3. CASE IfaceEdgePoll
  <2>1. CASE RawFlip
    <3>1. Elapsed' = 0
      BY <1>3, <2>1, ElapsedStep DEF IfaceEdgePoll, RawFlip
    <3> QED
      BY <1>3, <2>1, <3>1 DEF IfaceEdgePoll, RawFlip, TypeOK
  <2>2. CASE Adopt
    <3>1. Elapsed' = Elapsed /\ Elapsed \in 0 .. Wrap - 1
      BY <1>3, <2>2, ElapsedStep DEF IfaceEdgePoll, Adopt
    <3> QED
      BY <1>3, <2>2, <3>1 DEF IfaceEdgePoll, Adopt, CountsThisEdge, TypeOK
  <2>3. CASE Hold
    <3>1. Elapsed' = Elapsed /\ Elapsed \in 0 .. Wrap - 1
      BY <1>3, <2>3, ElapsedStep DEF IfaceEdgePoll, Hold
    <3> QED
      BY <1>3, <2>3, <3>1 DEF IfaceEdgePoll, Hold, TypeOK
  <2> QED
    BY <1>3, <2>1, <2>2, <2>3 DEF IfaceEdgePoll
<1>4. CASE IfaceResetCount
  <2>1. Elapsed' = Elapsed
    BY <1>4, ElapsedStep DEF IfaceResetCount
  <2> QED
    BY <1>4, <2>1 DEF IfaceResetCount
<1>5. CASE PinFlip
  <2>1. Elapsed' = Elapsed /\ Elapsed \in 0 .. Wrap - 1
    BY <1>5, ElapsedStep DEF PinFlip
  <2> QED
    BY <1>5, <2>1 DEF PinFlip, TypeOK
<1>6. CASE Millisecond
  <2>1. Elapsed \in 0 .. Wrap - 1
    BY ElapsedStep
  <2>2. FallInv' /\ UnseenInv'
    BY <1>6 DEF Millisecond, Tick1, Horizon, TypeOK
  <2>3. CASE inputRaw = inputPrev
    BY <1>6, <2>2, <2>3 DEF Millisecond, Tick1, Horizon, TypeOK
  <2>4. CASE inputRaw # inputPrev
    <3>1. Elapsed' = Elapsed + 1
      BY <1>6, <2>1, <2>4, ElapsedStep DEF Millisecond, TypeOK
    <3>2. WindowInv'
      BY <1>6, <2>1, <2>4, <3>1 DEF Millisecond, Tick1, Horizon, TypeOK
    <3>3. SpacingInv'
      BY <1>6, <2>1, <2>4, <3>1 DEF Millisecond, Tick1, Horizon, TypeOK
    <3> QED
      BY <2>2, <3>2, <3>3
  <2> QED
    BY <2>3, <2>4
<1>7. CASE UNCHANGED vars
  <2>1. Elapsed' = Elapsed
    BY <1>7, ElapsedStep DEF vars
  <2> QED
    BY <1>7, <2>1 DEF vars
<1> QED
  BY <1>3, <1>4, <1>5, <1>6, <1>7 DEF Next

\* Only the end of a window changes the debounced level.
LEMMA OnlyAdoptAdopts ==
  ASSUME Next, inputPrev' # inputPrev PROVE Adopt
  BY DEF Next, IfaceEdgePoll, RawFlip, Hold, IfaceResetCount, PinFlip,
         Millisecond, counterVars

\* Every variable keeps its type; clock and count stay in their widths.
THEOREM TypeInvariant == Spec => []TypeOK
<1>1. IInv => TypeOK
  BY DEF IInv
<1> QED
  BY <1>1, CounterInit, CounterStep, PTL DEF Spec

\* Each count stands for a fall of the pin of its own, however it bounces and
\* whenever it is polled.
THEOREM EachCountIsAFall == Spec => CountsAreFalls
<1>1. IInv /\ [Next]_vars => [Counted => fell = 1]_vars
  <2> SUFFICES ASSUME IInv, Next, Counted PROVE fell = 1
    OBVIOUS
  <2>1. Adopt /\ CountsThisEdge
    BY OnlyAdoptAdopts DEF Counted, Adopt
  <2> QED
    BY <2>1, LevelIsPin DEF CountsThisEdge, IInv, TypeOK, FallInv
<1> QED
  BY <1>1, CounterInit, CounterStep, PTL DEF Spec, CountsAreFalls

\* A level that holds for a window and two loop passes is the debounced one,
\* for every width of the clock that fits a window and a pass.
THEOREM SteadyAlwaysAdopted == Spec => []SteadyIsAdopted
<1>1. IInv => SteadyIsAdopted
  <2> SUFFICES ASSUME IInv, steady >= Debounce + 2 * MaxGap PROVE inputPrev = pin
    BY DEF SteadyIsAdopted
  <2>1. pin = inputRaw
    BY DEF IInv, TypeOK, UnseenInv
  <2>2. Elapsed \in 0 .. Wrap - 1
    BY ElapsedStep DEF IInv
  <2>3. inputRaw = inputPrev
    BY <2>2 DEF IInv, TypeOK, WindowInv
  <2> QED
    BY <2>1, <2>3
<1> QED
  BY <1>1, CounterInit, CounterStep, PTL DEF Spec

\* Two counts are two windows apart, across any wrap of the clock.
THEOREM CountsAlwaysSpaced == Spec => CountsAreSpaced
<1>1. IInv /\ [Next]_vars => [Counted => sinceCount >= 2 * Debounce]_vars
  <2> SUFFICES ASSUME IInv, Next, Counted PROVE sinceCount >= 2 * Debounce
    OBVIOUS
  <2>1. Adopt /\ CountsThisEdge
    BY OnlyAdoptAdopts DEF Counted, Adopt
  <2>2. inputPrev = 1 /\ inputRaw = 0 /\ Elapsed >= Debounce
    BY <2>1 DEF Adopt, CountsThisEdge, IInv, TypeOK
  <2>3. Elapsed \in 0 .. Wrap - 1 /\ sinceCount \in Nat
    BY ElapsedStep DEF IInv, TypeOK, Horizon
  <2> QED
    BY <2>2, <2>3 DEF IInv, SpacingInv
<1> QED
  BY <1>1, CounterInit, CounterStep, PTL DEF Spec, CountsAreSpaced

\* No level is adopted before its window is over, unless it flipped between
\* two polls and back.
THEOREM SeenLevelsAlwaysHold == Spec => SeenLevelsHold
<1>1. IInv /\ [Next]_vars =>
        [inputPrev' # inputPrev => steady >= Debounce \/ unseen > 0 \/ blind = 1]_vars
  <2> SUFFICES ASSUME IInv, Next, inputPrev' # inputPrev, ~(unseen > 0), blind # 1
               PROVE  steady >= Debounce
    OBVIOUS
  <2>1. inputRaw # inputPrev /\ Elapsed >= Debounce
    BY OnlyAdoptAdopts DEF Adopt
  <2>2. Elapsed \in 0 .. Wrap - 1
    BY ElapsedStep DEF IInv
  <2>3. unseen = 0 /\ blind = 0 /\ steady \in Nat
    BY DEF IInv, TypeOK, Horizon
  <2> QED
    BY <2>1, <2>2, <2>3 DEF IInv, WindowInv
<1> QED
  BY <1>1, CounterInit, CounterStep, PTL DEF Spec, SeenLevelsHold
=============================================================================
