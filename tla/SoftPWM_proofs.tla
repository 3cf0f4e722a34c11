--------------------------- MODULE SoftPWM_proofs ---------------------------
(***************************************************************************)
(* Theorems about SoftPWM, for any number of outputs, period, prescaler    *)
(* and delay: the outputs get the duty they are asked for, and the ROM     *)
(* finds them low.                                                         *)
(***************************************************************************)
EXTENDS SoftPWM, TLAPS

\* A later start only adds to the room there is.
LEMMA RoomLeft ==
  ASSUME NEW e \in Nat, NEW p \in Nat, NEW m \in Nat, e = 0 \/ e > m
  PROVE  e = 0 \/ e + p > m
  OBVIOUS

USE SizeAssumption, DelayAssumption, PhaseAssumption

\* What an output has had of its duty after c ticks of the period.
Share(d, c) == IF d < c THEN d ELSE c

\* A steady output has been high for its share so far, any output for no
\* longer than the period has lasted; at 0 the last period is complete.
ShareInv ==
  pwmCounter > 0 =>
    \A o \in Output :
      /\ high[o] <= pwmCounter
      /\ o \in steady => high[o] = Share(pwmDuty[o], pwmCounter)

\* The teardown: the duties are cleared one by one; after that a PWM tick
\* clears the pins, and the delay is too long for the prescaler to skip it.
TeardownInv ==
  /\ pc = "clear" => request = AllOff /\ \A o \in Output : o < next => pwmDuty[o] = 0
  /\ pc \in {"delay", "rom"} => \A o \in Output : pwmDuty[o] = 0
  /\ pc = "delay" => pin = AllOff \/ left + ifaPrescale >= PrescaleMax
  /\ pc = "rom" => pin = AllOff
  /\ pc \in {"clear", "delay"} => envelopeTicks = 0

\* Since the last PWM tick every interrupt has moved the prescaler, but for one
\* phase load at most, after which the prescaler gets to the next PWM tick
\* before the envelope gets to the next load.
PaceInv ==
  started = 0 =>
    \/ since = ifaPrescale
    \/ /\ since = ifaPrescale + 1
       /\ envelopeTicks = 0 \/ envelopeTicks + ifaPrescale > PrescaleMax

IInv == TypeOK /\ ShareInv /\ TeardownInv /\ PaceInv

-----------------------------------------------------------------------------
\* A board that is plugged in has nothing to clear and nothing to share.
LEMMA PWMInit == Init => IInv
  BY DEF Init, IInv, TypeOK, ShareInv, TeardownInv, PaceInv, Output, Duty, AllOff

\* The main loop changes duties, and starts and ends bursts, but never pins.
LEMMA MainStep == IInv /\ Main => IInv'
<1> SUFFICES ASSUME IInv, Main PROVE IInv'
  OBVIOUS
<1> USE DEF IInv, TypeOK, pwmVars, paceVars, Output, Duty, AllOff
<1>1. CASE SetOutputs
  <2>1. request' \in [Output -> Duty]
    BY <1>1 DEF SetOutputs
  <2>2. /\ pc' = "set" /\ next' = 1 /\ partly' = 0
        /\ UNCHANGED <<pwmDuty, pwmCounter, ifaPrescale, pin, left, high, steady>>
        /\ UNCHANGED paceVars
    BY <1>1 DEF SetOutputs
  <2>3. next' \in 1 .. Outputs + 1
    BY <2>2
  <2>4. TypeOK'
    BY <2>1, <2>2, <2>3
  <2>5. ShareInv' /\ TeardownInv' /\ PaceInv'
    BY <2>2 DEF ShareInv, TeardownInv, PaceInv
  <2> QED
    BY <2>4, <2>5
<1>2. CASE StartBurst
  BY <1>2 DEF StartBurst, ShareInv, TeardownInv, PaceInv
<1>3. CASE AbortBurst
  BY <1>3 DEF AbortBurst, Quiet, ShareInv, TeardownInv, PaceInv
<1>4. CASE ResetState
  BY <1>4 DEF ResetState, ShareInv, TeardownInv, PaceInv
<1>5. CASE EnterBootloader
  BY <1>5, SMTT(30) DEF EnterBootloader, Quiet, ShareInv, TeardownInv, PaceInv
<1>6. CASE WriteDuty
  <2>1. next \in Output /\ request[next] \in Duty /\ next' \in 1 .. Outputs + 1
    BY <1>6 DEF WriteDuty
  <2>2. pwmDuty' \in [Output -> Duty]
    BY <1>6, <2>1 DEF WriteDuty
  <2>3. steady' \subseteq Output /\ partly' \in {0, 1}
    BY <1>6 DEF WriteDuty
  <2>4. TypeOK'
    BY <1>6, <2>1, <2>2, <2>3 DEF WriteDuty
  <2>5. ShareInv'
    BY <1>6 DEF WriteDuty, ShareInv
  <2>6. TeardownInv'
    BY <1>6 DEF WriteDuty, TeardownInv
  <2>7. PaceInv'
    BY <1>6 DEF WriteDuty, PaceInv
  <2> QED
    BY <2>4, <2>5, <2>6, <2>7
<1>7. CASE WritesDone
  <2>1. envelopeTicks' \in {0, envelopeTicks} /\ UNCHANGED <<since, started>>
    BY <1>7 DEF WritesDone, Quiet
  <2>2. TypeOK' /\ ShareInv' /\ TeardownInv'
    BY <1>7, <2>1 DEF WritesDone, ShareInv, TeardownInv
  <2>3. PaceInv'
    BY <1>7, <2>1 DEF WritesDone, PaceInv
  <2> QED
    BY <2>2, <2>3
<1>8. CASE StartDelay
  BY <1>8 DEF StartDelay, Delay, ShareInv, TeardownInv, PaceInv
<1>9. CASE JumpToROM
  BY <1>9 DEF JumpToROM, ShareInv, TeardownInv, PaceInv
<1> QED
  BY <1>1, <1>2, <1>3, <1>4, <1>5, <1>6, <1>7, <1>8, <1>9 DEF Main

\* A phase load leaves the prescaler alone, and the next load is far away.
LEMMA LoadStep == IInv /\ LoadPhase => IInv'
<1> SUFFICES ASSUME IInv, LoadPhase PROVE IInv'
  OBVIOUS
<1> USE DEF IInv, LoadPhase, CountDown, Less1, Late, PrescaleKept
<1>1. envelopeTicks' \in Nat /\ (envelopeTicks' = 0 \/ envelopeTicks' > PrescaleMax)
  OBVIOUS
<1>2. left' \in 0 .. DelayTicks /\ since' \in 0 .. PrescaleMax + 1
  BY DEF TypeOK
<1>3. TypeOK'
  BY <1>1, <1>2 DEF TypeOK
<1>4. ShareInv'
  BY DEF ShareInv
<1>5. TeardownInv'
  BY DEF TypeOK, TeardownInv
<1>6. PaceInv'
  <2>1. CASE since = ifaPrescale
    <3>1. since' = ifaPrescale' + 1
      BY <2>1 DEF TypeOK
    <3>2. ifaPrescale' \in Nat /\ PrescaleMax \in Nat
      BY DEF TypeOK
    <3>3. envelopeTicks' = 0 \/ envelopeTicks' + ifaPrescale' > PrescaleMax
      <4> HIDE DEF LoadPhase, IInv
      <4> QED
        BY <1>1, <3>2, RoomLeft
    <3> QED
      BY <3>1, <3>3 DEF PaceInv
  <2>2. CASE since = ifaPrescale + 1 /\ envelopeTicks + ifaPrescale > PrescaleMax
    BY <2>2 DEF TypeOK
  <2> QED
    BY <2>1, <2>2 DEF PaceInv
<1> QED
  BY <1>3, <1>4, <1>5, <1>6

\* An interrupt without a PWM tick uses up delay and prescaler together.
LEMMA SkipStep == IInv /\ SkipTick => IInv'
<1> SUFFICES ASSUME IInv, SkipTick PROVE IInv'
  OBVIOUS
<1> USE DEF IInv, SkipTick, CountDown, Less1, Late
<1>1. envelopeTicks' \in Nat /\ left' \in 0 .. DelayTicks
  BY DEF TypeOK
<1>2. since' \in 0 .. PrescaleMax + 1 /\ ifaPrescale' \in 0 .. PrescaleMax - 1
  BY DEF TypeOK
<1>3. TypeOK'
  BY <1>1, <1>2 DEF TypeOK
<1>4. ShareInv'
  BY DEF ShareInv
<1>5. TeardownInv'
  BY DEF TypeOK, TeardownInv
<1>6. PaceInv'
  BY DEF TypeOK, PaceInv
<1> QED
  BY <1>3, <1>4, <1>5, <1>6

\* A PWM tick gives every output one more tick of its share.
LEMMA TickStep == IInv /\ PwmTick => IInv'
<1> SUFFICES ASSUME IInv, PwmTick PROVE IInv'
  OBVIOUS
<1> USE DEF IInv, TypeOK, PwmTick, CountDown, Less1, Level, CounterAfter
<1>1. \A o \in Output : /\ high'[o] <= pwmCounter + 1
                        /\ high'[o] \in 0 .. Period
                        /\ o \in steady' => high'[o] = Share(pwmDuty[o], pwmCounter + 1)
  BY DEF ShareInv, Share, Duty
<1>2. TypeOK'
  <2>1. pin' \in [Output -> {0, 1}] /\ high' \in [Output -> 0 .. Period]
    BY <1>1 DEF Output
  <2>2. envelopeTicks' \in Nat /\ left' \in 0 .. DelayTicks
    OBVIOUS
  <2> QED
    BY <2>1, <2>2
<1>3. ShareInv'
  BY <1>1 DEF ShareInv
<1>4. TeardownInv'
  BY DEF TeardownInv, AllOff, Output
<1>5. PaceInv'
  BY DEF PaceInv
<1> QED
  BY <1>2, <1>3, <1>4, <1>5

\* Every step keeps the invariant.
LEMMA PWMStep == IInv /\ [Next]_vars => IInv'
<1> SUFFICES ASSUME IInv, [Next]_vars PROVE IInv'
  OBVIOUS
<1>1. CASE PowerCycle
  BY <1>1 DEF PowerCycle, IInv, TypeOK, ShareInv, TeardownInv, PaceInv, Output,
              Duty, AllOff
<1>2. CASE UNCHANGED vars
  BY <1>2 DEF vars, pwmVars, paceVars, IInv, TypeOK, ShareInv, TeardownInv,
              PaceInv
<1> QED
  BY <1>1, <1>2, MainStep, LoadStep, SkipStep, TickStep DEF Next

\* The inductive invariant, which says of every reachable state what the
\* interrupt has made of the duties so far.
THEOREM PWMInvariant == Spec => []IInv
  BY PWMInit, PWMStep, PTL DEF Spec

\* Every variable keeps its type; in particular the count of ticks in a
\* period never exceeds it.
THEOREM TypeInvariant == Spec => []TypeOK
<1>1. IInv => TypeOK
  BY DEF IInv
<1> QED
  BY <1>1, PWMInvariant, PTL

\* A burst delays no PWM tick by more than one interrupt, but for its start;
\* how long an interrupt takes is the burst's rate, and not counted here.
THEOREM PwmAlwaysKeepsPace == Spec => []PwmKeepsPace
<1>1. IInv => PwmKeepsPace
  BY DEF IInv, TypeOK, PaceInv, PwmKeepsPace
<1> QED
  BY <1>1, PWMInvariant, PTL

\* The firmware leaves no output driven when it hands over to the ROM.
THEOREM ROMAlwaysFindsOutputsLow == Spec => []ROMFindsOutputsLow
<1>1. IInv => ROMFindsOutputsLow
  BY DEF IInv, TeardownInv, ROMFindsOutputsLow
<1> QED
  BY <1>1, PWMInvariant, PTL

\* An output whose duty did not change in a period is high for exactly its
\* duty.
THEOREM DutyAlwaysExact == Spec => DutyIsExact
<1>1. ASSUME IInv, PwmTick, pwmCounter = Period - 1, NEW o \in steady
      PROVE  high'[o] = pwmDuty[o]
  <2>1. o \in Output /\ pwmDuty[o] \in Duty /\ high[o] \in 0 .. Period
    BY <1>1 DEF IInv, TypeOK
  <2>2. pwmCounter > 0 => high[o] = Share(pwmDuty[o], pwmCounter)
    BY <1>1, <2>1 DEF IInv, ShareInv
  <2> QED
    BY <1>1, <2>1, <2>2 DEF PwmTick, Level, Share, Duty
<1>2. IInv /\ [Next]_vars =>
        [PwmTick /\ pwmCounter = Period - 1 =>
           \A o \in steady : high'[o] = pwmDuty[o]]_vars
  BY <1>1
<1> QED
  BY <1>2, PWMInvariant, PTL DEF Spec, DutyIsExact
=============================================================================
