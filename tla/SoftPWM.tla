------------------------------ MODULE SoftPWM ------------------------------
(***************************************************************************)
(* The six software-PWM outputs: the main loop writes pwmDuty one output   *)
(* after the other (ifaceSetOutputs, ifaceClearAllOutputs), while every    *)
(* PrescaleMax-th Timer 2 interrupt compares them with pwmCounter and      *)
(* drives the pins.  The same interrupt runs the infrared bursts, and when *)
(* it loads a phase it leaves the outputs out.  ENTER_BOOTLOADER clears    *)
(* the duties, waits, and masks interrupts for good: the pins then keep    *)
(* whatever the last interrupt left on them.                               *)
(***************************************************************************)
EXTENDS Naturals

CONSTANTS
  Outputs,      \* the number of outputs: 6 in the code
  Period,       \* pwmCounter counts 0 .. Period - 1: 255 in the code
  PrescaleMax,  \* IFA_PRESCALE_MAX
  Phases,       \* the lengths of infrared phases: at least PF_MARK_TICKS
  DelayTicks    \* interrupts that delay(100) is sure to let through

ASSUME SizeAssumption ==
  /\ Outputs \in Nat \ {0} /\ Period \in Nat \ {0} /\ PrescaleMax \in Nat \ {0}
\* No encoder loads a phase shorter than 12 ticks, against a prescaler of 3.
ASSUME PhaseAssumption == Phases \subseteq Nat /\ \A n \in Phases : n > PrescaleMax
\* 100 ms against an interrupt every 13 us.
ASSUME DelayAssumption == DelayTicks \in Nat /\ DelayTicks >= PrescaleMax

VARIABLES
  pc,           \* "loop", "set", "reset", "clear", "delay" or "rom"
  next,         \* the loop variable of ifaceSetOutputs and of the clearing
  request,      \* output -> duty byte to be written, for the outputs in mask
  pwmDuty, pwmCounter, ifaPrescale,
  envelopeTicks,\* interrupts to the next phase load, 0 when no burst runs
  pin,          \* P1_4 .. P3_0
  left,         \* interrupts until delay(100) may be over
  high,         \* ghost: PWM ticks in this period each pin was driven high
  steady,       \* ghost: outputs whose duty has not changed in this period
  partly,       \* ghost: this command has already changed a duty
  since,        \* ghost: interrupts since the last PWM tick
  started       \* ghost: a burst was started since then

pwmVars  == <<pwmDuty, pwmCounter, ifaPrescale>>
paceVars == <<envelopeTicks, since, started>>
vars == <<pc, next, request, pwmVars, pin, left, high, steady, partly, paceVars>>

Output == 1 .. Outputs
Duty   == 0 .. Period
AllOff == [o \in Output |-> 0]

Init ==
  /\ pc = "loop" /\ next = 1 /\ request = AllOff
  /\ pwmDuty = AllOff /\ pwmCounter = 0 /\ ifaPrescale = 0
  /\ pin = AllOff /\ left = 0
  /\ high = AllOff /\ steady = Output /\ partly = 0
  /\ envelopeTicks = 0 /\ since = 0 /\ started = 0

-----------------------------------------------------------------------------
(* The main loop                                                           *)

\* CMD_IFACE_SET_OUTPUTS: any subset of the outputs, with a duty each; an
\* output outside mask is requested the duty it has.
SetOutputs ==
  /\ pc = "loop" /\ pc' = "set" /\ next' = 1 /\ partly' = 0
  /\ \E mask \in SUBSET Output, d \in [Output -> Duty] :
       request' = [o \in Output |-> IF o \in mask THEN d[o] ELSE pwmDuty[o]]
  /\ UNCHANGED <<pwmVars, pin, left, high, steady, paceVars>>

\* irPoll promotes a send: a silent countdown, of one tick or a head start.
\* Time is counted in interrupts here, so the reload that irPoll arms with it
\* is left out (IREngine and IRPhase have it).
StartBurst ==
  /\ pc = "loop" /\ envelopeTicks = 0
  /\ envelopeTicks' \in {1} \cup Phases
  /\ started' = 1
  /\ UNCHANGED <<pc, next, request, pwmVars, pin, left, high, steady, partly, since>>

Quiet == envelopeTicks' = 0 /\ UNCHANGED <<since, started>>

\* irAbortAll in mid-burst.
AbortBurst ==
  /\ pc = "loop" /\ envelopeTicks > 0
  /\ Quiet
  /\ UNCHANGED <<pc, next, request, pwmVars, pin, left, high, steady, partly>>

\* doResetState clears the outputs and then aborts, enterBootloader the other
\* way round.
ResetState ==
  /\ pc = "loop" /\ pc' = "reset" /\ next' = 1
  /\ request' = AllOff
  /\ UNCHANGED <<pwmVars, pin, left, high, steady, partly, paceVars>>

EnterBootloader ==
  /\ pc = "loop" /\ pc' = "clear" /\ next' = 1
  /\ request' = AllOff
  /\ Quiet
  /\ UNCHANGED <<pwmVars, pin, left, high, steady, partly>>

\* One turn of the for loops.
WriteDuty ==
  /\ pc \in {"set", "reset", "clear"} /\ next <= Outputs
  /\ pwmDuty' = [pwmDuty EXCEPT ![next] = request[next]]
  /\ IF request[next] = pwmDuty[next]
     THEN UNCHANGED <<steady, partly>>
     ELSE steady' = steady \ {next} /\ partly' = 1
  /\ next' = next + 1
  /\ UNCHANGED <<pc, request, pwmCounter, ifaPrescale, pin, left, high, paceVars>>

WritesDone ==
  /\ pc \in {"set", "reset"} /\ next > Outputs
  /\ pc' = "loop"
  /\ IF pc = "reset" THEN Quiet ELSE UNCHANGED paceVars
  /\ UNCHANGED <<next, request, pwmVars, pin, left, high, steady, partly>>

NoDelay == 0
Delay == DelayTicks

StartDelay ==
  /\ pc = "clear" /\ next > Outputs
  /\ pc' = "delay" /\ left' = Delay
  /\ UNCHANGED <<next, request, pwmVars, pin, high, steady, partly, paceVars>>

\* EA = 0, once the delay is over.
JumpToROM ==
  /\ pc = "delay" /\ left = 0
  /\ pc' = "rom"
  /\ UNCHANGED <<next, request, pwmVars, pin, left, high, steady, partly, paceVars>>

-----------------------------------------------------------------------------
(* Timer2Interrupt, parts (2) and (3)                                      *)

Less1(n)  == IF n = 0 THEN 0 ELSE n - 1
CountDown == left' = Less1(left)

\* Interrupts without a PWM tick are counted until they are too many.
Late == since' = IF since > PrescaleMax THEN since ELSE since + 1

PrescaleRestarted == 0
PrescaleKept == ifaPrescale

\* The envelope ends: irNextPhase loads a phase or ends the burst, and the PWM
\* part of the interrupt is left out.
LoadPhase ==
  /\ pc # "rom" /\ envelopeTicks = 1
  /\ envelopeTicks' \in {0} \cup Phases
  /\ ifaPrescale' = PrescaleKept
  /\ CountDown /\ Late
  /\ UNCHANGED <<pc, next, request, pwmDuty, pwmCounter, pin, high, steady,
                 partly, started>>

\* The prescaler lets the interrupt pass.
SkipTick ==
  /\ pc # "rom" /\ envelopeTicks # 1
  /\ ifaPrescale + 1 < PrescaleMax /\ ifaPrescale' = ifaPrescale + 1
  /\ envelopeTicks' = Less1(envelopeTicks)
  /\ CountDown /\ Late
  /\ UNCHANGED <<pc, next, request, pwmDuty, pwmCounter, pin, high, steady,
                 partly, started>>

CounterAfterNotch == IF pwmCounter + 1 > Period THEN 0 ELSE pwmCounter + 1
CounterAfter == IF pwmCounter + 1 >= Period THEN 0 ELSE pwmCounter + 1

LevelOffByOne(o) == IF pwmCounter <= pwmDuty[o] THEN 1 ELSE 0
Level(o) == IF pwmCounter < pwmDuty[o] THEN 1 ELSE 0

PwmTick ==
  /\ pc # "rom" /\ envelopeTicks # 1
  /\ envelopeTicks' = Less1(envelopeTicks) /\ since' = 0 /\ started' = 0
  /\ ifaPrescale + 1 >= PrescaleMax /\ ifaPrescale' = 0
  /\ pwmCounter' = CounterAfter
  /\ pin' = [o \in Output |-> Level(o)]
  /\ high' = [o \in Output |-> (IF pwmCounter = 0 THEN 0 ELSE high[o]) + Level(o)]
  /\ steady' = IF pwmCounter = 0 THEN Output ELSE steady
  /\ CountDown
  /\ UNCHANGED <<pc, next, request, pwmDuty, partly>>

Main == \/ SetOutputs \/ StartBurst \/ AbortBurst \/ ResetState
        \/ EnterBootloader \/ WriteDuty \/ WritesDone \/ StartDelay \/ JumpToROM

\* The board is plugged in again.
PowerCycle ==
  /\ pc = "rom" /\ pc' = "loop" /\ next' = 1 /\ request' = AllOff
  /\ pwmDuty' = AllOff /\ pwmCounter' = 0 /\ ifaPrescale' = 0
  /\ pin' = AllOff /\ left' = 0
  /\ high' = AllOff /\ steady' = Output /\ partly' = 0
  /\ envelopeTicks' = 0 /\ since' = 0 /\ started' = 0

Next == Main \/ LoadPhase \/ SkipTick \/ PwmTick \/ PowerCycle

Spec == Init /\ [][Next]_vars

-----------------------------------------------------------------------------
(* Properties                                                              *)

TypeOK ==
  /\ pc \in {"loop", "set", "reset", "clear", "delay", "rom"}
  /\ next \in 1 .. Outputs + 1
  /\ request \in [Output -> Duty] /\ pwmDuty \in [Output -> Duty]
  /\ pwmCounter \in 0 .. Period - 1 /\ ifaPrescale \in 0 .. PrescaleMax - 1
  /\ pin \in [Output -> {0, 1}] /\ left \in 0 .. DelayTicks
  /\ high \in [Output -> 0 .. Period] /\ steady \subseteq Output
  /\ partly \in {0, 1}
  /\ envelopeTicks \in Nat
  /\ since \in 0 .. PrescaleMax + 1 /\ started \in {0, 1}

\* In a period in which its duty did not change an output is high for exactly
\* duty ticks of Period: 0 is off, Period (255) is solid on with no notch
\* (Timer2Interrupt's comment on the 255-tick period).
DutyIsExact ==
  [][PwmTick /\ pwmCounter = Period - 1 =>
       \A o \in steady : high'[o] = pwmDuty[o]]_vars

\* A burst delays a PWM tick by one interrupt at most: two phase loads never
\* fall between two PWM ticks unless a burst was started there
\* (Timer2Interrupt's comment on the hiccup).  That is in interrupts; how long
\* an interrupt takes is the burst's own rate, which a Legacy burst doubles and
\* an RCX carrier select changes, and the outputs' frequency with it.
PwmKeepsPace == started = 0 => since <= PrescaleMax

\* The firmware leaves no output driven when it hands over to the ROM, where
\* no interrupt will ever lower it again (enterBootloader).
ROMFindsOutputsLow == pc = "rom" => pin = AllOff

\* PROTOCOL.md: SET_OUTPUTS sets its outputs in one atomic write, so that the
\* pins never follow some of its duties and not yet the others.
OutputsSetTogether ==
  [][PwmTick /\ pc = "set" /\ partly = 1 => pwmDuty = request]_vars
=============================================================================
