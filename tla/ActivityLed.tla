---------------------------- MODULE ActivityLed ----------------------------
(***************************************************************************)
(* The activity LED: actLedPulse on every byte read and every reply sent,  *)
(* actLedTick once per pass of loop(), on a millisecond clock that wraps.  *)
(* actLedOffMs is both the time to switch off and, when 0, the mark that   *)
(* nothing is to be switched off.                                          *)
(***************************************************************************)
EXTENDS Naturals

CONSTANTS
  Wrap,       \* millis() counts 0 .. Wrap - 1: 2^32 in the code
  Duration,   \* ACT_LED_DURATION_MS
  MaxGap      \* the longest loop() goes without actLedTick, in ms

ASSUME ClockAssumption ==
  /\ Wrap \in Nat /\ Duration \in Nat \ {0} /\ MaxGap \in Nat \ {0}
  /\ 2 * (Duration + MaxGap) < Wrap

VARIABLES
  now,          \* millis()
  actLedOffMs,
  lit,          \* ACT_LED_PIN
  sinceTick,    \* ms since the last actLedTick
  idle          \* ghost: ms since the last byte on the serial port

vars == <<now, actLedOffMs, lit, sinceTick, idle>>

Horizon == Duration + MaxGap + 1

Init == now = 0 /\ actLedOffMs = 0 /\ lit = 0 /\ sinceTick = 0 /\ idle = Horizon

\* (long)(millis() - actLedOffMs) >= 0, and the comparison it is not.
ReachedUnwrapped == now >= actLedOffMs
Reached == 2 * ((now - actLedOffMs + Wrap) % Wrap) < Wrap

\* millis() + ACT_LED_DURATION_MS, an unsigned sum.
OffTimeUnwrapped == now + Duration
OffTime == (now + Duration) % Wrap

ActLedPulse ==
  /\ lit' = 1
  /\ actLedOffMs' = OffTime
  /\ idle' = 0
  /\ UNCHANGED <<now, sinceTick>>

ActLedTick ==
  /\ IF actLedOffMs # 0 /\ Reached
     THEN lit' = 0 /\ actLedOffMs' = 0
     ELSE UNCHANGED <<lit, actLedOffMs>>
  /\ sinceTick' = 0
  /\ UNCHANGED <<now, idle>>

\* loop() reaches actLedTick at least every MaxGap ms, but for the bytes it
\* is busy reading; each of those pulses.
Millisecond ==
  /\ sinceTick < MaxGap \/ idle = 0
  /\ now' = (now + 1) % Wrap
  /\ sinceTick' = IF sinceTick < MaxGap THEN sinceTick + 1 ELSE MaxGap
  /\ idle' = IF idle < Horizon THEN idle + 1 ELSE Horizon
  /\ UNCHANGED <<actLedOffMs, lit>>

Next == ActLedPulse \/ ActLedTick \/ Millisecond

Spec == Init /\ [][Next]_vars

-----------------------------------------------------------------------------
(* Properties                                                              *)

TypeOK ==
  /\ now \in 0 .. Wrap - 1 /\ actLedOffMs \in 0 .. Wrap - 1
  /\ lit \in {0, 1} /\ sinceTick \in 0 .. MaxGap /\ idle \in 0 .. Horizon

\* The LED is never switched off before its time, also when the time to
\* switch off lies beyond the wrap of the clock.
NeverEarly == [][lit = 1 /\ lit' = 0 => idle >= Duration]_vars

\* A lit LED whose off time is not mistaken for the mark is switched off at
\* the first actLedTick after its time.
OffInTime == lit = 1 /\ actLedOffMs # 0 => idle <= Duration + MaxGap

\* act_led.h: the LED turns off after ACT_LED_DURATION_MS of inactivity.
AutoOff == lit = 1 => idle <= Duration + MaxGap
=============================================================================
