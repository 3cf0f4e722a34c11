---------------------------- MODULE EdgeCounter ----------------------------
(***************************************************************************)
(* The debounced edge counter of one Interface A input (interface_a.c):    *)
(* ifaceCountEdge on a millisecond clock truncated to 16 bits, polled by   *)
(* loop() whenever it comes round, against a pin that may bounce at any    *)
(* time, also between two polls.  The two inputs share nothing.            *)
(***************************************************************************)
EXTENDS Naturals

CONSTANTS
  Wrap,       \* the truncated clock counts 0 .. Wrap - 1: 2^16 in the code
  Debounce,   \* IFACE_DEBOUNCE_MS
  MaxGap,     \* the longest loop() goes without polling, in ms
  CountWrap,  \* the count is a uint32_t: 2^32 in the code
  HighLevel   \* what digitalRead returns of a high pin

ASSUME ClockAssumption ==
  /\ Debounce \in Nat \ {0} /\ MaxGap \in Nat \ {0} /\ Wrap \in Nat
  /\ MaxGap + Debounce < Wrap
ASSUME CountWrapAssumption == CountWrap \in Nat /\ CountWrap >= 2
\* ifaceCountEdge takes any non-zero level for high.
ASSUME LevelAssumption == HighLevel \in Nat \ {0}

VARIABLES
  pin,          \* the level on the wire; 1 is open (pulled up)
  now,          \* (uint16_t)millis()
  inputRaw, inputChangeMs, inputPrev, inputCount,
  sincePoll,    \* ms since the last poll
  steady,       \* ghost: ms the pin has held its level
  unseen,       \* ghost: flips of the pin since the last poll
  blind,        \* ghost: the poll missed flips in this stability window
  sinceCount,   \* ghost: ms since the last count
  fell          \* ghost: the pin fell since the last count

counterVars == <<inputRaw, inputChangeMs, inputPrev, inputCount>>
ghostVars   == <<steady, unseen, blind, sinceCount, fell>>
vars == <<pin, now, counterVars, sincePoll, ghostVars>>

\* Ghost clocks stop where no property tells later times apart.
Horizon == 2 * Debounce + 2 * MaxGap
Tick1(t) == IF t < Horizon THEN t + 1 ELSE Horizon

\* ifaceInit: the first poll must not count the level found at power-on.
Init ==
  /\ pin \in {0, 1} /\ now = 0
  /\ inputRaw = pin /\ inputPrev = pin /\ inputChangeMs = now /\ inputCount = 0
  /\ sincePoll = 0
  /\ steady = 0 /\ unseen = 0 /\ blind = 0 /\ sinceCount = Horizon /\ fell = 0

-----------------------------------------------------------------------------
\* (uint16_t)((uint16_t)millis() - inputChangeMs), and the same unsigned
\* subtraction forgotten.
ElapsedUnwrapped == IF now >= inputChangeMs THEN now - inputChangeMs ELSE 0
Elapsed == (now - inputChangeMs + Wrap) % Wrap

\* newLevel = newLevel ? 1 : 0, and the level taken as it was read.
DigitalRead == IF pin = 1 THEN HighLevel ELSE 0
LevelAsRead == DigitalRead
NewLevel == IF DigitalRead # 0 THEN 1 ELSE 0

WindowNotRestarted == UNCHANGED inputChangeMs
RestartWindow == inputChangeMs' = now

\* Any raw flip restarts the stability window.
RawFlip ==
  /\ NewLevel # inputRaw
  /\ inputRaw' = NewLevel
  /\ RestartWindow
  /\ blind' = 0
  /\ UNCHANGED <<inputPrev, inputCount, sinceCount, fell>>

CountUp == (inputCount + 1) % CountWrap

CountsBothEdges == TRUE
CountsThisEdge == inputPrev # 0 /\ NewLevel = 0

\* The level has held for the whole window: adopt it, and count a press.
Adopt ==
  /\ NewLevel = inputRaw /\ NewLevel # inputPrev
  /\ Elapsed >= Debounce
  /\ IF CountsThisEdge
     THEN /\ inputCount' = CountUp
          /\ sinceCount' = 0 /\ fell' = 0
     ELSE UNCHANGED <<inputCount, sinceCount, fell>>
  /\ inputPrev' = NewLevel
  /\ blind' = 0
  /\ UNCHANGED <<inputRaw, inputChangeMs>>

Hold ==
  /\ NewLevel = inputRaw
  /\ NewLevel = inputPrev \/ Elapsed < Debounce
  /\ blind' = IF unseen > 0 THEN 1 ELSE blind
  /\ UNCHANGED <<counterVars, sinceCount, fell>>

IfaceEdgePoll ==
  /\ RawFlip \/ Adopt \/ Hold
  /\ sincePoll' = 0 /\ unseen' = 0
  /\ UNCHANGED <<pin, now, steady>>

\* ifaceResetCount clears the count and leaves the debouncing alone.
IfaceResetCount ==
  /\ inputCount' = 0
  /\ UNCHANGED <<pin, now, inputRaw, inputChangeMs, inputPrev, sincePoll, ghostVars>>

-----------------------------------------------------------------------------
\* The sensor, bouncing as it likes; two flips no poll saw count as two.
PinFlip ==
  /\ pin' = 1 - pin
  /\ steady' = 0
  /\ unseen' = IF unseen < 2 THEN unseen + 1 ELSE 2
  /\ fell' = IF pin = 1 THEN 1 ELSE fell
  /\ UNCHANGED <<now, counterVars, sincePoll, blind, sinceCount>>

Millisecond ==
  /\ sincePoll < MaxGap
  /\ now' = (now + 1) % Wrap
  /\ sincePoll' = sincePoll + 1
  /\ steady' = Tick1(steady) /\ sinceCount' = Tick1(sinceCount)
  /\ UNCHANGED <<pin, counterVars, unseen, blind, fell>>

Next == IfaceEdgePoll \/ IfaceResetCount \/ PinFlip \/ Millisecond

Spec == Init /\ [][Next]_vars

-----------------------------------------------------------------------------
(* Properties                                                              *)

TypeOK ==
  /\ pin \in {0, 1} /\ inputRaw \in {0, 1} /\ inputPrev \in {0, 1}
  /\ now \in 0 .. Wrap - 1 /\ inputChangeMs \in 0 .. Wrap - 1
  /\ inputCount \in 0 .. CountWrap - 1
  /\ sincePoll \in 0 .. MaxGap
  /\ steady \in 0 .. Horizon /\ sinceCount \in 0 .. Horizon
  /\ unseen \in 0 .. 2 /\ blind \in {0, 1} /\ fell \in {0, 1}

Counted == inputCount' # inputCount /\ inputPrev' # inputPrev

\* A bouncing contact counts once: two counts are at least a debounced press
\* and a debounced release apart, also across the wrap of the clock.
CountsAreSpaced == [][Counted => sinceCount >= 2 * Debounce]_vars

\* Each count stands for a fall of the pin of its own, the level found at
\* power-on included (ifaceInit seeds the levels).
CountsAreFalls == [][Counted => fell = 1]_vars

\* A level whose every change the polls saw is adopted only once it has held
\* for the debounce window.
SeenLevelsHold ==
  [][inputPrev' # inputPrev => steady >= Debounce \/ unseen > 0 \/ blind = 1]_vars

\* A level that holds is adopted, no later than a window and two loop passes
\* after it appeared: a wrap of the 16-bit clock never strands it.
SteadyIsAdopted == steady >= Debounce + 2 * MaxGap => inputPrev = pin
=============================================================================
