# BrickInterface: specification, model checking and proofs

The firmware under `src/firmware/BrickInterface` turns a CH552T microcontroller
into a USB peripheral that drives the six outputs and two inputs of LEGO
Interface A and an infrared LED that speaks three protocols: Power Functions
(PF), Legacy and RCX. It is a main loop and one interrupt handler. This
directory holds TLA+ models of all of it, the TLC configurations that check
them, and proofs that TLAPS checks.

File names without a directory below are in `src/firmware/BrickInterface`.

## Inventory

| Component | State | Operations | Talks to |
| --- | --- | --- | --- |
| Infrared engine (`ir_engine.c`, the interrupt in `BrickInterface.ino`) | `state`, `pending` (one slot between them), the completion slot, `tokenCounter`, `envelopeTicks`, `carrierMode`, the LED pin, the timer's reload and interrupt mask | `irStart*`, `irPoll`, `irAbortAll`, `irGetCompletion`; per interrupt: toggle, count down, load a phase or finish | dispatch calls it; the interrupt shares all of its state |
| PF encoder | `PFState`, `pfToggle` | `pfBuildNibbles`, `pfNextPhase` | called by `irPoll` and by the interrupt |
| Legacy encoder | `LegacyState` | the byte building in `irPoll`, `legacyNextPhase` | same |
| RCX encoder | `RCXState`, carrier tables | `irStartRCX`, `irStartRCXRaw`, `rcxParseOptions`, `rcxNextPhase` | same |
| Packet framing (`packet.c`) | `PacketParser` | `parserConsume`, `buildPacket`, `sendReply` | `loop()` feeds it, dispatch takes packets |
| Dispatch (`BrickInterface.ino`) | none of its own | `handlePacket`, `doResetState`, `enterBootloader`, `drainIrCompletion` | calls everything |
| Outputs (`interface_a.c`, PWM part of the interrupt) | `pwmDuty`, `pwmCounter`, `ifaPrescale`, six pins | `ifaceSetOutputs`, `ifaceClearAllOutputs`, PWM tick | dispatch writes duties, the interrupt reads them |
| Inputs (`interface_a.c`) | `inputRaw`, `inputPrev`, `inputChangeMs`, `inputCount` | `ifaceCountEdge`, `ifaceEdgePoll`, `ifaceGetCount`, `ifaceResetCount` | polled by `loop()`; samples the pins |
| Activity LED | `actLedOffMs`, a pin | `actLedPulse`, `actLedTick` | pulsed by `loop()` and `sendReply` |

What is hard here: the interrupt may come between any two instructions of the
main loop, which protects itself only in `irAbortAll` and around one store of
`irPoll`; 16-bit values take two instructions; one completion slot serves two
ways a burst can end; loss of a byte on the serial port has no timeout; clocks
and counters wrap; and `ENTER_BOOTLOADER` stops everything where it stands.
`PROJECT.json` lists each such place with its line and the properties aimed at
it.

What makes each component correct: every accepted send is reported done exactly
once and the LED is never left on or at a foreign rate (engine); a receiver
hears what was asked, at the spacing the protocol wants, the burst ends, and
"done" is said of bursts that were sent (encoders); one of two boards on
different channels gets through (PF); exactly the intact frames get through and
the parser cannot be wedged or overrun (framing); what reaches the engine is
what it can encode, and "busy" means busy (dispatch); duty is what was asked
for, no burst starves the PWM, and the ROM inherits low outputs (outputs);
a bouncing press counts once (inputs); the LED goes off in time (activity LED).

## Modules

| Module | Models |
| --- | --- |
| `IRService` | abstract: what a host sees of infrared sends, tokens and `IR_DONE` |
| `IRBurst` | abstract: a burst as `IREngine` and the encoders both see it |
| `IREngine` | the engine: main loop against interrupt; implements `IRService` and `IRBurst` |
| `IREngine_proofs` | its theorems |
| `IRPhase` | the stream state the encoders share: promotion, phase loads, end of a burst |
| `PFTransmit`, `LegacyTransmit`, `RCXTransmit` | one encoder each, on that state, and a receiver |
| `IRNextPhase`, `IRNextPhase_proofs` | all three composed: `irNextPhase`, promotions, aborts and resets; implements `IRBurst`; with theorems about every encoder |
| `PFSchedule` | head start and spacing of PF copies, in any unit of time |
| `PFEtiquette`, `PFEtiquette_proofs` | two boards on different PF channels, with theorems |
| `UARTLine` | the serial bit format that Legacy and RCX share |
| `PacketParser`, `PacketParser_proofs` | framing, with theorems |
| `Dispatch`, `Dispatch_proofs` | `handlePacket`, with theorems |
| `SoftPWM`, `SoftPWM_proofs` | outputs, with theorems |
| `EdgeCounter`, `EdgeCounter_proofs` | one debounced input, with theorems |
| `ActivityLed`, `ActivityLed_proofs` | the LED, with theorems |
| `MCIREngine`, `MCIRNextPhase`, `MCPacketParser`, `MCDispatch` | constants for TLC |

How they fit together: `IREngine` knows a burst as a number of phases, each of
any non-zero length, lit or dark. `IRBurst` states that as a specification of
its own, and both sides implement it, each by a theorem: `IREngine`
(`ImplementsBurst`) and `IRNextPhase` (`AlwaysServesBurst`), where the
number of phases is the exact count each protocol takes, worked out from the
encoder's indices. So what is assumed of the encoders where the interrupt races
with the main loop is what they are shown to deliver where every tick and bit
is looked at. `SoftPWM` takes from them only that no phase is as short as the
prescaler (`PhaseAssumption`; the shortest the code has is 12 ticks against 3).
`PFTransmit` and `PFEtiquette` share `PFSchedule`, the one in timer ticks, the
other in fifths of tm. `Dispatch` keeps of the engine one slot and one
completion; its `SendIsEncodable` is the input assumption of the encoders
(channels, modes, nibbles, lengths).

### State and actions against the code

`IREngine`: `pc` is the place of the main loop; one step is one statement, or
several that the interrupt cannot tell apart because they touch nothing it
shares. `AbortMask` .. `AbortUnmask` are the lines of `irAbortAll` in order,
`PollPromote` .. `PrimeUnmask` those of `irPoll`, `DrainTest` .. `DrainEmit`
those of `irGetCompletion` and `drainIrCompletion`. `Timer2Interrupt` is one
step, enabled whenever `ET2` is set: 8051 interrupts of one priority do not
nest. `envelopeTicks` is a high and a low byte, so its stores can be torn (low
byte first; the other order would be torn the other way and is masked alike).
`awaiting` and `reply` are the host's view.

`IRNextPhase`: a step is one call of `irNextPhase`, a promotion, or an abort.
`active`, `carrierOn`, `ticks` and `reloadCounts` are the code's; `s` is the
union of the three states, replaced as a whole by a promotion as in `irPoll`,
with `Unset` for what a finished or aborted burst leaves in it. `ear` is what a
receiver has made of the burst so far, `receivers` what PF receivers remember
from burst to burst: `last`, the toggle bit of the message they heard last,
automatic or overridden (a Combo PWM message has none, which its escape bit
says), and `next`, which is bookkeeping about the next automatic message:
whether it must have a new bit, will repeat the last one because of a message
cut short unheard, or is open, as after an overridden message or a
`RESET_STATE`. A reset clears the board's bits; `last` stays.

`PFEtiquette`: `wait`, `left` and `repeat` follow each board's burst; `hit`
marks a copy that met one of the other board's, `clear` a burst that had a copy
to itself, `rivals` counts the other board's bursts that were running with it.

`SoftPWM`: `WriteDuty` is one turn of the `for` loop, so an interrupt can come
between any two. An interrupt is `LoadPhase` (the envelope runs out, and the PWM
part is left out), `SkipTick` (the prescaler passes it over) or `PwmTick`.
`envelopeTicks` here is a countdown that `StartBurst` sets and `LoadPhase`
renews; `since` counts the interrupts since the last PWM tick. Time is counted in
interrupts throughout: the timer's reload, which a burst also sets, is in
`IREngine` and `IRPhase`.

`EdgeCounter`: time passes by `Millisecond`, polls come at most `MaxGap` apart,
and the pin flips whenever it likes, also several times between two polls. The
two inputs have separate array elements and nothing in common, so one is
modelled. `HighLevel` is what `digitalRead` returns of a high pin; the code
makes 1 of any value but 0.

`PacketParser`: one step per byte; junk first, then a host that repeats `PING`.

The loops of the code that run over data are recursive functions, so that they
can be proved about: `Checksum` in `PacketParser`, `DataSum` in `RCXTransmit`,
and `Used` in `Dispatch`, which is `src` in `ifaceSetOutputs`, output by output.

`Dispatch`: one step per packet. That is enough for what the checks do; the
interleavings inside an abort or a promotion are `IREngine`'s subject, those inside
`SET_OUTPUTS` are `SoftPWM`'s. The PF toggle bits that `RESET_STATE` also
clears are in `IRNextPhase`.

The names of the code are kept where TLA+ allows. Definitions named after a
mistake (`AbortUndrained`, `NextTokenUnskipped`, ...) stand before the
definition they are a wrong version of; they document which bug each property
is able to see and are used by nothing else.

## Runs

| Run | Question | Bounds |
| --- | --- | --- |
| `engine` | Is every `IR_ACCEPTED` matched by one `IR_DONE`, and in the end; is the light off and the rate restored; does the engine implement `IRService`? | 3 tokens, so that the counter wraps with sends outstanding (at most two tokens are ever live); bytes of one bit, the least that can tear; two phases, so that a burst has an inner phase; one other carrier next to the default |
| `engine_bootloader` | counterexample, see Findings | as above |
| `parser` | Does exactly what was sent get through; is a retry heard? | 3-bit bytes, one payload byte, junk that contains every valid `LEN`, one too short, the first one too long, and SOF, so that false frames of every length start inside junk and inside PING |
| `dispatch` | Are the dispatcher's checks at least the engine's; is a bad argument told so, busy or not; are duties packed right? | all six outputs; packets on both sides of each length, range and mask check; a count of one |
| `edge_counter` | Debounce, across clock wraps | clock of 8 ms, window 2, polls up to 2 ms apart: the window and one gap together stay below a wrap, as 10 ms and any real gap do below 65 s; a high pin reads as 2 |
| `soft_pwm` | Duty in a period; how many interrupts a burst delays a PWM tick; outputs when the ROM starts | 2 outputs, period 3, prescale 2, phases of 3 and 5 ticks (the shortest allowed, and one of another remainder): every interleaving of a two-output write and of phase loads with a whole period |
| `activity_led` | On time and off time | clock of 16, duration 3, gap 2 |
| `encoders` | What the receiver of each protocol hears and when; toggles; that a burst is what `IREngine` assumes, ends, and is done only when sent; as assumptions that TLC evaluates, balance and baud rate of RCX frames | the code's tick values; 16 chosen sends, all of which can follow one another. PF: every mode, channels 0 and 3 (least and greatest spacing), automatic toggles, both override values; Legacy: every channel, with and without carry of the check, a check of 0; RCX: framed and raw, 1 to 3 copies, selects 1 to 3 and one out of range. Balance of frames: up to 3 data bytes out of 5 |
| `pf_etiquette` | Does a copy of each of two overlapping bursts get through? | every pair of channels, every offset in fifths of tm, aborts anywhere. A copy takes 707 to 891 of tm's 1231 ticks, under 3.7 fifths; it is given 5, since offsets between grid points add less than one |
| `pf_resend` | counterexample, see Findings | no aborts: every burst runs to its end (`SendSpec`). A copy is given 3 fifths: the overlaps of the counterexample, of at least a whole fifth, then also happen in fact |
| `soft_pwm_atomic`, `activity_led_wrap` | counterexamples, see Findings | as their modules' passing runs |

Deadlock is checked in every run. `TypeOK` of `ActivityLed` and of `PFEtiquette`
is not a property of a run: their theorems state it.

### Fairness

- `IREngine!FairSpec`: weak fairness of the main loop (the CPU runs) and of the
  interrupt (the timer overflows and its flag stays set until served; the
  firmware masks it only for a few instructions), and strong fairness of
  `NoMoreBytes`. The last is an assumption about the host, not the firmware:
  `loop()` stays in its `while` as long as bytes are available, so a host that
  never pauses is never told of a completion. USB hosts that wait for replies
  do pause.
- `IRNextPhase!FairSpec`: weak fairness of `IrNextPhase`; the interrupt keeps
  coming.
- `PacketParser!FairSpec`: `loop()` handles a ready packet, and a host that
  retries goes on retrying.
- Everything else is safety.

## Findings

- **ENTER_BOOTLOADER breaks the token promise.** It aborts without draining
  and never comes back, so a send in flight gets no `IR_DONE`; PROTOCOL.md says
  every accepted token resolves. (`engine_bootloader`)
- **SET_OUTPUTS is not atomic.** Duties are written one by one with the
  interrupt enabled; a PWM tick in between drives the pins by half of the
  command, for at most one tick. (`soft_pwm_atomic`)
- **The LED can stay lit.** In one millisecond of 2^32 the off time wraps to 0,
  which `actLedTick` reads as "nothing to do". The next byte on the port
  repairs it. (`activity_led_wrap`)

- **Transmitters that re-send can still collide on every copy.** PROTOCOL.md:143
  says that uncoordinated transmitters on different channels cannot collide on
  all five copies. Of one burst against one burst this holds at every offset
  (`ACopyGetsThrough`). But the same document tells hosts to re-send
  periodically, and a channel-3 burst (34 tm from its first copy to its last,
  of tm = 16 ms) lasts long enough to meet two bursts of a channel-0 board (22
  tm each). Copies 1, 2, 3 and 5 of the first are spaced as copies 1 to 4 of
  the channel-3 burst, and can spoil them; the second, sent 34 tm after the
  first (7.4 tm after it was over) spoils copy 5 with its first copy. This is
  TLC's trace; 29 tm after the first (2.4 tm after it was over) the second copy
  of the second burst would do the same. Every burst runs to its end.
  (`pf_resend`)

Three more things, without runs of their own:

- The debounce compares samples, so a pin that is low at two polls a window
  apart is taken to have been low throughout. `SeenLevelsHold` therefore only
  speaks of levels whose changes the polls saw.
- The PWM shares its timer with the carrier, and `irPoll` re-arms that timer
  for a burst (`ir_engine.c:458-467`): while a Legacy burst runs, at the 6.5 us
  tick, the outputs' frequency is up to twice the ~100 Hz of PROTOCOL.md:118,
  and an RCX carrier select (25 to 28 counts against 26) shifts it by a few per
  cent. Duties, which are shares of a period, stay what they are.
  `PwmKeepsPace` speaks of interrupts only.
- A PF receiver ignores a message that repeats the toggle bit it heard last.
  The board advances its bit when it starts a burst, heard or not, does not
  know the bits of overridden messages, and forgets all bits at `RESET_STATE`.
  So after an abort before the first whole copy, an overridden message, or a
  reset, the next automatic message may repeat the bit its receiver heard last.
  `PFTogglesAlternate` says when automatic messages are sure to alternate, and
  has the aborted burst as a case of its own.

## Proofs

`tlapm` checks the eight modules named `*_proofs`. The theorems hold for all
values of the constants that satisfy the named assumptions of the modules.
Every safety property of every passing run, action properties and both
refinements included, has one. They are stated of `Spec`, without fairness,
which `FairSpec` implies.

| Property | Theorem | for every |
| --- | --- | --- |
| `IREngine`: `TypeOK`, `TokenConservation`, `IdleIsDark`, `RateMatchesEngine`, `PrimeIntact`, `AbortQuiesces`, `ServiceSpec` | `TypeInvariant`, `TokensConserved`, `IdleAlwaysDark`, `RateAlwaysMatches`, `PrimeAlwaysIntact`, `AbortAlwaysQuiesces`, `ImplementsService` | number of tokens and phases, byte width, carrier |
| `IRNextPhase`: `TypeOK`, `PFMessagesAreSpaced`, `PFTogglesAlternate`, `PFReceiverHearsMessage`, `LegacyMessagesAreSpaced`, `LegacyReceiverHearsCommand`, `RCXReceiverHearsFrame`, `RCXRepeatsLeaveGap`, `DoneMeansSent`, `ServesBurst` | `TypeInvariant`, `PFMessagesAlwaysSpaced`, `PFTogglesAlwaysAlternate`, `PFMessagesAlwaysHeard`, `LegacyMessagesAlwaysSpaced`, `LegacyCommandsAlwaysHeard`, `RCXFramesAlwaysHeard`, `RCXRepeatsAlwaysLeaveGap`, `DoneAlwaysMeansSent`, `AlwaysServesBurst` | set of sends: every channel, mode, datum, option, frame of any length the buffer holds |
| `PacketParser`: `TypeOK`, `BufferBound`, `DeliveredIffFrame` | `TypeInvariant`, `BufferSafe`, `DeliversExactlyFrames` | byte width, payload limit, exclusive or |
| `Dispatch`: `TypeOK`, `SendIsEncodable`, `BusyMeansBusy`, `DutiesArePacked` | `TypeInvariant`, `SendsAlwaysEncodable`, `BusyAlwaysMeansBusy`, `DutiesAlwaysPacked` | set of packets, number of outputs |
| `PFEtiquette`: `ACopyGetsThrough`, `FirstCopiesMiss` | `ACopyAlwaysGetsThrough`, `FirstCopiesAlwaysMiss` | length of a message up to tm |
| `SoftPWM`: `TypeOK`, `DutyIsExact`, `ROMFindsOutputsLow`, `PwmKeepsPace` | `TypeInvariant`, `DutyAlwaysExact`, `ROMAlwaysFindsOutputsLow`, `PwmAlwaysKeepsPace` | number of outputs, period, prescaler, phase lengths |
| `EdgeCounter`: `TypeOK`, `SteadyIsAdopted`, `CountsAreSpaced`, `CountsAreFalls`, `SeenLevelsHold` | `TypeInvariant`, `SteadyAlwaysAdopted`, `CountsAlwaysSpaced`, `EachCountIsAFall`, `SeenLevelsAlwaysHold` | clock width, window, poll gap, level read of a high pin |
| `ActivityLed`: `OffInTime`, `NeverEarly` | `AlwaysOffInTime`, `NeverSwitchedOffEarly` | clock width, duration, gap |

**IREngine.** `TypeOK` is inductive by itself (`TypeStep`). The rest is proved
from `IInv`, because none of the invariants the runs check is inductive: what
holds while the main loop is between two statements depends on which statement
comes next. `IInv` says, per group of places of the main loop, what the
interrupt may have done meanwhile:

- `ControlInv`: the interrupt is masked exactly at the places between `ET2 = 0`
  and `ET2 = 1`, where nothing but the main loop moves;
- `DarkInv`: with no engine active no countdown runs, so no interrupt can
  finish a burst that nobody started, and the pin is low whenever the carrier
  is off;
- `LiveInv`: while an engine is active the completion slot is empty, the queue
  holds nothing else, and the rate is the engine's, but for the statements of
  `irPoll` and `irAbortAll` that are about to make it so;
- `StageInv`: what each statement of a promotion or an abort finds; a
  promotion's countdown is at zero until it is primed under the mask, so the
  interrupt cannot advance a half-built state;
- `SlotInv`: a full completion slot and a queued send coexist only until the
  next drain, which runs before every abort but the bootloader's, and before
  every promotion;
- `TokenInv`: the live send has the last token handed out and an undrained one
  the one before, so they differ (this uses `MaxToken >= 2`).

From `IInv` follow `TokensConserved`, `IdleAlwaysDark`, `RateAlwaysMatches`,
`PrimeAlwaysIntact` and `AbortAlwaysQuiesces`; with `ServiceStep`, that each
step maps to a step of `IRService` or a stutter, also `ImplementsService`, and
with `BurstStep` likewise `ImplementsBurst`.

**IRNextPhase.** The encoders share one stream state, so they share one
invariant. `SharedInv` holds the types, the rate, that a countdown is a non-zero
16-bit value while a burst runs, and the toggles of all channels. `PFInv`,
`LegacyInv` and `RCXInv` say, each while its engine is active, how far the
receiver has followed: the bits of the message up to `pos`, or the samples up to
`bitIdx` of the byte at `byteIdx` and the bytes before it, and the copies heard,
told from `repeat`. `RCXInv` says the same of a frame of any length and content,
so what the receiver has at its end is the frame. For the spacing, `PFInv`
carries that `elapsed` counts from the first mark and that a message stays under
its target (at most 983 ticks, the least target being 6155, so `GapTicks`
never takes its fallback);
for the toggles, that an automatic burst carries the complement of the next
bit, which is what its first whole copy puts into `receivers`; an abort before
that leaves the receiver's bit and the board's apart, or brings them together
again. Toggle bits of overridden messages are recorded too, as bits that the
board's own may or may not equal.

- *The bits.* `NibbleBits`, `XorNibbleBits` and `ChecksAreOdd` give a PF check
  nibble that makes every column odd; `CommandBytes` a Legacy check that makes
  the nibbles sum to 0 modulo 16; `WholeByte` that eleven samples of the serial
  format are one byte and the same byte, and `HearsByte` that fewer are none.
- *The frame.* `FramesAlwaysBalanced`: what `irStartRCX` builds is a sequence of
  bytes, each after the header followed by its complement, for all data.
- *The phases.* `AlwaysServesBurst`: a promotion leaves 179 phases to come (PF),
  114 (Legacy), or (11n + 1)r - 1 for n bytes sent r times; each phase takes off
  one; with `FramePhases`, the longest burst has 6119.

**PFEtiquette.** Each board is given a clock, its burst's age, which `BoardInv`
ties to the countdown, to the copies begun and to what is left on the air. Two
clocks advance together, so two bursts keep one distance; `RivalInv` says that
while no copy of a burst was clear and it met one rival at most, every copy of
it overlaps one of the rival's at that distance. `NeverAllOverlap` is
arithmetic on the schedules of any two channels: no distance makes five copies
all overlap. `TogetherInv` says that boards keyed at once have equal clocks; the
head starts differ by a tm, the most a message takes.

**PacketParser.** `BufferSafe`: the index stays below the accepted length and
the length within the buffer, for every byte width, payload limit and exclusive
or. `DeliversExactlyFrames` rests on `FrameInv`: in mid-frame the bytes since
the SOF are the length and the buffer's content, and the running exclusive or is
their `Checksum`. That `Checksum` of one byte more is the exclusive or with it
is an induction over the length.

**Dispatch.** `ChecksSuffice`: the dispatcher's checks of a send imply the
engine's range checks and the encoder's domain, which gives both
`BusyAlwaysMeansBusy` (a send is told busy only if it fits, and the slot is
taken) and `SendsAlwaysEncodable`. `UsedCounts` is an induction
over the outputs: the loop of `ifaceSetOutputs` has used as many bytes as
outputs are selected so far, so the duty of the k-th selected output is the k-th
byte, and it is in the packet.

**SoftPWM.** `ShareInv` adds to the types what a PWM period has given each
output so far: `min(duty, counter)` ticks if its duty has not changed; at the
last tick that is the duty, which is `DutyAlwaysExact`. `TeardownInv` follows
`ENTER_BOOTLOADER`: cleared duties, then either pins already low or enough delay
left for the prescaler to reach a PWM tick (`left + ifaPrescale >= PrescaleMax`
is constant until then); hence `ROMAlwaysFindsOutputsLow`. `PaceInv` relates
the interrupts since the last PWM tick to the prescaler: they are equal, or one
phase load has put them one apart, and then the envelope has further to go than
the prescaler (`envelopeTicks + ifaPrescale > PrescaleMax`, a sum that each
interrupt leaves alone), so no second load comes before the next PWM tick; this
is `PwmAlwaysKeepsPace`. It uses `PhaseAssumption`. The teardown rests on
`DelayAssumption`, that 100 ms let at least `PrescaleMax` interrupts through.

**EdgeCounter.** A poll works on 0 or 1, whatever `digitalRead` returns of a
high pin (`LevelIsPin`). `FallInv`: a debounced high level that the pin or the last
sample contradicts has seen a fall since the last count. `UnseenInv`: a level no
poll has seen is younger than the last poll. `WindowInv`: while a window runs,
no poll has found it long enough, so the truncated clock has not wrapped past
it, and the age of the level and the window's differ by less than a poll gap
unless a flip went unseen. `SpacingInv` places the last count before the
release, and that before the window that runs now.

**ActivityLed.** `PulseInv`: the off time of a lit LED, read on the wrapping
clock, lies `Duration` after the last byte, and no tick has come after it. An
off time of 0 is the mark for "nothing to do"; the invariant excepts it as the
finding says.

*Induction over data.* The library's induction theorems take an operator, which
the provers cannot instantiate. Where a recursive function had to be reasoned
about, the modules prove induction once for a set of natural numbers
(`NatSetInduction`, from well-foundedness of the order), show with it that the
function the recursion asks for exists, and use only its first value and its
step.

Only model-checked: the liveness properties `EveryTokenResolves`, `RetryIsHeard`
and `BurstEnds` (fairness is out of the prover's reach), `BaudIsKept`, which is
an assumption on the carrier tables that TLC evaluates and no proof uses, and
the counterexamples. `PFEtiquette` is proved
for every length, but on its grid of offsets, fifths of tm.

## Not modelled

The USB stack and the Arduino core (not in the repository; `sendReply` ignoring
a short write is listed as a hazard), register initialisation, the lost
interrupts at the Legacy tick that `board_config.h` admits (they stretch time
but change no order), `ifaceSampleInputs` and the other pure queries beyond
their reply, the test programs, the board design and its generator.

## Plan

Order of work, most important behaviour first.

1. Done: `IRService`, `IRBurst`, `IREngine` and their proofs; `PacketParser`;
   the encoders, alone and composed in `IRNextPhase`; `PFEtiquette`; `SoftPWM`
   with the bursts that skip its ticks; `EdgeCounter`; `Dispatch`;
   `ActivityLed`.
2. Considered and left out: a composition of `Dispatch` with `IREngine`. All
   that `Dispatch` reads of the engine is whether its slot is free, and the
   commands that reach into it (the sends, the abort and the reset) are already
   actions of `IREngine`, statement by statement.
3. Done: theorems for every safety property of the passing runs.
4. Left: `PFEtiquette` in timer ticks, where a message has the length its bits
   give it, instead of fifths of tm.
