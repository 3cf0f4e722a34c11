------------------------------ MODULE IREngine ------------------------------
(***************************************************************************)
(* The infrared engine: the main loop of BrickInterface.ino queues,        *)
(* promotes, aborts and reports sends (ir_engine.c), while the Timer 2     *)
(* interrupt counts the envelope down, loads phases and finishes bursts.   *)
(* The main loop runs one statement, or one group of statements the        *)
(* interrupt cannot tell apart, per step; the interrupt handler is one     *)
(* atomic step, possible between any two of them while ET2 is set.         *)
(*                                                                         *)
(* What a burst says is left to the encoder modules: here a burst is a     *)
(* number of phases, each of any non-zero length, lit or dark.  The 16-bit *)
(* envelopeTicks is a pair of bytes, because the 8051 stores it in two     *)
(* instructions; a byte counts up to ByteMax.                              *)
(***************************************************************************)
EXTENDS Naturals

CONSTANTS
  MaxToken,   \* the largest token: 255 in the code
  ByteMax,    \* the largest value of a byte of envelopeTicks: 255 in the code
  MaxPhases,  \* the most phases a burst has
  RCXReload   \* the values of rcxCarrierReloadL, the base reload included
              \* (select 0 and T2_RELOAD_BASE_L are both 0xE6)

ASSUME MaxTokenAssumption  == MaxToken \in Nat /\ MaxToken >= 2
ASSUME ByteMaxAssumption   == ByteMax \in Nat \ {0}
ASSUME MaxPhasesAssumption == MaxPhases \in Nat \ {0}
ASSUME RCXReloadAssumption == "base" \in RCXReload /\ "fast" \notin RCXReload

VARIABLES
  pc,                 \* where the main loop is
  op,                 \* on whose behalf a drain or an abort runs
  event,              \* the token and engine drainIrCompletion has copied out
  state,              \* IRStreamState: active, token, engine
  pending,            \* IRPending: valid, token, engine, reload
  completionPending,  \* the completion slot is full
  completion,         \* completionToken and completionEngine
  tokenCounter,
  envelopeTicks,      \* ticks to the end of the phase, 0 when nothing runs
  primeTicks,         \* irPoll's local: the silent head start
  phases,             \* phases of the burst still to be loaded
  carrierMode,        \* 0 dark, 1 at 38 kHz, 2 at 76 kHz
  irPin,              \* P3_4, the infrared LED
  reload,             \* RCAP2: the tick rate
  ET2,                \* Timer 2 interrupt enabled
  awaiting,           \* the host: sends accepted and not reported done
  reply               \* the message being put on the wire in this step

deviceVars == <<state, pending, completionPending, completion, tokenCounter>>
lightVars  == <<envelopeTicks, primeTicks, phases, carrierMode, irPin, reload>>
mainVars   == <<pc, op, event>>
hostVars   == <<awaiting, reply>>
vars == <<deviceVars, lightVars, mainVars, hostVars, ET2>>

Token  == 1 .. MaxToken
Engine == {"PF", "Legacy", "RCX"}
Byte   == 0 .. ByteMax
Word   == [hi : Byte, lo : Byte]
Reload == RCXReload \cup {"fast"}
Send   == [token : Token, engine : Engine]

Service == INSTANCE IRService WITH linked <- pc # "rom"

Zero     == [hi |-> 0, lo |-> 0]
One      == [hi |-> 0, lo |-> 1]
Minus1(w) == IF w.lo > 0 THEN [w EXCEPT !.lo = @ - 1]
                         ELSE [hi |-> w.hi - 1, lo |-> ByteMax]

\* irNextToken skips 0, which means "refused"; unskipped, it would not.
NextTokenUnskipped(t) == t + 1
NextToken(t) == IF t = MaxToken THEN 1 ELSE t + 1

Idle == state.active = "none" /\ pending.valid = 0

Sent(r) == reply' = r
Goto(a, b) == pc = a /\ pc' = b

MaskForgotten == UNCHANGED ET2
Mask == ET2' = 0

\* The end of a burst, reached or cut short, darkens the LED and restores the
\* base tick that a Legacy or RCX burst had replaced.
QuietAtSameRate == carrierMode' = 0 /\ irPin' = 0 /\ UNCHANGED reload
Quiet == carrierMode' = 0 /\ irPin' = 0 /\ reload' = "base"

ReleaseForgotten == UNCHANGED pending
Release == pending' = [pending EXCEPT !.valid = 0]

Labels == {"parse", "accept", "refuse", "drain", "take", "clear", "emit",
           "mask", "zeroLo", "zeroHi", "quiet", "resolve", "unmask", "abortOK",
           "poll", "arm", "release", "primeMask", "primeLo", "primeHi",
           "primed", "bootOK", "leaving", "rom"}

NoSend    == [token |-> 1, engine |-> "PF"]
NoBurst   == [active |-> "none", token |-> 1, engine |-> "PF"]
NoPending == [valid |-> 0, token |-> 1, engine |-> "PF", reload |-> "base"]

\* ifaceInit has started Timer 2; irInit has run.
Init ==
  /\ pc = "parse" /\ op = "loop" /\ event = NoSend
  /\ state = NoBurst /\ pending = NoPending /\ tokenCounter = 1
  /\ completionPending = 0 /\ completion = NoSend
  /\ envelopeTicks = Zero /\ primeTicks = Zero /\ phases = 0
  /\ carrierMode = 0 /\ irPin = 0 /\ reload = "base" /\ ET2 = 1
  /\ awaiting = {} /\ reply = Service!Silent

-----------------------------------------------------------------------------
(* loop(): bytes first, then the completion event, then irPoll.            *)

\* irStartPF, irStartLegacy, irStartRCX, irStartRCXRaw: one slot, or ERR_BUSY.
StartSend(e, r) ==
  /\ pc = "parse"
  /\ IF Idle
     THEN /\ pending' = [valid |-> 1, token |-> tokenCounter,
                         engine |-> e, reload |-> r]
          /\ tokenCounter' = NextToken(tokenCounter)
          /\ pc' = "accept"
     ELSE pc' = "refuse" /\ UNCHANGED <<pending, tokenCounter>>
  /\ Sent(Service!Silent)
  /\ UNCHANGED <<state, completionPending, completion, lightVars, op, event,
                 awaiting, ET2>>

StartPF     == StartSend("PF", pending.reload)
StartLegacy == StartSend("Legacy", pending.reload)
StartRCX    == \E r \in RCXReload : StartSend("RCX", r)

ReplyAccepted ==
  /\ Goto("accept", "parse")
  /\ LET m == [token |-> pending.token, engine |-> pending.engine]
     IN  awaiting' = awaiting \cup {m} /\ Sent(Service!Accepted(m))
  /\ UNCHANGED <<deviceVars, lightVars, op, event, ET2>>

ReplyBusy ==
  /\ Goto("refuse", "parse")
  /\ Sent(Service!Busy)
  /\ UNCHANGED <<deviceVars, lightVars, op, event, awaiting, ET2>>

AbortUndrained ==
  /\ Goto("parse", "mask") /\ op' = "abort"
  /\ Sent(Service!Silent)
  /\ UNCHANGED <<deviceVars, lightVars, event, awaiting, ET2>>

\* CMD_IR_ABORT_ALL, and the same calls of CMD_RESET_STATE.
AbortCommand ==
  /\ Goto("parse", "drain") /\ op' = "abort"
  /\ Sent(Service!Silent)
  /\ UNCHANGED <<deviceVars, lightVars, event, awaiting, ET2>>

\* CMD_ENTER_BOOTLOADER replies first and does not drain.
BootCommand ==
  /\ Goto("parse", "bootOK") /\ op' = "boot"
  /\ Sent(Service!Silent)
  /\ UNCHANGED <<deviceVars, lightVars, event, awaiting, ET2>>

ReplyBoot ==
  /\ Goto("bootOK", "mask")
  /\ Sent(Service!OK)
  /\ UNCHANGED <<deviceVars, lightVars, op, event, awaiting, ET2>>

NoMoreBytes ==
  /\ Goto("parse", "drain") /\ op' = "loop"
  /\ Sent(Service!Silent)
  /\ UNCHANGED <<deviceVars, lightVars, event, awaiting, ET2>>

\* The step after a drain depends on who called drainIrCompletion.
Drained == IF op = "abort" THEN "mask" ELSE "poll"

\* irGetCompletion: test, copy, clear; then sendReply.
DrainTest ==
  /\ pc = "drain"
  /\ pc' = IF completionPending = 1 THEN "take" ELSE Drained
  /\ Sent(Service!Silent)
  /\ UNCHANGED <<deviceVars, lightVars, op, event, awaiting, ET2>>

DrainTake ==
  /\ Goto("take", "clear")
  /\ event' = completion
  /\ Sent(Service!Silent)
  /\ UNCHANGED <<deviceVars, lightVars, op, awaiting, ET2>>

ClearForgotten == UNCHANGED completionPending
Clear == completionPending' = 0

DrainClear ==
  /\ Goto("clear", "emit")
  /\ Clear
  /\ Sent(Service!Silent)
  /\ UNCHANGED <<state, pending, completion, tokenCounter, lightVars, op, event,
                 awaiting, ET2>>

DrainEmit ==
  /\ pc = "emit" /\ pc' = Drained
  /\ awaiting' = awaiting \ {event}
  /\ Sent(Service!Finished(event))
  /\ UNCHANGED <<deviceVars, lightVars, op, event, ET2>>

-----------------------------------------------------------------------------
(* irAbortAll                                                              *)

AbortMask ==
  /\ Goto("mask", "zeroLo")
  /\ Mask
  /\ Sent(Service!Silent)
  /\ UNCHANGED <<deviceVars, lightVars, op, event, awaiting>>

AbortZeroLo ==
  /\ Goto("zeroLo", "zeroHi")
  /\ envelopeTicks' = [envelopeTicks EXCEPT !.lo = 0]
  /\ Sent(Service!Silent)
  /\ UNCHANGED <<deviceVars, primeTicks, phases, carrierMode, irPin, reload, op,
                 event, awaiting, ET2>>

AbortZeroHi ==
  /\ Goto("zeroHi", "quiet")
  /\ envelopeTicks' = [envelopeTicks EXCEPT !.hi = 0]
  /\ Sent(Service!Silent)
  /\ UNCHANGED <<deviceVars, primeTicks, phases, carrierMode, irPin, reload, op,
                 event, awaiting, ET2>>

AbortQuiet ==
  /\ Goto("quiet", "resolve")
  /\ Quiet
  /\ Sent(Service!Silent)
  /\ UNCHANGED <<deviceVars, envelopeTicks, primeTicks, phases, op, event,
                 awaiting, ET2>>

\* The one live token, in state or in pending, goes to the completion slot.
Resolve ==
  IF Idle
  THEN UNCHANGED <<completion, completionPending>>
  ELSE LET live == IF state.active # "none" THEN state ELSE pending
       IN  /\ completion' = [token |-> live.token, engine |-> live.engine]
           /\ completionPending' = 1

AbortResolve ==
  /\ Goto("resolve", "unmask")
  /\ Resolve
  /\ state' = [state EXCEPT !.active = "none"]
  /\ Release
  /\ Sent(Service!Silent)
  /\ UNCHANGED <<tokenCounter, lightVars, op, event, awaiting, ET2>>

AbortUnmask ==
  /\ pc = "unmask" /\ pc' = IF op = "boot" THEN "leaving" ELSE "abortOK"
  /\ ET2' = 1
  /\ Sent(Service!Silent)
  /\ UNCHANGED <<deviceVars, lightVars, op, event, awaiting>>

\* enterBootloader never returns: USB goes down and the ROM takes over.
JumpToROM ==
  /\ Goto("leaving", "rom")
  /\ Sent(Service!Silent)
  /\ UNCHANGED <<deviceVars, lightVars, op, event, awaiting, ET2>>

ReplyAbort ==
  /\ Goto("abortOK", "parse") /\ op' = "loop"
  /\ Sent(Service!OK)
  /\ UNCHANGED <<deviceVars, lightVars, event, awaiting, ET2>>

-----------------------------------------------------------------------------
(* irPoll, and the rest of the loop                                        *)

PollNothing ==
  /\ Goto("poll", "parse")
  /\ state.active # "none" \/ pending.valid = 0
  /\ Sent(Service!Silent)
  /\ UNCHANGED <<deviceVars, lightVars, op, event, awaiting, ET2>>

PollPromote ==
  /\ Goto("poll", "arm")
  /\ state.active = "none" /\ pending.valid = 1
  /\ state' = [active |-> pending.engine, token |-> pending.token,
               engine |-> pending.engine]
  /\ phases' \in 1 .. MaxPhases
  /\ Sent(Service!Silent)
  /\ UNCHANGED <<pending, completionPending, completion, tokenCounter,
                 envelopeTicks, primeTicks, carrierMode, irPin, reload, op,
                 event, awaiting, ET2>>

\* The reload irPoll arms: pending.reload is pending.rcx.reloadL.
AlwaysBase(p) == "base"
ArmedReload(p) == CASE p.engine = "Legacy" -> "fast"
                    [] p.engine = "RCX"    -> p.reload
                    [] p.engine = "PF"     -> "base"

\* The tick rate, and PF's channel-staggered head start.
PollArm ==
  /\ Goto("arm", "release")
  /\ reload' = ArmedReload(pending)
  /\ primeTicks' \in IF pending.engine = "PF" THEN Word \ {Zero} ELSE {One}
  /\ Sent(Service!Silent)
  /\ UNCHANGED <<deviceVars, envelopeTicks, phases, carrierMode, irPin, op,
                 event, awaiting, ET2>>

PollRelease ==
  /\ Goto("release", "primeMask")
  /\ Release
  /\ carrierMode' = 0
  /\ Sent(Service!Silent)
  /\ UNCHANGED <<state, completionPending, completion, tokenCounter,
                 envelopeTicks, primeTicks, phases, irPin, reload, op, event,
                 awaiting, ET2>>

PrimeMask ==
  /\ Goto("primeMask", "primeLo")
  /\ Mask
  /\ Sent(Service!Silent)
  /\ UNCHANGED <<deviceVars, lightVars, op, event, awaiting>>

PrimeLo ==
  /\ Goto("primeLo", "primeHi")
  /\ envelopeTicks' = [envelopeTicks EXCEPT !.lo = primeTicks.lo]
  /\ Sent(Service!Silent)
  /\ UNCHANGED <<deviceVars, primeTicks, phases, carrierMode, irPin, reload, op,
                 event, awaiting, ET2>>

PrimeHi ==
  /\ Goto("primeHi", "primed")
  /\ envelopeTicks' = [envelopeTicks EXCEPT !.hi = primeTicks.hi]
  /\ Sent(Service!Silent)
  /\ UNCHANGED <<deviceVars, primeTicks, phases, carrierMode, irPin, reload, op,
                 event, awaiting, ET2>>

PrimeUnmask ==
  /\ Goto("primed", "parse")
  /\ ET2' = 1
  /\ Sent(Service!Silent)
  /\ UNCHANGED <<deviceVars, lightVars, op, event, awaiting>>

\* The board is plugged in again and setup() runs; a host that reconnects
\* awaits nothing.
PowerCycle ==
  /\ Goto("rom", "parse") /\ op' = "loop" /\ event' = NoSend
  /\ state' = NoBurst /\ pending' = NoPending /\ tokenCounter' = 1
  /\ completionPending' = 0 /\ completion' = NoSend
  /\ envelopeTicks' = Zero /\ primeTicks' = Zero /\ phases' = 0
  /\ carrierMode' = 0 /\ irPin' = 0 /\ reload' = "base" /\ ET2' = 1
  /\ awaiting' = {} /\ reply' = Service!Silent

Main ==
  \/ StartPF \/ StartLegacy \/ StartRCX \/ ReplyAccepted \/ ReplyBusy
  \/ AbortCommand \/ BootCommand \/ ReplyBoot \/ NoMoreBytes
  \/ DrainTest \/ DrainTake \/ DrainClear \/ DrainEmit
  \/ AbortMask \/ AbortZeroLo \/ AbortZeroHi \/ AbortQuiet \/ AbortResolve
  \/ AbortUnmask \/ JumpToROM \/ ReplyAbort
  \/ PollNothing \/ PollPromote \/ PollArm \/ PollRelease
  \/ PrimeMask \/ PrimeLo \/ PrimeHi \/ PrimeUnmask

-----------------------------------------------------------------------------
(* Timer2Interrupt: the carrier toggle, then the envelope                  *)

Toggled == IF carrierMode = 0 THEN irPin ELSE 1 - irPin

\* A tick with no envelope running, or in the middle of a phase.
TickOnly ==
  /\ envelopeTicks # One
  /\ irPin' = Toggled
  /\ envelopeTicks' = IF envelopeTicks = Zero THEN Zero ELSE Minus1(envelopeTicks)
  /\ UNCHANGED <<state, completion, completionPending, phases, carrierMode, reload>>

\* No encoder returns a phase of zero ticks: it would never count down.
AnyTicks == Word
PhaseTicks == Word \ {Zero}

\* The carrier irNextPhase selects for a mark.
MarkMode == IF state.active = "Legacy" THEN 2 ELSE 1

\* irNextPhase has another phase of the active burst.
LoadPhase ==
  /\ envelopeTicks = One
  /\ state.active # "none" /\ phases > 0
  /\ phases' = phases - 1
  /\ envelopeTicks' \in PhaseTicks
  /\ carrierMode' \in {0, MarkMode}
  /\ irPin' = IF carrierMode' = 0 THEN 0 ELSE Toggled
  /\ UNCHANGED <<state, completion, completionPending, reload>>

\* irNextPhase has none: the burst is over, or (its default case) there was
\* none and the completion registers keep what they held.
FinishBurst ==
  /\ envelopeTicks = One
  /\ state.active = "none" \/ phases = 0
  /\ completion' = IF state.active = "none" THEN completion
                   ELSE [token |-> state.token, engine |-> state.engine]
  /\ state' = [state EXCEPT !.active = "none"]
  /\ completionPending' = 1
  /\ envelopeTicks' = Zero /\ Quiet
  /\ UNCHANGED phases

Timer2Interrupt ==
  /\ ET2 = 1 /\ pc # "rom"
  /\ TickOnly \/ LoadPhase \/ FinishBurst
  /\ UNCHANGED <<pending, tokenCounter, primeTicks, mainVars, hostVars, ET2>>

-----------------------------------------------------------------------------
Next == Main \/ PowerCycle \/ Timer2Interrupt

\* The CPU keeps executing, the timer keeps overflowing, and the host pauses
\* again and again (while bytes keep coming loop() stays in its while).
Fairness ==
  /\ WF_vars(Main)
  /\ WF_vars(Timer2Interrupt)
  /\ SF_vars(NoMoreBytes)

Spec     == Init /\ [][Next]_vars
FairSpec == Spec /\ Fairness

-----------------------------------------------------------------------------
(* Properties                                                              *)

\* Every variable keeps its type; tokens stay in 1 .. MaxToken, so 0 can
\* keep meaning "refused" (irNextToken).
TypeOK ==
  /\ pc \in Labels /\ op \in {"loop", "abort", "boot"}
  /\ event \in Send
  /\ state \in [active : Engine \cup {"none"}, token : Token, engine : Engine]
  /\ pending \in [valid : {0, 1}, token : Token, engine : Engine,
                  reload : RCXReload]
  /\ completionPending \in {0, 1} /\ completion \in Send
  /\ tokenCounter \in Token
  /\ envelopeTicks \in Word /\ primeTicks \in Word
  /\ phases \in 0 .. MaxPhases
  /\ carrierMode \in {0, 1, 2} /\ irPin \in {0, 1}
  /\ reload \in Reload /\ ET2 \in {0, 1}
  /\ awaiting \subseteq Send

\* The sends the board still owes an IR_DONE for: the one in the completion
\* slot, the one drainIrCompletion has copied out and not yet said, the one
\* being transmitted or queued (ReplyAccepted tells the host of the latter).
InSlot   == IF completionPending = 1 /\ pc # "clear" THEN {completion} ELSE {}
InHand   == IF pc \in {"clear", "emit"} THEN {event} ELSE {}
OnAir    == IF state.active = "none" THEN {}
            ELSE {[token |-> state.token, engine |-> state.engine]}
InQueue  == IF pending.valid = 0 \/ pc = "accept" THEN {}
            ELSE {[token |-> pending.token, engine |-> pending.engine]}
Owed     == InSlot \cup InHand \cup OnAir \cup InQueue

\* While the firmware runs, what the host awaits is exactly what the board
\* still holds: no IR_DONE is lost when an abort writes the completion slot,
\* and none is invented (irAbortAll's NOTE, drainIrCompletion).  The one
\* exception is the teardown of ENTER_BOOTLOADER, which never drains.
TokenConservation == op # "boot" => awaiting = Owed

\* The LED never stays lit in a space, wherever in a carrier period the mark
\* ended.  With no engine active it is dark, no countdown is running that could
\* finish a burst nobody started, and the timer is back at the base rate that
\* PF bursts and the outputs' PWM are timed by (irAbortAll, Timer2Interrupt).
IdleIsDark ==
  /\ carrierMode = 0 => irPin = 0
  /\ state.active = "none" =>
       /\ carrierMode = 0 /\ irPin = 0
       /\ envelopeTicks = Zero
       /\ reload = "base"

\* Whenever the interrupt can advance an envelope, a burst is active, the
\* timer runs at the rate of that burst's engine and the carrier is off or in
\* that engine's mode: nothing is ever sent at another protocol's frequency.
RateMatchesEngine ==
  (ET2 = 1 /\ envelopeTicks # Zero) =>
    /\ state.active # "none"
    /\ state.active = "Legacy" => reload = "fast" /\ carrierMode \in {0, 2}
    /\ state.active = "PF" => reload = "base" /\ carrierMode \in {0, 1}
    /\ state.active = "RCX" => reload = pending.reload /\ carrierMode \in {0, 1}

\* When irPoll lets the interrupt in again the countdown holds the head start
\* it stored, although the store took two instructions (irPoll's comment on
\* the torn 16-bit value).
PrimeIntact == pc = "primed" => envelopeTicks = primeTicks

\* When an abort or a reset says OK nothing is queued or on the air, and the
\* host awaits at most the IR_DONE that the next pass of loop() will say.
AbortQuiesces ==
  pc = "abortOK" => Idle /\ envelopeTicks = Zero /\ awaiting = InSlot

\* The host sees what IRService promises: one IR_DONE per IR_ACCEPTED, fresh
\* tokens, and ERR_BUSY only while an IR_DONE is due (PROTOCOL.md, tokens).
ServiceSpec == Service!Spec

\* To irPoll, irNextPhase and irAbortAll a burst is what IRBurst says: bounded,
\* of phases that can be counted down, and never replaced in its middle.
Burst == INSTANCE IRBurst WITH
  active <- state.active, ticks <- envelopeTicks, NoTicks <- Zero,
  phases <- IF state.active = "none" THEN 0 ELSE phases
BurstSpec == Burst!Spec

\* Every accepted send is reported done, unless the host boots the board
\* into the ROM: no burst hangs, no completion is left unsaid.
EveryTokenResolves ==
  \A m \in Send : m \in awaiting ~> (m \notin awaiting \/ pc = "rom")

\* What PROTOCOL.md and irAbortAll say of every IR_ACCEPTED, said of the one
\* command that does not honour it: the ROM is entered owing nothing.
BootloaderOwesNothing == pc = "rom" => awaiting = {}
=============================================================================
