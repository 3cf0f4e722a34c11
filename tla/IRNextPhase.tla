----------------------------- MODULE IRNextPhase -----------------------------
(***************************************************************************)
(* irNextPhase and its three encoders on the one stream state they share:  *)
(* bursts of any engine in any order, ended or cut short anywhere, with    *)
(* the toggle bits that outlive them.  A step is a promotion, an abort or  *)
(* one call of irNextPhase.                                                *)
(***************************************************************************)
EXTENDS IRPhase, Sequences

CONSTANTS
  PFSends,       \* the sends tried: [channel, mode, data, flags],
  LegacySends,   \* [channel, orange, yellow],
  RCXSends       \* [raw, data, options]; options: repeats * 16 + carrier select

ASSUME PFAssumption ==
  PFSends \subseteq [channel : 0 .. 3, data : 0 .. 255, flags : 0 .. 255,
                     mode : {"COMBO_DIRECT", "SINGLE_PWM", "SINGLE_CST", "COMBO_PWM"}]
ASSUME LegacyAssumption ==
  LegacySends \subseteq [channel : 4 .. 7, orange : 0 .. 15, yellow : 0 .. 15]
ASSUME RCXAssumption ==
  \A send \in RCXSends :
    /\ DOMAIN send = {"raw", "data", "options"} /\ send.raw \in BOOLEAN
    /\ send.options \in 0 .. 255 /\ send.data \in Seq(0 .. 255)
    /\ Len(send.data) \in 1 .. (IF send.raw THEN 37 ELSE 16)

VARIABLES pfToggle, receivers   \* PFTransmit's, kept across bursts

toggles == <<pfToggle, receivers>>
vars == <<phaseVars, toggles>>

Engine == {"PF", "Legacy", "RCX"}

PF     == INSTANCE PFTransmit
Legacy == INSTANCE LegacyTransmit
RCX    == INSTANCE RCXTransmit

ASSUME BaudIsKept == RCX!BaudIsKept
ASSUME FramesAreBalanced == \A send \in RCXSends : RCX!IsBalanced(send.data)

Init == PhaseInit /\ PF!PFInit

-----------------------------------------------------------------------------
(* irPoll                                                                  *)

StartPF ==
  \E send \in PFSends : PF!Start(send.channel, send.mode, send.data, send.flags)

StartLegacy ==
  /\ \E send \in LegacySends : Legacy!Start(send)
  /\ UNCHANGED toggles

StartRCX ==
  /\ \E send \in RCXSends :
       IF send.raw THEN RCX!StartRCXRaw(send.data, send.options)
                   ELSE RCX!StartRCX(send.data, send.options)
  /\ UNCHANGED toggles

-----------------------------------------------------------------------------
(* irAbortAll in mid-burst, and doResetState, which forgets the toggles    *)

IrAbortAll == active # "none" /\ EndBurst /\ UNCHANGED toggles

ResetState == EndBurst /\ PF!ForgetToggles

-----------------------------------------------------------------------------
(* irNextPhase: the active engine's encoder                                *)

IrNextPhase ==
  \/ PF!NextPhase
  \/ (Legacy!NextPhase \/ RCX!NextPhase) /\ UNCHANGED toggles

Next ==
  \/ StartPF \/ StartLegacy \/ StartRCX
  \/ IrAbortAll \/ ResetState \/ IrNextPhase

Spec == Init /\ [][Next]_vars

\* While a burst is on the air the interrupt keeps asking for its next phase
\* (IREngine's fairness of Timer2Interrupt).
FairSpec == Spec /\ WF_vars(IrNextPhase)

-----------------------------------------------------------------------------
(* Properties                                                              *)

\* Each engine finds its own view in the union, and nothing else.  While a
\* burst is on the air the countdown it is left with fits 16 bits and is not
\* empty; afterwards there is no light, no countdown and the base rate.
TypeOK ==
  /\ active \in Engine \cup {"none"}
  /\ carrierOn \in {0, 1} /\ reloadCounts \in {13, 25, 26, 27, 28}
  /\ active # "none" => ticks \in Nat /\ 0 < ticks /\ ticks < 65536
  /\ active = "none" => carrierOn = 0 /\ ticks = 0 /\ reloadCounts = BaseCounts
  /\ PF!TypeOK /\ Legacy!TypeOK /\ RCX!TypeOK

\* Properties of the encoders, stated where they are defined.
PFMessagesAreSpaced        == PF!MessagesAreSpaced
PFTogglesAlternate         == PF!TogglesAlternate
PFReceiverHearsMessage     == PF!ReceiverHearsMessage
LegacyMessagesAreSpaced    == Legacy!MessagesAreSpaced
LegacyReceiverHearsCommand == Legacy!ReceiverHearsCommand
RCXReceiverHearsFrame      == RCX!ReceiverHearsFrame
RCXRepeatsLeaveGap         == RCX!RepeatsLeaveGap

\* Phases until irNextPhase will return 0.
Remaining == CASE active = "none"   -> 0
               [] active = "PF"     -> PF!Remaining
               [] active = "Legacy" -> Legacy!Remaining
               [] active = "RCX"    -> RCX!Remaining

\* A frame of 37 bytes sent 15 times.
Burst == INSTANCE IRBurst WITH
  MaxPhases <- 15 * (11 * RCX!MaxFramedBytes + 1) - 1,
  NoTicks <- 0, phases <- Remaining

\* Whatever the engine, data and options, a burst is the exact number of
\* phases its protocol takes, none of them empty: what IREngine assumes.
ServesBurst == Burst!Spec

CopiesAsked == CASE active = "PF"     -> PF!RepeatCount
                 [] active = "Legacy" -> Legacy!RepeatCount
                 [] active = "RCX"    -> RCX!CopiesAsked(ear.request.options)

\* irNextPhase returns 0, and the host is told the send is done, only when all
\* the copies the protocol or the host asks for have been heard whole.
DoneMeansSent ==
  [][active' = "none" /\ IrNextPhase => ear.copies = CopiesAsked]_vars

\* A burst ends.
BurstEnds == active # "none" ~> active = "none"
=============================================================================
