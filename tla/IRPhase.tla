------------------------------- MODULE IRPhase -------------------------------
(***************************************************************************)
(* The stream state that irPoll fills, irNextPhase advances and irAbortAll *)
(* gives up, as far as the three encoders share it.  Here a step is one    *)
(* call of irNextPhase; how the interrupt counts a phase down and races    *)
(* with the main loop is IREngine's subject.                               *)
(***************************************************************************)
EXTENDS Naturals

VARIABLES
  active,        \* state.active: "none", "PF", "Legacy" or "RCX"
  s,             \* the union of PFState, LegacyState and RCXState: the view
                 \* of the burst started last
  carrierOn, ticks,   \* the phase last loaded
  reloadCounts,  \* Timer 2 counts per tick: 65536 - RCAP2
  ear            \* ghost: what a receiver of this burst has made of it so far

codeVars  == <<active, s, carrierOn, ticks, reloadCounts>>
phaseVars == <<codeVars, ear>>

BaseCounts == 26
FastCounts == 13
Unset == <<>>

PhaseInit ==
  /\ active = "none" /\ s = Unset /\ carrierOn = 0 /\ ticks = 0
  /\ reloadCounts = BaseCounts /\ ear = Unset

\* irPoll: the engine's view replaces whatever the union held, and the burst
\* begins with a silent countdown.
Promote(engine, view, counts, primeTicks) ==
  /\ active = "none" /\ active' = engine
  /\ s' = view /\ reloadCounts' = counts
  /\ carrierOn' = 0 /\ ticks' = primeTicks

\* An encoder returns 1.
Load(on, t) ==
  /\ carrierOn' = on /\ ticks' = t
  /\ UNCHANGED <<active, reloadCounts>>

KeepRate == UNCHANGED reloadCounts
BaseRate == reloadCounts' = BaseCounts

\* An encoder returns 0, and the interrupt puts the light out; irAbortAll does
\* the same in mid-burst.  Nobody reads what the union still holds: the next
\* Promote replaces it, so Unset stands for it.
EndBurst ==
  /\ active' = "none" /\ carrierOn' = 0 /\ ticks' = 0 /\ BaseRate
  /\ s' = Unset /\ ear' = Unset
=============================================================================
