------------------------------- MODULE IRBurst -------------------------------
(***************************************************************************)
(* What the infrared engine and its three encoders agree on: a burst is a  *)
(* bounded number of phases, each of at least one tick, handed out one at  *)
(* a time, and nothing but the end of a burst makes room for the next.     *)
(* IREngine implements it with phases of any kind, IRNextPhase with those  *)
(* of irNextPhase.                                                         *)
(***************************************************************************)
EXTENDS Naturals

CONSTANTS
  Engine,     \* PF, Legacy, RCX
  MaxPhases,  \* the most phases a burst has
  NoTicks     \* a countdown of zero

VARIABLES
  active,     \* the engine transmitting, or "none"
  phases,     \* phases of its burst still to be loaded
  ticks       \* the countdown of the current phase; counting is not a step

bvars == <<active, phases>>

Init == active = "none" /\ phases = 0

\* irPoll promotes the pending send.
Start ==
  /\ active = "none" /\ active' \in Engine
  /\ phases' \in 1 .. MaxPhases

\* irNextPhase returns 1: a phase that the interrupt can count down.
Load ==
  /\ active # "none" /\ UNCHANGED active
  /\ phases > 0 /\ phases' = phases - 1
  /\ ticks' # NoTicks

\* irNextPhase returns 0, or irAbortAll cuts the burst short.
End ==
  /\ active # "none" /\ active' = "none"
  /\ phases' = 0

Next == Start \/ Load \/ End

Spec == Init /\ [][Next]_bvars
=============================================================================
