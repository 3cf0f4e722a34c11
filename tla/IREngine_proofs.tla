-------------------------- MODULE IREngine_proofs --------------------------
(***************************************************************************)
(* Theorems about IREngine, for every number of tokens, phases and byte    *)
(* values.  IInv is the inductive invariant: it says, for every place the  *)
(* main loop can be in, what the interrupt may and may not have done.      *)
(***************************************************************************)
EXTENDS IREngine, TLAPS

Masked    == {"zeroLo", "zeroHi", "quiet", "resolve", "unmask",
              "primeLo", "primeHi", "primed"}
Draining  == {"drain", "take", "clear", "emit"}
Aborting  == {"mask", "zeroLo", "zeroHi", "quiet", "resolve", "unmask"}
Promoting == {"arm", "release"}
Priming   == {"primeMask", "primeLo", "primeHi", "primed"}

\* Where the main loop is, and for whom.
ControlInv ==
  /\ ET2 = 1 <=> pc \notin Masked
  /\ pc \in {"parse", "accept", "refuse", "poll"} \cup Promoting \cup Priming
       => op = "loop"
  /\ pc \in Draining => op # "boot"
  /\ pc \in Aborting => op # "loop"
  /\ pc = "abortOK" => op = "abort"
  /\ pc \in {"bootOK", "leaving", "rom"} => op = "boot"

\* A space is dark; no engine: no light, no countdown, the base rate.
DarkInv ==
  /\ carrierMode = 0 => irPin = 0
  /\ state.active = "none" =>
       /\ carrierMode = 0 /\ irPin = 0 /\ reload = "base"
       /\ envelopeTicks = Zero

\* An engine: a single live send, at its own rate, or being armed or torn down.
LiveInv ==
  state.active # "none" =>
    /\ state.active = state.engine /\ state.engine = pending.engine
    /\ completionPending = 0
    /\ pc \notin {"accept", "take", "clear", "emit", "unmask", "abortOK",
                  "leaving", "rom"}
    /\ pending.valid = 1 => pc \in Promoting /\ state.token = pending.token
    /\ pc \notin {"arm", "resolve"} => reload = ArmedReload(pending)
    /\ pc \in {"arm", "resolve"} => reload = "base"
    /\ carrierMode \in {0, MarkMode}

\* irPoll and irAbortAll, statement by statement.
StageInv ==
  /\ pc \in Promoting => pending.valid = 1
  /\ pc \in Promoting \cup Priming => state.active # "none" /\ carrierMode = 0
  /\ pc \in Promoting \cup {"primeMask", "primeLo"} => envelopeTicks = Zero
  /\ pc \in {"release"} \cup Priming => primeTicks # Zero
  /\ pc = "primeHi" => envelopeTicks = [hi |-> 0, lo |-> primeTicks.lo]
  /\ pc = "primed" => envelopeTicks = primeTicks
  /\ pc = "zeroHi" => envelopeTicks.lo = 0
  /\ pc \in {"quiet", "resolve", "unmask", "abortOK", "leaving", "rom"}
       => envelopeTicks = Zero
  /\ pc = "resolve" => carrierMode = 0 /\ irPin = 0
  /\ pc \in {"unmask", "abortOK", "leaving", "rom"} => pending.valid = 0
  /\ pc = "accept" => pending.valid = 1
  /\ pc = "refuse" => completionPending = 1 \/ ~Idle

\* The completion slot: a finished send and a queued one coexist only until
\* the next drain, which every abort that is not for the ROM runs first.
SlotInv ==
  /\ pc \in {"take", "clear"} => completionPending = 1
  /\ pc = "clear" => event = completion
  /\ pc = "emit" => completionPending = 0
  /\ completionPending = 1 /\ pending.valid = 1 =>
       \/ pc \in {"parse", "accept", "refuse", "drain", "take", "clear"}
       \/ op = "boot"

\* The live send carries the last token handed out, an undrained one the last
\* or, when there is a live send, the one before that.
TokenInv ==
  /\ state.active # "none" => NextToken(state.token) = tokenCounter
  /\ pending.valid = 1 => NextToken(pending.token) = tokenCounter
  /\ \A m \in InSlot \cup InHand :
       op # "boot" =>
         NextToken(m.token) = IF pending.valid = 1 THEN pending.token ELSE tokenCounter

IInv ==
  /\ TypeOK /\ ControlInv /\ DarkInv /\ LiveInv /\ StageInv /\ SlotInv
  /\ TokenInv /\ TokenConservation

USE MaxTokenAssumption, ByteMaxAssumption, MaxPhasesAssumption,
    RCXReloadAssumption

-----------------------------------------------------------------------------
\* Every variable has its type in a board that has just run setup().
LEMMA TypeInit == Init => TypeOK
  BY DEF Init, TypeOK, Labels, Send, Token, Engine, Word, Byte, Reload, NoSend,
         NoBurst, NoPending, Zero

\* No statement of the main loop, and no interrupt, breaks a type.
LEMMA TypeStep == TypeOK /\ [Next]_vars => TypeOK'
<1> SUFFICES ASSUME TypeOK, [Next]_vars PROVE TypeOK'
  OBVIOUS
<1> USE DEF TypeOK, Labels, Send, Token, Engine, Word, Byte, Reload
<1> USE DEF Goto, Sent, Zero, deviceVars, lightVars, mainVars, hostVars
<1>1. CASE StartPF
  BY <1>1 DEF StartPF, StartSend, Idle, NextToken
<1>2. CASE StartLegacy
  BY <1>2 DEF StartLegacy, StartSend, Idle, NextToken
<1>3. CASE StartRCX
  BY <1>3 DEF StartRCX, StartSend, Idle, NextToken
<1>4. CASE ReplyAccepted
  BY <1>4 DEF ReplyAccepted
<1>5. CASE ReplyBusy
  BY <1>5 DEF ReplyBusy
<1>6. CASE AbortCommand
  BY <1>6 DEF AbortCommand
<1>7. CASE BootCommand
  BY <1>7 DEF BootCommand
<1>8. CASE ReplyBoot
  BY <1>8 DEF ReplyBoot
<1>9. CASE NoMoreBytes
  BY <1>9 DEF NoMoreBytes
<1>10. CASE DrainTest
  BY <1>10 DEF DrainTest, Drained
<1>11. CASE DrainTake
  BY <1>11 DEF DrainTake
<1>12. CASE DrainClear
  BY <1>12 DEF DrainClear, Clear
<1>13. CASE DrainEmit
  BY <1>13 DEF DrainEmit, Drained
<1>14. CASE AbortMask
  BY <1>14 DEF AbortMask, Mask
<1>15. CASE AbortZeroLo
  BY <1>15 DEF AbortZeroLo
<1>16. CASE AbortZeroHi
  BY <1>16 DEF AbortZeroHi
<1>17. CASE AbortQuiet
  BY <1>17 DEF AbortQuiet, Quiet
<1>18. CASE AbortResolve
  BY <1>18 DEF AbortResolve, Resolve, Release, Idle
<1>19. CASE AbortUnmask
  BY <1>19 DEF AbortUnmask
<1>20. CASE JumpToROM
  BY <1>20 DEF JumpToROM
<1>21. CASE ReplyAbort
  BY <1>21 DEF ReplyAbort
<1>22. CASE PollNothing
  BY <1>22 DEF PollNothing
<1>23. CASE PollPromote
  BY <1>23 DEF PollPromote
<1>24. CASE PollArm
  BY <1>24 DEF PollArm, ArmedReload, One
<1>25. CASE PollRelease
  BY <1>25 DEF PollRelease, Release
<1>26. CASE PrimeMask
  BY <1>26 DEF PrimeMask, Mask
<1>27. CASE PrimeLo
  BY <1>27 DEF PrimeLo
<1>28. CASE PrimeHi
  BY <1>28 DEF PrimeHi
<1>29. CASE PrimeUnmask
  BY <1>29 DEF PrimeUnmask
<1>30. CASE PowerCycle
  BY <1>30 DEF PowerCycle, NoSend, NoBurst, NoPending
<1>31. CASE Timer2Interrupt /\ TickOnly
  BY <1>31 DEF Timer2Interrupt, TickOnly, Toggled, Minus1, One
<1>32. CASE Timer2Interrupt /\ LoadPhase
  BY <1>32 DEF Timer2Interrupt, LoadPhase, PhaseTicks, MarkMode, Toggled,
       One
<1>33. CASE Timer2Interrupt /\ FinishBurst
  BY <1>33 DEF Timer2Interrupt, FinishBurst, Quiet, One
<1>34. CASE UNCHANGED vars
  BY <1>34 DEF vars
<1> QED
  BY <1>1, <1>2, <1>3, <1>4, <1>5, <1>6, <1>7, <1>8, <1>9, <1>10, <1>11,
       <1>12, <1>13, <1>14, <1>15, <1>16, <1>17, <1>18, <1>19, <1>20, <1>21,
       <1>22, <1>23, <1>24, <1>25, <1>26, <1>27, <1>28, <1>29, <1>30, <1>31,
       <1>32, <1>33, <1>34 DEF Next, Main, Timer2Interrupt

\* Every variable keeps its type; in particular irNextToken never hands out 0.
THEOREM TypeInvariant == Spec => []TypeOK
  BY TypeInit, TypeStep, PTL DEF Spec

-----------------------------------------------------------------------------
\* The inductive invariant holds once setup() has run.
LEMMA InvInit == Init => IInv
<1> USE DEF Init, NoSend, NoBurst, NoPending
<1>1. Init => ControlInv /\ DarkInv /\ LiveInv
  BY DEF ControlInv, DarkInv, LiveInv, Masked, Draining, Aborting, Promoting,
         Priming
<1>2. Init => StageInv /\ SlotInv
  BY DEF StageInv, SlotInv, Promoting, Priming
<1>3. Init => TokenInv /\ TokenConservation
  BY DEF TokenInv, TokenConservation, Owed, InSlot, InHand, OnAir, InQueue
<1> QED
  BY TypeInit, <1>1, <1>2, <1>3 DEF IInv

\* Every statement of loop(), and the interrupt wherever it falls, keeps the
\* inductive invariant.
LEMMA InvStep == IInv /\ [Next]_vars => IInv'
<1> SUFFICES ASSUME IInv, [Next]_vars
             PROVE  (/\ ControlInv /\ DarkInv /\ LiveInv /\ StageInv
                     /\ SlotInv /\ TokenInv /\ TokenConservation)'
  BY TypeStep DEF IInv
<1> USE DEF IInv, TypeOK, Labels, Send, Token, Engine, Word, Byte, Reload
<1> USE DEF Goto, Sent, Zero, deviceVars, lightVars, mainVars, hostVars,
            Masked, Draining, Aborting, Promoting, Priming
<1> USE DEF ControlInv, DarkInv, LiveInv, StageInv, SlotInv, TokenInv,
            TokenConservation, Owed, InSlot, InHand, OnAir, InQueue,
            Idle, ArmedReload, MarkMode, NextToken
<1>1. CASE StartPF
  BY <1>1 DEF StartPF, StartSend
<1>2. CASE StartLegacy
  BY <1>2 DEF StartLegacy, StartSend
<1>3. CASE StartRCX
  BY <1>3 DEF StartRCX, StartSend
<1>4. CASE ReplyAccepted
  BY <1>4 DEF ReplyAccepted
<1>5. CASE ReplyBusy
  BY <1>5 DEF ReplyBusy
<1>6. CASE AbortCommand
  BY <1>6 DEF AbortCommand
<1>7. CASE BootCommand
  BY <1>7 DEF BootCommand
<1>8. CASE ReplyBoot
  BY <1>8 DEF ReplyBoot
<1>9. CASE NoMoreBytes
  BY <1>9 DEF NoMoreBytes
<1>10. CASE DrainTest
  BY <1>10 DEF DrainTest, Drained
<1>11. CASE DrainTake
  BY <1>11 DEF DrainTake
<1>12. CASE DrainClear
  BY <1>12 DEF DrainClear, Clear
<1>13. CASE DrainEmit
  BY <1>13 DEF DrainEmit, Drained
<1>14. CASE AbortMask
  BY <1>14 DEF AbortMask, Mask
<1>15. CASE AbortZeroLo
  BY <1>15 DEF AbortZeroLo
<1>16. CASE AbortZeroHi
  BY <1>16 DEF AbortZeroHi
<1>17. CASE AbortQuiet
  BY <1>17 DEF AbortQuiet, Quiet
<1>18. CASE AbortResolve
  <2>1. ControlInv'
    BY <1>18 DEF AbortResolve, Resolve, Release
  <2>2. DarkInv'
    BY <1>18 DEF AbortResolve, Resolve, Release
  <2>3. LiveInv'
    BY <1>18 DEF AbortResolve, Resolve, Release
  <2>4. StageInv'
    BY <1>18 DEF AbortResolve, Resolve, Release
  <2>5. SlotInv'
    BY <1>18 DEF AbortResolve, Resolve, Release
  <2>6. TokenInv'
    BY <1>18 DEF AbortResolve, Resolve, Release
  <2>7. TokenConservation'
    BY <1>18 DEF AbortResolve, Resolve, Release
  <2> QED BY <2>1, <2>2, <2>3, <2>4, <2>5, <2>6, <2>7
<1>19. CASE AbortUnmask
  BY <1>19 DEF AbortUnmask
<1>20. CASE JumpToROM
  BY <1>20 DEF JumpToROM
<1>21. CASE ReplyAbort
  BY <1>21 DEF ReplyAbort
<1>22. CASE PollNothing
  BY <1>22 DEF PollNothing
<1>23. CASE PollPromote
  BY <1>23 DEF PollPromote
<1>24. CASE PollArm
  BY <1>24 DEF PollArm, One
<1>25. CASE PollRelease
  BY <1>25 DEF PollRelease, Release
<1>26. CASE PrimeMask
  BY <1>26 DEF PrimeMask, Mask
<1>27. CASE PrimeLo
  BY <1>27 DEF PrimeLo
<1>28. CASE PrimeHi
  BY <1>28 DEF PrimeHi
<1>29. CASE PrimeUnmask
  BY <1>29 DEF PrimeUnmask
<1>30. CASE PowerCycle
  BY <1>30 DEF PowerCycle, NoSend, NoBurst, NoPending
<1>31. CASE Timer2Interrupt /\ TickOnly
  BY <1>31 DEF Timer2Interrupt, TickOnly, Toggled, Minus1, One
<1>32. CASE Timer2Interrupt /\ LoadPhase
  BY <1>32 DEF Timer2Interrupt, LoadPhase, PhaseTicks, Toggled, One
<1>33. CASE Timer2Interrupt /\ FinishBurst
  BY <1>33 DEF Timer2Interrupt, FinishBurst, Quiet, One
<1>34. CASE UNCHANGED vars
  BY <1>34 DEF vars
<1> QED
  BY <1>1, <1>2, <1>3, <1>4, <1>5, <1>6, <1>7, <1>8, <1>9, <1>10, <1>11,
       <1>12, <1>13, <1>14, <1>15, <1>16, <1>17, <1>18, <1>19, <1>20, <1>21,
       <1>22, <1>23, <1>24, <1>25, <1>26, <1>27, <1>28, <1>29, <1>30, <1>31,
       <1>32, <1>33, <1>34 DEF Next, Main, Timer2Interrupt

\* The inductive invariant holds in every reachable state.
THEOREM InductiveInvariant == Spec => []IInv
  BY InvInit, InvStep, PTL DEF Spec

-----------------------------------------------------------------------------
\* The host awaits exactly the sends the board still owes an IR_DONE for.
THEOREM TokensConserved == Spec => []TokenConservation
  BY InductiveInvariant, PTL DEF IInv

\* A space is dark; an idle engine is dark, counts nothing down and leaves the base rate.
THEOREM IdleAlwaysDark == Spec => []IdleIsDark
<1>1. IInv => IdleIsDark
  BY DEF IInv, DarkInv, IdleIsDark
<1> QED
  BY InductiveInvariant, <1>1, PTL

\* Nothing is sent at the tick rate or carrier mode of another protocol.
THEOREM RateAlwaysMatches == Spec => []RateMatchesEngine
<1>1. ASSUME IInv, ET2 = 1, envelopeTicks # Zero
      PROVE  /\ state.active # "none"
             /\ state.active = pending.engine
             /\ reload = ArmedReload(pending)
             /\ carrierMode \in {0, MarkMode}
  BY <1>1 DEF IInv, ControlInv, DarkInv, LiveInv, StageInv, Masked, Promoting
<1>2. IInv => RateMatchesEngine
  BY <1>1 DEF ArmedReload, MarkMode, RateMatchesEngine
<1> QED
  BY InductiveInvariant, <1>2, PTL

\* The interrupt never sees, and never counts down, a torn head start.
THEOREM PrimeAlwaysIntact == Spec => []PrimeIntact
<1>1. IInv => PrimeIntact
  BY DEF IInv, StageInv, PrimeIntact
<1> QED
  BY InductiveInvariant, <1>1, PTL

\* An abort that says OK has left nothing queued or on the air.
THEOREM AbortAlwaysQuiesces == Spec => []AbortQuiesces
<1>1. IInv => AbortQuiesces
  BY DEF IInv, ControlInv, LiveInv, StageInv, Idle, TokenConservation, Owed,
         InHand, OnAir, InQueue, AbortQuiesces
<1> QED
  BY InductiveInvariant, <1>1, PTL

-----------------------------------------------------------------------------
\* A board that has just run setup() owes nothing and is on the wire.
LEMMA ServiceInit == Init => Service!Init
  BY DEF Init, Service!Init, Service!Silent

\* Each step of the board is one IRService step, or one the host cannot see.
LEMMA ServiceStep == IInv /\ [Next]_vars => [Service!Next]_(Service!svars)
<1> SUFFICES ASSUME IInv, [Next]_vars
             PROVE  Service!Next \/ UNCHANGED Service!svars
  OBVIOUS
<1> USE DEF Goto, Sent, deviceVars, lightVars, mainVars, hostVars
<1>a. CASE UNCHANGED hostVars /\ (pc = "rom" <=> pc' = "rom")
  BY <1>a DEF Service!svars
<1>b. ASSUME pc # "rom", pc' # "rom", awaiting' = awaiting,
             reply' \in {Service!OK, Service!Silent}
      PROVE  Service!Next
  BY <1>b DEF Service!Next, Service!Other
<1>1. CASE StartPF
  BY <1>1, <1>b DEF StartPF, StartSend
<1>2. CASE StartLegacy
  BY <1>2, <1>b DEF StartLegacy, StartSend
<1>3. CASE StartRCX
  BY <1>3, <1>b DEF StartRCX, StartSend
<1>4. CASE AbortCommand
  BY <1>4, <1>b DEF AbortCommand
<1>5. CASE BootCommand
  BY <1>5, <1>b DEF BootCommand
<1>6. CASE ReplyBoot
  BY <1>6, <1>b DEF ReplyBoot
<1>7. CASE NoMoreBytes
  BY <1>7, <1>b DEF NoMoreBytes
<1>8. CASE DrainTest
  BY <1>8, <1>b DEF DrainTest, Drained
<1>9. CASE DrainTake
  BY <1>9, <1>b DEF DrainTake
<1>10. CASE DrainClear
  BY <1>10, <1>b DEF DrainClear
<1>11. CASE AbortMask
  BY <1>11, <1>b DEF AbortMask
<1>12. CASE AbortZeroLo
  BY <1>12, <1>b DEF AbortZeroLo
<1>13. CASE AbortZeroHi
  BY <1>13, <1>b DEF AbortZeroHi
<1>14. CASE AbortQuiet
  BY <1>14, <1>b DEF AbortQuiet
<1>15. CASE AbortResolve
  BY <1>15, <1>b DEF AbortResolve
<1>16. CASE AbortUnmask
  BY <1>16, <1>b DEF AbortUnmask
<1>17. CASE ReplyAbort
  BY <1>17, <1>b DEF ReplyAbort
<1>18. CASE PollNothing
  BY <1>18, <1>b DEF PollNothing
<1>19. CASE PollPromote
  BY <1>19, <1>b DEF PollPromote
<1>20. CASE PollArm
  BY <1>20, <1>b DEF PollArm
<1>21. CASE PollRelease
  BY <1>21, <1>b DEF PollRelease
<1>22. CASE PrimeMask
  BY <1>22, <1>b DEF PrimeMask
<1>23. CASE PrimeLo
  BY <1>23, <1>b DEF PrimeLo
<1>24. CASE PrimeHi
  BY <1>24, <1>b DEF PrimeHi
<1>25. CASE PrimeUnmask
  BY <1>25, <1>b DEF PrimeUnmask
<1>26. CASE ReplyAccepted
  <2> DEFINE m == [token |-> pending.token, engine |-> pending.engine]
  <2>1. m \in Service!Send
    BY DEF IInv, TypeOK, Token, Engine, Service!Send
  <2>2. awaiting = InSlot
    BY <1>26 DEF ReplyAccepted, IInv, ControlInv, LiveInv, TokenConservation,
                 Owed, InHand, OnAir, InQueue
  <2>3. \A w \in awaiting : w.token # m.token
    BY <1>26, <2>2 DEF ReplyAccepted, IInv, TypeOK, Token, ControlInv, StageInv,
                       TokenInv, NextToken
  <2>4. \A v, w \in awaiting : v = w
    BY <2>2 DEF InSlot
  <2>5. Service!Accept(m)
    BY <1>26, <2>3, <2>4 DEF ReplyAccepted, Service!Accept
  <2> QED
    BY <1>26, <2>1, <2>5 DEF ReplyAccepted, Service!Next
<1>27. CASE ReplyBusy
  <2>1. awaiting # {}
    BY <1>27 DEF ReplyBusy, IInv, TypeOK, ControlInv, StageInv, Idle,
                 TokenConservation, Owed, InSlot, OnAir, InQueue
  <2> QED
    BY <1>27, <2>1 DEF ReplyBusy, Service!Refuse, Service!Next
<1>28. CASE DrainEmit
  <2>1. event \in awaiting
    BY <1>28 DEF DrainEmit, IInv, ControlInv, Draining, TokenConservation,
                 Owed, InHand
  <2>2. event \in Service!Send
    BY DEF IInv, TypeOK, Send, Token, Engine, Service!Send
  <2>3. Service!Done(event) /\ pc # "rom" /\ pc' # "rom"
    BY <1>28, <2>1 DEF DrainEmit, Drained, Service!Done
  <2> QED
    BY <2>2, <2>3 DEF Service!Next
<1>29. CASE JumpToROM
  BY <1>29 DEF JumpToROM, Service!Next, Service!Leave
<1>30. CASE PowerCycle
  BY <1>30 DEF PowerCycle, Service!Next, Service!Reconnect
<1>31. CASE Timer2Interrupt
  BY <1>31, <1>a DEF Timer2Interrupt
<1>32. CASE UNCHANGED vars
  BY <1>32, <1>a DEF vars
<1> QED
  BY <1>1, <1>2, <1>3, <1>4, <1>5, <1>6, <1>7, <1>8, <1>9, <1>10, <1>11, <1>12,
     <1>13, <1>14, <1>15, <1>16, <1>17, <1>18, <1>19, <1>20, <1>21, <1>22,
     <1>23, <1>24, <1>25, <1>26, <1>27, <1>28, <1>29, <1>30, <1>31, <1>32
     DEF Next, Main

\* The board keeps IRService's promises: exactly one IR_DONE per IR_ACCEPTED,
\* a fresh token while one is outstanding, ERR_BUSY only while one is due.
THEOREM ImplementsService == Spec => ServiceSpec
  BY InductiveInvariant, ServiceInit, ServiceStep, PTL
     DEF Spec, ServiceSpec, Service!Spec
-----------------------------------------------------------------------------
\* A board that has just run setup() transmits nothing.
LEMMA BurstInit == Init => Burst!Init
  BY DEF Init, NoBurst, Burst!Init

\* A step that leaves the burst alone maps to a stutter.
LEMMA BurstStep == TypeOK /\ [Next]_vars => [Burst!Next]_(Burst!bvars)
<1> SUFFICES ASSUME TypeOK, [Next]_vars
             PROVE  Burst!Next \/ UNCHANGED Burst!bvars
  OBVIOUS
<1> USE DEF Goto, deviceVars, lightVars, mainVars, hostVars
<1>a. CASE UNCHANGED <<state, phases>>
  BY <1>a DEF Burst!bvars
<1>b. ASSUME state.active # "none", state'.active = "none"
      PROVE  Burst!Next
  BY <1>b DEF Burst!Next, Burst!End
<1>c. ASSUME state.active = "none", state'.active = "none"
      PROVE  UNCHANGED Burst!bvars
  BY <1>c DEF Burst!bvars
<1>1. CASE PollPromote
  <2>1. state'.active \in Engine /\ state'.active # "none"
    BY <1>1 DEF PollPromote, TypeOK, Engine
  <2> QED
    BY <1>1, <2>1 DEF PollPromote, Burst!Next, Burst!Start
<1>2. CASE AbortResolve
  <2>1. state'.active = "none"
    BY <1>2 DEF AbortResolve, TypeOK
  <2> QED
    BY <2>1, <1>b, <1>c
<1>3. CASE PowerCycle
  BY <1>3, <1>b, <1>c DEF PowerCycle, NoBurst
<1>4. CASE Timer2Interrupt /\ LoadPhase
  <2>1. phases' = phases - 1 /\ envelopeTicks' # Zero /\ state' = state
    BY <1>4 DEF LoadPhase, PhaseTicks
  <2> QED
    BY <1>4, <2>1 DEF LoadPhase, Burst!Next, Burst!Load
<1>5. CASE Timer2Interrupt /\ FinishBurst
  <2>1. state'.active = "none"
    BY <1>5 DEF FinishBurst, TypeOK
  <2> QED
    BY <2>1, <1>b, <1>c
<1>6. CASE Timer2Interrupt /\ TickOnly
  BY <1>6, <1>a DEF TickOnly
<1>7. CASE UNCHANGED vars
  BY <1>7, <1>a DEF vars
<1>8. CASE Main /\ ~PollPromote /\ ~AbortResolve
  <2>1. UNCHANGED <<state, phases>>
    BY <1>8 DEF Main, StartPF, StartLegacy, StartRCX, StartSend, ReplyAccepted,
       ReplyBusy, AbortCommand, BootCommand, ReplyBoot, NoMoreBytes, DrainTest,
       DrainTake, DrainClear, DrainEmit, AbortMask, AbortZeroLo, AbortZeroHi,
       AbortQuiet, AbortUnmask, JumpToROM, ReplyAbort, PollNothing, PollArm,
       PollRelease, PrimeMask, PrimeLo, PrimeHi, PrimeUnmask
  <2> QED
    BY <2>1, <1>a
<1> QED
  BY <1>1, <1>2, <1>3, <1>4, <1>5, <1>6, <1>7, <1>8 DEF Next, Timer2Interrupt

\* The engine takes of its encoders no more than IRBurst promises, and keeps
\* the rest of it: bounded bursts of non-empty phases, one at a time.
THEOREM ImplementsBurst == Spec => BurstSpec
  BY TypeInvariant, BurstInit, BurstStep, PTL DEF Spec, BurstSpec, Burst!Spec
=============================================================================
