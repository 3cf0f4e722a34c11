-------------------------- MODULE Dispatch_proofs --------------------------
(***************************************************************************)
(* Theorems about Dispatch, for any packets: whatever a host sends, what   *)
(* reaches an output or an encoder is in its domain.                       *)
(***************************************************************************)
EXTENDS Dispatch, FiniteSetTheorems, TLAPS

\* One more selected output uses one more duty byte.
One(on, o) == IF o \in on THEN 1 ELSE 0

\* What the recursion of Used computes exists: a byte has eight bits.
LEMMA UsedExists ==
  ASSUME NEW on
  PROVE  \E used : used = [o \in 0 .. 8 |->
                             IF o = 0 THEN 0 ELSE used[o - 1] + One(on, o)]
<1> DEFINE c(o) == One(on, o)
           u1 == c(1)
           u2 == u1 + c(2)
           u3 == u2 + c(3)
           u4 == u3 + c(4)
           u5 == u4 + c(5)
           u6 == u5 + c(6)
           u7 == u6 + c(7)
           u8 == u7 + c(8)
           g == [o \in 0 .. 8 |-> CASE o = 0 -> 0 [] o = 1 -> u1 [] o = 2 -> u2
                                    [] o = 3 -> u3 [] o = 4 -> u4 [] o = 5 -> u5
                                    [] o = 6 -> u6 [] o = 7 -> u7 [] OTHER -> u8]
<1>1. /\ g[0] = 0 /\ g[1] = u1 /\ g[2] = u2 /\ g[3] = u3 /\ g[4] = u4
      /\ g[5] = u5 /\ g[6] = u6 /\ g[7] = u7 /\ g[8] = u8
  OBVIOUS
<1>2. \A o \in 0 .. 8 : c(o) \in {0, 1}
  BY DEF One
<1>3. u1 = 0 + c(1)
  BY <1>2
<1> HIDE DEF c
<1>4. g = [o \in 0 .. 8 |-> IF o = 0 THEN 0 ELSE g[o - 1] + c(o)]
  <2> HIDE DEF g, u1, u2, u3, u4, u5, u6, u7, u8
  <2>1. \A o \in 0 .. 8 : g[o] = IF o = 0 THEN 0 ELSE g[o - 1] + c(o)
    <3> TAKE o \in 0 .. 8
    <3>1. CASE o = 0
      BY <1>1, <3>1
    <3>2. CASE o = 1
      BY <1>1, <1>3, <3>2
    <3>3. CASE o \in {2, 3}
      BY <1>1, <3>3 DEF u2, u3
    <3>4. CASE o \in {4, 5}
      BY <1>1, <3>4 DEF u4, u5
    <3>5. CASE o \in {6, 7, 8}
      BY <1>1, <3>5 DEF u6, u7, u8
    <3> QED
      BY <3>1, <3>2, <3>3, <3>4, <3>5
  <2>2. g = [o \in 0 .. 8 |-> g[o]]
    BY DEF g
  <2> QED
    BY <2>1, <2>2
<1> QED
  BY <1>4 DEF c

\* The first output takes no byte before its own, and each output leaves one
\* byte fewer if it is selected.
LEMMA UsedStep ==
  ASSUME NEW on
  PROVE  /\ Used(on)[0] = 0
         /\ \A o \in 1 .. 8 : Used(on)[o] = Used(on)[o - 1] + One(on, o)
<1> DEFINE f == Used(on)
<1>1. f = [o \in 0 .. 8 |-> IF o = 0 THEN 0 ELSE f[o - 1] + One(on, o)]
  BY UsedExists DEF Used, One
<1> HIDE DEF f
<1>2. f[0] = 0
  BY <1>1
<1>3. \A o \in 1 .. 8 : f[o] = f[o - 1] + One(on, o)
  BY <1>1
<1> QED
  BY <1>2, <1>3 DEF f

\* The outputs of a set up to an output, and one more of them.
UpTo(on, o) == { q \in on : q <= o }
LEMMA UpToStep ==
  ASSUME NEW on \in SUBSET Output, NEW o \in 1 .. 8,
         IsFiniteSet(UpTo(on, o - 1))
  PROVE  /\ IsFiniteSet(UpTo(on, o))
         /\ Cardinality(UpTo(on, o)) = Cardinality(UpTo(on, o - 1)) + One(on, o)
<1>1. on \subseteq Nat
  BY DEF Output
<1> DEFINE before == UpTo(on, o - 1)
<1>2. Cardinality(UpTo(on, o - 1)) \in Nat
  BY FS_CardinalityType
<1>3. CASE o \in on
  <2>1. UpTo(on, o) = before \cup {o} /\ o \notin before
    <3>1. \A q \in on : q <= o <=> q <= o - 1 \/ q = o
      BY <1>1
    <3>2. ~(o <= o - 1)
      OBVIOUS
    <3> QED
      BY <1>3, <3>1, <3>2, Zenon DEF UpTo
  <2> HIDE DEF before
  <2>2. IsFiniteSet(before \cup {o}) /\ Cardinality(before \cup {o}) = Cardinality(before) + 1
    BY <2>1, FS_AddElement DEF before
  <2> QED
    BY <1>3, <2>1, <2>2 DEF One, before
<1>4. CASE o \notin on
  <2>1. UpTo(on, o) = UpTo(on, o - 1)
    <3>1. \A q \in on : q <= o <=> q <= o - 1
      BY <1>1, <1>4
    <3> QED
      BY <3>1, Zenon DEF UpTo
  <2> QED
    BY <1>2, <1>4, <2>1 DEF One
<1> QED
  BY <1>3, <1>4

\* The loops count: up to each output as many bytes are used as outputs are
\* selected.
Counts(on, o) ==
  IsFiniteSet(UpTo(on, o)) /\ Used(on)[o] = Cardinality(UpTo(on, o))
LEMMA UsedCounts ==
  ASSUME NEW on \in SUBSET Output
  PROVE  \A o \in 0 .. 8 : Counts(on, o)
<1>1. Counts(on, 0)
  <2>1. UpTo(on, 0) = {}
    <3>1. \A q \in on : ~(q <= 0)
      BY DEF Output
    <3> QED
      BY <3>1, Zenon DEF UpTo
  <2> QED
    BY <2>1, FS_EmptySet, UsedStep DEF Counts
<1>2. ASSUME NEW o \in 1 .. 8, Counts(on, o - 1) PROVE Counts(on, o)
  BY <1>2, UpToStep, UsedStep DEF Counts
<1>3. Counts(on, 1) /\ Counts(on, 2)
  BY <1>1, <1>2
<1>4. Counts(on, 3) /\ Counts(on, 4)
  BY <1>2, <1>3
<1>5. Counts(on, 5) /\ Counts(on, 6)
  BY <1>2, <1>4
<1>6. Counts(on, 7) /\ Counts(on, 8)
  BY <1>2, <1>5
<1> QED
  BY <1>1, <1>3, <1>4, <1>5, <1>6

\* A mask uses one duty byte per selected output, and each of these takes one
\* of them.
LEMMA UsedBounds ==
  ASSUME NEW on \in SUBSET Output
  PROVE  /\ IsFiniteSet(on) /\ Used(on)[8] = Cardinality(on)
         /\ \A o \in on : Used(on)[o] \in 1 .. Cardinality(on)
<1>1. on \subseteq 1 .. 6
  BY InputAssumption DEF Output
<1>2. UpTo(on, 8) = on
  <2>1. \A q \in on : q <= 8
    BY <1>1
  <2> QED
    BY <2>1, Zenon DEF UpTo
<1>3. IsFiniteSet(on) /\ Used(on)[8] = Cardinality(on)
  BY <1>2, UsedCounts DEF Counts
<1>4. ASSUME NEW o \in on PROVE Used(on)[o] \in 1 .. Cardinality(on)
  <2>1. Counts(on, o)
    BY <1>1, UsedCounts
  <2>2. o \in UpTo(on, o) /\ UpTo(on, o) \subseteq on
    BY <1>1 DEF UpTo
  <2>3. /\ Cardinality(UpTo(on, o)) \in Nat /\ Cardinality(on) \in Nat
        /\ Cardinality(UpTo(on, o)) <= Cardinality(on)
    BY <1>3, <2>1, <2>2, FS_CardinalityType, FS_Subset DEF Counts
  <2>4. Cardinality(UpTo(on, o)) # 0
    BY <2>1, <2>2, FS_EmptySet DEF Counts
  <2> QED
    BY <2>1, <2>3, <2>4 DEF Counts
<1> QED
  BY <1>3, <1>4

-----------------------------------------------------------------------------
\* A member of a sequence is of its type.
LEMMA SeqElements ==
  ASSUME NEW S, NEW seq \in Seq(S)
  PROVE  Len(seq) \in Nat /\ \A i \in 1 .. Len(seq) : seq[i] \in S
  OBVIOUS

\* A payload byte is a byte.
LEMMA PayloadBytes ==
  ASSUME NEW p \in Packets
  PROVE  /\ p.payload \in Seq(0 .. 255) /\ Len(p.payload) \in Nat
         /\ \A i \in 1 .. Len(p.payload) : p.payload[i] \in 0 .. 255
<1>1. p.payload \in Seq(0 .. 255)
  BY InputAssumption
<1> QED
  BY <1>1, SeqElements

\* An answer is one message.
LEMMA OneAnswer == ASSUME NEW reply, Answer(reply) PROVE Len(replies') <= 2
  BY DEF Answer

\* A refusal changes nothing but what is replied.
LEMMA RefusedKeeps ==
  ASSUME NEW error, Refused(error)
  PROVE  /\ pwmDuty' = pwmDuty /\ inputCount' = inputCount /\ send' = send
         /\ finished' = finished /\ running' = running
         /\ replies' = <<error>> /\ Len(replies') <= 2
  BY OneAnswer DEF Refused, Answer, deviceVars

\* An accepted SET_OUTPUTS gives each selected output a duty byte of its own
\* packet, and no other output any.
LEMMA SetOutputsStores ==
  ASSUME NEW p \in Packets, SetOutputs(p), ~Refused("ERR_BAD_LENGTH")
  PROVE  LET on == Selected(p.payload[1])
         IN  /\ replies' = <<"OK">> /\ UNCHANGED <<inputCount, send, finished, running>>
             /\ Len(p.payload) = 1 + Cardinality(on)
             /\ pwmDuty' = [o \in Output |-> IF o \in on THEN p.payload[1 + Used(on)[o]]
                                             ELSE pwmDuty[o]]
             /\ \A o \in on : 1 + Used(on)[o] \in 1 .. Len(p.payload)
<1> DEFINE on == Selected(p.payload[1])
           duties == Tail(p.payload)
<1>1. on \in SUBSET Output
  BY DEF Selected
<1>2. /\ IsFiniteSet(on) /\ Used(on)[8] = Cardinality(on)
      /\ \A o \in on : Used(on)[o] \in 1 .. Cardinality(on)
  BY <1>1, UsedBounds
<1>3. Output \cup on = Output
  BY <1>1
<1>4. /\ p.payload # <<>> /\ Len(p.payload) = 1 + Used(on)[8]
      /\ pwmDuty' = [o \in Output \cup on |->
                      IF o \in on THEN DutyFor(on, duties, o) ELSE pwmDuty[o]]
      /\ replies' = <<"OK">> /\ UNCHANGED <<inputCount, send, finished, running>>
  BY DEF SetOutputs, Answer
<1> HIDE DEF on
<1>5. Len(p.payload) = 1 + Cardinality(on) /\ Cardinality(on) \in Nat
  BY <1>2, <1>4, FS_CardinalityType
<1>6. ASSUME NEW o \in on
      PROVE  /\ 1 + Used(on)[o] \in 1 .. Len(p.payload)
             /\ DutyFor(on, duties, o) = p.payload[1 + Used(on)[o]]
  <2>1. Used(on)[o] \in 1 .. Cardinality(on)
    BY <1>2
  <2>2. \A k \in 1 .. Cardinality(on) : duties[k] = p.payload[1 + k]
    BY <1>4, <1>5, PayloadBytes
  <2> QED
    BY <1>5, <2>1, <2>2 DEF DutyFor
<1>7. pwmDuty' = [o \in Output |-> IF o \in on THEN p.payload[1 + Used(on)[o]]
                                  ELSE pwmDuty[o]]
  BY <1>3, <1>4, <1>6
<1> QED
  BY <1>4, <1>5, <1>6, <1>7 DEF on

\* A drain and an abort reply at most an IR_DONE and an OK.
LEMMA DrainReplies ==
  ASSUME DrainAndAbort
  PROVE  /\ Len(replies') <= 2
         /\ \A k \in DOMAIN replies' : replies'[k] \in {"OK", "IR_DONE"}
<1>1. CASE finished = 1
  <2> DEFINE r == <<"IR_DONE">> \o <<"OK">>
  <2>1. /\ Len(r) = 2 /\ DOMAIN r = 1 .. 2
        /\ r[1] = "IR_DONE" /\ r[2] = "OK"
    OBVIOUS
  <2> QED
    BY <1>1, <2>1 DEF DrainAndAbort
<1>2. CASE finished # 1
  <2>1. <<>> \o <<"OK">> = <<"OK">>
    OBVIOUS
  <2> QED
    BY <1>2, <2>1 DEF DrainAndAbort
<1> QED
  BY <1>1, <1>2

\* A send that is not refused has passed every check, and is taken.
LEMMA SendTaken ==
  ASSUME NEW p \in Packets, StartSend(p), ~\E error : Refused(error)
  PROVE  /\ LengthFits(p) /\ ArgumentsFit(p) /\ p.cmd \in Sends
         /\ send' = p /\ Answer("IR_ACCEPTED")
         /\ UNCHANGED <<pwmDuty, inputCount, finished, running>>
  BY DEF StartSend, Take, Handle

\* The board starts dark, silent and idle.
LEMMA DispatchInit == Init => TypeOK
  BY InputAssumption DEF Init, TypeOK, AllOff, NoCounts

\* No packet, and nothing between packets, makes a state of another type.
LEMMA TypeStep == TypeOK /\ [Next]_vars => TypeOK'
<1> SUFFICES ASSUME TypeOK, [Next]_vars PROVE TypeOK'
  OBVIOUS
<1>0. ASSUME NEW error, Refused(error) PROVE TypeOK'
  <2>1. /\ pwmDuty' = pwmDuty /\ inputCount' = inputCount /\ send' = send
        /\ finished' = finished /\ running' = running
    BY <1>0, RefusedKeeps
  <2>2. replies' = <<error>> /\ Len(replies') <= 2
    BY <1>0, RefusedKeeps
  <2> QED
    BY <2>1, <2>2 DEF TypeOK
<1>1. ASSUME NEW p \in Packets, SetOutputs(p) PROVE TypeOK'
  <2>1. CASE Refused("ERR_BAD_LENGTH")
    BY <1>0, <2>1
  <2>2. CASE ~Refused("ERR_BAD_LENGTH")
    <3> DEFINE on == Selected(p.payload[1])
    <3>1. /\ replies' = <<"OK">> /\ UNCHANGED <<inputCount, send, finished, running>>
          /\ pwmDuty' = [o \in Output |-> IF o \in on THEN p.payload[1 + Used(on)[o]]
                                          ELSE pwmDuty[o]]
          /\ \A o \in on : 1 + Used(on)[o] \in 1 .. Len(p.payload)
      BY <1>1, <2>2, SetOutputsStores
    <3>2. \A i \in 1 .. Len(p.payload) : p.payload[i] \in 0 .. 255
      BY PayloadBytes
    <3> HIDE DEF on
    <3>3. pwmDuty' \in [Output -> 0 .. 255]
      BY <3>1, <3>2 DEF TypeOK
    <3>4. /\ inputCount' = inputCount /\ send' = send
          /\ finished' = finished /\ running' = running
      BY <3>1
    <3>5. Len(replies') <= 2
      BY <3>1
    <3> QED
      BY <3>3, <3>4, <3>5 DEF TypeOK
  <2> QED
    BY <2>1, <2>2
<1>2. ASSUME NEW p \in Packets, IRAbortAll(p) PROVE TypeOK'
  BY <1>2, DrainReplies DEF IRAbortAll, DrainAndAbort, TypeOK
<1>3. ASSUME NEW p \in Packets, ResetState(p) PROVE TypeOK'
  BY <1>3, DrainReplies, InputAssumption
  DEF ResetState, DrainAndAbort, AllOff, NoCounts, TypeOK
<1>4. ASSUME NEW p \in Packets, EnterBootloader(p) PROVE TypeOK'
  BY <1>4, OneAnswer DEF EnterBootloader, AllOff, TypeOK
<1>5. ASSUME NEW p \in Packets, ResetCount(p) PROVE TypeOK'
  <2>1. CASE \E error : Refused(error)
    BY <1>0, <2>1
  <2>2. CASE ~\E error : Refused(error)
    <3>1. /\ p.payload[1] \in Input /\ Answer("OK")
          /\ inputCount' = [inputCount EXCEPT ![p.payload[1]] = 0]
          /\ UNCHANGED <<pwmDuty, send, finished, running>>
      BY <1>5, <2>2 DEF ResetCount
    <3> QED
      BY <3>1, OneAnswer, InputAssumption DEF TypeOK
  <2> QED
    BY <2>1, <2>2
<1>6. ASSUME NEW p \in Packets, StartSend(p) PROVE TypeOK'
  <2>1. CASE \E error : Refused(error)
    BY <1>0, <2>1
  <2>2. CASE ~\E error : Refused(error)
    <3>1. /\ send' = p /\ pwmDuty' = pwmDuty /\ inputCount' = inputCount
          /\ finished' = finished /\ running' = running
      BY <1>6, <2>2, SendTaken
    <3>2. Len(replies') <= 2
      BY <1>6, <2>2, SendTaken, OneAnswer
    <3> QED
      BY <3>1, <3>2 DEF TypeOK
  <2> QED
    BY <2>1, <2>2
<1>7. ASSUME NEW p \in Packets, AnswerCoreQuery(p) \/ AnswerIfaceQuery(p) PROVE TypeOK'
  BY <1>7, OneAnswer DEF AnswerCoreQuery, AnswerIfaceQuery, deviceVars, TypeOK
<1>u. ASSUME NEW p \in Packets, Unknown(p) PROVE TypeOK'
  BY <1>0, <1>u DEF Unknown
<1>8. CASE BurstEnds
  BY <1>8 DEF BurstEnds, TypeOK
<1>9. CASE DrainIrCompletion
  BY <1>9, OneAnswer DEF DrainIrCompletion, TypeOK
<1>10. CASE InputEdge
  BY <1>10, InputAssumption DEF InputEdge, TypeOK
<1>11. CASE PowerCycle
  BY <1>11, InputAssumption DEF PowerCycle, AllOff, NoCounts, TypeOK
<1>12. CASE UNCHANGED vars
  BY <1>12 DEF vars, deviceVars, TypeOK
<1> QED
  BY <1>1, <1>2, <1>3, <1>4, <1>5, <1>6, <1>7, <1>u, <1>8, <1>9, <1>10, <1>11, <1>12
  DEF Next, HandlePacket

\* No duty is ever written outside pwmDuty, whatever bits a mask has set, and
\* none takes a byte from beyond its packet.
THEOREM TypeInvariant == Spec => []TypeOK
  BY DispatchInit, TypeStep, PTL DEF Spec

-----------------------------------------------------------------------------
\* The bytes an RCX send has: framed, no more than RCX_MAX_FRAMED_BYTES.
LEMMA RCXLengths ==
  ASSUME NEW n \in Nat, n >= 2
  PROVE  /\ n - 1 <= 16 => n - 1 \in 1 .. 16 /\ 3 + 2 * (n - 1) + 2 \in 7 .. 37
         /\ n - 1 <= 37 => n - 1 \in 1 .. 37
  OBVIOUS

\* A payload that has passed both checks is in its encoder's domain, and the
\* engine has nothing left to refuse it for but its slot.
LEMMA ChecksSuffice ==
  ASSUME NEW p \in Packets, p.cmd \in Sends, LengthFits(p), ArgumentsFit(p)
  PROVE  (EngineRefuses(p) => SlotTaken) /\ Encodable(p)
<1>1. /\ Len(p.payload) \in Nat
      /\ \A i \in 1 .. Len(p.payload) : p.payload[i] \in 0 .. 255
  BY PayloadBytes
<1>2. Len(p.payload) >= 2 => Len(Tail(p.payload)) = Len(p.payload) - 1
  <2>1. Len(p.payload) >= 2 => p.payload # <<>>
    OBVIOUS
  <2> QED
    BY <2>1, PayloadBytes
<1>3. CASE p.cmd = "PF_SEND"
  <2>1. Len(p.payload) = 4 /\ p.payload[1] <= 3 /\ p.payload[2] \in 0 .. 3
    BY <1>3 DEF LengthFits, ArgumentsFit, PFFits, IsValidPFMode
  <2>2. p.payload[1] \in 0 .. 255
    BY <1>1, <2>1
  <2> QED
    BY <1>3, <2>1, <2>2 DEF EngineRefuses, PFRefuses, LegacyRefuses, RCXRefuses,
                            RCXRawRefuses, Encodable
<1>4. CASE p.cmd = "LEGACY_SEND"
  <2>1. Len(p.payload) = 3 /\ LegacyFits(p)
    BY <1>4 DEF LengthFits, ArgumentsFit
  <2>2. p.payload[2] \in 0 .. 255 /\ p.payload[3] \in 0 .. 255
    BY <1>1, <2>1
  <2> QED
    BY <1>4, <2>1, <2>2 DEF EngineRefuses, PFRefuses, LegacyRefuses, RCXRefuses,
                            RCXRawRefuses, LegacyFits, Encodable
<1>5. CASE p.cmd = "RCX_SEND"
  <2>1. Len(p.payload) >= 2 /\ Len(p.payload) - 1 <= 16
    BY <1>5 DEF LengthFits, ArgumentsFit
  <2>2. /\ Len(p.payload) - 1 \in 1 .. 16
        /\ 3 + 2 * (Len(p.payload) - 1) + 2 \in 7 .. 37
    BY <1>1, <2>1, RCXLengths
  <2>3. 3 + 2 * Len(Tail(p.payload)) + 2 \in 7 .. 37
    BY <1>2, <2>1, <2>2
  <2>4. EngineRefuses(p) => SlotTaken
    BY <1>5, <2>2 DEF EngineRefuses, PFRefuses, LegacyRefuses, RCXRefuses,
                       RCXRawRefuses
  <2>5. p.payload # <<>>
    BY <2>1
  <2> QED
    BY <1>5, <2>3, <2>4, <2>5 DEF Encodable
<1>6. CASE p.cmd = "RCX_SEND_RAW"
  <2>1. Len(p.payload) >= 2 /\ Len(p.payload) - 1 <= 37
    BY <1>6 DEF LengthFits, ArgumentsFit
  <2>2. Len(p.payload) - 1 \in 1 .. 37
    BY <1>1, <2>1, RCXLengths
  <2>3. Len(Tail(p.payload)) \in 1 .. 37
    BY <1>2, <2>1, <2>2
  <2>4. EngineRefuses(p) => SlotTaken
    BY <1>6, <2>2 DEF EngineRefuses, PFRefuses, LegacyRefuses, RCXRefuses,
                       RCXRawRefuses
  <2>5. p.payload # <<>>
    BY <2>1
  <2> QED
    BY <1>6, <2>3, <2>4, <2>5 DEF Encodable
<1> QED
  BY <1>3, <1>4, <1>5, <1>6 DEF Sends

\* Busy means busy: the engine's own range checks, which answer like a full
\* slot, never decide, and a packet that an encoder has no message for is told
\* so whether or not the slot is taken.
THEOREM BusyAlwaysMeansBusy == Spec => BusyMeansBusy
<1> DEFINE Busy == replies' = <<"ERR_BUSY">> =>
                     \A p \in Packets : StartSend(p) => SlotTaken /\ Encodable(p)
<1>1. [Busy]_vars
  <2> SUFFICES ASSUME NEW p \in Packets, StartSend(p), replies' = <<"ERR_BUSY">>
               PROVE  SlotTaken /\ Encodable(p)
    OBVIOUS
  <2>1. \A e : <<"ERR_BUSY">> = <<e>> => e = "ERR_BUSY"
    OBVIOUS
  <2>2. p.cmd \in Sends /\ LengthFits(p) /\ ArgumentsFit(p) /\ EngineRefuses(p)
    BY <2>1 DEF StartSend, Take, Handle, Refused, Answer
  <2> QED
    BY <2>2, ChecksSuffice
<1> QED
  BY <1>1, PTL DEF Spec, BusyMeansBusy

\* Whatever reaches an encoder is in its domain.
THEOREM SendsAlwaysEncodable == Spec => []SendIsEncodable
<1>1. Init => SendIsEncodable
  BY DEF Init, SendIsEncodable, Encodable, NoPacket
<1>2. SendIsEncodable /\ [Next]_vars => SendIsEncodable'
  <2> SUFFICES ASSUME SendIsEncodable, [Next]_vars PROVE SendIsEncodable'
    OBVIOUS
  <2>1. CASE send' = send
    BY <2>1 DEF SendIsEncodable, Encodable
  <2>2. CASE send' = NoPacket
    BY <2>2 DEF SendIsEncodable, Encodable, NoPacket
  <2>3. ASSUME NEW p \in Packets, StartSend(p), ~\E error : Refused(error)
        PROVE  SendIsEncodable'
    <3>1. send' = p /\ Encodable(p)
      BY <2>3, SendTaken, ChecksSuffice
    <3> QED
      BY <3>1 DEF SendIsEncodable, Encodable
  <2>4. ASSUME NEW p \in Packets, StartSend(p), \E error : Refused(error)
        PROVE  send' = send
    BY <2>4, RefusedKeeps
  <2>5. ASSUME NEW p \in Packets, SetOutputs(p) \/ ResetCount(p) PROVE send' = send
    BY <2>5 DEF SetOutputs, ResetCount, Refused, deviceVars
  <2>6. ASSUME NEW p \in Packets, AnswerCoreQuery(p) \/ AnswerIfaceQuery(p) \/ Unknown(p)
        PROVE  send' = send
    BY <2>6 DEF AnswerCoreQuery, AnswerIfaceQuery, Unknown, Refused, deviceVars
  <2>7. ASSUME NEW p \in Packets, IRAbortAll(p) \/ ResetState(p) \/ EnterBootloader(p)
        PROVE  send' = NoPacket
    BY <2>7 DEF IRAbortAll, ResetState, EnterBootloader, DrainAndAbort
  <2>8. CASE BurstEnds \/ DrainIrCompletion \/ InputEdge \/ PowerCycle
    BY <2>1, <2>2, <2>8 DEF BurstEnds, DrainIrCompletion, InputEdge, PowerCycle
  <2>9. CASE UNCHANGED vars
    BY <2>1, <2>9 DEF vars, deviceVars
  <2> QED
    BY <2>1, <2>2, <2>3, <2>4, <2>5, <2>6, <2>7, <2>8, <2>9 DEF Next, HandlePacket
<1> QED
  BY <1>1, <1>2, PTL DEF Spec

\* The outputs hold what an accepted SET_OUTPUTS packed for them.
THEOREM DutiesAlwaysPacked == Spec => DutiesArePacked
<1> DEFINE selected(p) == { o \in Output : Bit(p.payload[1], o - 1) = 1 }
           rank(p, o) == Cardinality({ q \in selected(p) : q <= o })
           Packed == \A p \in Packets : SetOutputs(p) /\ replies' = <<"OK">> =>
             /\ Len(p.payload) = 1 + Cardinality(selected(p))
             /\ \A o \in selected(p) : pwmDuty'[o] = p.payload[1 + rank(p, o)]
             /\ \A o \in Output \ selected(p) : pwmDuty'[o] = pwmDuty[o]
<1>1. ASSUME NEW p \in Packets, SetOutputs(p), replies' = <<"OK">>
      PROVE  /\ Len(p.payload) = 1 + Cardinality(selected(p))
             /\ \A o \in selected(p) : pwmDuty'[o] = p.payload[1 + rank(p, o)]
             /\ \A o \in Output \ selected(p) : pwmDuty'[o] = pwmDuty[o]
  <2> DEFINE on == selected(p)
  <2>1. on = Selected(p.payload[1]) /\ on \in SUBSET Output
    BY DEF Selected
  <2>2. ~Refused("ERR_BAD_LENGTH")
    BY <1>1 DEF Refused, Answer
  <2>3. \A o \in on : Used(on)[o] = rank(p, o)
    <3>1. on \subseteq 1 .. 6
      BY <2>1, InputAssumption DEF Output
    <3>2. \A o \in on : Used(on)[o] = Cardinality(UpTo(on, o))
      BY <2>1, <3>1, UsedCounts DEF Counts
    <3> QED
      BY <3>2 DEF UpTo
  <2>4. /\ Len(p.payload) = 1 + Cardinality(on)
        /\ pwmDuty' = [o \in Output |-> IF o \in on THEN p.payload[1 + Used(on)[o]]
                                        ELSE pwmDuty[o]]
    BY <1>1, <2>1, <2>2, SetOutputsStores
  <2> HIDE DEF selected, rank
  <2> QED
    BY <2>1, <2>3, <2>4
<1>2. [Packed]_vars
  BY <1>1
<1> QED
  BY <1>2, PTL DEF Spec, DutiesArePacked
=============================================================================
