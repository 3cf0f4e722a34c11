------------------------------ MODULE Dispatch ------------------------------
(***************************************************************************)
(* handlePacket: what each command checks, in which order, what it changes *)
(* and what it replies.  The infrared engine is its one slot here: a send  *)
(* that is taken or refused (IREngine and the encoders have the rest, the  *)
(* PF toggle bits included), and the input counters are numbers that grow  *)
(* (EdgeCounter has the rest).                                             *)
(***************************************************************************)
EXTENDS Naturals, Sequences, FiniteSets

CONSTANTS
  Outputs,    \* the number of outputs: 6 in the code
  MaxCount,   \* bound on the edge counts
  Packets     \* the packets tried: a command and a sequence of bytes

ASSUME InputAssumption ==
  /\ Outputs \in 1 .. 6 /\ MaxCount \in Nat
  /\ \A p \in Packets : p.payload \in Seq(0 .. 255) /\ Len(p.payload) <= 40

VARIABLES
  pwmDuty,     \* output -> duty
  inputCount,  \* 6, 7 -> count
  send,        \* the send that is queued or on the air: command and payload
  finished,    \* a completed send whose IR_DONE has not been drained
  running,     \* 0 once ENTER_BOOTLOADER has been obeyed
  replies      \* the messages sent in this step

deviceVars == <<pwmDuty, inputCount, send, finished, running>>
vars == <<deviceVars, replies>>

Output == 1 .. Outputs
Input  == {6, 7}
Sends  == {"PF_SEND", "LEGACY_SEND", "RCX_SEND", "RCX_SEND_RAW"}
CoreQueries  == {"PING", "GET_VERSION", "GET_CAPABILITIES"}
IfaceQueries == {"IFACE_GET_INPUTS", "IFACE_GET_COUNTS"}

NoPacket == [cmd |-> "none", payload |-> <<>>]
AllOff   == [o \in Output |-> 0]
NoCounts == [i \in Input |-> 0]

Init ==
  /\ pwmDuty = AllOff /\ inputCount = NoCounts
  /\ send = NoPacket /\ finished = 0 /\ running = 1
  /\ replies = <<>>

-----------------------------------------------------------------------------
Handle(p, cmds) == running = 1 /\ p.cmd \in cmds
Answer(reply)   == replies' = <<reply>>
Refused(error)  == Answer(error) /\ UNCHANGED deviceVars

\* A query, whatever its payload.
AnswerCoreQuery(p) ==
  Handle(p, CoreQueries) /\ Answer("data") /\ UNCHANGED deviceVars
AnswerIfaceQuery(p) ==
  Handle(p, IfaceQueries) /\ Answer("data") /\ UNCHANGED deviceVars

\* drainIrCompletion; then irAbortAll completes the send, if there is one.
DrainAndAbort ==
  /\ replies' = (IF finished = 1 THEN <<"IR_DONE">> ELSE <<>>) \o <<"OK">>
  /\ send' = NoPacket
  /\ finished' = IF send = NoPacket THEN 0 ELSE 1

IRAbortAll(p) ==
  /\ Handle(p, {"IR_ABORT_ALL"})
  /\ DrainAndAbort
  /\ UNCHANGED <<pwmDuty, inputCount, running>>

ResetState(p) ==
  /\ Handle(p, {"RESET_STATE"})
  /\ DrainAndAbort
  /\ pwmDuty' = AllOff /\ inputCount' = NoCounts
  /\ UNCHANGED running

EnterBootloader(p) ==
  /\ Handle(p, {"ENTER_BOOTLOADER"})
  /\ Answer("OK")
  /\ send' = NoPacket /\ finished' = IF send = NoPacket THEN finished ELSE 1
  /\ pwmDuty' = AllOff /\ running' = 0
  /\ UNCHANGED inputCount

-----------------------------------------------------------------------------
(* Interface A                                                             *)

Bit(n, i) == (n \div 2^i) % 2

\* The outputs a mask selects, and all that its bits name.
SelectedUnbounded(mask) == { o \in 1 .. 8 : Bit(mask, o - 1) = 1 }
Selected(mask) == { o \in Output : Bit(mask, o - 1) = 1 }

\* The loops over the bits of a mask, lowest first: the selected outputs among
\* the first o are as many as the duty bytes these use up.
Used(on) ==
  LET used[o \in 0 .. 8] ==
        IF o = 0 THEN 0 ELSE used[o - 1] + (IF o \in on THEN 1 ELSE 0)
  IN  used

\* The duty bytes are packed: each selected output takes the next one.
DutyUnpacked(on, duties, o) == duties[IF o <= Len(duties) THEN o ELSE Len(duties)]
DutyFor(on, duties, o) == duties[Used(on)[o]]

SetOutputs(p) ==
  /\ Handle(p, {"IFACE_SET_OUTPUTS"})
  /\ LET on == Selected(p.payload[1])
     IN  IF p.payload = <<>> \/ Len(p.payload) # 1 + Used(on)[8]
         THEN Refused("ERR_BAD_LENGTH")
         ELSE /\ pwmDuty' = [o \in Output \cup on |->
                               IF o \in on THEN DutyFor(on, Tail(p.payload), o)
                                           ELSE pwmDuty[o]]
              /\ Answer("OK")
              /\ UNCHANGED <<inputCount, send, finished, running>>

ResetCount(p) ==
  /\ Handle(p, {"IFACE_RESET_COUNT"})
  /\ IF Len(p.payload) # 1 THEN Refused("ERR_BAD_LENGTH")
     ELSE IF p.payload[1] \notin Input THEN Refused("ERR_BAD_ARGUMENT")
     ELSE /\ inputCount' = [inputCount EXCEPT ![p.payload[1]] = 0]
          /\ Answer("OK")
          /\ UNCHANGED <<pwmDuty, send, finished, running>>

-----------------------------------------------------------------------------
(* Infrared: the dispatcher's checks, then the engine's own                *)

LengthFits(p) ==
  CASE p.cmd = "PF_SEND"     -> Len(p.payload) = 4
    [] p.cmd = "LEGACY_SEND" -> Len(p.payload) = 3
    [] OTHER                 -> Len(p.payload) >= 2

IsValidPFMode(mode) == mode \in 0 .. 3

PFModeUnchecked(p) == p.payload[1] <= 3
PFFits(p)     == p.payload[1] <= 3 /\ IsValidPFMode(p.payload[2])
LegacyFits(p) == p.payload[1] \in 4 .. 7 /\ p.payload[2] <= 15 /\ p.payload[3] <= 15

ArgumentsFit(p) ==
  CASE p.cmd = "PF_SEND"      -> PFFits(p)
    [] p.cmd = "LEGACY_SEND"  -> LegacyFits(p)
    [] p.cmd = "RCX_SEND"     -> Len(p.payload) - 1 <= 16
    [] p.cmd = "RCX_SEND_RAW" -> Len(p.payload) - 1 <= 37

\* irStartPF, irStartLegacy, irStartRCX and irStartRCXRaw check their
\* arguments too; they return 0 for a bad one and for a slot that is taken,
\* and the dispatcher takes 0 for busy.
PFRefuses(p)     == p.cmd = "PF_SEND" /\ p.payload[1] > 3
LegacyRefuses(p) == p.cmd = "LEGACY_SEND" /\ ~LegacyFits(p)
RCXRefuses(p)    == p.cmd = "RCX_SEND" /\ Len(p.payload) - 1 \notin 1 .. 16
RCXRawRefuses(p) == p.cmd = "RCX_SEND_RAW" /\ Len(p.payload) - 1 \notin 1 .. 37

SlotTaken == send # NoPacket
EngineRefuses(p) ==
  PFRefuses(p) \/ LegacyRefuses(p) \/ RCXRefuses(p) \/ RCXRawRefuses(p) \/ SlotTaken

Take(p) ==
  /\ send' = p
  /\ Answer("IR_ACCEPTED")
  /\ UNCHANGED <<pwmDuty, inputCount, finished, running>>

StartSendBusyFirst(p) ==
  /\ Handle(p, Sends)
  /\ IF SlotTaken THEN Refused("ERR_BUSY")
     ELSE IF ~LengthFits(p) THEN Refused("ERR_BAD_LENGTH")
     ELSE IF ~ArgumentsFit(p) THEN Refused("ERR_BAD_ARGUMENT")
     ELSE Take(p)
StartSend(p) ==
  /\ Handle(p, Sends)
  /\ IF ~LengthFits(p) THEN Refused("ERR_BAD_LENGTH")
     ELSE IF ~ArgumentsFit(p) THEN Refused("ERR_BAD_ARGUMENT")
     ELSE IF EngineRefuses(p) THEN Refused("ERR_BUSY")
     ELSE Take(p)

Unknown(p) == Handle(p, {"unknown"}) /\ Refused("ERR_UNKNOWN_CMD")

HandlePacket ==
  \E p \in Packets :
    \/ AnswerCoreQuery(p) \/ AnswerIfaceQuery(p)
    \/ IRAbortAll(p) \/ ResetState(p) \/ EnterBootloader(p)
    \/ SetOutputs(p) \/ ResetCount(p) \/ StartSend(p) \/ Unknown(p)

-----------------------------------------------------------------------------
(* What happens between packets                                            *)

BurstEnds ==
  /\ running = 1 /\ send # NoPacket /\ finished = 0
  /\ send' = NoPacket /\ finished' = 1
  /\ replies' = <<>> /\ UNCHANGED <<pwmDuty, inputCount, running>>

DrainIrCompletion ==
  /\ running = 1 /\ finished = 1
  /\ finished' = 0 /\ Answer("IR_DONE")
  /\ UNCHANGED <<pwmDuty, inputCount, send, running>>

InputEdge ==
  /\ running = 1
  /\ \E i \in Input : /\ inputCount[i] < MaxCount
                      /\ inputCount' = [inputCount EXCEPT ![i] = @ + 1]
  /\ replies' = <<>> /\ UNCHANGED <<pwmDuty, send, finished, running>>

\* The board is plugged in again.
PowerCycle ==
  /\ running = 0
  /\ pwmDuty' = AllOff /\ inputCount' = NoCounts
  /\ send' = NoPacket /\ finished' = 0 /\ running' = 1
  /\ replies' = <<>>

Next == HandlePacket \/ BurstEnds \/ DrainIrCompletion \/ InputEdge \/ PowerCycle

Spec == Init /\ [][Next]_vars

-----------------------------------------------------------------------------
(* Properties                                                              *)

\* In particular no duty is ever written outside pwmDuty[0 .. 5], whatever
\* bits a mask has set.
TypeOK ==
  /\ pwmDuty \in [Output -> 0 .. 255]
  /\ inputCount \in [Input -> 0 .. MaxCount]
  /\ send = NoPacket \/ send \in Packets
  /\ finished \in {0, 1} /\ running \in {0, 1}
  /\ Len(replies) <= 2

\* What an encoder has a message for: a PF channel and mode, nibbles, and bytes
\* that fit RCX_MAX_FRAMED_BYTES once header, complements and checksum are added.
Encodable(p) ==
  LET a == p.payload IN
  CASE p.cmd = "PF_SEND"      -> Len(a) = 4 /\ a[1] \in 0 .. 3 /\ a[2] \in 0 .. 3
    [] p.cmd = "LEGACY_SEND"  -> Len(a) = 3 /\ a[1] \in 4 .. 7
                                 /\ a[2] \in 0 .. 15 /\ a[3] \in 0 .. 15
    [] p.cmd = "RCX_SEND"     -> a # <<>> /\ 3 + 2 * Len(Tail(a)) + 2 \in 7 .. 37
    [] p.cmd = "RCX_SEND_RAW" -> a # <<>> /\ Len(Tail(a)) \in 1 .. 37
    [] OTHER -> TRUE

\* ERR_BUSY is the answer to a send that an encoder could take, and only while
\* the slot is taken; never to a bad length or argument, idle or busy, though
\* the engine returns the same 0 for both (PROTOCOL.md: ERR_BUSY means wait for
\* IR_DONE, then retry).
BusyMeansBusy ==
  [][replies' = <<"ERR_BUSY">> =>
       \A p \in Packets : StartSend(p) => SlotTaken /\ Encodable(p)]_vars

\* Whatever reaches an encoder is in its domain.
SendIsEncodable == Encodable(send)

\* An accepted SET_OUTPUTS can be read back from the outputs: the duties of
\* those its mask selects, in ascending order, are its duty bytes, all of them
\* used, and the others keep theirs (PROTOCOL.md on packed duties).
DutiesArePacked ==
  [][\A p \in Packets : SetOutputs(p) /\ replies' = <<"OK">> =>
       LET on == { o \in Output : Bit(p.payload[1], o - 1) = 1 }
           rank(o) == Cardinality({ q \in on : q <= o })
       IN  /\ Len(p.payload) = 1 + Cardinality(on)
           /\ \A o \in on : pwmDuty'[o] = p.payload[1 + rank(o)]
           /\ \A o \in Output \ on : pwmDuty'[o] = pwmDuty[o]]_vars
=============================================================================
