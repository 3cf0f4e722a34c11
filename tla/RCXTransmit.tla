----------------------------- MODULE RCXTransmit -----------------------------
(***************************************************************************)
(* RCX sends: the frame irStartRCX builds (or the raw bytes it is given),  *)
(* the options byte, and the phases rcxNextPhase hands to the interrupt:   *)
(* every byte as eleven serial bits, the frame repeated blindly with a gap *)
(* for the brick's unheard reply.                                          *)
(***************************************************************************)
EXTENDS IRPhase, UARTLine

Byte           == 0 .. 255
MaxFramedBytes == 37
RepeatGapInPeriods == 2307   \* the same 60 ms, in periods of the carrier
RepeatGapTicks == 4615
MaxCopies      == 15     \* of the options byte; the receiver counts up to one more

\* rcxCarrierReloadL and rcxCarrierBitTicks, by carrier select.
CarrierSelects == 0 .. 3
CarrierCounts  == <<26, 27, 25, 28>>
CarrierBits    == <<32, 31, 33, 30>>

\* At every carrier a bit is within one percent of 2400 baud, 832 counts.
BaudIsKept ==
  \A i \in DOMAIN CarrierBits :
    100 * CarrierBits[i] * CarrierCounts[i] \in 99 * 832 .. 101 * 832

-----------------------------------------------------------------------------
(* irStartRCX, irStartRCXRaw, rcxParseOptions                              *)

WithComplements(data) ==
  [i \in 1 .. 2 * Len(data) |-> IF i % 2 = 1 THEN data[(i + 1) \div 2]
                                            ELSE 255 - data[i \div 2]]

DataSum(data) ==
  LET sum[i \in 0 .. Len(data)] == IF i = 0 THEN 0 ELSE (sum[i - 1] + data[i]) % 256
  IN  sum[Len(data)]

\* Header, each data byte and its complement, the sum and its complement.
Framed(data) ==
  <<85, 255, 0>> \o WithComplements(data \o <<DataSum(data)>>)

\* A frame is balanced for the receiver's gain control: after the header, every
\* byte is followed by its complement.
IsBalanced(data) ==
  LET f == Framed(data) IN
  /\ Len(f) = 2 * Len(data) + 5
  /\ \A i \in 2 .. Len(data) + 2 : f[2 * i] + f[2 * i + 1] = 255

Select(options) == IF options % 16 \in CarrierSelects THEN options % 16 ELSE 0

Repeats(options) == IF options \div 16 = 0 THEN 1 ELSE options \div 16

\* The send is queued, and irPoll starts the burst.
Start(content, options) ==
  /\ Len(content) \in 1 .. MaxFramedBytes
  /\ Promote("RCX", [bytes |-> content, byteIdx |-> 0, bitIdx |-> 0,
                     bitTicks |-> CarrierBits[Select(options) + 1],
                     repeat |-> Repeats(options)],
             CarrierCounts[Select(options) + 1], 1)
  /\ ear' = [request |-> [bytes |-> content, options |-> options],
             line |-> <<>>, bytes |-> <<>>, silence |-> 0, copies |-> 0]

StartRCX(data, options)   == Start(Framed(data), options)
StartRCXRaw(raw, options) == Start(raw, options)

-----------------------------------------------------------------------------
(* rcxNextPhase                                                            *)

Finished == s.byteIdx >= Len(s.bytes)

RewindForgotten(st) == [st EXCEPT !.byteIdx = 0, !.bitIdx = 0]
Rewind(st) == [st EXCEPT !.repeat = @ - 1, !.byteIdx = 0, !.bitIdx = 0]

\* More blind repeats: the gap is one space phase, then the frame again.
RepeatGap ==
  /\ Finished /\ s.repeat > 1
  /\ Load(0, RepeatGapTicks)
  /\ s' = Rewind(s)
  /\ ear' = [ear EXCEPT !.bytes = <<>>, !.silence = @ + RepeatGapTicks]

AfterBit(st) ==
  IF st.bitIdx < 10 THEN [st EXCEPT !.bitIdx = @ + 1]
                    ELSE [st EXCEPT !.bitIdx = 0, !.byteIdx = @ + 1]

FirstBit == s.byteIdx = 0 /\ s.bitIdx = 0
LastBit  == s.byteIdx = Len(s.bytes) - 1 /\ s.bitIdx = 10

SendBit ==
  /\ ~Finished
  /\ LET on == CarrierFor(s.bytes[s.byteIdx + 1], s.bitIdx)
     IN  /\ Load(on, s.bitTicks)
         /\ ear' = [Hear(ear, on) EXCEPT
              !.silence = IF on = 1 THEN 0 ELSE @ + s.bitTicks,
              !.copies = IF LastBit /\ @ <= MaxCopies THEN @ + 1 ELSE @]
  /\ s' = AfterBit(s)

Done ==
  /\ Finished /\ s.repeat <= 1
  /\ EndBurst

NextPhase == active = "RCX" /\ (RepeatGap \/ SendBit \/ Done)

\* Phases until Done: eleven bits a byte, and a gap after each frame but the last.
Remaining == (11 * Len(s.bytes) + 1) * s.repeat - 1 - 11 * s.byteIdx - s.bitIdx

\* The copies a send asks for.
CopiesAsked(options) == IF options < 16 THEN 1 ELSE options \div 16

-----------------------------------------------------------------------------
(* Properties                                                              *)

TypeOK ==
  active = "RCX" =>
    /\ s.bytes \in Seq(Byte) /\ Len(s.bytes) \in 1 .. MaxFramedBytes
    /\ s.byteIdx \in 0 .. Len(s.bytes) /\ s.bitIdx \in 0 .. 10
    /\ s.bitTicks \in 1 .. 255 /\ s.repeat \in 1 .. 15
    /\ ear.line \in Seq({0, 1}) /\ ear.bytes \in Seq(Byte)

\* At the end of every frame a serial receiver has exactly the bytes of the
\* send, header, complements and checksum included (rcxNextPhase).
ReceiverHearsFrame ==
  active = "RCX" /\ Finished =>
    ear.line = <<>> /\ ear.bytes = ear.request.bytes

\* The brick's reply to one copy, about 45 ms or 90000 counts of Timer 2, is
\* over before the next copy starts, at every carrier (RCX_REPEAT_GAP_TICKS).
RepeatsLeaveGap ==
  active = "RCX" /\ FirstBit /\ ear.copies > 0 =>
    ear.silence * reloadCounts >= 90000
=============================================================================
