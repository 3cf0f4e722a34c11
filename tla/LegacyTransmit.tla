--------------------------- MODULE LegacyTransmit ---------------------------
(***************************************************************************)
(* Legacy bursts (76 kHz): two serial bytes that hold the channel, the     *)
(* orange and yellow nibbles and a check, sent five times with a gap that  *)
(* depends on the channel.                                                 *)
(***************************************************************************)
EXTENDS IRPhase, UARTLine

BitTicks    == 32
RepeatCount == 5
Command == [channel : 4 .. 7, orange : 0 .. 15, yellow : 0 .. 15]
LegacyState == [byte0 : 0 .. 255, byte1 : 0 .. 255, channel : 4 .. 7,
                repeat : 0 .. RepeatCount, byteIdx : {0, 1}, bitIdx : 0 .. 10,
                inGap : {0, 1}]

\* The check nibble makes the four nibbles sum to 0 modulo 16.
CheckUnmasked(c) == 16 - ((c.channel + c.orange + c.yellow) % 16)
Check(c) == (16 - ((c.channel + c.orange + c.yellow) % 16)) % 16

\* irPoll starts a burst.
Start(c) ==
  /\ Promote("Legacy", [byte0 |-> 16 * c.channel + c.orange,
                        byte1 |-> 16 * c.yellow + Check(c),
                        channel |-> c.channel, repeat |-> 0, byteIdx |-> 0,
                        bitIdx |-> 0, inGap |-> 0], FastCounts, 1)
  /\ ear' = [request |-> c, line |-> <<>>, bytes |-> <<>>, sinceStart |-> 0,
             copies |-> 0]

-----------------------------------------------------------------------------
(* legacyNextPhase                                                         *)

SpacingTicks(ch) == CASE ch \in {4, 5} -> 7846
                      [] ch = 6 -> 10462
                      [] ch = 7 -> 13231

GapWhole(ch) == SpacingTicks(ch)
GapTicks(ch) == LET message == 22 * BitTicks
                IN  IF SpacingTicks(ch) > message
                    THEN SpacingTicks(ch) - message ELSE 154

Gap ==
  /\ s.repeat < RepeatCount /\ s.inGap = 1
  /\ Load(0, GapTicks(s.channel))
  /\ s' = [s EXCEPT !.inGap = 0]
  /\ ear' = [ear EXCEPT !.sinceStart = @ + GapTicks(s.channel), !.bytes = <<>>]

\* Where the encoder stands after a bit; the last bit of a message counts it
\* and, except after the fifth, asks for the gap.
NeverCounted(st) ==
  IF st.bitIdx < 10 THEN [st EXCEPT !.bitIdx = @ + 1]
  ELSE IF st.byteIdx = 0 THEN [st EXCEPT !.bitIdx = 0, !.byteIdx = 1]
  ELSE [st EXCEPT !.bitIdx = 0, !.byteIdx = 0, !.inGap = 1]
AfterBit(st) ==
  IF st.bitIdx < 10 THEN [st EXCEPT !.bitIdx = @ + 1]
  ELSE IF st.byteIdx = 0 THEN [st EXCEPT !.bitIdx = 0, !.byteIdx = 1]
  ELSE [st EXCEPT !.bitIdx = 0, !.byteIdx = 0, !.repeat = @ + 1,
                  !.inGap = IF st.repeat + 1 < RepeatCount THEN 1 ELSE 0]

FirstBit == s.byteIdx = 0 /\ s.bitIdx = 0
LastBit  == s.byteIdx = 1 /\ s.bitIdx = 10

SendBit ==
  /\ s.repeat < RepeatCount /\ s.inGap = 0
  /\ LET on == CarrierFor(IF s.byteIdx = 0 THEN s.byte0 ELSE s.byte1, s.bitIdx)
     IN  /\ Load(on, BitTicks)
         /\ ear' = [Hear(ear, on) EXCEPT
              !.sinceStart = IF FirstBit THEN BitTicks ELSE @ + BitTicks,
              !.copies = IF LastBit THEN @ + 1 ELSE @]
  /\ s' = AfterBit(s)

Done ==
  /\ s.repeat >= RepeatCount
  /\ EndBurst

NextPhase == active = "Legacy" /\ (Gap \/ SendBit \/ Done)

\* Phases until Done: 22 bits a message, and a gap after each but the last.
Remaining ==
  IF s.repeat = RepeatCount THEN 0
  ELSE 23 * (RepeatCount - s.repeat) - 1 + s.inGap - 11 * s.byteIdx - s.bitIdx

-----------------------------------------------------------------------------
(* Properties                                                              *)

TypeOK ==
  active = "Legacy" =>
    /\ s \in LegacyState
    /\ ear.line \in Seq({0, 1}) /\ ear.bytes \in Seq(0 .. 255)

Nibble(k) == IF k % 2 = 1 THEN ear.bytes[(k + 1) \div 2] \div 16
                          ELSE ear.bytes[(k + 1) \div 2] % 16

\* Whenever a message is over, a serial receiver has its two bytes, with the
\* channel, the two speeds and a check that makes the nibbles sum to 0.
ReceiverHearsCommand ==
  active = "Legacy" /\ FirstBit /\ ear.copies > 0
      /\ (s.inGap = 1 \/ s.repeat = RepeatCount) =>
    /\ ear.line = <<>> /\ Len(ear.bytes) = 2
    /\ Nibble(1) = ear.request.channel
    /\ Nibble(2) = ear.request.orange /\ Nibble(3) = ear.request.yellow
    /\ (Nibble(1) + Nibble(2) + Nibble(3) + Nibble(4)) % 16 = 0

\* Before every message but the first, as many ticks have passed since the one
\* before as the channel's spacing says, gap and message together
\* (legacyNextPhase's comment on total spacing).
MessagesAreSpaced ==
  active = "Legacy" /\ FirstBit /\ s.inGap = 0 /\ s.repeat \in 1 .. RepeatCount - 1 =>
    ear.sinceStart = SpacingTicks(s.channel)
=============================================================================
