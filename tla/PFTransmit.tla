----------------------------- MODULE PFTransmit -----------------------------
(***************************************************************************)
(* Power Functions bursts: the nibbles pfBuildNibbles makes of a PF_SEND,  *)
(* the phases pfNextPhase hands to the interrupt one at a time, and a      *)
(* receiver that listens to them.  The tick constants are the code's.      *)
(***************************************************************************)
EXTENDS IRPhase, Sequences

VARIABLES
  pfToggle,   \* channel -> the toggle bit of its next automatic message
  receivers   \* ghost: channel -> the toggle bit its receiver heard last, and
              \* what the events since make of the next automatic message

pfVars == <<pfToggle, receivers>>

Modes == {"COMBO_DIRECT", "SINGLE_PWM", "SINGLE_CST", "COMBO_PWM"}

MarkTicks       == 12
ZeroSpaceTicks  == 20
OneSpaceTicks   == 43
StartSpaceTicks == 79
TmTicks         == 1231

INSTANCE PFSchedule WITH Tm <- TmTicks

Bit(n, i) == (n \div 2^i) % 2
XorNibble(a, b) ==
  LET x(i) == (Bit(a, i) + Bit(b, i)) % 2
  IN  x(0) + 2 * x(1) + 4 * x(2) + 8 * x(3)

LRCUnseeded(n0, n1, n2) == XorNibble(n0, XorNibble(n1, n2))
LRC(n0, n1, n2) == XorNibble(15, XorNibble(n0, XorNibble(n1, n2)))

WithLRC(n0, n1, n2) == <<n0, n1, n2, LRC(n0, n1, n2)>>

\* The message of a mode; Combo PWM has an address bit, 0, for a toggle bit.
Nibbles(ch, mode, data, toggle) ==
  LET high == (data \div 16) % 16
      low  == data % 16
      head == 8 * toggle + ch
  IN  CASE mode = "COMBO_PWM"    -> WithLRC(4 + ch, high, low)
        [] mode = "COMBO_DIRECT" -> WithLRC(head, 1, low)
        [] mode = "SINGLE_PWM"   -> WithLRC(head, 4 + (high % 2), low)
        [] mode = "SINGLE_CST"   -> WithLRC(head, 6 + (high % 2), low)

Message == [1 .. 4 -> 0 .. 15]
PFState == [nibbles : Message, channel : Channel, repeat : 0 .. RepeatCount - 1,
            pos : 0 .. 17, phase : {0, 1}, elapsed : 0 .. TmTicks]
NoToggle == 2
Untuned == [last |-> NoToggle, next |-> "open"]

\* An automatic message that no receiver has heard yet: the one after it will
\* have the bit that it was to have.
AfterUnheard(next) == CASE next = "new"    -> "repeat"
                        [] next = "repeat" -> "new"
                        [] next = "open"   -> "open"

PFInit ==
  /\ pfToggle = [c \in Channel |-> 0]
  /\ receivers = [c \in Channel |-> Untuned]

-----------------------------------------------------------------------------
(* irPoll starts a burst; pfBuildNibbles uses up the channel's toggle bit  *)
(* unless the host overrides it or the mode has none.                      *)

Override(flags) == flags % 2 = 1

TogglesAlways(mode, flags) == TRUE
Toggles(mode, flags) == mode # "COMBO_PWM" /\ ~Override(flags)

Start(ch, mode, data, flags) ==
  LET toggle == IF Override(flags) THEN Bit(flags, 1) ELSE pfToggle[ch]
      auto   == mode # "COMBO_PWM" /\ flags % 2 = 0
  IN  /\ Promote("PF", [nibbles |-> Nibbles(ch, mode, data, toggle),
                        channel |-> ch, repeat |-> 0, pos |-> 0, phase |-> 0,
                        elapsed |-> 0], BaseCounts, HeadStart(ch))
      /\ pfToggle' = IF Toggles(mode, flags)
                     THEN [pfToggle EXCEPT ![ch] = 1 - @] ELSE pfToggle
      /\ receivers' = IF auto THEN [receivers EXCEPT ![ch].next = AfterUnheard(@)]
                              ELSE receivers
      /\ ear' = [heard |-> <<>>, sinceStart |-> 0, spacing |-> 0,
                 copies |-> 0, auto |-> auto]

\* doResetState clears the board's bits; the receivers keep theirs.
ForgetToggles ==
  /\ pfToggle' = [c \in Channel |-> 0]
  /\ receivers' = [c \in Channel |-> [receivers[c] EXCEPT !.next = "open"]]

-----------------------------------------------------------------------------
(* pfNextPhase, one action per kind of phase                               *)

\* A PF receiver tells the bits apart by the ticks from mark to mark
\* (PF RC v1.20: 316, 526, 947 and 1579 us).
BitHeard(t) == CASE t < 25 -> "noise"
                 [] t \in 25 .. 40 -> "0"
                 [] t \in 41 .. 72 -> "1"
                 [] t \in 73 .. 121 -> "start"
                 [] t > 121 -> "pause"

Listen(t) ==
  LET b == BitHeard(MarkTicks + t)
  IN  CASE b = "start" -> <<>>
        [] b = "pause" -> ear.heard
        [] OTHER       -> Append(ear.heard, b)

\* The escape bit tells a receiver that the message has no toggle bit.
Escaped(n) == Bit(n[1], 2) = 1

\* The mark that stops a message makes it whole; the first whole copy tells
\* the receiver its toggle bit, automatic or overridden.
Mark ==
  LET whole == s.pos = 17
  IN  /\ s.phase = 0
      /\ Load(1, MarkTicks)
      /\ s' = [s EXCEPT !.phase = 1, !.elapsed = @ + MarkTicks]
      /\ ear' = IF s.pos = 0 /\ s.repeat > 0
                THEN [ear EXCEPT !.spacing = ear.sinceStart, !.sinceStart = MarkTicks]
                ELSE [ear EXCEPT !.sinceStart = @ + MarkTicks,
                                 !.copies = IF whole THEN @ + 1 ELSE @]
      /\ receivers' = IF whole /\ ear.copies = 0 /\ ~Escaped(s.nibbles)
                      THEN [receivers EXCEPT ![s.channel] =
                              [last |-> Bit(s.nibbles[1], 3),
                               next |-> IF ear.auto THEN "new" ELSE "open"]]
                      ELSE receivers
      /\ UNCHANGED pfToggle

Space(t) ==
  /\ Load(0, t)
  /\ ear' = [ear EXCEPT !.sinceStart = @ + t, !.heard = Listen(t)]
  /\ UNCHANGED pfVars

StartSpace ==
  /\ s.phase = 1 /\ s.pos = 0
  /\ Space(StartSpaceTicks)
  /\ s' = [s EXCEPT !.phase = 0, !.pos = 1, !.elapsed = @ + StartSpaceTicks]

BitInNibble(k) == 3 - (k % 4)

\* The k-th bit of the message, most significant bit of each nibble first.
MessageBit(n, k) == Bit(n[k \div 4 + 1], BitInNibble(k))

BitSpace ==
  /\ s.phase = 1 /\ s.pos \in 1 .. 16
  /\ LET t == IF MessageBit(s.nibbles, s.pos - 1) = 1
              THEN OneSpaceTicks ELSE ZeroSpaceTicks
     IN  /\ Space(t)
         /\ s' = [s EXCEPT !.phase = 0, !.pos = @ + 1, !.elapsed = @ + t]

GapUnadjusted(target, elapsed) == target
GapTicks(target, elapsed) ==
  IF target > elapsed THEN target - elapsed ELSE StartSpaceTicks

AfterGap(st) == [st EXCEPT !.phase = 0, !.repeat = @ + 1, !.pos = 0, !.elapsed = 0]

OneCopyShort(repeat) == repeat >= RepeatCount - 1
LastCopy(repeat) == repeat >= RepeatCount

Gap ==
  /\ s.phase = 1 /\ s.pos = 17 /\ ~LastCopy(s.repeat + 1)
  /\ Space(GapTicks(Target(s.repeat + 1, s.channel), s.elapsed))
  /\ s' = AfterGap(s)

Done ==
  /\ s.phase = 1 /\ s.pos = 17 /\ LastCopy(s.repeat + 1)
  /\ EndBurst
  /\ UNCHANGED pfVars

NextPhase ==
  /\ active = "PF"
  /\ Mark \/ StartSpace \/ BitSpace \/ Gap \/ Done

\* Phases until Done: a message is 17 marks with their spaces and a stop mark,
\* and there is a gap after each message but the last.
Remaining == 36 * (RepeatCount - s.repeat) - 1 - 2 * s.pos - s.phase

-----------------------------------------------------------------------------
(* Properties                                                              *)

TypeOK ==
  /\ pfToggle \in [Channel -> {0, 1}]
  /\ receivers \in [Channel -> [last : 0 .. NoToggle,
                                next : {"new", "repeat", "open"}]]
  /\ active = "PF" =>
       /\ s \in PFState
       /\ ear.heard \in Seq({"0", "1", "noise"})

\* The messages of a burst start 5 tm, 5 tm, (6 + 2 Ch) tm and (6 + 2 Ch) tm
\* after one another, whatever their bits (PROTOCOL.md, pfNextPhase).
MessagesAreSpaced ==
  active = "PF" /\ s.repeat > 0 /\ (s.pos > 0 \/ s.phase = 1) =>
    ear.spacing = Target(s.repeat, s.channel)

\* Each of the five messages reaches a PF receiver bit for bit, most
\* significant first, with a checksum that makes the nibbles xor to 15.
ReceiverHearsMessage ==
  active = "PF" /\ s.pos = 17 /\ s.phase = 1 =>
    /\ Len(ear.heard) = 16
    /\ \A k \in 0 .. 15 :
         ear.heard[k + 1] = IF MessageBit(s.nibbles, k) = 1 THEN "1" ELSE "0"
    /\ \A i \in 0 .. 3 :
         (Bit(s.nibbles[1], i) + Bit(s.nibbles[2], i)
            + Bit(s.nibbles[3], i) + Bit(s.nibbles[4], i)) % 2 = 1

\* Once a receiver has heard an automatic message of its channel, the next
\* automatic one has the other toggle bit, and is not taken for a repeat,
\* whatever Combo PWM messages, other channels' messages and overridden
\* messages cut short come in between; it repeats the bit if an odd number of
\* automatic messages in between were cut short before a whole copy.  Nothing
\* is promised from an overridden message heard, or a RESET_STATE, until the
\* next automatic message is heard (pfBuildNibbles, doResetState).
TogglesAlternate ==
  \A c \in Channel :
    /\ receivers[c].next = "new"    => pfToggle[c] = 1 - receivers[c].last
    /\ receivers[c].next = "repeat" => pfToggle[c] = receivers[c].last
=============================================================================
