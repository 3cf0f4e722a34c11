------------------------- MODULE IRNextPhase_proofs -------------------------
(***************************************************************************)
(* The encoders, for every channel, mode, datum, option and frame: what a  *)
(* receiver hears and when, and how a burst ends.                          *)
(***************************************************************************)
EXTENDS IRNextPhase, Integers, WellFoundedInduction, TLAPS

U8 == 0 .. 255

-----------------------------------------------------------------------------
(* The invariant                                                           *)

\* What a receiver heard last, and what is to come.
Memory == [last : 0 .. 2, next : {"new", "repeat", "open"}]

\* What the three encoders share, and the toggle bits.
SharedInv ==
  /\ active \in Engine \cup {"none"}
  /\ carrierOn \in {0, 1} /\ reloadCounts \in {13, 25, 26, 27, 28}
  /\ active # "none" => ticks \in Nat /\ 0 < ticks /\ ticks < 65536
  /\ active = "none" => carrierOn = 0 /\ ticks = 0 /\ reloadCounts = BaseCounts
  /\ pfToggle \in [0 .. 3 -> {0, 1}]
  /\ receivers \in [0 .. 3 -> Memory]
  /\ PF!TogglesAlternate

PFEar == [heard : Seq({"0", "1", "noise"}), sinceStart : Nat, spacing : Nat,
          copies : Nat, auto : BOOLEAN]

\* The check nibble leaves every column of bits odd.
OddColumns(n) ==
  \A i \in 0 .. 3 :
    (PF!Bit(n[1], i) + PF!Bit(n[2], i) + PF!Bit(n[3], i) + PF!Bit(n[4], i)) % 2 = 1

\* A receiver of Power Functions has heard the bits up to pos; elapsed counts
\* the message from its first mark, and no message is longer than 983 ticks.
PFInv ==
  active = "PF" =>
    /\ s \in PF!PFState /\ ear \in PFEar
    /\ s.pos = 0 => s.elapsed = 12 * s.phase
    /\ s.pos > 0 => s.elapsed <= 36 + 55 * s.pos + 12 * s.phase
    /\ ear.sinceStart = IF s.pos > 0 \/ s.phase = 1 THEN s.elapsed
                        ELSE IF s.repeat = 0 THEN 0
                        ELSE PF!Target(s.repeat, s.channel)
    /\ PF!MessagesAreSpaced
    /\ ear.copies = s.repeat + (IF s.pos = 17 /\ s.phase = 1 THEN 1 ELSE 0)
    /\ s.pos > 0 =>
         /\ Len(ear.heard) = s.pos - 1
         /\ \A k \in 0 .. s.pos - 2 :
              ear.heard[k + 1] = IF PF!MessageBit(s.nibbles, k) = 1 THEN "1" ELSE "0"
    /\ OddColumns(s.nibbles)
    /\ ear.auto => PF!Bit(s.nibbles[1], 3) = 1 - pfToggle[s.channel]

LegacyEar == [request : Legacy!Command, line : Seq({0, 1}), bytes : Seq(U8),
              sinceStart : Nat, copies : Nat]

\* The samples of a byte up to bit n have been heard.
Sampled(line, byte, n) ==
  /\ Len(line) = n
  /\ \A k \in 1 .. n : line[k] = Legacy!CarrierFor(byte, k - 1)

\* A receiver of Legacy has heard the bits of the byte and the bytes of the
\* message so far.
LegacyInv ==
  active = "Legacy" =>
    LET over == s.inGap = 1 \/ s.repeat = 5
    IN  /\ s \in Legacy!LegacyState /\ ear \in LegacyEar
        /\ s.channel = ear.request.channel
        /\ s.byte0 = 16 * ear.request.channel + ear.request.orange
        /\ s.byte1 = 16 * ear.request.yellow + Legacy!Check(ear.request)
        /\ ear.copies = s.repeat
        /\ over => Legacy!FirstBit
        /\ s.inGap = 1 => s.repeat \in 1 .. 4
        /\ over => ear.sinceStart = 704
        /\ ~Legacy!FirstBit => ear.sinceStart = 32 * (11 * s.byteIdx + s.bitIdx)
        /\ Legacy!MessagesAreSpaced
        /\ Sampled(ear.line, IF s.byteIdx = 0 THEN s.byte0 ELSE s.byte1, s.bitIdx)
        /\ ear.bytes = IF s.byteIdx = 1 THEN <<s.byte0>>
                       ELSE IF over THEN <<s.byte0, s.byte1>> ELSE <<>>

RCXState == [bytes : Seq(U8), byteIdx : 0 .. 37, bitIdx : 0 .. 10,
             bitTicks : 30 .. 33, repeat : 1 .. 15]
RCXEar == [request : [bytes : Seq(U8), options : U8], line : Seq({0, 1}),
           bytes : Seq(U8), silence : Nat, copies : Nat]

\* A receiver of RCX has heard the bits of the byte and the bytes of the frame
\* so far, and the copies that are no longer to come.
RCXInv ==
  active = "RCX" =>
    /\ s \in RCXState /\ ear \in RCXEar /\ reloadCounts \in 25 .. 28
    /\ Len(s.bytes) \in 1 .. 37 /\ s.byteIdx <= Len(s.bytes)
    /\ RCX!Finished => s.bitIdx = 0
    /\ ear.request.bytes = s.bytes
    /\ s.repeat <= RCX!CopiesAsked(ear.request.options)
    /\ ear.copies = RCX!CopiesAsked(ear.request.options) - s.repeat
                      + (IF RCX!Finished THEN 1 ELSE 0)
    /\ RCX!FirstBit /\ ear.copies > 0 => ear.silence >= 4615
    /\ RCX!Finished => ear.line = <<>>
    /\ ~RCX!Finished => Sampled(ear.line, s.bytes[s.byteIdx + 1], s.bitIdx)
    /\ Len(ear.bytes) = s.byteIdx
    /\ \A k \in 1 .. s.byteIdx : ear.bytes[k] = s.bytes[k]

IInv == SharedInv /\ PFInv /\ LegacyInv /\ RCXInv

-----------------------------------------------------------------------------
(* Bits, nibbles and bytes                                                 *)

\* A bit is 0 or 1, and a number of four bits is their weighted sum.
LEMMA NibbleBits ==
  ASSUME NEW n \in 0 .. 15
  PROVE  /\ \A i \in 0 .. 3 : PF!Bit(n, i) \in {0, 1}
         /\ n = PF!Bit(n, 0) + 2 * PF!Bit(n, 1) + 4 * PF!Bit(n, 2) + 8 * PF!Bit(n, 3)
<1>1. 2^0 = 1 /\ 2^1 = 2 /\ 2^2 = 4 /\ 2^3 = 8
  OBVIOUS
<1>2. /\ PF!Bit(n, 0) = n % 2 /\ PF!Bit(n, 1) = (n \div 2) % 2
      /\ PF!Bit(n, 2) = (n \div 4) % 2 /\ PF!Bit(n, 3) = (n \div 8) % 2
  BY <1>1 DEF PF!Bit
<1>3. \A i \in 0 .. 3 : i = 0 \/ i = 1 \/ i = 2 \/ i = 3
  OBVIOUS
<1>4. n = (n % 2) + 2 * ((n \div 2) % 2) + 4 * ((n \div 4) % 2) + 8 * ((n \div 8) % 2)
  OBVIOUS
<1>5. n % 2 \in {0, 1} /\ (n \div 2) % 2 \in {0, 1}
      /\ (n \div 4) % 2 \in {0, 1} /\ (n \div 8) % 2 \in {0, 1}
  OBVIOUS
<1> QED
  BY <1>2, <1>3, <1>4, <1>5

\* Four bits make a nibble, and are its bits.
LEMMA BitsOfSum ==
  ASSUME NEW a \in {0, 1}, NEW b \in {0, 1}, NEW c \in {0, 1}, NEW d \in {0, 1}
  PROVE  LET n == a + 2 * b + 4 * c + 8 * d
         IN  /\ n \in 0 .. 15
             /\ PF!Bit(n, 0) = a /\ PF!Bit(n, 1) = b
             /\ PF!Bit(n, 2) = c /\ PF!Bit(n, 3) = d
<1> DEFINE n == a + 2 * b + 4 * c + 8 * d
<1>1. 2^0 = 1 /\ 2^1 = 2 /\ 2^2 = 4 /\ 2^3 = 8
  OBVIOUS
<1>2. n \in 0 .. 15
  OBVIOUS
<1>3. n % 2 = a /\ (n \div 2) % 2 = b /\ (n \div 4) % 2 = c /\ (n \div 8) % 2 = d
  OBVIOUS
<1> HIDE DEF n
<1>4. /\ PF!Bit(n, 0) = n % 2 /\ PF!Bit(n, 1) = (n \div 2) % 2
      /\ PF!Bit(n, 2) = (n \div 4) % 2 /\ PF!Bit(n, 3) = (n \div 8) % 2
  BY <1>1, <1>2 DEF PF!Bit
<1>5. /\ n \in 0 .. 15
      /\ PF!Bit(n, 0) = a /\ PF!Bit(n, 1) = b
      /\ PF!Bit(n, 2) = c /\ PF!Bit(n, 3) = d
  BY <1>2, <1>3, <1>4
<1> QED
  BY <1>5 DEF n

\* XorNibble is the exclusive or, bit by bit.
LEMMA XorNibbleBits ==
  ASSUME NEW m \in 0 .. 15, NEW n \in 0 .. 15
  PROVE  /\ PF!XorNibble(m, n) \in 0 .. 15
         /\ \A i \in 0 .. 3 :
              PF!Bit(PF!XorNibble(m, n), i) = (PF!Bit(m, i) + PF!Bit(n, i)) % 2
<1> DEFINE x(i) == (PF!Bit(m, i) + PF!Bit(n, i)) % 2
<1>1. \A i \in 0 .. 3 : x(i) \in {0, 1}
  BY NibbleBits
<1>2. x(0) \in {0, 1} /\ x(1) \in {0, 1} /\ x(2) \in {0, 1} /\ x(3) \in {0, 1}
  BY <1>1
<1>3. PF!XorNibble(m, n) = x(0) + 2 * x(1) + 4 * x(2) + 8 * x(3)
  BY DEF PF!XorNibble
<1> HIDE DEF x
<1>4. /\ PF!XorNibble(m, n) \in 0 .. 15
      /\ PF!Bit(PF!XorNibble(m, n), 0) = x(0) /\ PF!Bit(PF!XorNibble(m, n), 1) = x(1)
      /\ PF!Bit(PF!XorNibble(m, n), 2) = x(2) /\ PF!Bit(PF!XorNibble(m, n), 3) = x(3)
  BY <1>2, <1>3, BitsOfSum
<1>5. \A i \in 0 .. 3 : i = 0 \/ i = 1 \/ i = 2 \/ i = 3
  OBVIOUS
<1>6. \A i \in 0 .. 3 : PF!Bit(PF!XorNibble(m, n), i) = x(i)
  BY <1>4, <1>5
<1> QED
  BY <1>4, <1>6 DEF x

\* The check nibble makes every column of bits odd.
LEMMA ChecksAreOdd ==
  ASSUME NEW n0 \in 0 .. 15, NEW n1 \in 0 .. 15, NEW n2 \in 0 .. 15
  PROVE  /\ PF!WithLRC(n0, n1, n2) \in PF!Message
         /\ OddColumns(PF!WithLRC(n0, n1, n2))
         /\ PF!WithLRC(n0, n1, n2)[1] = n0
<1> DEFINE y == PF!XorNibble(n1, n2)
           z == PF!XorNibble(n0, y)
           l == PF!XorNibble(15, z)
<1>1. y \in 0 .. 15 /\ \A i \in 0 .. 3 : PF!Bit(y, i) = (PF!Bit(n1, i) + PF!Bit(n2, i)) % 2
  BY XorNibbleBits
<1>2. z \in 0 .. 15 /\ \A i \in 0 .. 3 : PF!Bit(z, i) = (PF!Bit(n0, i) + PF!Bit(y, i)) % 2
  BY <1>1, XorNibbleBits
<1>3. l \in 0 .. 15 /\ \A i \in 0 .. 3 : PF!Bit(l, i) = (PF!Bit(15, i) + PF!Bit(z, i)) % 2
  BY <1>2, XorNibbleBits
<1>4. \A i \in 0 .. 3 : PF!Bit(15, i) = 1
  <2>1. PF!Bit(15, 0) = 1 /\ PF!Bit(15, 1) = 1 /\ PF!Bit(15, 2) = 1 /\ PF!Bit(15, 3) = 1
    <3>1. 15 = 1 + 2 * 1 + 4 * 1 + 8 * 1
      OBVIOUS
    <3> QED
      BY <3>1, BitsOfSum
  <2>2. \A i \in 0 .. 3 : i = 0 \/ i = 1 \/ i = 2 \/ i = 3
    OBVIOUS
  <2> QED
    BY <2>1, <2>2
<1>5. PF!WithLRC(n0, n1, n2) = <<n0, n1, n2, l>>
  BY DEF PF!WithLRC, PF!LRC
<1> HIDE DEF y, z, l
<1>6. \A i \in 0 .. 3 :
        (PF!Bit(n0, i) + PF!Bit(n1, i) + PF!Bit(n2, i) + PF!Bit(l, i)) % 2 = 1
  <2> TAKE i \in 0 .. 3
  <2>1. PF!Bit(n0, i) \in {0, 1} /\ PF!Bit(n1, i) \in {0, 1} /\ PF!Bit(n2, i) \in {0, 1}
    BY NibbleBits
  <2> QED
    BY <1>1, <1>2, <1>3, <1>4, <2>1
<1>7. <<n0, n1, n2, l>> \in PF!Message
  BY <1>3 DEF PF!Message
<1> QED
  BY <1>5, <1>6, <1>7 DEF OddColumns

\* Every mode makes a message of four nibbles with odd columns, that carries
\* its toggle bit unless it is Combo PWM.
LEMMA MessagesAreOdd ==
  ASSUME NEW ch \in 0 .. 3, NEW mode \in PF!Modes, NEW data \in U8,
         NEW toggle \in {0, 1}
  PROVE  /\ PF!Nibbles(ch, mode, data, toggle) \in PF!Message
         /\ OddColumns(PF!Nibbles(ch, mode, data, toggle))
         /\ mode # "COMBO_PWM" =>
              PF!Bit(PF!Nibbles(ch, mode, data, toggle)[1], 3) = toggle
<1> DEFINE high == (data \div 16) % 16
           low  == data % 16
           head == 8 * toggle + ch
           n == PF!Nibbles(ch, mode, data, toggle)
<1>1. high \in 0 .. 15 /\ low \in 0 .. 15 /\ high % 2 \in {0, 1}
  BY DEF U8
<1>2. 4 + ch \in 0 .. 15 /\ 4 + (high % 2) \in 0 .. 15 /\ 6 + (high % 2) \in 0 .. 15
  BY <1>1
<1>3. head \in 0 .. 15 /\ PF!Bit(head, 3) = toggle
  <2>1. 2^3 = 8
    OBVIOUS
  <2>2. head \in 0 .. 15 /\ (head \div 8) % 2 = toggle
    OBVIOUS
  <2> QED
    BY <2>1, <2>2 DEF PF!Bit
<1>4. \/ mode = "COMBO_PWM" /\ n = PF!WithLRC(4 + ch, high, low)
      \/ mode # "COMBO_PWM" /\ n = PF!WithLRC(head, 1, low)
      \/ mode # "COMBO_PWM" /\ n = PF!WithLRC(head, 4 + (high % 2), low)
      \/ mode # "COMBO_PWM" /\ n = PF!WithLRC(head, 6 + (high % 2), low)
  BY DEF PF!Nibbles, PF!Modes
<1> HIDE DEF high, low, head, n
<1>5. 1 \in 0 .. 15
  OBVIOUS
<1>6. n \in PF!Message /\ OddColumns(n) /\ (mode # "COMBO_PWM" => n[1] = head)
  <2> DEFINE Good(m) == m \in PF!Message /\ OddColumns(m)
  <2>1. \A a, b \in 0 .. 15 : Good(PF!WithLRC(a, b, low))
    BY <1>1, ChecksAreOdd
  <2>2. \A b \in 0 .. 15 : PF!WithLRC(head, b, low)[1] = head
    BY <1>1, <1>3, ChecksAreOdd
  <2>3. Good(PF!WithLRC(4 + ch, high, low))
    BY <1>1, <1>2, <2>1
  <2>4. \A b \in 0 .. 15 : Good(PF!WithLRC(head, b, low))
    BY <1>3, <2>1
  <2> HIDE DEF Good
  <2>5. Good(n)
    BY <1>1, <1>2, <1>4, <1>5, <2>3, <2>4
  <2>6. mode # "COMBO_PWM" => n[1] = head
    BY <1>1, <1>2, <1>4, <1>5, <2>2
  <2> QED
    BY <2>5, <2>6 DEF Good
<1> QED
  BY <1>3, <1>6 DEF n

\* A byte is the weighted sum of its eight bits.
LEMMA ByteBits ==
  ASSUME NEW b \in U8
  PROVE  /\ \A i \in 0 .. 7 : Legacy!Bit(b, i) \in {0, 1}
         /\ b = Legacy!Bit(b, 0) + 2 * Legacy!Bit(b, 1)
                  + 4 * Legacy!Bit(b, 2) + 8 * Legacy!Bit(b, 3)
                  + 16 * Legacy!Bit(b, 4) + 32 * Legacy!Bit(b, 5)
                  + 64 * Legacy!Bit(b, 6) + 128 * Legacy!Bit(b, 7)
<1>1. /\ 2^0 = 1 /\ 2^1 = 2 /\ 2^2 = 4 /\ 2^3 = 8
      /\ 2^4 = 16 /\ 2^5 = 32 /\ 2^6 = 64 /\ 2^7 = 128
  OBVIOUS
<1>2. /\ Legacy!Bit(b, 0) = b % 2 /\ Legacy!Bit(b, 1) = (b \div 2) % 2
      /\ Legacy!Bit(b, 2) = (b \div 4) % 2 /\ Legacy!Bit(b, 3) = (b \div 8) % 2
      /\ Legacy!Bit(b, 4) = (b \div 16) % 2 /\ Legacy!Bit(b, 5) = (b \div 32) % 2
      /\ Legacy!Bit(b, 6) = (b \div 64) % 2 /\ Legacy!Bit(b, 7) = (b \div 128) % 2
  BY <1>1 DEF Legacy!Bit, U8
<1>3. \A i \in 0 .. 7 : \/ i = 0 \/ i = 1 \/ i = 2 \/ i = 3
                        \/ i = 4 \/ i = 5 \/ i = 6 \/ i = 7
  OBVIOUS
<1>4. b = (b % 2) + 2 * ((b \div 2) % 2) + 4 * ((b \div 4) % 2) + 8 * ((b \div 8) % 2)
            + 16 * ((b \div 16) % 2) + 32 * ((b \div 32) % 2)
            + 64 * ((b \div 64) % 2) + 128 * ((b \div 128) % 2)
  BY DEF U8
<1>5. /\ b % 2 \in {0, 1} /\ (b \div 2) % 2 \in {0, 1}
      /\ (b \div 4) % 2 \in {0, 1} /\ (b \div 8) % 2 \in {0, 1}
      /\ (b \div 16) % 2 \in {0, 1} /\ (b \div 32) % 2 \in {0, 1}
      /\ (b \div 64) % 2 \in {0, 1} /\ (b \div 128) % 2 \in {0, 1}
  BY DEF U8
<1> QED
  BY <1>2, <1>3, <1>4, <1>5

\* Each bit is a mark or a space.
LEMMA CarrierType ==
  ASSUME NEW b \in U8, NEW n \in 0 .. 10
  PROVE  Legacy!CarrierFor(b, n) \in {0, 1}
<1>1. Legacy!OddParity(b) \in {0, 1}
  BY ByteBits DEF Legacy!OddParity
<1>2. CASE n = 0
  BY <1>2 DEF Legacy!CarrierFor
<1>3. CASE n \in 1 .. 8
  <2>1. n - 1 \in 0 .. 7
    BY <1>3
  <2>2. Legacy!Bit(b, n - 1) \in {0, 1}
    BY <2>1, ByteBits
  <2>3. Legacy!CarrierFor(b, n) = 1 - Legacy!Bit(b, n - 1)
    BY <1>3 DEF Legacy!CarrierFor
  <2> QED
    BY <2>2, <2>3
<1>4. CASE n = 9
  BY <1>1, <1>4 DEF Legacy!CarrierFor
<1>5. CASE n = 10
  BY <1>5 DEF Legacy!CarrierFor
<1> QED
  BY <1>2, <1>3, <1>4, <1>5

\* The eleven bits of a byte have a start, a stop and odd parity, and the byte
\* can be read off them.
LEMMA WholeByte ==
  ASSUME NEW b \in U8, NEW c, \A k \in 0 .. 10 : c[k + 1] = Legacy!CarrierFor(b, k)
  PROVE  /\ c[1] = 1 /\ c[11] = 0
         /\ (c[2] + c[3] + c[4] + c[5] + c[6] + c[7] + c[8] + c[9] + c[10]) % 2 = 0
         /\ Legacy!ByteOf(c) = b
<1> DEFINE x(i) == Legacy!Bit(b, i)
<1>1. /\ Legacy!CarrierFor(b, 0) = 1 /\ Legacy!CarrierFor(b, 10) = 0
      /\ Legacy!CarrierFor(b, 9) = 1 - Legacy!OddParity(b)
  BY DEF Legacy!CarrierFor
<1>2. \A i \in 0 .. 7 : Legacy!CarrierFor(b, i + 1) = 1 - x(i)
  <2> TAKE i \in 0 .. 7
  <2>1. i + 1 \in 1 .. 8 /\ (i + 1) - 1 = i /\ i + 1 # 0
    OBVIOUS
  <2> QED
    BY <2>1 DEF Legacy!CarrierFor
<1>3. \A i \in 0 .. 7 : x(i) \in {0, 1}
  BY ByteBits
<1>4. b = x(0) + 2 * x(1) + 4 * x(2) + 8 * x(3)
            + 16 * x(4) + 32 * x(5) + 64 * x(6) + 128 * x(7)
  BY ByteBits
<1>5. Legacy!OddParity(b)
        = (1 + x(0) + x(1) + x(2) + x(3) + x(4) + x(5) + x(6) + x(7)) % 2
  BY DEF Legacy!OddParity
<1> HIDE DEF x
<1>6. c[0 + 1] = 1 /\ c[10 + 1] = 0 /\ c[9 + 1] = 1 - Legacy!OddParity(b)
  BY <1>1
<1>7. \A i \in 0 .. 7 : c[(i + 1) + 1] = 1 - x(i)
  <2> TAKE i \in 0 .. 7
  <2>1. i + 1 \in 0 .. 10
    OBVIOUS
  <2>2. c[(i + 1) + 1] = Legacy!CarrierFor(b, i + 1)
    BY <2>1
  <2> QED
    BY <1>2, <2>2
<1>8. /\ c[(0 + 1) + 1] = 1 - x(0) /\ c[(1 + 1) + 1] = 1 - x(1)
      /\ c[(2 + 1) + 1] = 1 - x(2) /\ c[(3 + 1) + 1] = 1 - x(3)
      /\ c[(4 + 1) + 1] = 1 - x(4) /\ c[(5 + 1) + 1] = 1 - x(5)
      /\ c[(6 + 1) + 1] = 1 - x(6) /\ c[(7 + 1) + 1] = 1 - x(7)
  BY <1>7
<1>9. /\ c[2] = 1 - x(0) /\ c[3] = 1 - x(1) /\ c[4] = 1 - x(2) /\ c[5] = 1 - x(3)
      /\ c[6] = 1 - x(4) /\ c[7] = 1 - x(5) /\ c[8] = 1 - x(6) /\ c[9] = 1 - x(7)
  BY <1>8
<1>10. /\ x(0) \in {0, 1} /\ x(1) \in {0, 1} /\ x(2) \in {0, 1} /\ x(3) \in {0, 1}
       /\ x(4) \in {0, 1} /\ x(5) \in {0, 1} /\ x(6) \in {0, 1} /\ x(7) \in {0, 1}
  BY <1>3
<1>11. c[1] = 1 /\ c[11] = 0 /\ c[10] = 1 - Legacy!OddParity(b)
  BY <1>6
<1>12. (c[2] + c[3] + c[4] + c[5] + c[6] + c[7] + c[8] + c[9] + c[10]) % 2 = 0
  BY <1>5, <1>9, <1>10, <1>11
<1>13. Legacy!ByteOf(c)
         = (1 - c[2]) + 2 * (1 - c[3]) + 4 * (1 - c[4]) + 8 * (1 - c[5])
             + 16 * (1 - c[6]) + 32 * (1 - c[7]) + 64 * (1 - c[8]) + 128 * (1 - c[9])
  BY <1>9, <1>10 DEF Legacy!ByteOf
<1>14. Legacy!ByteOf(c) = b
  BY <1>4, <1>9, <1>10, <1>13
<1> QED
  BY <1>11, <1>12, <1>14

\* A receiver makes the byte of its eleven bits, and nothing of fewer.
LEMMA HearsByte ==
  ASSUME NEW b \in U8, NEW n \in 0 .. 10, NEW line \in Seq({0, 1}),
         Sampled(line, b, n), NEW c, c = Append(line, Legacy!CarrierFor(b, n))
  PROVE  /\ c \in Seq({0, 1})
         /\ n < 10 => ~Legacy!IsByte(c) /\ Sampled(c, b, n + 1)
         /\ n = 10 => Legacy!IsByte(c) /\ Legacy!ByteOf(c) = b
<1> DEFINE on == Legacy!CarrierFor(b, n)
<1>1. on \in {0, 1}
  BY CarrierType
<1>2. Len(line) = n
  BY DEF Sampled
<1>3. /\ c \in Seq({0, 1}) /\ Len(c) = n + 1 /\ c[n + 1] = on
      /\ \A k \in 1 .. n : c[k] = line[k]
  BY <1>1, <1>2
<1>4. \A k \in 1 .. n + 1 : c[k] = Legacy!CarrierFor(b, k - 1)
  <2> TAKE k \in 1 .. n + 1
  <2>1. CASE k \in 1 .. n
    BY <1>3, <2>1 DEF Sampled
  <2>2. CASE k = n + 1
    <3>1. k - 1 = n /\ c[n + 1] = Legacy!CarrierFor(b, n)
      BY <1>3, <2>2
    <3> QED
      BY <2>2, <3>1
  <2>3. k \in 1 .. n \/ k = n + 1
    OBVIOUS
  <2> QED
    BY <2>1, <2>2, <2>3
<1>5. Sampled(c, b, n + 1)
  BY <1>3, <1>4 DEF Sampled
<1>6. n < 10 => ~Legacy!IsByte(c)
  BY <1>3 DEF Legacy!IsByte
<1>7. ASSUME n = 10 PROVE Legacy!IsByte(c) /\ Legacy!ByteOf(c) = b
  <2>1. \A k \in 0 .. 10 : c[k + 1] = Legacy!CarrierFor(b, k)
    <3> TAKE k \in 0 .. 10
    <3>1. k + 1 \in 1 .. n + 1 /\ (k + 1) - 1 = k
      BY <1>7
    <3> QED
      BY <1>4, <3>1
  <2>2. Len(c) = 11
    BY <1>3, <1>7
  <2> QED
    BY <2>1, <2>2, WholeByte DEF Legacy!IsByte
<1> QED
  BY <1>3, <1>5, <1>6, <1>7

\* RCX speaks the same serial line.
LEMMA SameLine ==
  ASSUME NEW b \in U8, NEW n \in 0 .. 10, NEW c
  PROVE  /\ RCX!CarrierFor(b, n) = Legacy!CarrierFor(b, n)
         /\ RCX!IsByte(c) <=> Legacy!IsByte(c)
         /\ RCX!ByteOf(c) = Legacy!ByteOf(c)
<1>1. \A i : RCX!Bit(b, i) = Legacy!Bit(b, i)
  BY DEF RCX!Bit, Legacy!Bit
<1>2. RCX!OddParity(b) = Legacy!OddParity(b)
  BY <1>1 DEF RCX!OddParity, Legacy!OddParity
<1>3. RCX!CarrierFor(b, n) = Legacy!CarrierFor(b, n)
  BY <1>1, <1>2 DEF RCX!CarrierFor, Legacy!CarrierFor
<1>4. RCX!IsByte(c) <=> Legacy!IsByte(c)
  BY DEF RCX!IsByte, Legacy!IsByte
<1>5. RCX!ByteOf(c) = Legacy!ByteOf(c)
  BY DEF RCX!ByteOf, Legacy!ByteOf
<1> QED
  BY <1>3, <1>4, <1>5

-----------------------------------------------------------------------------
(* The frame of an RCX send                                                *)

\* Induction over the natural numbers, for a set of them.
LEMMA NatSetInduction ==
  ASSUME NEW S, 0 \in S, \A n \in Nat : n \in S => n + 1 \in S
  PROVE  \A n \in Nat : n \in S
<1> DEFINE T == Nat \ S
<1> SUFFICES ASSUME T # {} PROVE FALSE
  OBVIOUS
<1>1. PICK x \in T : \A y \in T : ~(<<y, x>> \in OpToRel(<, Nat))
  BY NatLessThanWellFounded, WFMin
<1>2. x \in Nat /\ x - 1 \in Nat /\ (x - 1) + 1 = x
  OBVIOUS
<1>3. <<x - 1, x>> \in OpToRel(<, Nat)
  BY <1>2 DEF OpToRel
<1>4. x - 1 \in S
  BY <1>1, <1>2, <1>3
<1>5. x \in S
  BY <1>2, <1>4
<1> QED
  BY <1>5

\* f adds up the first n bytes of data, modulo 256.
IsSum(f, data, n) ==
  f = [i \in 0 .. n |-> IF i = 0 THEN 0 ELSE (f[i - 1] + data[i]) % 256]

\* What the recursion of DataSum computes exists, for any length.
LEMMA SumExists == ASSUME NEW data PROVE \A n \in Nat : \E f : IsSum(f, data, n)
<1> DEFINE S == { n \in Nat : \E f : IsSum(f, data, n) }
<1>1. 0 \in S
  <2> DEFINE f == [i \in 0 .. 0 |-> 0]
  <2>1. f = [i \in 0 .. 0 |-> IF i = 0 THEN 0 ELSE (f[i - 1] + data[i]) % 256]
    OBVIOUS
  <2>2. IsSum(f, data, 0)
    <3> HIDE DEF f
    <3> QED
      BY <2>1 DEF IsSum
  <2> QED
    BY <2>2
<1>2. ASSUME NEW n \in Nat, n \in S PROVE n + 1 \in S
  <2>1. PICK f : IsSum(f, data, n)
    BY <1>2
  <2> DEFINE last == (f[n] + data[n + 1]) % 256
             g == [i \in 0 .. n + 1 |-> IF i = n + 1 THEN last ELSE f[i]]
  <2>2. \A i \in 0 .. n : f[i] = IF i = 0 THEN 0 ELSE (f[i - 1] + data[i]) % 256
    BY <2>1 DEF IsSum
  <2>3. \A i \in 0 .. n + 1 :
          g[i] = IF i = 0 THEN 0 ELSE (g[i - 1] + data[i]) % 256
    <3> TAKE i \in 0 .. n + 1
    <3>1. CASE i = 0
      BY <2>2, <3>1
    <3>2. CASE i # 0 /\ i = n + 1
      <4>1. i - 1 = n /\ g[i - 1] = f[n] /\ g[i] = last
        BY <3>2
      <4> QED
        BY <3>2, <4>1
    <3>3. CASE i # 0 /\ i # n + 1
      <4>1. i \in 0 .. n /\ i - 1 \in 0 .. n /\ g[i] = f[i] /\ g[i - 1] = f[i - 1]
        BY <3>3
      <4> HIDE DEF g
      <4> QED
        BY <2>2, <3>3, <4>1
    <3> QED
      BY <3>1, <3>2, <3>3
  <2>4. g = [i \in 0 .. n + 1 |-> g[i]]
    OBVIOUS
  <2>5. IsSum(g, data, n + 1)
    <3> HIDE DEF g
    <3> QED
      BY <2>3, <2>4 DEF IsSum
  <2> HIDE DEF g
  <2> QED
    BY <2>5
<1> HIDE DEF S
<1>3. \A n \in Nat : n \in S
  BY <1>1, <1>2, NatSetInduction
<1> QED
  BY <1>3 DEF S

\* Sums modulo 256 and complements are bytes.
LEMMA ByteSums ==
  ASSUME NEW x \in U8, NEW y \in U8
  PROVE  (x + y) % 256 \in U8 /\ 255 - x \in U8 /\ x + (255 - x) = 255
  BY DEF U8

\* The checksum of any data is a byte.
LEMMA SumType == ASSUME NEW data \in Seq(U8) PROVE RCX!DataSum(data) \in U8
<1> DEFINE n == Len(data)
           f == CHOOSE f : IsSum(f, data, n)
<1>1. n \in Nat /\ \A i \in 1 .. n : data[i] \in U8
  OBVIOUS
<1> HIDE DEF n
<1>2. IsSum(f, data, n)
  BY <1>1, SumExists
<1>3. RCX!DataSum(data) = f[n]
  BY DEF RCX!DataSum, IsSum, n
<1> HIDE DEF f
<1>4. \A i \in 0 .. n : f[i] = IF i = 0 THEN 0 ELSE (f[i - 1] + data[i]) % 256
  BY <1>2 DEF IsSum
<1> DEFINE S == { i \in Nat : i \in 0 .. n => f[i] \in U8 }
<1>5. 0 \in S
  BY <1>1, <1>4 DEF U8
<1>6. ASSUME NEW i \in Nat, i \in S PROVE i + 1 \in S
  <2> SUFFICES ASSUME i + 1 \in 0 .. n PROVE f[i + 1] \in U8
    OBVIOUS
  <2>1. i \in 0 .. n /\ i + 1 \in 1 .. n /\ (i + 1) - 1 = i /\ i + 1 # 0
    BY <1>1
  <2>2. f[i] \in U8 /\ data[i + 1] \in U8
    BY <1>1, <1>6, <2>1
  <2>3. f[i + 1] = (f[i] + data[i + 1]) % 256
    BY <1>4, <2>1
  <2>4. PICK x \in U8, y \in U8 : x = f[i] /\ y = data[i + 1]
    BY <2>2
  <2>5. (x + y) % 256 \in U8
    BY ByteSums
  <2> QED
    BY <2>3, <2>4, <2>5
<1> HIDE DEF S
<1>7. \A i \in Nat : i \in S
  BY <1>5, <1>6, NatSetInduction
<1>8. f[n] \in U8
  BY <1>1, <1>7 DEF S
<1> QED
  BY <1>3, <1>8

\* The elements of two sequences put together.
LEMMA ConcatElements ==
  ASSUME NEW S, NEW s1 \in Seq(S), NEW s2 \in Seq(S), NEW k, k = Len(s1)
  PROVE  /\ s1 \o s2 \in Seq(S) /\ Len(s1 \o s2) = k + Len(s2)
         /\ \A i \in 1 .. k : (s1 \o s2)[i] = s1[i]
         /\ \A i \in k + 1 .. k + Len(s2) : (s1 \o s2)[i] = s2[i - k]
  OBVIOUS

\* Complements alternate with the bytes they balance.
LEMMA Complements ==
  ASSUME NEW w \in Seq(U8)
  PROVE  /\ RCX!WithComplements(w) \in Seq(U8)
         /\ Len(RCX!WithComplements(w)) = 2 * Len(w)
         /\ \A i \in 1 .. Len(w) :
              RCX!WithComplements(w)[2 * i - 1] + RCX!WithComplements(w)[2 * i] = 255
<1> DEFINE n == Len(w)
           g == [i \in 1 .. 2 * n |-> IF i % 2 = 1 THEN w[(i + 1) \div 2]
                                                   ELSE 255 - w[i \div 2]]
<1>1. n \in Nat /\ \A i \in 1 .. n : w[i] \in U8
  OBVIOUS
<1>2. RCX!WithComplements(w) = g
  BY DEF RCX!WithComplements
<1> HIDE DEF n
<1>3. \A i \in 1 .. 2 * n : g[i] \in U8
  <2> TAKE i \in 1 .. 2 * n
  <2>1. CASE i % 2 = 1
    <3>1. (i + 1) \div 2 \in 1 .. n
      BY <1>1, <2>1
    <3> QED
      BY <1>1, <2>1, <3>1
  <2>2. CASE i % 2 # 1
    <3>1. i \div 2 \in 1 .. n
      BY <1>1, <2>2
    <3>2. w[i \div 2] \in U8
      BY <1>1, <3>1
    <3>3. g[i] = 255 - w[i \div 2]
      BY <2>2
    <3>4. PICK x \in U8 : x = w[i \div 2]
      BY <3>2
    <3>5. 255 - x \in U8
      BY DEF U8
    <3> HIDE DEF g
    <3> QED
      BY <3>3, <3>4, <3>5
  <2> QED
    BY <2>1, <2>2
<1>4. \A i \in 1 .. n : g[2 * i - 1] + g[2 * i] = 255
  <2> TAKE i \in 1 .. n
  <2>1. /\ 2 * i - 1 \in 1 .. 2 * n /\ 2 * i \in 1 .. 2 * n
        /\ (2 * i - 1) % 2 = 1 /\ (2 * i) % 2 # 1
        /\ ((2 * i - 1) + 1) \div 2 = i /\ (2 * i) \div 2 = i
    BY <1>1
  <2>2. g[2 * i - 1] = w[i] /\ g[2 * i] = 255 - w[i]
    BY <2>1
  <2>3. w[i] \in U8
    BY <1>1
  <2>4. PICK x \in U8 : x = w[i]
    BY <2>3
  <2>5. x + (255 - x) = 255
    BY ByteSums
  <2> HIDE DEF g
  <2> QED
    BY <2>2, <2>4, <2>5
<1>5. 2 * n \in Nat /\ g \in [1 .. 2 * n -> U8]
  BY <1>1, <1>3
<1>6. g \in Seq(U8) /\ Len(g) = 2 * n
  <2> HIDE DEF g
  <2> QED
    BY <1>5
<1> HIDE DEF g
<1> QED
  BY <1>2, <1>4, <1>6 DEF n

\* Every frame is balanced, whatever the data and however long, and is made of
\* bytes: what FramesAreBalanced asks of the sends (irStartRCX).
THEOREM FramesAlwaysBalanced ==
  ASSUME NEW data \in Seq(U8)
  PROVE  RCX!IsBalanced(data) /\ RCX!Framed(data) \in Seq(U8)
<1> DEFINE h == <<85, 255, 0>>
           w == data \o <<RCX!DataSum(data)>>
           c == RCX!WithComplements(w)
           n == Len(data)
           k == 3
<1>1. RCX!DataSum(data) \in U8 /\ n \in Nat
  BY SumType
<1>2. w \in Seq(U8) /\ Len(w) = n + 1
  BY <1>1
<1>3. h \in Seq(U8) /\ Len(h) = k
  BY DEF U8
<1>4. RCX!Framed(data) = h \o c
  BY DEF RCX!Framed
<1> HIDE DEF h, w, n
<1>5. /\ c \in Seq(U8) /\ Len(c) = 2 * Len(w)
      /\ \A i \in 1 .. Len(w) : c[2 * i - 1] + c[2 * i] = 255
  <2>1. PICK v \in Seq(U8) : v = w
    BY <1>2
  <2>2. /\ RCX!WithComplements(v) \in Seq(U8)
        /\ Len(RCX!WithComplements(v)) = 2 * Len(v)
        /\ \A i \in 1 .. Len(v) :
             RCX!WithComplements(v)[2 * i - 1] + RCX!WithComplements(v)[2 * i] = 255
    BY Complements
  <2>3. c = RCX!WithComplements(v)
    BY <2>1
  <2> HIDE DEF c
  <2> QED
    BY <2>1, <2>2, <2>3
<1> HIDE DEF c, k
<1>6. /\ h \o c \in Seq(U8) /\ Len(h \o c) = k + Len(c)
      /\ \A i \in k + 1 .. k + Len(c) : (h \o c)[i] = c[i - k]
  BY <1>3, <1>5, ConcatElements, SMTT(30)
<1>7. k = 3
  BY DEF k
<1>8. Len(h \o c) = 2 * n + 5
  BY <1>1, <1>2, <1>5, <1>6, <1>7
<1>9. \A i \in 2 .. n + 2 : (h \o c)[2 * i] + (h \o c)[2 * i + 1] = 255
  <2> TAKE i \in 2 .. n + 2
  <2>1. PICK j \in 1 .. n + 1 : j = i - 1
    BY <1>1
  <2>2. /\ 2 * i \in k + 1 .. k + Len(c) /\ 2 * i - k = 2 * j - 1
        /\ 2 * i + 1 \in k + 1 .. k + Len(c) /\ (2 * i + 1) - k = 2 * j
    BY <1>1, <1>2, <1>5, <1>7, <2>1
  <2>3. (h \o c)[2 * i] = c[2 * j - 1] /\ (h \o c)[2 * i + 1] = c[2 * j]
    BY <1>6, <2>2
  <2>4. c[2 * j - 1] + c[2 * j] = 255
    BY <1>2, <1>5, <2>1
  <2> QED
    BY <2>3, <2>4
<1> QED
  BY <1>4, <1>6, <1>8, <1>9 DEF RCX!IsBalanced, n

\* The options give between 1 and 15 copies, and a carrier whose bits have
\* ticks enough.
LEMMA OptionsType ==
  ASSUME NEW o \in U8
  PROVE  /\ RCX!Repeats(o) = RCX!CopiesAsked(o) /\ RCX!CopiesAsked(o) \in 1 .. 15
         /\ RCX!CarrierCounts[RCX!Select(o) + 1] \in 25 .. 28
         /\ RCX!CarrierBits[RCX!Select(o) + 1] \in 30 .. 33
<1>1. o < 16 <=> o \div 16 = 0
  BY DEF U8
<1>2. o >= 16 => o \div 16 \in 1 .. 15
  BY DEF U8
<1>3. RCX!Repeats(o) = RCX!CopiesAsked(o) /\ RCX!CopiesAsked(o) \in 1 .. 15
  BY <1>1, <1>2 DEF RCX!Repeats, RCX!CopiesAsked, U8
<1>4. \/ RCX!Select(o) + 1 = 1 \/ RCX!Select(o) + 1 = 2
      \/ RCX!Select(o) + 1 = 3 \/ RCX!Select(o) + 1 = 4
  BY DEF RCX!Select, RCX!CarrierSelects
<1> DEFINE i == RCX!Select(o) + 1
<1> HIDE DEF i
<1>5. i = 1 \/ i = 2 \/ i = 3 \/ i = 4
  BY <1>4 DEF i
<1>6. RCX!CarrierCounts[i] \in 25 .. 28 /\ RCX!CarrierBits[i] \in 30 .. 33
  BY <1>5 DEF RCX!CarrierCounts, RCX!CarrierBits
<1> QED
  BY <1>3, <1>6 DEF i

\* What an RCX send puts on the air is at most 37 bytes, framed or raw.
LEMMA ContentType ==
  ASSUME NEW send \in RCXSends
  PROVE  /\ send.options \in U8 /\ send.raw \in BOOLEAN
         /\ send.raw => send.data \in Seq(U8) /\ Len(send.data) \in 1 .. 37
         /\ ~send.raw => /\ RCX!Framed(send.data) \in Seq(U8)
                         /\ Len(RCX!Framed(send.data)) \in 1 .. 37
<1>1. /\ send.raw \in BOOLEAN /\ send.options \in U8 /\ send.data \in Seq(U8)
      /\ Len(send.data) \in 1 .. (IF send.raw THEN 37 ELSE 16)
  BY RCXAssumption DEF U8
<1>2. RCX!IsBalanced(send.data) /\ RCX!Framed(send.data) \in Seq(U8)
  BY <1>1, FramesAlwaysBalanced
<1>3. Len(RCX!Framed(send.data)) = 2 * Len(send.data) + 5
  BY <1>2 DEF RCX!IsBalanced
<1>4. ASSUME ~send.raw PROVE 2 * Len(send.data) + 5 \in 1 .. 37
  <2>1. Len(send.data) \in 1 .. 16
    BY <1>1, <1>4
  <2>2. \A n \in 1 .. 16 : 2 * n + 5 \in 1 .. 37
    OBVIOUS
  <2> QED
    BY <2>1, <2>2, Zenon
<1> QED
  BY <1>1, <1>2, <1>3, <1>4


-----------------------------------------------------------------------------
(* Beginnings and ends                                                     *)

\* The invariant holds to begin with.
LEMMA InitInv == Init => IInv
<1> SUFFICES ASSUME Init PROVE IInv
  OBVIOUS
<1>1. active = "none" /\ carrierOn = 0 /\ ticks = 0 /\ reloadCounts = 26
  BY DEF Init, PhaseInit, BaseCounts
<1>2. /\ pfToggle = [c \in 0 .. 3 |-> 0]
      /\ receivers = [c \in 0 .. 3 |-> [last |-> 2, next |-> "open"]]
  BY DEF Init, PF!PFInit, PF!Untuned, PF!NoToggle, PF!Channel
<1>3. PF!TogglesAlternate
  BY <1>2 DEF PF!TogglesAlternate, PF!Channel, PF!NoToggle
<1>4. SharedInv
  BY <1>1, <1>2, <1>3 DEF SharedInv, Memory, BaseCounts
<1> QED
  BY <1>1, <1>4 DEF IInv, PFInv, LegacyInv, RCXInv

\* The end of a burst leaves nothing to say but the toggles.
LEMMA EndInv ==
  ASSUME IInv, EndBurst, UNCHANGED toggles
  PROVE  IInv'
<1>1. /\ active' = "none" /\ carrierOn' = 0 /\ ticks' = 0 /\ reloadCounts' = BaseCounts
      /\ pfToggle' = pfToggle /\ receivers' = receivers
  BY DEF EndBurst, BaseRate, toggles
<1>2. SharedInv'
  BY <1>1 DEF IInv, SharedInv, PF!TogglesAlternate, BaseCounts
<1> QED
  BY <1>1, <1>2 DEF IInv, PFInv, LegacyInv, RCXInv

\* A reset clears the board's toggles, and leaves open what comes next.
LEMMA ResetInv ==
  ASSUME IInv, ResetState
  PROVE  IInv'
<1>0. receivers \in [0 .. 3 -> Memory]
  BY DEF IInv, SharedInv
<1>1. /\ active' = "none" /\ carrierOn' = 0 /\ ticks' = 0 /\ reloadCounts' = BaseCounts
      /\ pfToggle' = [c \in 0 .. 3 |-> 0]
      /\ receivers' = [c \in 0 .. 3 |-> [receivers[c] EXCEPT !.next = "open"]]
  BY DEF ResetState, EndBurst, BaseRate, PF!ForgetToggles, PF!Channel
<1>2. \A c \in 0 .. 3 : receivers'[c] \in Memory /\ receivers'[c].next = "open"
  BY <1>0, <1>1 DEF Memory
<1>t. PF!TogglesAlternate'
  BY <1>2 DEF PF!TogglesAlternate, PF!Channel
<1>m. receivers' \in [0 .. 3 -> Memory]
  BY <1>1, <1>2
<1>3. SharedInv'
  BY <1>1, <1>t, <1>m DEF SharedInv, BaseCounts
<1> QED
  BY <1>1, <1>3 DEF IInv, PFInv, LegacyInv, RCXInv

-----------------------------------------------------------------------------
(* Power Functions                                                         *)

\* An automatic message uses up its toggle bit, and is unheard so far.
LEMMA StartPFInv ==
  ASSUME IInv, StartPF
  PROVE  IInv'
<1>1. PICK send \in PFSends :
        PF!Start(send.channel, send.mode, send.data, send.flags)
  BY DEF StartPF
<1> DEFINE ch == send.channel
           flags == send.flags
           toggle == IF flags % 2 = 1 THEN PF!Bit(flags, 1) ELSE pfToggle[ch]
           auto == send.mode # "COMBO_PWM" /\ flags % 2 = 0
           n == PF!Nibbles(ch, send.mode, send.data, toggle)
<1>2. /\ ch \in 0 .. 3 /\ send.mode \in PF!Modes
      /\ send.data \in U8 /\ flags \in 0 .. 255
  BY PFAssumption DEF U8, PF!Modes
<1>3. /\ pfToggle \in [0 .. 3 -> {0, 1}]
      /\ receivers \in [0 .. 3 -> Memory]
      /\ PF!TogglesAlternate
  BY DEF IInv, SharedInv
<1>4. toggle \in {0, 1} /\ (flags % 2 = 0 \/ flags % 2 = 1)
  <2>1. 2^1 = 2
    OBVIOUS
  <2>2. PF!Bit(flags, 1) \in {0, 1} /\ (flags % 2 = 0 \/ flags % 2 = 1)
    BY <1>2, <2>1 DEF PF!Bit
  <2> QED
    BY <1>2, <1>3, <2>2
<1>5. /\ active' = "PF" /\ reloadCounts' = 26 /\ carrierOn' = 0
      /\ ticks' = PF!HeadStart(ch)
      /\ s' = [nibbles |-> n, channel |-> ch, repeat |-> 0, pos |-> 0, phase |-> 0,
               elapsed |-> 0]
      /\ ear' = [heard |-> <<>>, sinceStart |-> 0, spacing |-> 0, copies |-> 0,
                 auto |-> auto]
  BY <1>1 DEF PF!Start, PF!Promote, PF!Override, PF!BaseCounts
<1>6. /\ pfToggle' = IF auto THEN [pfToggle EXCEPT ![ch] = 1 - @] ELSE pfToggle
      /\ receivers' = IF auto THEN [receivers EXCEPT ![ch].next = PF!AfterUnheard(@)]
                              ELSE receivers
  BY <1>1, <1>4 DEF PF!Start, PF!Toggles, PF!Override
<1>7. /\ n \in PF!Message /\ OddColumns(n)
      /\ send.mode # "COMBO_PWM" => PF!Bit(n[1], 3) = toggle
  BY <1>2, <1>4, MessagesAreOdd
<1>8. auto => toggle = pfToggle[ch]
  BY <1>4
<1>9. auto \in BOOLEAN /\ (auto => send.mode # "COMBO_PWM")
  OBVIOUS
<1> HIDE DEF ch, flags, toggle, n, auto
<1>u. \A next \in {"new", "repeat", "open"} :
        /\ PF!AfterUnheard(next) \in {"new", "repeat", "open"}
        /\ PF!AfterUnheard(next) = "new" => next = "repeat"
        /\ PF!AfterUnheard(next) = "repeat" => next = "new"
  BY DEF PF!AfterUnheard
<1>o. \A c \in 0 .. 3 : IF auto /\ c = ch
        THEN /\ pfToggle'[c] = 1 - pfToggle[c] /\ receivers'[c].last = receivers[c].last
             /\ receivers'[c].next = PF!AfterUnheard(receivers[c].next)
             /\ receivers'[c] = [receivers[c] EXCEPT !.next = PF!AfterUnheard(@)]
        ELSE pfToggle'[c] = pfToggle[c] /\ receivers'[c] = receivers[c]
  BY <1>2, <1>3, <1>6 DEF Memory
<1>m. \A c \in 0 .. 3 : receivers'[c] \in Memory
  BY <1>3, <1>u, <1>o DEF Memory
<1>10. pfToggle' \in [0 .. 3 -> {0, 1}] /\ receivers' \in [0 .. 3 -> Memory]
  <2>1. pfToggle' \in [0 .. 3 -> {0, 1}]
    BY <1>2, <1>3, <1>6
  <2>2. receivers' = [c \in 0 .. 3 |-> receivers'[c]]
    BY <1>2, <1>3, <1>6
  <2> QED
    BY <1>m, <2>1, <2>2
<1>11. PF!TogglesAlternate'
  <2> SUFFICES ASSUME NEW c \in 0 .. 3
               PROVE  /\ receivers'[c].next = "new" => pfToggle'[c] = 1 - receivers'[c].last
                      /\ receivers'[c].next = "repeat" => pfToggle'[c] = receivers'[c].last
    BY DEF PF!TogglesAlternate, PF!Channel
  <2>1. /\ receivers[c].next = "new" => pfToggle[c] = 1 - receivers[c].last
        /\ receivers[c].next = "repeat" => pfToggle[c] = receivers[c].last
    BY <1>3 DEF PF!TogglesAlternate, PF!Channel
  <2>2. CASE auto /\ c = ch
    <3>1. /\ pfToggle[c] \in {0, 1} /\ receivers[c].last \in 0 .. 2
          /\ receivers[c].next \in {"new", "repeat", "open"}
      BY <1>3 DEF Memory
    <3>2. /\ receivers'[c].next = "new" => receivers[c].next = "repeat"
          /\ receivers'[c].next = "repeat" => receivers[c].next = "new"
      BY <1>o, <1>u, <2>2, <3>1
    <3>3. pfToggle'[c] = 1 - pfToggle[c] /\ receivers'[c].last = receivers[c].last
      BY <1>o, <2>2
    <3> QED
      BY <2>1, <3>1, <3>2, <3>3
  <2>3. CASE ~(auto /\ c = ch)
    BY <1>o, <2>1, <2>3
  <2> QED
    BY <2>2, <2>3
<1>12. PF!HeadStart(ch) \in Nat /\ 0 < PF!HeadStart(ch) /\ PF!HeadStart(ch) < 65536
  BY <1>2 DEF PF!HeadStart, PF!TmTicks
<1>13. SharedInv'
  BY <1>5, <1>10, <1>11, <1>12 DEF SharedInv, Engine, BaseCounts
<1>14. auto => PF!Bit(n[1], 3) = 1 - pfToggle'[ch]
  <2> SUFFICES ASSUME auto PROVE PF!Bit(n[1], 3) = 1 - pfToggle'[ch]
    OBVIOUS
  <2>1. pfToggle'[ch] = 1 - pfToggle[ch] /\ pfToggle[ch] \in {0, 1}
    BY <1>2, <1>3, <1>6
  <2> QED
    BY <1>7, <1>8, <1>9, <2>1
<1>15. PFInv'
  <2>1. s' \in PF!PFState
    BY <1>2, <1>5, <1>7 DEF PF!PFState, PF!Channel, PF!RepeatCount, PF!TmTicks
  <2>2. ear' \in PFEar
    BY <1>5, <1>9 DEF PFEar
  <2>3. PF!MessagesAreSpaced'
    BY <1>5 DEF PF!MessagesAreSpaced
  <2>4. /\ s'.pos = 0 /\ s'.phase = 0 /\ s'.elapsed = 0 /\ s'.repeat = 0
        /\ s'.nibbles = n /\ s'.channel = ch
        /\ ear'.sinceStart = 0 /\ ear'.copies = 0 /\ ear'.auto = auto
    BY <1>5
  <2> QED
    BY <1>7, <1>14, <2>1, <2>2, <2>3, <2>4 DEF PFInv
<1> QED
  BY <1>5, <1>13, <1>15 DEF IInv, LegacyInv, RCXInv

\* What is known of the fields in a Power Functions burst.
PFPlace ==
  /\ s \in PF!PFState
  /\ s.nibbles \in PF!Message /\ s.channel \in 0 .. 3 /\ s.repeat \in 0 .. 4
  /\ s.pos \in 0 .. 17 /\ s.phase \in {0, 1} /\ s.elapsed \in Nat
PFHeard ==
  /\ ear \in PFEar
  /\ ear.heard \in Seq({"0", "1", "noise"}) /\ ear.auto \in BOOLEAN
  /\ ear.sinceStart \in Nat /\ ear.spacing \in Nat /\ ear.copies \in Nat

\* The length of a message is bounded by tm.
LEMMA TmValue == PF!TmTicks = 1231
  BY DEF PF!TmTicks

\* A burst has the fields of its engine.
LEMMA PFFieldsType == ASSUME IInv, active = "PF" PROVE PFPlace /\ PFHeard
<1>1. s \in PF!PFState /\ ear \in PFEar
  BY DEF IInv, PFInv
<1>2. s.nibbles \in PF!Message /\ s.channel \in 0 .. 3 /\ s.repeat \in 0 .. 4
  BY <1>1 DEF PF!PFState, PF!Channel, PF!RepeatCount
<1>3. s.pos \in 0 .. 17 /\ s.phase \in {0, 1}
  BY <1>1 DEF PF!PFState
<1>4. s.elapsed \in Nat
  BY <1>1, TmValue DEF PF!PFState
<1>5. ear.heard \in Seq({"0", "1", "noise"}) /\ ear.auto \in BOOLEAN
  BY <1>1 DEF PFEar
<1>6. ear.sinceStart \in Nat /\ ear.spacing \in Nat /\ ear.copies \in Nat
  BY <1>1 DEF PFEar
<1> QED
  BY <1>1, <1>2, <1>3, <1>4, <1>5, <1>6, Zenon DEF PFPlace, PFHeard

\* Phases keep the fields' types.
LEMMA PFMoves ==
  ASSUME NEW st \in PF!PFState, NEW f \in {0, 1}, NEW r \in 0 .. 4, NEW p \in 0 .. 17,
         NEW e \in 0 .. PF!TmTicks
  PROVE  /\ [st EXCEPT !.phase = f, !.pos = p, !.elapsed = e] \in PF!PFState
         /\ [st EXCEPT !.phase = f, !.repeat = r, !.pos = p, !.elapsed = e] \in PF!PFState
<1>1. [st EXCEPT !.phase = f, !.pos = p, !.elapsed = e] \in PF!PFState
  BY DEF PF!PFState
<1>2. r \in 0 .. PF!RepeatCount - 1
  BY DEF PF!RepeatCount
<1>3. [st EXCEPT !.phase = f, !.repeat = r, !.pos = p, !.elapsed = e] \in PF!PFState
  BY <1>2 DEF PF!PFState
<1> QED
  BY <1>1, <1>3

\* So does what the receiver makes of them.
LEMMA PFHears ==
  ASSUME NEW e \in PFEar, NEW t \in Nat, NEW n \in Nat
  PROVE  /\ [e EXCEPT !.spacing = n, !.sinceStart = t] \in PFEar
         /\ [e EXCEPT !.sinceStart = t, !.copies = n] \in PFEar
  BY DEF PFEar

\* Spaces included.
LEMMA PFHearsSpace ==
  ASSUME NEW e \in PFEar, NEW t \in Nat, NEW h \in Seq({"0", "1", "noise"})
  PROVE  [e EXCEPT !.sinceStart = t, !.heard = h] \in PFEar
  BY DEF PFEar

\* A mark, and what a whole copy tells the receiver.
LEMMA MarkInv ==
  ASSUME IInv, active = "PF", PF!Mark
  PROVE  IInv'
<1>0. PFPlace /\ PFHeard
  BY PFFieldsType
<1>p. /\ s \in PF!PFState /\ s.repeat \in 0 .. 4 /\ s.pos \in 0 .. 17
      /\ s.phase \in {0, 1} /\ s.elapsed \in Nat
  BY <1>0 DEF PFPlace
<1>h. /\ ear \in PFEar /\ ear.sinceStart \in Nat /\ ear.copies \in Nat
      /\ ear.auto \in BOOLEAN
  BY <1>0 DEF PFHeard
<1> DEFINE whole == s.pos = 17
           bit == PF!Bit(s.nibbles[1], 3)
           told == whole /\ ear.copies = 0 /\ ~PF!Escaped(s.nibbles)
           memory == [last |-> bit, next |-> IF ear.auto THEN "new" ELSE "open"]
<1>1. /\ active' = "PF" /\ reloadCounts' = reloadCounts /\ carrierOn' = 1 /\ ticks' = 12
      /\ pfToggle' = pfToggle /\ s.phase = 0
      /\ s' = [s EXCEPT !.phase = 1, !.elapsed = @ + 12]
      /\ ear' = IF s.pos = 0 /\ s.repeat > 0
                THEN [ear EXCEPT !.spacing = ear.sinceStart, !.sinceStart = 12]
                ELSE [ear EXCEPT !.sinceStart = @ + 12,
                                 !.copies = IF whole THEN @ + 1 ELSE @]
      /\ receivers' = IF told THEN [receivers EXCEPT ![s.channel] = memory] ELSE receivers
  BY DEF PF!Mark, PF!Load, PF!MarkTicks
<1>2. /\ pfToggle \in [0 .. 3 -> {0, 1}]
      /\ receivers \in [0 .. 3 -> Memory]
      /\ PF!TogglesAlternate /\ reloadCounts \in {13, 25, 26, 27, 28}
  BY DEF IInv, SharedInv
<1>f. s.phase = 0
  BY DEF PF!Mark
<1>i. /\ s.pos = 0 => s.elapsed = 12 * s.phase
      /\ s.pos > 0 => s.elapsed <= 36 + 55 * s.pos + 12 * s.phase
      /\ ear.sinceStart = IF s.pos > 0 \/ s.phase = 1 THEN s.elapsed
                          ELSE IF s.repeat = 0 THEN 0 ELSE PF!Target(s.repeat, s.channel)
      /\ ear.copies = s.repeat + (IF s.pos = 17 /\ s.phase = 1 THEN 1 ELSE 0)
  BY DEF IInv, PFInv
<1>j. /\ OddColumns(s.nibbles)
      /\ ear.auto => bit = 1 - pfToggle[s.channel]
  BY DEF IInv, PFInv
<1>k. /\ s.pos = 0 => s.elapsed = 0
      /\ s.pos > 0 => s.elapsed <= 36 + 55 * s.pos
      /\ ear.sinceStart = IF s.pos > 0 THEN s.elapsed
                          ELSE IF s.repeat = 0 THEN 0 ELSE PF!Target(s.repeat, s.channel)
      /\ ear.copies = s.repeat
  BY <1>f, <1>i, <1>p
<1>3. /\ s.pos = 0 => s.elapsed = 0
      /\ s.pos > 0 => s.elapsed <= 36 + 55 * s.pos
      /\ ear.sinceStart = IF s.pos > 0 THEN s.elapsed
                          ELSE IF s.repeat = 0 THEN 0 ELSE PF!Target(s.repeat, s.channel)
      /\ ear.copies = s.repeat
      /\ OddColumns(s.nibbles)
      /\ ear.auto => bit = 1 - pfToggle[s.channel]
  BY <1>j, <1>k
<1>4. bit \in {0, 1} /\ told \in BOOLEAN
  <2>1. PICK n \in 0 .. 15 : n = s.nibbles[1]
    BY <1>0 DEF PFPlace, PF!Message
  <2>2. PF!Bit(n, 3) \in {0, 1}
    BY NibbleBits
  <2> QED
    BY <2>1, <2>2
<1>m. /\ memory \in Memory /\ memory.last = bit /\ memory.next # "repeat"
      /\ memory.next = "new" => ear.auto
  BY <1>4 DEF Memory
<1>e. ear' = IF s.pos = 0 /\ s.repeat > 0
             THEN [ear EXCEPT !.spacing = ear.sinceStart, !.sinceStart = 12]
             ELSE [ear EXCEPT !.sinceStart = @ + 12,
                              !.copies = IF whole THEN @ + 1 ELSE @]
  BY <1>1
<1> HIDE DEF bit, told, memory
<1>5. /\ s'.phase = 1 /\ s'.elapsed = s.elapsed + 12 /\ s'.pos = s.pos
      /\ s'.repeat = s.repeat /\ s'.channel = s.channel /\ s'.nibbles = s.nibbles
  BY <1>1, <1>p DEF PF!PFState
<1>6. /\ ear'.heard = ear.heard /\ ear'.auto = ear.auto
      /\ ear'.sinceStart = s'.elapsed
      /\ ear'.copies = s.repeat + (IF s.pos = 17 THEN 1 ELSE 0)
  <2>1. CASE s.pos = 0 /\ s.repeat > 0
    BY <1>1, <1>3, <1>5, <1>p, <1>h, <2>1 DEF PFEar
  <2>2. CASE ~(s.pos = 0 /\ s.repeat > 0)
    BY <1>1, <1>3, <1>5, <1>p, <1>h, <2>2, SMTT(30) DEF PFEar
  <2> QED
    BY <2>1, <2>2
<1>7. s' \in PF!PFState
  <2>1. s.elapsed + 12 \in 0 .. PF!TmTicks
    <3>1. s.elapsed + 12 <= 1231
      BY <1>3, <1>p
    <3>2. s.elapsed + 12 \in Nat
      BY <1>p
    <3> QED
      BY <3>1, <3>2, TmValue, SMTT(30)
  <2> QED
    BY <1>1, <1>p, <2>1 DEF PF!PFState
<1>8. ear' \in PFEar
  <2>0. 12 \in Nat /\ ear.sinceStart + 12 \in Nat
        /\ (IF whole THEN ear.copies + 1 ELSE ear.copies) \in Nat
    BY <1>h
  <2>1. CASE s.pos = 0 /\ s.repeat > 0
    <3>1. ear' = [ear EXCEPT !.spacing = ear.sinceStart, !.sinceStart = 12]
      BY <1>e, <2>1
    <3> QED
      BY <1>h, <2>0, <3>1, PFHears
  <2>2. CASE ~(s.pos = 0 /\ s.repeat > 0)
    <3> DEFINE n == IF whole THEN ear.copies + 1 ELSE ear.copies
    <3>1. ear' = [ear EXCEPT !.sinceStart = ear.sinceStart + 12, !.copies = n]
      BY <1>e, <2>2
    <3> HIDE DEF n
    <3>2. n \in Nat
      BY <2>0 DEF n
    <3> QED
      BY <1>h, <2>0, <3>1, <3>2, PFHears
  <2> QED
    BY <2>1, <2>2
<1>9. PF!MessagesAreSpaced'
  <2> SUFFICES ASSUME s'.repeat > 0
               PROVE  ear'.spacing = PF!Target(s'.repeat, s'.channel)
    BY DEF PF!MessagesAreSpaced
  <2>1. CASE s.pos = 0
    BY <1>1, <1>3, <1>5, <1>p, <1>h, <2>1 DEF PFEar
  <2>2. CASE s.pos > 0
    <3>1. ear'.spacing = ear.spacing
      BY <1>1, <1>h, <1>p, <2>2 DEF PFEar
    <3>2. ear.spacing = PF!Target(s.repeat, s.channel)
      BY <1>5, <2>2 DEF IInv, PFInv, PF!MessagesAreSpaced
    <3> QED
      BY <1>5, <3>1, <3>2
  <2> QED
    BY <1>p, <2>1, <2>2
<1>10. s.pos > 0 =>
         /\ Len(ear.heard) = s.pos - 1
         /\ \A k \in 0 .. s.pos - 2 :
              ear.heard[k + 1] = IF PF!MessageBit(s.nibbles, k) = 1 THEN "1" ELSE "0"
  BY DEF IInv, PFInv
<1>11. PFInv'
  <2>1. OddColumns(s'.nibbles)
    BY <1>3, <1>5
  <2>2. ear'.auto => PF!Bit(s'.nibbles[1], 3) = 1 - pfToggle'[s'.channel]
    BY <1>1, <1>3, <1>5, <1>6 DEF bit
  <2>3. s'.pos > 0 =>
          /\ Len(ear'.heard) = s'.pos - 1
          /\ \A k \in 0 .. s'.pos - 2 :
               ear'.heard[k + 1] = IF PF!MessageBit(s'.nibbles, k) = 1 THEN "1" ELSE "0"
    BY <1>5, <1>6, <1>10
  <2>4. /\ s'.pos = 0 => s'.elapsed = 12 * s'.phase
        /\ s'.pos > 0 => s'.elapsed <= 36 + 55 * s'.pos + 12 * s'.phase
    BY <1>3, <1>5, <1>p
  <2> QED
    BY <1>5, <1>6, <1>7, <1>8, <1>9, <2>1, <2>2, <2>3, <2>4 DEF PFInv
<1>12. receivers' \in [0 .. 3 -> Memory]
  BY <1>1, <1>2, <1>m
<1>13. PF!TogglesAlternate'
  <2> SUFFICES ASSUME NEW c \in 0 .. 3
               PROVE  /\ receivers'[c].next = "new" => pfToggle[c] = 1 - receivers'[c].last
                      /\ receivers'[c].next = "repeat" => pfToggle[c] = receivers'[c].last
    BY <1>1 DEF PF!TogglesAlternate, PF!Channel
  <2>1. CASE told /\ c = s.channel
    <3>1. receivers'[c] = memory
      BY <1>1, <1>2, <2>1
    <3>2. ear.auto => bit = 1 - pfToggle[c]
      BY <1>3, <2>1
    <3>3. pfToggle[c] \in {0, 1}
      BY <1>2
    <3> QED
      BY <1>4, <1>m, <3>1, <3>2, <3>3
  <2>2. CASE ~(told /\ c = s.channel)
    <3>1. receivers'[c] = receivers[c]
      BY <1>1, <1>2, <2>2
    <3> QED
      BY <1>2, <3>1 DEF PF!TogglesAlternate, PF!Channel
  <2> QED
    BY <2>1, <2>2
<1>14. SharedInv'
  BY <1>1, <1>2, <1>12, <1>13 DEF SharedInv, Engine
<1> QED
  BY <1>1, <1>11, <1>14 DEF IInv, LegacyInv, RCXInv

\* The space after the first mark starts the message.
LEMMA StartSpaceInv ==
  ASSUME IInv, active = "PF", PF!StartSpace
  PROVE  IInv'
<1>0. PFPlace /\ PFHeard
  BY PFFieldsType
<1>p. /\ s \in PF!PFState /\ s.repeat \in 0 .. 4 /\ s.pos \in 0 .. 17
      /\ s.phase \in {0, 1} /\ s.elapsed \in Nat
  BY <1>0 DEF PFPlace
<1>h. /\ ear \in PFEar /\ ear.sinceStart \in Nat /\ ear.copies \in Nat
      /\ ear.auto \in BOOLEAN
  BY <1>0 DEF PFHeard
<1>1. /\ active' = "PF" /\ reloadCounts' = reloadCounts /\ carrierOn' = 0 /\ ticks' = 79
      /\ pfToggle' = pfToggle /\ receivers' = receivers /\ s.phase = 1 /\ s.pos = 0
  BY DEF PF!StartSpace, PF!Space, PF!Load, PF!StartSpaceTicks, PF!pfVars
<1>s. s' = [s EXCEPT !.phase = 0, !.pos = 1, !.elapsed = @ + 79]
  BY DEF PF!StartSpace, PF!StartSpaceTicks
<1>e. ear' = [ear EXCEPT !.sinceStart = @ + 79, !.heard = <<>>]
  BY DEF PF!StartSpace, PF!Space, PF!StartSpaceTicks, PF!Listen, PF!BitHeard, PF!MarkTicks
<1>2. /\ s.elapsed = 12 /\ ear.sinceStart = 12 /\ ear.copies = s.repeat
      /\ OddColumns(s.nibbles)
      /\ ear.auto => PF!Bit(s.nibbles[1], 3) = 1 - pfToggle[s.channel]
  BY <1>1, <1>p DEF IInv, PFInv
<1>3. s.repeat > 0 => ear.spacing = PF!Target(s.repeat, s.channel)
  BY <1>1 DEF IInv, PFInv, PF!MessagesAreSpaced
<1>4. /\ s'.phase = 0 /\ s'.elapsed = 91 /\ s'.pos = 1
      /\ s'.repeat = s.repeat /\ s'.channel = s.channel /\ s'.nibbles = s.nibbles
  BY <1>1, <1>s, <1>2, <1>p DEF PF!PFState
<1>5. /\ ear'.heard = <<>> /\ ear'.sinceStart = 91 /\ ear'.spacing = ear.spacing
      /\ ear'.copies = ear.copies /\ ear'.auto = ear.auto
  BY <1>e, <1>2, <1>h DEF PFEar
<1>6. s' \in PF!PFState /\ ear' \in PFEar
  <2>1. s.elapsed + 79 \in 0 .. PF!TmTicks
    BY <1>2, TmValue
  <2>2. 0 \in {0, 1} /\ 1 \in 0 .. 17 /\ ear.sinceStart + 79 \in Nat
        /\ <<>> \in Seq({"0", "1", "noise"})
    BY <1>h
  <2>3. s' \in PF!PFState
    BY <1>s, <1>p, <2>1, <2>2, PFMoves, ZenonT(60)
  <2>4. ear' \in PFEar
    BY <1>e, <1>h, <2>2, PFHearsSpace
  <2> QED
    BY <2>3, <2>4
<1>7. PF!MessagesAreSpaced'
  BY <1>3, <1>4, <1>5 DEF PF!MessagesAreSpaced
<1>8. PFInv'
  <2>1. OddColumns(s'.nibbles)
    BY <1>2, <1>4
  <2>2. ear'.auto => PF!Bit(s'.nibbles[1], 3) = 1 - pfToggle'[s'.channel]
    BY <1>1, <1>2, <1>4, <1>5
  <2>3. /\ Len(ear'.heard) = s'.pos - 1
        /\ \A k \in 0 .. s'.pos - 2 :
             ear'.heard[k + 1] = IF PF!MessageBit(s'.nibbles, k) = 1 THEN "1" ELSE "0"
    BY <1>4, <1>5
  <2>4. /\ s'.pos = 0 => s'.elapsed = 12 * s'.phase
        /\ s'.pos > 0 => s'.elapsed <= 36 + 55 * s'.pos + 12 * s'.phase
    BY <1>4
  <2>5. /\ ear'.sinceStart = s'.elapsed /\ s'.pos > 0
        /\ ear'.copies = s'.repeat + (IF s'.pos = 17 /\ s'.phase = 1 THEN 1 ELSE 0)
    BY <1>2, <1>4, <1>5, <1>p
  <2> QED
    BY <1>6, <1>7, <2>1, <2>2, <2>3, <2>4, <2>5 DEF PFInv
<1>9. SharedInv'
  BY <1>1 DEF IInv, SharedInv, PF!TogglesAlternate, Engine
<1> QED
  BY <1>1, <1>8, <1>9 DEF IInv, LegacyInv, RCXInv

\* The space after a bit's mark tells the receiver the bit.
LEMMA BitSpaceInv ==
  ASSUME IInv, active = "PF", PF!BitSpace
  PROVE  IInv'
<1>0. PFPlace /\ PFHeard
  BY PFFieldsType
<1>p. /\ s \in PF!PFState /\ s.repeat \in 0 .. 4 /\ s.pos \in 0 .. 17
      /\ s.phase \in {0, 1} /\ s.elapsed \in Nat
  BY <1>0 DEF PFPlace
<1>h. /\ ear \in PFEar /\ ear.sinceStart \in Nat /\ ear.copies \in Nat
      /\ ear.auto \in BOOLEAN
  BY <1>0 DEF PFHeard
<1>v. ear.heard \in Seq({"0", "1", "noise"})
  BY <1>0 DEF PFHeard
<1> DEFINE one == PF!MessageBit(s.nibbles, s.pos - 1) = 1
           t == IF one THEN 43 ELSE 20
           b == IF one THEN "1" ELSE "0"
<1>1. /\ active' = "PF" /\ reloadCounts' = reloadCounts /\ carrierOn' = 0 /\ ticks' = t
      /\ pfToggle' = pfToggle /\ receivers' = receivers
  BY DEF PF!BitSpace, PF!Space, PF!Load, PF!OneSpaceTicks, PF!ZeroSpaceTicks, PF!pfVars
<1>q. s.phase = 1 /\ s.pos \in 1 .. 16 /\ s.pos > 0 /\ s.pos # 17
  BY DEF PF!BitSpace
<1>s. s' = [s EXCEPT !.phase = 0, !.pos = s.pos + 1, !.elapsed = s.elapsed + t]
  BY DEF PF!BitSpace, PF!OneSpaceTicks, PF!ZeroSpaceTicks
<1>e. ear' = [ear EXCEPT !.sinceStart = ear.sinceStart + t, !.heard = PF!Listen(t)]
  BY DEF PF!BitSpace, PF!Space, PF!OneSpaceTicks, PF!ZeroSpaceTicks
<1>l. PF!Listen(t) = Append(ear.heard, b)
  <2>1. PF!BitHeard(12 + 43) = "1" /\ PF!BitHeard(12 + 20) = "0"
    BY DEF PF!BitHeard
  <2>2. PF!BitHeard(12 + t) = b
    BY <2>1
  <2>3. b # "start" /\ b # "pause"
    OBVIOUS
  <2> HIDE DEF t, b
  <2> QED
    BY <2>2, <2>3 DEF PF!Listen, PF!MarkTicks
<1>t. t \in Nat /\ 0 < t /\ t <= 43
  OBVIOUS
<1>b. b \in {"0", "1", "noise"} /\ b = IF one THEN "1" ELSE "0"
  OBVIOUS
<1> HIDE DEF t, b, one
<1>2. /\ s.elapsed <= 36 + 55 * s.pos + 12 /\ ear.sinceStart = s.elapsed
      /\ ear.copies = s.repeat
  BY <1>q, <1>p DEF IInv, PFInv
<1>o. /\ OddColumns(s.nibbles)
      /\ ear.auto => PF!Bit(s.nibbles[1], 3) = 1 - pfToggle[s.channel]
  BY <1>q, <1>p DEF IInv, PFInv
<1>n. Len(ear.heard) = s.pos - 1
  BY <1>q, <1>p DEF IInv, PFInv
<1>w. \A k \in 0 .. s.pos - 2 :
        ear.heard[k + 1] = IF PF!MessageBit(s.nibbles, k) = 1 THEN "1" ELSE "0"
  BY <1>q, <1>p DEF IInv, PFInv
<1>3. s.repeat > 0 => ear.spacing = PF!Target(s.repeat, s.channel)
  BY <1>q DEF IInv, PFInv, PF!MessagesAreSpaced
<1>4. /\ s'.phase = 0 /\ s'.elapsed = s.elapsed + t /\ s'.pos = s.pos + 1
      /\ s'.repeat = s.repeat /\ s'.channel = s.channel /\ s'.nibbles = s.nibbles
  BY <1>s, <1>p DEF PF!PFState
<1>5. /\ ear'.heard = Append(ear.heard, b) /\ ear'.sinceStart = ear.sinceStart + t
      /\ ear'.spacing = ear.spacing
      /\ ear'.copies = ear.copies /\ ear'.auto = ear.auto
  BY <1>e, <1>l, <1>h DEF PFEar
<1>6. s' \in PF!PFState /\ ear' \in PFEar
  <2>1. s.elapsed + t \in 0 .. PF!TmTicks
    <3>1. 55 * s.pos <= 880
      BY <1>q
    <3>2. s.elapsed + t \in Nat /\ s.elapsed + t <= 1231
      BY <1>2, <1>p, <1>t, <3>1
    <3> QED
      BY <3>2, TmValue, SMTT(30)
  <2>2. 0 \in {0, 1} /\ s.pos + 1 \in 0 .. 17 /\ ear.sinceStart + t \in Nat
    BY <1>q, <1>h, <1>t
  <2>3. s' \in PF!PFState
    BY <1>s, <1>p, <2>1, <2>2, PFMoves
  <2>4. Append(ear.heard, b) \in Seq({"0", "1", "noise"})
    BY <1>v, <1>b
  <2>5. ear' \in PFEar
    BY <1>e, <1>h, <1>l, <2>2, <2>4, PFHearsSpace
  <2> QED
    BY <2>3, <2>5
<1>7. PF!MessagesAreSpaced'
  BY <1>3, <1>4, <1>5 DEF PF!MessagesAreSpaced
<1>8. PFInv'
  <2>1. OddColumns(s'.nibbles)
    BY <1>o, <1>4
  <2>2. ear'.auto => PF!Bit(s'.nibbles[1], 3) = 1 - pfToggle'[s'.channel]
    BY <1>1, <1>o, <1>4, <1>5
  <2>3. Len(ear'.heard) = s'.pos - 1
    <3>1. Len(Append(ear.heard, b)) = Len(ear.heard) + 1
      BY <1>v, <1>b
    <3> QED
      BY <1>n, <1>4, <1>5, <1>q, <3>1, SMTT(30)
  <2>4. \A k \in 0 .. s'.pos - 2 :
          ear'.heard[k + 1] = IF PF!MessageBit(s'.nibbles, k) = 1 THEN "1" ELSE "0"
    <3> TAKE k \in 0 .. s'.pos - 2
    <3>1. k \in 0 .. s.pos - 2 \/ k = s.pos - 1
      BY <1>q, <1>4
    <3>2. CASE k \in 0 .. s.pos - 2
      <4>1. k + 1 \in 1 .. Len(ear.heard)
        <5>1. 0 <= k /\ k <= s.pos - 2 /\ k \in Int
          BY <1>q, <3>2
        <5>2. k + 1 \in 1 .. s.pos - 1
          BY <1>q, <5>1
        <5> QED
          BY <1>n, <5>2
      <4>2. ear'.heard[k + 1] = ear.heard[k + 1]
        BY <1>5, <1>v, <1>b, <4>1
      <4> QED
        BY <1>w, <1>4, <3>2, <4>2
    <3>3. CASE k = s.pos - 1
      <4>1. k + 1 = Len(ear.heard) + 1
        BY <1>q, <1>n, <3>3
      <4>2. ear'.heard[k + 1] = b
        BY <1>5, <1>v, <1>b, <4>1
      <4> QED
        BY <1>4, <1>b, <3>3, <4>2 DEF one
    <3> QED
      BY <3>1, <3>2, <3>3
  <2>5. s'.pos > 0 /\ s'.elapsed <= 36 + 55 * s'.pos + 12 * s'.phase
    BY <1>q, <1>2, <1>4, <1>p, <1>t
  <2>6. /\ ear'.sinceStart = s'.elapsed
        /\ ear'.copies = s'.repeat + (IF s'.pos = 17 /\ s'.phase = 1 THEN 1 ELSE 0)
    BY <1>2, <1>4, <1>5, <1>p
  <2>7. s'.pos # 0
    BY <1>q, <1>4
  <2> QED
    BY <1>6, <1>7, <2>1, <2>2, <2>3, <2>4, <2>5, <2>6, <2>7 DEF PFInv
<1>9. SharedInv'
  BY <1>1, <1>t DEF IInv, SharedInv, PF!TogglesAlternate, Engine
<1> QED
  BY <1>1, <1>8, <1>9 DEF IInv, LegacyInv, RCXInv

\* A gap makes up the time the message fell short of its spacing.
LEMMA PFGapInv ==
  ASSUME IInv, active = "PF", PF!Gap
  PROVE  IInv'
<1>0. PFPlace /\ PFHeard
  BY PFFieldsType
<1>p. /\ s \in PF!PFState /\ s.repeat \in 0 .. 4 /\ s.pos \in 0 .. 17
      /\ s.phase \in {0, 1} /\ s.elapsed \in Nat /\ s.channel \in 0 .. 3
  BY <1>0 DEF PFPlace
<1>h. /\ ear \in PFEar /\ ear.sinceStart \in Nat /\ ear.copies \in Nat
      /\ ear.auto \in BOOLEAN /\ ear.heard \in Seq({"0", "1", "noise"})
  BY <1>0 DEF PFHeard
<1> DEFINE target == PF!Target(s.repeat + 1, s.channel)
           t == PF!GapTicks(target, s.elapsed)
<1>1. /\ active' = "PF" /\ reloadCounts' = reloadCounts /\ carrierOn' = 0 /\ ticks' = t
      /\ pfToggle' = pfToggle /\ receivers' = receivers /\ s.phase = 1 /\ s.pos = 17
  BY DEF PF!Gap, PF!Space, PF!Load, PF!pfVars
<1>r. s.repeat + 1 \in 1 .. 4
  BY <1>p DEF PF!Gap, PF!LastCopy, PF!RepeatCount
<1>s. s' = [s EXCEPT !.phase = 0, !.repeat = s.repeat + 1, !.pos = 0, !.elapsed = 0]
  BY DEF PF!Gap, PF!AfterGap
<1>e. ear' = [ear EXCEPT !.sinceStart = ear.sinceStart + t, !.heard = PF!Listen(t)]
  BY DEF PF!Gap, PF!Space
<1>2. /\ s.elapsed <= 983 /\ ear.sinceStart = s.elapsed
      /\ ear.copies = s.repeat + 1 /\ OddColumns(s.nibbles)
      /\ ear.auto => PF!Bit(s.nibbles[1], 3) = 1 - pfToggle[s.channel]
  BY <1>1, <1>p DEF IInv, PFInv
<1>g. target \in Nat /\ target >= 6155 /\ target <= 14772
  BY <1>p, <1>r, TmValue DEF PF!Target
<1> HIDE DEF target
<1>t. t = target - s.elapsed /\ t \in Nat /\ 121 < t /\ t < 65536
  BY <1>2, <1>g, <1>p DEF PF!GapTicks
<1> HIDE DEF t
<1>l. PF!Listen(t) = ear.heard
  <2>1. PF!BitHeard(12 + t) = "pause"
    BY <1>t DEF PF!BitHeard
  <2> QED
    BY <2>1 DEF PF!Listen, PF!MarkTicks
<1>4. /\ s'.phase = 0 /\ s'.elapsed = 0 /\ s'.pos = 0
      /\ s'.repeat = s.repeat + 1 /\ s'.channel = s.channel /\ s'.nibbles = s.nibbles
  BY <1>s, <1>p DEF PF!PFState
<1>5. /\ ear'.sinceStart = target /\ ear'.copies = ear.copies /\ ear'.auto = ear.auto
  <2>1. ear'.sinceStart = ear.sinceStart + t /\ ear'.copies = ear.copies /\ ear'.auto = ear.auto
    BY <1>e, <1>h DEF PFEar
  <2> QED
    BY <1>2, <1>g, <1>p, <1>t, <2>1
<1>6. s' \in PF!PFState /\ ear' \in PFEar
  <2>1. 0 \in {0, 1} /\ 0 \in 0 .. 17 /\ s.repeat + 1 \in 0 .. 4 /\ 0 \in 0 .. PF!TmTicks
    BY <1>r, TmValue
  <2>2. s' \in PF!PFState
    BY <1>s, <1>p, <2>1, PFMoves
  <2>3. ear.sinceStart + t \in Nat
    BY <1>h, <1>t
  <2>4. ear' \in PFEar
    BY <1>e, <1>h, <1>l, <2>3, PFHearsSpace
  <2> QED
    BY <2>2, <2>4
<1>7. PF!MessagesAreSpaced'
  BY <1>4 DEF PF!MessagesAreSpaced
<1>8. PFInv'
  <2>1. OddColumns(s'.nibbles)
    BY <1>2, <1>4
  <2>2. ear'.auto => PF!Bit(s'.nibbles[1], 3) = 1 - pfToggle'[s'.channel]
    BY <1>1, <1>2, <1>4, <1>5
  <2>3. s'.pos = 0 /\ s'.elapsed = 12 * s'.phase
    BY <1>4
  <2>4. /\ ear'.sinceStart = PF!Target(s'.repeat, s'.channel) /\ s'.repeat # 0
        /\ ear'.copies = s'.repeat + (IF s'.pos = 17 /\ s'.phase = 1 THEN 1 ELSE 0)
    BY <1>2, <1>4, <1>5, <1>r, <1>p DEF target
  <2>5. ~(s'.pos > 0) /\ ~(s'.pos > 0 \/ s'.phase = 1)
    BY <1>4
  <2> QED
    BY <1>6, <1>7, <2>1, <2>2, <2>3, <2>4, <2>5 DEF PFInv
<1>9. SharedInv'
  BY <1>1, <1>t DEF IInv, SharedInv, PF!TogglesAlternate, Engine
<1> QED
  BY <1>1, <1>8, <1>9 DEF IInv, LegacyInv, RCXInv

-----------------------------------------------------------------------------
(* Legacy                                                                  *)

\* The two bytes of a command.
LEMMA CommandBytes ==
  ASSUME NEW c \in Legacy!Command
  PROVE  /\ c.channel \in 4 .. 7 /\ c.orange \in 0 .. 15 /\ c.yellow \in 0 .. 15
         /\ Legacy!Check(c) \in 0 .. 15
         /\ (c.channel + c.orange + c.yellow + Legacy!Check(c)) % 16 = 0
         /\ 16 * c.channel + c.orange \in U8 /\ 16 * c.yellow + Legacy!Check(c) \in U8
<1>1. c.channel \in 4 .. 7 /\ c.orange \in 0 .. 15 /\ c.yellow \in 0 .. 15
  BY DEF Legacy!Command
<1>2. \A x \in 4 .. 7, y \in 0 .. 15, z \in 0 .. 15 :
        LET k == (16 - ((x + y + z) % 16)) % 16
        IN  k \in 0 .. 15 /\ (x + y + z + k) % 16 = 0
  OBVIOUS
<1>3. Legacy!Check(c) = (16 - ((c.channel + c.orange + c.yellow) % 16)) % 16
  BY DEF Legacy!Check
<1>4. /\ Legacy!Check(c) \in 0 .. 15
      /\ (c.channel + c.orange + c.yellow + Legacy!Check(c)) % 16 = 0
  BY <1>1, <1>2, <1>3
<1>5. 16 * c.channel + c.orange \in U8 /\ 16 * c.yellow + Legacy!Check(c) \in U8
  BY <1>1, <1>4 DEF U8
<1> QED
  BY <1>1, <1>4, <1>5

\* What is known of the fields in a Legacy burst.
LegacyPlace ==
  /\ s \in Legacy!LegacyState /\ ear \in LegacyEar /\ ear.sinceStart \in Nat
  /\ s.byte0 \in U8 /\ s.byte1 \in U8 /\ s.channel \in 4 .. 7 /\ s.repeat \in 0 .. 5
  /\ s.byteIdx \in {0, 1} /\ s.bitIdx \in 0 .. 10 /\ s.inGap \in {0, 1}

\* A burst has the fields of its engine.
LEMMA LegacyFieldsType == ASSUME IInv, active = "Legacy" PROVE LegacyPlace
<1>1. s \in Legacy!LegacyState /\ ear \in LegacyEar
  BY DEF IInv, LegacyInv
<1>2. s.byte0 \in U8 /\ s.byte1 \in U8 /\ s.channel \in 4 .. 7
  BY <1>1 DEF Legacy!LegacyState, U8
<1>3. /\ s.repeat \in 0 .. 5 /\ s.byteIdx \in {0, 1} /\ s.bitIdx \in 0 .. 10
      /\ s.inGap \in {0, 1}
  BY <1>1 DEF Legacy!LegacyState, Legacy!RepeatCount
<1>4. ear.sinceStart \in Nat
  BY <1>1 DEF LegacyEar
<1> QED
  BY <1>1, <1>2, <1>3, <1>4, Zenon DEF LegacyPlace

\* Phases keep the fields' types.
LEMMA LegacyMoves ==
  ASSUME NEW st \in Legacy!LegacyState, NEW b \in 0 .. 10
  PROVE  /\ [st EXCEPT !.bitIdx = b] \in Legacy!LegacyState
         /\ \A y \in {0, 1} : [st EXCEPT !.bitIdx = b, !.byteIdx = y] \in Legacy!LegacyState
         /\ \A y \in {0, 1}, r \in 0 .. Legacy!RepeatCount, g \in {0, 1} :
              [st EXCEPT !.bitIdx = b, !.byteIdx = y, !.repeat = r, !.inGap = g]
                \in Legacy!LegacyState
         /\ \A g \in {0, 1} : [st EXCEPT !.inGap = g] \in Legacy!LegacyState
<1>1. [st EXCEPT !.bitIdx = b] \in Legacy!LegacyState
  BY DEF Legacy!LegacyState
<1>2. \A y \in {0, 1} : [st EXCEPT !.bitIdx = b, !.byteIdx = y] \in Legacy!LegacyState
  BY ZenonT(60) DEF Legacy!LegacyState
<1>3. \A y \in {0, 1}, r \in 0 .. Legacy!RepeatCount, g \in {0, 1} :
        [st EXCEPT !.bitIdx = b, !.byteIdx = y, !.repeat = r, !.inGap = g]
          \in Legacy!LegacyState
  BY ZenonT(60) DEF Legacy!LegacyState
<1>4. \A g \in {0, 1} : [st EXCEPT !.inGap = g] \in Legacy!LegacyState
  BY DEF Legacy!LegacyState
<1> QED
  BY <1>1, <1>2, <1>3, <1>4

\* So does what the receiver makes of them.
LEMMA LegacyHears ==
  ASSUME NEW e \in LegacyEar, NEW t \in Nat, NEW n \in Nat
  PROVE  /\ [e EXCEPT !.sinceStart = t, !.copies = n] \in LegacyEar
         /\ [e EXCEPT !.sinceStart = t, !.bytes = <<>>] \in LegacyEar
<1>1. [e EXCEPT !.sinceStart = t, !.copies = n] \in LegacyEar
  BY DEF LegacyEar
<1>2. <<>> \in Seq(U8)
  OBVIOUS
<1>3. \A b \in Seq(U8) : [e EXCEPT !.sinceStart = t, !.bytes = b] \in LegacyEar
  BY DEF LegacyEar
<1> QED
  BY <1>1, <1>2, <1>3

\* The bit of a byte after the n before it.
LEMMA HearLegacy ==
  ASSUME NEW b \in U8, NEW n \in 0 .. 10, NEW e \in LegacyEar, Sampled(e.line, b, n),
         NEW e1, e1 = Legacy!Hear(e, Legacy!CarrierFor(b, n))
  PROVE  /\ e1 \in LegacyEar /\ e1.request = e.request
         /\ e1.sinceStart = e.sinceStart /\ e1.copies = e.copies
         /\ n < 10 => Sampled(e1.line, b, n + 1) /\ e1.bytes = e.bytes
         /\ n = 10 => e1.line = <<>> /\ e1.bytes = Append(e.bytes, b)
<1> DEFINE c == Append(e.line, Legacy!CarrierFor(b, n))
<1>0. e.line \in Seq({0, 1}) /\ e.bytes \in Seq(U8)
  BY DEF LegacyEar
<1>1. /\ c \in Seq({0, 1})
      /\ n < 10 => ~Legacy!IsByte(c) /\ Sampled(c, b, n + 1)
      /\ n = 10 => Legacy!IsByte(c) /\ Legacy!ByteOf(c) = b
  <2>1. PICK line \in Seq({0, 1}) : line = e.line
    BY <1>0
  <2>2. Sampled(line, b, n)
    BY <2>1
  <2>3. c = Append(line, Legacy!CarrierFor(b, n))
    BY <2>1
  <2> HIDE DEF c
  <2> QED
    BY <2>2, <2>3, HearsByte
<1>2. e1 = IF Legacy!IsByte(c)
           THEN [e EXCEPT !.line = <<>>, !.bytes = Append(e.bytes, Legacy!ByteOf(c))]
           ELSE [e EXCEPT !.line = c]
  BY DEF Legacy!Hear
<1> HIDE DEF c
<1>3. CASE n < 10
  <2>1. e1 = [e EXCEPT !.line = c]
    BY <1>1, <1>2, <1>3
  <2>2. e1 \in LegacyEar
    BY <1>1, <2>1 DEF LegacyEar
  <2>3. /\ e1.line = c /\ e1.bytes = e.bytes /\ e1.request = e.request
        /\ e1.sinceStart = e.sinceStart /\ e1.copies = e.copies
    BY <2>1 DEF LegacyEar
  <2> QED
    BY <1>1, <1>3, <2>2, <2>3
<1>4. CASE n = 10
  <2> DEFINE w == Append(e.bytes, b)
  <2>1. e1 = [e EXCEPT !.line = <<>>, !.bytes = w]
    BY <1>1, <1>2, <1>4
  <2>2. w \in Seq(U8)
    BY <1>0
  <2> HIDE DEF w
  <2>3. <<>> \in Seq({0, 1})
    OBVIOUS
  <2>4. e1 \in LegacyEar
    <3>1. \A l \in Seq({0, 1}) : [e EXCEPT !.line = l, !.bytes = w] \in LegacyEar
      BY <2>2 DEF LegacyEar
    <3> QED
      BY <2>1, <2>3, <3>1
  <2>5. /\ e1.line = <<>> /\ e1.bytes = w /\ e1.request = e.request
        /\ e1.sinceStart = e.sinceStart /\ e1.copies = e.copies
    BY <2>1 DEF LegacyEar
  <2> QED
    BY <1>4, <2>4, <2>5 DEF w
<1> QED
  BY <1>3, <1>4

\* A burst begins with the first bit of the first message.
LEMMA StartLegacyInv ==
  ASSUME IInv, StartLegacy
  PROVE  IInv'
<1>1. PICK c \in LegacySends : Legacy!Start(c)
  BY DEF StartLegacy
<1>2. c \in Legacy!Command
  BY LegacyAssumption DEF Legacy!Command
<1>3. /\ c.channel \in 4 .. 7 /\ 16 * c.channel + c.orange \in U8
      /\ 16 * c.yellow + Legacy!Check(c) \in U8
  BY <1>2, CommandBytes
<1>4. /\ active' = "Legacy" /\ reloadCounts' = 13 /\ carrierOn' = 0 /\ ticks' = 1
      /\ pfToggle' = pfToggle /\ receivers' = receivers
  BY <1>1 DEF StartLegacy, Legacy!Start, Legacy!Promote, Legacy!FastCounts, toggles
<1> DEFINE b0 == 16 * c.channel + c.orange
           b1 == 16 * c.yellow + Legacy!Check(c)
<1>5. s' = [byte0 |-> b0, byte1 |-> b1, channel |-> c.channel, repeat |-> 0,
            byteIdx |-> 0, bitIdx |-> 0, inGap |-> 0]
  BY <1>1 DEF Legacy!Start, Legacy!Promote
<1>6. ear' = [request |-> c, line |-> <<>>, bytes |-> <<>>, sinceStart |-> 0,
              copies |-> 0]
  BY <1>1 DEF Legacy!Start
<1>7. b0 \in U8 /\ b1 \in U8
  BY <1>3
<1>8. /\ s'.byte0 = 16 * ear'.request.channel + ear'.request.orange
      /\ s'.byte1 = 16 * ear'.request.yellow + Legacy!Check(ear'.request)
      /\ s'.channel = ear'.request.channel
  BY <1>5, <1>6
<1> HIDE DEF b0, b1
<1>9. s' \in Legacy!LegacyState
  BY <1>3, <1>5, <1>7 DEF Legacy!LegacyState, Legacy!RepeatCount, U8
<1>10. ear' \in LegacyEar
  BY <1>2, <1>6 DEF LegacyEar
<1>11. /\ s'.repeat = 0 /\ s'.byteIdx = 0 /\ s'.bitIdx = 0 /\ s'.inGap = 0
       /\ ear'.line = <<>> /\ ear'.bytes = <<>> /\ ear'.copies = 0
  BY <1>5, <1>6
<1>12. LegacyInv'
  BY <1>8, <1>9, <1>10, <1>11
     DEF LegacyInv, Legacy!FirstBit, Legacy!MessagesAreSpaced, Sampled
<1>13. SharedInv'
  BY <1>4 DEF IInv, SharedInv, PF!TogglesAlternate, Engine
<1> QED
  BY <1>4, <1>12, <1>13 DEF IInv, PFInv, RCXInv

\* The gap makes up the channel's spacing.
LEMMA LegacyGapInv ==
  ASSUME IInv, active = "Legacy", Legacy!Gap, UNCHANGED toggles
  PROVE  IInv'
<1>0. LegacyPlace
  BY LegacyFieldsType
<1>p. /\ s \in Legacy!LegacyState /\ ear \in LegacyEar /\ s.channel \in 4 .. 7
      /\ s.bitIdx \in 0 .. 10
  BY <1>0 DEF LegacyPlace
<1> DEFINE t == Legacy!GapTicks(s.channel)
<1>1. /\ active' = "Legacy" /\ reloadCounts' = reloadCounts /\ carrierOn' = 0 /\ ticks' = t
      /\ pfToggle' = pfToggle /\ receivers' = receivers
  BY DEF Legacy!Gap, Legacy!Load, toggles
<1>s. s.inGap = 1 /\ s' = [s EXCEPT !.inGap = 0]
  BY DEF Legacy!Gap
<1>e. ear' = [ear EXCEPT !.sinceStart = ear.sinceStart + t, !.bytes = <<>>]
  BY DEF Legacy!Gap
<1>2. /\ s.repeat \in 1 .. 4 /\ s.byteIdx = 0 /\ s.bitIdx = 0 /\ ear.sinceStart = 704
      /\ ear.copies = s.repeat
  BY <1>s DEF IInv, LegacyInv, Legacy!FirstBit
<1>3. /\ s.channel = ear.request.channel
      /\ s.byte0 = 16 * ear.request.channel + ear.request.orange
      /\ s.byte1 = 16 * ear.request.yellow + Legacy!Check(ear.request)
  BY DEF IInv, LegacyInv
<1>4. Sampled(ear.line, s.byte0, 0)
  BY <1>2 DEF IInv, LegacyInv
<1>5. t = Legacy!SpacingTicks(s.channel) - 704 /\ t \in Nat /\ 0 < t /\ t < 65536
  <2>1. \/ Legacy!SpacingTicks(s.channel) = 7846
        \/ Legacy!SpacingTicks(s.channel) = 10462
        \/ Legacy!SpacingTicks(s.channel) = 13231
    BY <1>p DEF Legacy!SpacingTicks
  <2> QED
    BY <2>1 DEF Legacy!GapTicks, Legacy!BitTicks
<1> HIDE DEF t
<1>6. ear.sinceStart + t = Legacy!SpacingTicks(s.channel) /\ ear.sinceStart + t \in Nat
  <2>1. Legacy!SpacingTicks(s.channel) \in Int
    BY <1>p DEF Legacy!SpacingTicks
  <2> QED
    BY <1>2, <1>5, <2>1
<1>7. s' \in Legacy!LegacyState /\ ear' \in LegacyEar
  <2>1. 0 \in {0, 1} /\ 0 \in Nat
    OBVIOUS
  <2>2. s' \in Legacy!LegacyState
    BY <1>p, <1>s, <2>1, LegacyMoves
  <2>3. ear' \in LegacyEar
    BY <1>e, <1>p, <1>6, <2>1, LegacyHears
  <2> QED
    BY <2>2, <2>3
<1>8. /\ s'.byte0 = s.byte0 /\ s'.byte1 = s.byte1 /\ s'.channel = s.channel
      /\ s'.repeat = s.repeat /\ s'.byteIdx = s.byteIdx /\ s'.bitIdx = s.bitIdx
      /\ s'.inGap = 0
  BY <1>p, <1>s DEF Legacy!LegacyState
<1>9. /\ ear'.request = ear.request /\ ear'.line = ear.line /\ ear'.bytes = <<>>
      /\ ear'.sinceStart = Legacy!SpacingTicks(s.channel) /\ ear'.copies = ear.copies
  BY <1>p, <1>e, <1>6 DEF LegacyEar
<1>10. ~(s'.inGap = 1 \/ s'.repeat = 5) /\ Legacy!FirstBit'
  BY <1>2, <1>8 DEF Legacy!FirstBit
<1>11. Legacy!MessagesAreSpaced'
  BY <1>8, <1>9 DEF Legacy!MessagesAreSpaced
<1>12. /\ s'.byteIdx = 0 /\ s'.bitIdx = 0
       /\ ear'.copies = s'.repeat /\ s'.channel = ear'.request.channel
       /\ s'.byte0 = 16 * ear'.request.channel + ear'.request.orange
       /\ s'.byte1 = 16 * ear'.request.yellow + Legacy!Check(ear'.request)
       /\ Sampled(ear'.line, s'.byte0, 0)
  BY <1>2, <1>3, <1>4, <1>8, <1>9
<1>13. LegacyInv'
  BY <1>7, <1>9, <1>10, <1>11, <1>12 DEF LegacyInv
<1>14. SharedInv'
  BY <1>1, <1>5 DEF IInv, SharedInv, PF!TogglesAlternate, Engine
<1> QED
  BY <1>1, <1>13, <1>14 DEF IInv, PFInv, RCXInv

\* The first byte heard, and the second after it.
LEMMA TwoBytes ==
  ASSUME NEW a \in U8, NEW b \in U8
  PROVE  Append(<<>>, a) = <<a>> /\ Append(<<a>>, b) = <<a, b>>
<1> DEFINE w == <<a>>
           z == Append(w, b)
           one == 1
<1>1. w \in Seq(U8) /\ Len(w) = one /\ w[one] = a /\ one \in Nat
  OBVIOUS
<1>2. one = 1 /\ one + 1 = 2
  OBVIOUS
<1> HIDE DEF w, one
<1>3. Len(z) = one + 1 /\ z \in Seq(U8) /\ z[one + 1] = b
  BY <1>1
<1>4. z[one] = a
  <2>1. one \in 1 .. Len(w)
    BY <1>1, <1>2
  <2> QED
    BY <1>1, <2>1
<1> HIDE DEF z
<1>5. z = <<a, b>>
  BY <1>2, <1>3, <1>4
<1>6. Append(<<>>, a) = <<a>>
  OBVIOUS
<1> QED
  BY <1>5, <1>6 DEF z, w

\* A bit, and after the last of a message its count and the gap.
LEMMA LegacyBitInv ==
  ASSUME IInv, active = "Legacy", Legacy!SendBit, UNCHANGED toggles
  PROVE  IInv'
<1>0. LegacyPlace
  BY LegacyFieldsType
<1>p. /\ s \in Legacy!LegacyState /\ s.byte0 \in U8 /\ s.byte1 \in U8
      /\ s.byteIdx \in {0, 1} /\ s.bitIdx \in 0 .. 10
  BY <1>0 DEF LegacyPlace
<1>h. ear \in LegacyEar /\ ear.sinceStart \in Nat
  BY <1>0 DEF LegacyPlace
<1>q. s.repeat \in 0 .. 4 /\ s.inGap = 0
  BY <1>0 DEF LegacyPlace, Legacy!SendBit, Legacy!RepeatCount
<1> DEFINE b == IF s.byteIdx = 0 THEN s.byte0 ELSE s.byte1
           on == Legacy!CarrierFor(b, s.bitIdx)
           e1 == Legacy!Hear(ear, on)
           since == IF Legacy!FirstBit THEN 32 ELSE ear.sinceStart + 32
           n == IF Legacy!LastBit THEN ear.copies + 1 ELSE ear.copies
<1>1. /\ active' = "Legacy" /\ reloadCounts' = reloadCounts
      /\ carrierOn' = on /\ ticks' = 32
      /\ pfToggle' = pfToggle /\ receivers' = receivers
  BY DEF Legacy!SendBit, Legacy!Load, Legacy!BitTicks, toggles
<1>s. s' = Legacy!AfterBit(s)
  BY DEF Legacy!SendBit
<1>e. ear' = [e1 EXCEPT !.sinceStart = IF Legacy!FirstBit THEN 32 ELSE @ + 32,
                        !.copies = IF Legacy!LastBit THEN @ + 1 ELSE @]
  BY DEF Legacy!SendBit, Legacy!BitTicks
<1>2. /\ ear.copies = s.repeat /\ s.channel = ear.request.channel
      /\ s.byte0 = 16 * ear.request.channel + ear.request.orange
      /\ s.byte1 = 16 * ear.request.yellow + Legacy!Check(ear.request)
  BY DEF IInv, LegacyInv
<1>3. ~Legacy!FirstBit => ear.sinceStart = 32 * (11 * s.byteIdx + s.bitIdx)
  BY DEF IInv, LegacyInv
<1>4. Sampled(ear.line, b, s.bitIdx)
  BY DEF IInv, LegacyInv
<1>5. ear.bytes = IF s.byteIdx = 1 THEN <<s.byte0>> ELSE <<>>
  BY <1>q DEF IInv, LegacyInv
<1>6. b \in U8
  BY <1>p
<1>7. b = IF s.byteIdx = 0 THEN s.byte0 ELSE s.byte1
  OBVIOUS
<1> HIDE DEF b
<1>8. on \in {0, 1}
  BY <1>6, <1>p, CarrierType
<1>9. /\ e1 \in LegacyEar /\ e1.request = ear.request
      /\ e1.sinceStart = ear.sinceStart /\ e1.copies = ear.copies
      /\ s.bitIdx < 10 => Sampled(e1.line, b, s.bitIdx + 1) /\ e1.bytes = ear.bytes
      /\ s.bitIdx = 10 => e1.line = <<>> /\ e1.bytes = Append(ear.bytes, b)
  <2>1. PICK c \in U8 : c = b
    BY <1>6
  <2>2. PICK k \in 0 .. 10 : k = s.bitIdx
    BY <1>p
  <2>3. PICK e \in LegacyEar : e = ear
    BY <1>h
  <2>4. Sampled(e.line, c, k)
    BY <1>4, <2>1, <2>2, <2>3
  <2> DEFINE e2 == Legacy!Hear(e, Legacy!CarrierFor(c, k))
  <2>5. /\ e2 \in LegacyEar /\ e2.request = e.request
        /\ e2.sinceStart = e.sinceStart /\ e2.copies = e.copies
        /\ k < 10 => Sampled(e2.line, c, k + 1) /\ e2.bytes = e.bytes
        /\ k = 10 => e2.line = <<>> /\ e2.bytes = Append(e.bytes, c)
    BY <2>4, HearLegacy
  <2>6. e2 = e1
    BY <2>1, <2>2, <2>3
  <2> HIDE DEF e2, e1
  <2> QED
    BY <2>1, <2>2, <2>3, <2>5, <2>6
<1>10. since \in Nat /\ n \in Nat /\ since = 32 * (11 * s.byteIdx + s.bitIdx) + 32
  <2>1. ear.copies \in Nat
    BY <1>2, <1>q
  <2>2. Legacy!FirstBit => s.byteIdx = 0 /\ s.bitIdx = 0
    BY DEF Legacy!FirstBit
  <2> QED
    BY <1>3, <1>h, <1>p, <2>1, <2>2
<1>11. ear' = [e1 EXCEPT !.sinceStart = since, !.copies = n]
  BY <1>e, <1>9
<1>12. n = IF Legacy!LastBit THEN s.repeat + 1 ELSE s.repeat
  BY <1>2
<1> HIDE DEF on, e1, since, n
<1>13. ear' \in LegacyEar
  BY <1>9, <1>10, <1>11, LegacyHears
<1>14. /\ ear'.request = ear.request /\ ear'.line = e1.line /\ ear'.bytes = e1.bytes
       /\ ear'.sinceStart = since /\ ear'.copies = n
  BY <1>9, <1>11 DEF LegacyEar
<1>15. ASSUME s' \in Legacy!LegacyState, s'.byte0 = s.byte0, s'.byte1 = s.byte1,
              s'.channel = s.channel, Legacy!FirstBit' => s'.inGap = 1 \/ s'.repeat = 5,
              s'.inGap = 1 \/ s'.repeat = 5 => Legacy!FirstBit' /\ since = 704,
              s'.inGap = 1 => s'.repeat \in 1 .. 4, n = s'.repeat,
              ~Legacy!FirstBit' => since = 32 * (11 * s'.byteIdx + s'.bitIdx),
              Sampled(e1.line, IF s'.byteIdx = 0 THEN s.byte0 ELSE s.byte1, s'.bitIdx),
              e1.bytes = IF s'.byteIdx = 1 THEN <<s.byte0>>
                         ELSE IF s'.inGap = 1 \/ s'.repeat = 5
                              THEN <<s.byte0, s.byte1>> ELSE <<>>
       PROVE  LegacyInv'
  <2>1. Legacy!MessagesAreSpaced'
    BY <1>15 DEF Legacy!MessagesAreSpaced, Legacy!RepeatCount
  <2> QED
    BY <1>2, <1>13, <1>14, <1>15, <2>1 DEF LegacyInv
<1>16. LegacyInv'
  <2>1. CASE s.bitIdx < 10
    <3>1. s' = [s EXCEPT !.bitIdx = s.bitIdx + 1] /\ ~Legacy!LastBit
      BY <1>s, <2>1 DEF Legacy!AfterBit, Legacy!LastBit
    <3>2. s.bitIdx + 1 \in 0 .. 10 /\ s.bitIdx + 1 # 0
      BY <1>p, <2>1
    <3>3. s' \in Legacy!LegacyState
      BY <1>p, <3>1, <3>2, LegacyMoves
    <3>4. /\ s'.byte0 = s.byte0 /\ s'.byte1 = s.byte1 /\ s'.channel = s.channel
          /\ s'.repeat = s.repeat /\ s'.byteIdx = s.byteIdx /\ s'.inGap = 0
          /\ s'.bitIdx = s.bitIdx + 1
      BY <1>p, <1>q, <3>1 DEF Legacy!LegacyState
    <3>5. ~Legacy!FirstBit' /\ ~(s'.inGap = 1 \/ s'.repeat = 5)
      BY <1>q, <3>2, <3>4 DEF Legacy!FirstBit
    <3>6. since = 32 * (11 * s'.byteIdx + s'.bitIdx)
      BY <1>10, <1>p, <3>4
    <3>7. n = s'.repeat /\ s'.inGap # 1
      BY <1>12, <3>1, <3>4
    <3>8. Sampled(e1.line, IF s'.byteIdx = 0 THEN s.byte0 ELSE s.byte1, s'.bitIdx)
      BY <1>7, <1>9, <2>1, <3>4
    <3>9. e1.bytes = IF s'.byteIdx = 1 THEN <<s.byte0>> ELSE <<>>
      BY <1>5, <1>9, <2>1, <3>4
    <3> QED
      BY <1>15, <3>3, <3>4, <3>5, <3>6, <3>7, <3>8, <3>9
  <2>2. CASE s.bitIdx = 10 /\ s.byteIdx = 0
    <3>1. s' = [s EXCEPT !.bitIdx = 0, !.byteIdx = 1] /\ ~Legacy!LastBit
      BY <1>s, <2>2 DEF Legacy!AfterBit, Legacy!LastBit
    <3>2. 0 \in 0 .. 10 /\ 1 \in {0, 1}
      OBVIOUS
    <3>3. s' \in Legacy!LegacyState
      BY <1>p, <3>1, <3>2, LegacyMoves
    <3>4. /\ s'.byte0 = s.byte0 /\ s'.byte1 = s.byte1 /\ s'.channel = s.channel
          /\ s'.repeat = s.repeat /\ s'.byteIdx = 1 /\ s'.inGap = 0 /\ s'.bitIdx = 0
      BY <1>p, <1>q, <3>1 DEF Legacy!LegacyState
    <3>5. ~Legacy!FirstBit' /\ ~(s'.inGap = 1 \/ s'.repeat = 5)
      BY <1>q, <3>4 DEF Legacy!FirstBit
    <3>6. since = 32 * (11 * s'.byteIdx + s'.bitIdx)
      BY <1>10, <2>2, <3>4
    <3>7. n = s'.repeat /\ s'.inGap # 1
      BY <1>12, <3>1, <3>4
    <3>8. Sampled(e1.line, IF s'.byteIdx = 0 THEN s.byte0 ELSE s.byte1, s'.bitIdx)
      BY <1>9, <2>2, <3>4 DEF Sampled
    <3>9. e1.bytes = <<s.byte0>>
      BY <1>5, <1>7, <1>9, <1>p, <2>2, TwoBytes
    <3> QED
      BY <1>15, <3>3, <3>4, <3>5, <3>6, <3>7, <3>8, <3>9
  <2>3. CASE s.bitIdx = 10 /\ s.byteIdx = 1
    <3> DEFINE g == IF s.repeat + 1 < 5 THEN 1 ELSE 0
    <3>1. /\ s' = [s EXCEPT !.bitIdx = 0, !.byteIdx = 0, !.repeat = s.repeat + 1,
                            !.inGap = g]
          /\ Legacy!LastBit
      BY <1>s, <2>3 DEF Legacy!AfterBit, Legacy!LastBit, Legacy!RepeatCount
    <3>2. 0 \in 0 .. 10 /\ 0 \in {0, 1} /\ s.repeat + 1 \in 0 .. Legacy!RepeatCount
          /\ g \in {0, 1}
      BY <1>q DEF Legacy!RepeatCount
    <3>3. s.repeat + 1 \in 1 .. 5 /\ (g = 1 <=> s.repeat + 1 # 5)
      BY <1>q
    <3> HIDE DEF g
    <3>4. s' \in Legacy!LegacyState
      BY <1>p, <3>1, <3>2, LegacyMoves
    <3>5. /\ s'.byte0 = s.byte0 /\ s'.byte1 = s.byte1 /\ s'.channel = s.channel
          /\ s'.repeat = s.repeat + 1 /\ s'.byteIdx = 0 /\ s'.inGap = g /\ s'.bitIdx = 0
      BY <1>p, <1>q, <3>1 DEF Legacy!LegacyState
    <3>6. Legacy!FirstBit' /\ (s'.inGap = 1 \/ s'.repeat = 5)
      BY <3>3, <3>5 DEF Legacy!FirstBit
    <3>7. since = 704
      BY <1>10, <2>3
    <3>8. n = s'.repeat /\ (s'.inGap = 1 => s'.repeat \in 1 .. 4)
      BY <1>12, <3>1, <3>3, <3>5
    <3>9. Sampled(e1.line, IF s'.byteIdx = 0 THEN s.byte0 ELSE s.byte1, s'.bitIdx)
      BY <1>9, <2>3, <3>5 DEF Sampled
    <3>10. e1.bytes = <<s.byte0, s.byte1>>
      BY <1>5, <1>7, <1>9, <1>p, <2>3, TwoBytes
    <3> QED
      BY <1>15, <3>4, <3>5, <3>6, <3>7, <3>8, <3>9, <3>10
  <2> QED
    BY <1>p, <2>1, <2>2, <2>3
<1>17. SharedInv'
  BY <1>1, <1>8 DEF IInv, SharedInv, PF!TogglesAlternate, Engine
<1> QED
  BY <1>1, <1>16, <1>17 DEF IInv, PFInv, RCXInv

-----------------------------------------------------------------------------
(* RCX                                                                     *)

\* What is known of the fields in an RCX burst.
RCXPlace ==
  /\ s \in RCXState /\ ear \in RCXEar /\ ear.silence \in Nat
  /\ s.bytes \in Seq(U8) /\ Len(s.bytes) \in 1 .. 37 /\ s.byteIdx \in 0 .. 37
  /\ s.byteIdx <= Len(s.bytes) /\ s.bitIdx \in 0 .. 10 /\ s.bitTicks \in 30 .. 33
  /\ s.repeat \in 1 .. 15

\* A burst has the fields of its engine.
LEMMA RCXFieldsType == ASSUME IInv, active = "RCX" PROVE RCXPlace
<1>1. s \in RCXState /\ ear \in RCXEar /\ Len(s.bytes) \in 1 .. 37
      /\ s.byteIdx <= Len(s.bytes)
  BY DEF IInv, RCXInv
<1>2. s.bytes \in Seq(U8) /\ s.byteIdx \in 0 .. 37
  BY <1>1 DEF RCXState
<1>3. s.bitIdx \in 0 .. 10 /\ s.bitTicks \in 30 .. 33 /\ s.repeat \in 1 .. 15
  BY <1>1 DEF RCXState
<1>4. ear.silence \in Nat
  BY <1>1 DEF RCXEar
<1> QED
  BY <1>1, <1>2, <1>3, <1>4, Zenon DEF RCXPlace

\* Phases keep the fields' types.
LEMMA RCXMoves ==
  ASSUME NEW st \in RCXState, NEW b \in 0 .. 10
  PROVE  /\ [st EXCEPT !.bitIdx = b] \in RCXState
         /\ \A y \in 0 .. 37 : [st EXCEPT !.bitIdx = b, !.byteIdx = y] \in RCXState
         /\ \A y \in 0 .. 37, r \in 1 .. 15 :
              [st EXCEPT !.repeat = r, !.byteIdx = y, !.bitIdx = b] \in RCXState
<1>1. [st EXCEPT !.bitIdx = b] \in RCXState
  BY DEF RCXState
<1>2. \A y \in 0 .. 37 : [st EXCEPT !.bitIdx = b, !.byteIdx = y] \in RCXState
  BY DEF RCXState
<1>3. \A y \in 0 .. 37, r \in 1 .. 15 :
        [st EXCEPT !.repeat = r, !.byteIdx = y, !.bitIdx = b] \in RCXState
  BY DEF RCXState
<1> QED
  BY <1>1, <1>2, <1>3

\* So does what the receiver makes of them.
LEMMA RCXHears ==
  ASSUME NEW e \in RCXEar, NEW t \in Nat
  PROVE  /\ \A n \in Nat : [e EXCEPT !.silence = t, !.copies = n] \in RCXEar
         /\ [e EXCEPT !.bytes = <<>>, !.silence = t] \in RCXEar
<1>1. \A n \in Nat : [e EXCEPT !.silence = t, !.copies = n] \in RCXEar
  BY DEF RCXEar
<1>2. <<>> \in Seq(U8)
  OBVIOUS
<1>3. \A b \in Seq(U8) : [e EXCEPT !.bytes = b, !.silence = t] \in RCXEar
  BY DEF RCXEar
<1> QED
  BY <1>1, <1>2, <1>3

\* The bit of a byte after the n before it.
LEMMA HearRCX ==
  ASSUME NEW b \in U8, NEW n \in 0 .. 10, NEW e \in RCXEar, Sampled(e.line, b, n),
         NEW e1, e1 = RCX!Hear(e, RCX!CarrierFor(b, n))
  PROVE  /\ e1 \in RCXEar /\ e1.request = e.request
         /\ e1.silence = e.silence /\ e1.copies = e.copies
         /\ n < 10 => Sampled(e1.line, b, n + 1) /\ e1.bytes = e.bytes
         /\ n = 10 => e1.line = <<>> /\ e1.bytes = Append(e.bytes, b)
<1> DEFINE c == Append(e.line, Legacy!CarrierFor(b, n))
<1>0. e.line \in Seq({0, 1}) /\ e.bytes \in Seq(U8)
  BY DEF RCXEar
<1>1. /\ c \in Seq({0, 1})
      /\ n < 10 => ~Legacy!IsByte(c) /\ Sampled(c, b, n + 1)
      /\ n = 10 => Legacy!IsByte(c) /\ Legacy!ByteOf(c) = b
  <2>1. PICK line \in Seq({0, 1}) : line = e.line
    BY <1>0
  <2>2. Sampled(line, b, n)
    BY <2>1
  <2>3. c = Append(line, Legacy!CarrierFor(b, n))
    BY <2>1
  <2> HIDE DEF c
  <2> QED
    BY <2>2, <2>3, HearsByte
<1>2. e1 = IF Legacy!IsByte(c)
           THEN [e EXCEPT !.line = <<>>, !.bytes = Append(e.bytes, Legacy!ByteOf(c))]
           ELSE [e EXCEPT !.line = c]
  <2>1. RCX!CarrierFor(b, n) = Legacy!CarrierFor(b, n)
    BY SameLine
  <2>2. (RCX!IsByte(c) <=> Legacy!IsByte(c)) /\ RCX!ByteOf(c) = Legacy!ByteOf(c)
    BY SameLine
  <2>3. e1 = IF RCX!IsByte(c)
             THEN [e EXCEPT !.line = <<>>, !.bytes = Append(e.bytes, RCX!ByteOf(c))]
             ELSE [e EXCEPT !.line = c]
    BY <2>1 DEF RCX!Hear
  <2> QED
    BY <2>2, <2>3
<1> HIDE DEF c
<1>3. CASE n < 10
  <2>1. e1 = [e EXCEPT !.line = c]
    BY <1>1, <1>2, <1>3
  <2>2. e1 \in RCXEar
    BY <1>1, <2>1 DEF RCXEar
  <2>3. /\ e1.line = c /\ e1.bytes = e.bytes /\ e1.request = e.request
        /\ e1.silence = e.silence /\ e1.copies = e.copies
    BY <2>1 DEF RCXEar
  <2> QED
    BY <1>1, <1>3, <2>2, <2>3
<1>4. CASE n = 10
  <2> DEFINE w == Append(e.bytes, b)
  <2>1. e1 = [e EXCEPT !.line = <<>>, !.bytes = w]
    BY <1>1, <1>2, <1>4
  <2>2. w \in Seq(U8)
    BY <1>0
  <2> HIDE DEF w
  <2>3. <<>> \in Seq({0, 1})
    OBVIOUS
  <2>4. e1 \in RCXEar
    <3>1. \A l \in Seq({0, 1}) : [e EXCEPT !.line = l, !.bytes = w] \in RCXEar
      BY <2>2 DEF RCXEar
    <3> QED
      BY <2>1, <2>3, <3>1
  <2>5. /\ e1.line = <<>> /\ e1.bytes = w /\ e1.request = e.request
        /\ e1.silence = e.silence /\ e1.copies = e.copies
    BY <2>1 DEF RCXEar
  <2> QED
    BY <1>4, <2>4, <2>5 DEF w
<1> QED
  BY <1>3, <1>4

\* A burst begins with the first bit of the frame.
LEMMA StartRCXInv ==
  ASSUME IInv, StartRCX
  PROVE  IInv'
<1>1. PICK send \in RCXSends :
        IF send.raw THEN RCX!StartRCXRaw(send.data, send.options)
                    ELSE RCX!StartRCX(send.data, send.options)
  BY DEF StartRCX
<1> DEFINE bytes == IF send.raw THEN send.data ELSE RCX!Framed(send.data)
           o == send.options
           asked == RCX!CopiesAsked(o)
           counts == RCX!CarrierCounts[RCX!Select(o) + 1]
           bits == RCX!CarrierBits[RCX!Select(o) + 1]
<1>2. RCX!Start(bytes, o)
  BY <1>1 DEF RCX!StartRCX, RCX!StartRCXRaw
<1>3. bytes \in Seq(U8) /\ Len(bytes) \in 1 .. 37 /\ o \in U8
  BY ContentType
<1> HIDE DEF bytes, o
<1>4. /\ RCX!Repeats(o) = asked /\ asked \in 1 .. 15 /\ counts \in 25 .. 28
      /\ bits \in 30 .. 33
  BY <1>3, OptionsType
<1>5. /\ active' = "RCX" /\ reloadCounts' = counts /\ carrierOn' = 0 /\ ticks' = 1
      /\ pfToggle' = pfToggle /\ receivers' = receivers
  BY <1>2 DEF StartRCX, RCX!Start, RCX!Promote, toggles
<1>6. s' = [bytes |-> bytes, byteIdx |-> 0, bitIdx |-> 0, bitTicks |-> bits,
            repeat |-> asked]
  BY <1>2, <1>4 DEF RCX!Start, RCX!Promote
<1>7. ear' = [request |-> [bytes |-> bytes, options |-> o], line |-> <<>>,
              bytes |-> <<>>, silence |-> 0, copies |-> 0]
  BY <1>2 DEF RCX!Start
<1>8. asked = RCX!CopiesAsked(ear'.request.options) /\ ear'.request.bytes = bytes
  BY <1>7
<1> HIDE DEF asked, counts, bits
<1>9. s' \in RCXState
  BY <1>3, <1>4, <1>6 DEF RCXState
<1>10. ear' \in RCXEar
  <2> DEFINE q == [bytes |-> bytes, options |-> o]
  <2>1. q \in [bytes : Seq(U8), options : U8]
    BY <1>3
  <2>2. <<>> \in Seq({0, 1}) /\ <<>> \in Seq(U8)
    OBVIOUS
  <2>3. ear' = [request |-> q, line |-> <<>>, bytes |-> <<>>, silence |-> 0, copies |-> 0]
    BY <1>7
  <2> HIDE DEF q
  <2> QED
    BY <2>1, <2>2, <2>3 DEF RCXEar
<1>11. /\ s'.bytes = bytes /\ s'.byteIdx = 0 /\ s'.bitIdx = 0 /\ s'.repeat = asked
       /\ ear'.line = <<>> /\ ear'.bytes = <<>> /\ ear'.copies = 0
  BY <1>6, <1>7
<1>12. ~RCX!Finished'
  <2>1. s'.byteIdx = 0
    BY <1>11
  <2>2. PICK n \in 1 .. 37 : n = Len(s'.bytes)
    BY <1>3, <1>11
  <2>3. ~(0 >= n)
    OBVIOUS
  <2> QED
    BY <2>1, <2>2, <2>3 DEF RCX!Finished
<1>13. Sampled(ear'.line, s'.bytes[s'.byteIdx + 1], s'.bitIdx)
  BY <1>11 DEF Sampled
<1>14. /\ s'.repeat <= RCX!CopiesAsked(ear'.request.options)
       /\ ear'.copies = RCX!CopiesAsked(ear'.request.options) - s'.repeat
                          + (IF RCX!Finished' THEN 1 ELSE 0)
  BY <1>4, <1>8, <1>11, <1>12
<1>15. /\ Len(ear'.bytes) = s'.byteIdx
       /\ \A k \in 1 .. s'.byteIdx : ear'.bytes[k] = s'.bytes[k]
  BY <1>11
<1>16. reloadCounts' \in 25 .. 28 /\ Len(s'.bytes) \in 1 .. 37 /\ s'.byteIdx <= Len(s'.bytes)
  BY <1>3, <1>4, <1>5, <1>11
<1>17. RCXInv'
  BY <1>8, <1>9, <1>10, <1>11, <1>12, <1>13, <1>14, <1>15, <1>16 DEF RCXInv
<1>18. SharedInv'
  BY <1>4, <1>5 DEF IInv, SharedInv, PF!TogglesAlternate, Engine
<1> QED
  BY <1>5, <1>17, <1>18 DEF IInv, PFInv, LegacyInv

\* A frame has ended, and another copy is to come after the gap.
LEMMA RepeatGapInv ==
  ASSUME IInv, active = "RCX", RCX!RepeatGap, UNCHANGED toggles
  PROVE  IInv'
<1>0. RCXPlace
  BY RCXFieldsType
<1>p. /\ s \in RCXState /\ Len(s.bytes) \in 1 .. 37 /\ s.byteIdx \in 0 .. 37
      /\ s.byteIdx <= Len(s.bytes) /\ s.repeat \in 1 .. 15
  BY <1>0 DEF RCXPlace
<1>h. ear \in RCXEar /\ ear.silence \in Nat
  BY <1>0 DEF RCXPlace
<1>1. /\ active' = "RCX" /\ reloadCounts' = reloadCounts /\ carrierOn' = 0 /\ ticks' = 4615
      /\ pfToggle' = pfToggle /\ receivers' = receivers
  BY DEF RCX!RepeatGap, RCX!Load, RCX!RepeatGapTicks, toggles
<1>s. s' = [s EXCEPT !.repeat = s.repeat - 1, !.byteIdx = 0, !.bitIdx = 0]
  BY DEF RCX!RepeatGap, RCX!Rewind
<1>e. ear' = [ear EXCEPT !.bytes = <<>>, !.silence = ear.silence + 4615]
  BY DEF RCX!RepeatGap, RCX!RepeatGapTicks
<1>q. RCX!Finished /\ s.repeat > 1
  BY DEF RCX!RepeatGap
<1>2. /\ reloadCounts \in 25 .. 28 /\ ear.request.bytes = s.bytes /\ ear.line = <<>>
      /\ s.repeat <= RCX!CopiesAsked(ear.request.options)
      /\ ear.copies = RCX!CopiesAsked(ear.request.options) - s.repeat + 1
  BY <1>q DEF IInv, RCXInv
<1>3. s.repeat - 1 \in 1 .. 15 /\ 0 \in 0 .. 10 /\ 0 \in 0 .. 37
      /\ ear.silence + 4615 \in Nat /\ ear.silence + 4615 >= 4615
  BY <1>p, <1>q, <1>h
<1>4. s' \in RCXState /\ ear' \in RCXEar
  <2>1. s' \in RCXState
    <3>1. PICK r \in 1 .. 15 : r = s.repeat - 1
      BY <1>3
    <3>2. 0 \in 0 .. 37 /\ 0 \in 0 .. 10 /\ s \in RCXState
      BY <1>p
    <3>3. [s EXCEPT !.repeat = r, !.byteIdx = 0, !.bitIdx = 0] \in RCXState
      BY <3>2, RCXMoves
    <3> QED
      BY <1>s, <3>1, <3>3
  <2>2. ear' \in RCXEar
    <3>1. PICK t \in Nat : t = ear.silence + 4615
      BY <1>3
    <3>2. [ear EXCEPT !.bytes = <<>>, !.silence = t] \in RCXEar
      BY <1>h, RCXHears
    <3> QED
      BY <1>e, <3>1, <3>2
  <2> QED
    BY <2>1, <2>2
<1>5. /\ s'.bytes = s.bytes /\ s'.repeat = s.repeat - 1 /\ s'.byteIdx = 0 /\ s'.bitIdx = 0
  BY <1>p, <1>s DEF RCXState
<1>6. /\ ear'.request = ear.request /\ ear'.line = ear.line /\ ear'.bytes = <<>>
      /\ ear'.silence = ear.silence + 4615 /\ ear'.copies = ear.copies
  BY <1>e, <1>h DEF RCXEar
<1>7. ~RCX!Finished'
  <2>1. s'.byteIdx = 0
    BY <1>5
  <2>2. PICK n \in 1 .. 37 : n = Len(s'.bytes)
    BY <1>p, <1>5
  <2>3. ~(0 >= n)
    OBVIOUS
  <2> QED
    BY <2>1, <2>2, <2>3 DEF RCX!Finished
<1>8. Sampled(ear'.line, s'.bytes[s'.byteIdx + 1], s'.bitIdx)
  BY <1>2, <1>5, <1>6 DEF Sampled
<1>9. /\ s'.repeat <= RCX!CopiesAsked(ear'.request.options)
      /\ ear'.copies = RCX!CopiesAsked(ear'.request.options) - s'.repeat
                         + (IF RCX!Finished' THEN 1 ELSE 0)
  <2> DEFINE asked == RCX!CopiesAsked(ear.request.options)
  <2>1. asked \in Int
    <3>1. PICK o \in U8 : o = ear.request.options
      BY <1>h DEF RCXEar
    <3> QED
      BY <3>1, OptionsType
  <2>2. /\ ear.copies = asked - s.repeat + 1 /\ s.repeat <= asked
        /\ asked = RCX!CopiesAsked(ear'.request.options)
    BY <1>2, <1>6
  <2> HIDE DEF asked
  <2>3. s.repeat \in Int /\ s'.repeat = s.repeat - 1 /\ ear'.copies = ear.copies
    BY <1>5, <1>6, <1>p
  <2>4. s'.repeat <= asked /\ ear'.copies = asked - s'.repeat + 0
    BY <2>1, <2>2, <2>3
  <2> QED
    BY <1>7, <2>2, <2>4
<1>10. /\ Len(ear'.bytes) = s'.byteIdx
       /\ \A k \in 1 .. s'.byteIdx : ear'.bytes[k] = s'.bytes[k]
  BY <1>5, <1>6
<1>11. /\ reloadCounts' \in 25 .. 28 /\ Len(s'.bytes) \in 1 .. 37
       /\ s'.byteIdx <= Len(s'.bytes) /\ ear'.request.bytes = s'.bytes
  BY <1>1, <1>2, <1>5, <1>6, <1>p
<1>12. RCXInv'
  BY <1>3, <1>4, <1>5, <1>6, <1>7, <1>8, <1>9, <1>10, <1>11 DEF RCXInv
<1>13. SharedInv'
  BY <1>1 DEF IInv, SharedInv, PF!TogglesAlternate, Engine
<1> QED
  BY <1>1, <1>12, <1>13 DEF IInv, PFInv, LegacyInv

\* The bytes heard are the first of the frame, and one more.
LEMMA OneMoreByte ==
  ASSUME NEW bytes \in Seq(U8), NEW heard \in Seq(U8), NEW n \in Nat, Len(heard) = n,
         n + 1 <= Len(bytes), \A k \in 1 .. n : heard[k] = bytes[k]
  PROVE  LET w == Append(heard, bytes[n + 1])
         IN  Len(w) = n + 1 /\ \A k \in 1 .. n + 1 : w[k] = bytes[k]
<1> DEFINE b == bytes[n + 1]
           w == Append(heard, b)
<1>1. b \in U8
  OBVIOUS
<1> HIDE DEF b
<1>2. Len(w) = n + 1 /\ w[n + 1] = b /\ \A k \in 1 .. n : w[k] = heard[k]
  BY <1>1
<1> HIDE DEF w
<1>3. \A k \in 1 .. n + 1 : w[k] = bytes[k]
  <2> TAKE k \in 1 .. n + 1
  <2>1. k \in 1 .. n \/ k = n + 1
    OBVIOUS
  <2>2. k \in 1 .. n => w[k] = bytes[k]
    BY <1>2
  <2>3. k = n + 1 => w[k] = bytes[k]
    BY <1>2 DEF b
  <2> QED
    BY <2>1, <2>2, <2>3
<1>4. Len(w) = n + 1 /\ \A k \in 1 .. n + 1 : w[k] = bytes[k]
  BY <1>2, <1>3
<1> QED
  BY <1>4 DEF w, b

\* A bit, and after the last of a frame another copy heard.
LEMMA RCXBitInv ==
  ASSUME IInv, active = "RCX", RCX!SendBit, UNCHANGED toggles
  PROVE  IInv'
<1>0. RCXPlace
  BY RCXFieldsType
<1>p. s \in RCXState /\ s.byteIdx \in 0 .. 37 /\ s.bitIdx \in 0 .. 10
  BY <1>0 DEF RCXPlace
<1>l. s.bytes \in Seq(U8) /\ Len(s.bytes) \in 1 .. 37
  BY <1>0 DEF RCXPlace
<1>r. s.repeat \in 1 .. 15 /\ s.bitTicks \in 30 .. 33
  BY <1>0 DEF RCXPlace
<1>h. ear \in RCXEar /\ ear.silence \in Nat /\ ear.bytes \in Seq(U8)
  BY <1>0 DEF RCXPlace, RCXEar
<1>q. ~RCX!Finished /\ s.byteIdx + 1 <= Len(s.bytes)
  <2>1. ~RCX!Finished
    BY DEF RCX!SendBit
  <2>2. PICK n \in 1 .. 37 : n = Len(s.bytes)
    BY <1>l
  <2>3. ~(s.byteIdx >= n)
    BY <2>1, <2>2 DEF RCX!Finished
  <2>4. s.byteIdx + 1 <= n
    BY <1>p, <2>3
  <2> QED
    BY <2>1, <2>2, <2>4
<1> DEFINE b == s.bytes[s.byteIdx + 1]
           on == RCX!CarrierFor(b, s.bitIdx)
           e1 == RCX!Hear(ear, on)
           silence == IF on = 1 THEN 0 ELSE ear.silence + s.bitTicks
           asked == RCX!CopiesAsked(ear.request.options)
           n == IF RCX!LastBit THEN ear.copies + 1 ELSE ear.copies
<1>1. /\ active' = "RCX" /\ reloadCounts' = reloadCounts
      /\ carrierOn' = on /\ ticks' = s.bitTicks
      /\ pfToggle' = pfToggle /\ receivers' = receivers
  BY DEF RCX!SendBit, RCX!Load, toggles
<1>s. s' = RCX!AfterBit(s)
  BY DEF RCX!SendBit
<1>e. ear' = [e1 EXCEPT !.silence = IF on = 1 THEN 0 ELSE @ + s.bitTicks,
                        !.copies = IF RCX!LastBit /\ @ <= 15 THEN @ + 1 ELSE @]
  BY DEF RCX!SendBit, RCX!MaxCopies
<1>2. reloadCounts \in 25 .. 28 /\ ear.request.bytes = s.bytes
  BY DEF IInv, RCXInv
<1>3. ear.copies = asked - s.repeat /\ s.repeat <= asked /\ asked \in 1 .. 15
      /\ ear.copies \in 0 .. 14
  <2>1. asked \in 1 .. 15
    <3>1. PICK o \in U8 : o = ear.request.options
      BY <1>h DEF RCXEar
    <3> QED
      BY <3>1, OptionsType
  <2>2. ear.copies = asked - s.repeat + 0 /\ s.repeat <= asked
    BY <1>q DEF IInv, RCXInv
  <2> HIDE DEF asked
  <2> QED
    BY <1>r, <2>1, <2>2
<1>4. Sampled(ear.line, b, s.bitIdx)
  BY <1>q DEF IInv, RCXInv
<1>5. Len(ear.bytes) = s.byteIdx /\ \A k \in 1 .. s.byteIdx : ear.bytes[k] = s.bytes[k]
  BY DEF IInv, RCXInv
<1>6. b \in U8
  <2>1. PICK w \in Seq(U8) : w = s.bytes
    BY <1>l
  <2>2. PICK i \in 0 .. 37 : i = s.byteIdx
    BY <1>p
  <2>3. i + 1 <= Len(w)
    BY <1>q, <2>1, <2>2
  <2>4. w[i + 1] \in U8
    BY <2>3
  <2> QED
    BY <2>1, <2>2, <2>4
<1>7. b = s.bytes[s.byteIdx + 1]
  OBVIOUS
<1> HIDE DEF b, asked
<1>8. on \in {0, 1}
  <2>1. PICK c \in U8 : c = b
    BY <1>6
  <2>2. PICK k \in 0 .. 10 : k = s.bitIdx
    BY <1>p
  <2>3. RCX!CarrierFor(c, k) = Legacy!CarrierFor(c, k)
    BY SameLine
  <2> QED
    BY <2>1, <2>2, <2>3, CarrierType
<1>9. /\ e1 \in RCXEar /\ e1.request = ear.request
      /\ e1.silence = ear.silence /\ e1.copies = ear.copies
      /\ s.bitIdx < 10 => Sampled(e1.line, b, s.bitIdx + 1) /\ e1.bytes = ear.bytes
      /\ s.bitIdx = 10 => e1.line = <<>> /\ e1.bytes = Append(ear.bytes, b)
  <2>1. PICK c \in U8 : c = b
    BY <1>6
  <2>2. PICK k \in 0 .. 10 : k = s.bitIdx
    BY <1>p
  <2>3. PICK e \in RCXEar : e = ear
    BY <1>h
  <2>4. Sampled(e.line, c, k)
    BY <1>4, <2>1, <2>2, <2>3
  <2> DEFINE e2 == RCX!Hear(e, RCX!CarrierFor(c, k))
  <2>5. /\ e2 \in RCXEar /\ e2.request = e.request
        /\ e2.silence = e.silence /\ e2.copies = e.copies
        /\ k < 10 => Sampled(e2.line, c, k + 1) /\ e2.bytes = e.bytes
        /\ k = 10 => e2.line = <<>> /\ e2.bytes = Append(e.bytes, c)
    BY <2>4, HearRCX
  <2>6. e2 = e1
    BY <2>1, <2>2, <2>3
  <2> HIDE DEF e2, e1
  <2> QED
    BY <2>1, <2>2, <2>3, <2>5, <2>6
<1>10. silence \in Nat /\ n \in Nat
  <2>1. ear.silence + s.bitTicks \in Nat
    BY <1>h, <1>r
  <2>2. ear.copies \in Nat /\ ear.copies + 1 \in Nat
    BY <1>3
  <2> HIDE DEF on
  <2> QED
    BY <2>1, <2>2
<1>11. ear' = [e1 EXCEPT !.silence = silence, !.copies = n]
  <2>1. e1.silence = ear.silence /\ e1.copies = ear.copies /\ ear.copies <= 15
    BY <1>3, <1>9
  <2> HIDE DEF e1, on
  <2> QED
    BY <1>e, <2>1
<1>12. n = IF RCX!LastBit THEN asked - s.repeat + 1 ELSE asked - s.repeat
  BY <1>3
<1> HIDE DEF on, e1, silence, n
<1>13. ear' \in RCXEar
  BY <1>9, <1>10, <1>11, RCXHears
<1>14. /\ ear'.request = ear.request /\ ear'.line = e1.line /\ ear'.bytes = e1.bytes
       /\ ear'.copies = n
  BY <1>9, <1>11 DEF RCXEar
<1>15. ASSUME s' \in RCXState, s'.bytes = s.bytes, s'.repeat = s.repeat,
              s'.byteIdx <= Len(s.bytes), ~RCX!FirstBit',
              RCX!Finished' <=> RCX!LastBit,
              RCX!Finished' => s'.bitIdx = 0 /\ e1.line = <<>>,
              ~RCX!Finished' => Sampled(e1.line, s.bytes[s'.byteIdx + 1], s'.bitIdx),
              Len(e1.bytes) = s'.byteIdx,
              \A k \in 1 .. s'.byteIdx : e1.bytes[k] = s.bytes[k]
       PROVE  RCXInv'
  <2>1. asked = RCX!CopiesAsked(ear'.request.options)
    BY <1>14 DEF asked
  <2>2. ear'.copies = asked - s'.repeat + (IF RCX!Finished' THEN 1 ELSE 0)
    <3>1. asked - s.repeat \in Int
      BY <1>3, <1>r
    <3> QED
      BY <1>12, <1>14, <1>15, <3>1
  <2>3. s'.repeat <= asked
    BY <1>3, <1>15
  <2>4. reloadCounts' \in 25 .. 28 /\ ear'.request.bytes = s'.bytes
        /\ Len(s'.bytes) \in 1 .. 37 /\ s'.byteIdx <= Len(s'.bytes)
    BY <1>1, <1>2, <1>14, <1>15, <1>l
  <2>5. /\ ~RCX!Finished' => Sampled(ear'.line, s'.bytes[s'.byteIdx + 1], s'.bitIdx)
        /\ RCX!Finished' => s'.bitIdx = 0 /\ ear'.line = <<>>
    BY <1>14, <1>15
  <2>6. /\ Len(ear'.bytes) = s'.byteIdx
        /\ \A k \in 1 .. s'.byteIdx : ear'.bytes[k] = s'.bytes[k]
    BY <1>14, <1>15
  <2> QED
    BY <1>13, <1>15, <2>1, <2>2, <2>3, <2>4, <2>5, <2>6 DEF RCXInv
<1>16. RCXInv'
  <2>1. CASE s.bitIdx < 10
    <3>1. s' = [s EXCEPT !.bitIdx = s.bitIdx + 1] /\ ~RCX!LastBit
      BY <1>s, <2>1 DEF RCX!AfterBit, RCX!LastBit
    <3>2. s.bitIdx + 1 \in 0 .. 10 /\ s.bitIdx + 1 # 0
      BY <1>p, <2>1
    <3>3. s' \in RCXState
      BY <1>p, <3>1, <3>2, RCXMoves
    <3>4. /\ s'.bytes = s.bytes /\ s'.repeat = s.repeat /\ s'.byteIdx = s.byteIdx
          /\ s'.bitIdx = s.bitIdx + 1
      BY <1>p, <3>1 DEF RCXState
    <3>5. ~RCX!FirstBit'
      BY <3>2, <3>4 DEF RCX!FirstBit
    <3>6. ~RCX!Finished'
      BY <1>q, <3>4 DEF RCX!Finished
    <3>7. s'.byteIdx <= Len(s.bytes)
      BY <1>0, <3>4 DEF RCXPlace
    <3>8. Sampled(e1.line, s.bytes[s'.byteIdx + 1], s'.bitIdx)
      BY <1>7, <1>9, <2>1, <3>4
    <3>9. /\ Len(e1.bytes) = s'.byteIdx
          /\ \A k \in 1 .. s'.byteIdx : e1.bytes[k] = s.bytes[k]
      BY <1>5, <1>9, <2>1, <3>4
    <3> QED
      BY <1>15, <3>1, <3>3, <3>4, <3>5, <3>6, <3>7, <3>8, <3>9
  <2>2. CASE s.bitIdx = 10
    <3>1. s' = [s EXCEPT !.bitIdx = 0, !.byteIdx = s.byteIdx + 1]
      BY <1>s, <2>2 DEF RCX!AfterBit
    <3>2. PICK m \in 1 .. 37 : m = Len(s.bytes)
      BY <1>l
    <3>3. PICK i \in 0 .. 37 : i = s.byteIdx
      BY <1>p
    <3>4. i + 1 <= m
      BY <1>q, <3>2, <3>3
    <3>5. PICK j \in 0 .. 37 : j = i + 1
      BY <3>4
    <3>6. s' = [s EXCEPT !.bitIdx = 0, !.byteIdx = j]
      BY <3>1, <3>3, <3>5
    <3>7. s' \in RCXState
      <4>1. 0 \in 0 .. 10 /\ s \in RCXState
        BY <1>p
      <4> QED
        BY <3>6, <4>1, RCXMoves
    <3>8. /\ s'.bytes = s.bytes /\ s'.repeat = s.repeat /\ s'.byteIdx = j
          /\ s'.bitIdx = 0
      BY <1>p, <3>6 DEF RCXState
    <3>9. ~RCX!FirstBit'
      BY <3>5, <3>8 DEF RCX!FirstBit
    <3>10. RCX!Finished' <=> RCX!LastBit
      <4>1. RCX!Finished' <=> j >= m
        BY <3>2, <3>8 DEF RCX!Finished
      <4>2. RCX!LastBit <=> i = m - 1
        BY <2>2, <3>2, <3>3 DEF RCX!LastBit
      <4>3. j >= m <=> i = m - 1
        BY <3>4, <3>5
      <4> QED
        BY <4>1, <4>2, <4>3
    <3>11. e1.line = <<>> /\ e1.bytes = Append(ear.bytes, b)
      BY <1>9, <2>2
    <3>12. Sampled(e1.line, s.bytes[s'.byteIdx + 1], s'.bitIdx)
      BY <3>8, <3>11 DEF Sampled
    <3>13. /\ Len(e1.bytes) = s'.byteIdx
           /\ \A k \in 1 .. s'.byteIdx : e1.bytes[k] = s.bytes[k]
      <4>1. PICK bytes \in Seq(U8) : bytes = s.bytes
        BY <1>l
      <4>2. PICK heard \in Seq(U8) : heard = ear.bytes
        BY <1>h
      <4>3. /\ Len(heard) = i /\ i \in Nat /\ i + 1 <= Len(bytes)
            /\ \A k \in 1 .. i : heard[k] = bytes[k]
        BY <1>5, <3>2, <3>3, <3>4, <4>1, <4>2
      <4> DEFINE w == Append(heard, bytes[i + 1])
      <4>4. Len(w) = i + 1 /\ \A k \in 1 .. i + 1 : w[k] = bytes[k]
        BY <4>3, OneMoreByte
      <4>5. w = e1.bytes
        BY <1>7, <3>3, <3>11, <4>1, <4>2
      <4> HIDE DEF w
      <4> QED
        BY <3>5, <3>8, <4>1, <4>4, <4>5
    <3>14. s'.byteIdx <= Len(s.bytes)
      BY <3>2, <3>4, <3>5, <3>8
    <3> QED
      BY <1>15, <3>7, <3>8, <3>9, <3>10, <3>11, <3>12, <3>13, <3>14
  <2> QED
    BY <1>p, <2>1, <2>2
<1>17. SharedInv'
  <2>1. s.bitTicks \in Nat /\ 0 < s.bitTicks /\ s.bitTicks < 65536
    BY <1>r
  <2> QED
    BY <1>1, <1>8, <2>1 DEF IInv, SharedInv, PF!TogglesAlternate, Engine
<1> QED
  BY <1>1, <1>16, <1>17 DEF IInv, PFInv, LegacyInv

-----------------------------------------------------------------------------
(* The invariant is inductive                                              *)

\* A step that changes nothing keeps the invariant.
LEMMA StutterInv == ASSUME IInv, UNCHANGED vars PROVE IInv'
<1>1. /\ active' = active /\ s' = s /\ carrierOn' = carrierOn /\ ticks' = ticks
      /\ reloadCounts' = reloadCounts /\ ear' = ear
      /\ pfToggle' = pfToggle /\ receivers' = receivers
  BY DEF vars, phaseVars, codeVars, toggles
<1>2. SharedInv'
  BY <1>1 DEF IInv, SharedInv, PF!TogglesAlternate
<1>3. PFInv'
  BY <1>1 DEF IInv, PFInv, PF!MessagesAreSpaced
<1>4. LegacyInv'
  BY <1>1 DEF IInv, LegacyInv, Legacy!MessagesAreSpaced, Legacy!FirstBit
<1>5. RCXInv'
  BY <1>1 DEF IInv, RCXInv, RCX!FirstBit, RCX!Finished
<1> QED
  BY <1>2, <1>3, <1>4, <1>5 DEF IInv

\* A phase of the active engine, or the end of its burst, keeps the invariant.
LEMMA PhaseInv == ASSUME IInv, IrNextPhase PROVE IInv'
<1>1. CASE PF!NextPhase
  <2>1. CASE PF!Done
    <3>1. EndBurst /\ UNCHANGED toggles
      BY <2>1 DEF PF!Done, PF!EndBurst, EndBurst, PF!BaseRate, BaseRate,
                  PF!BaseCounts, BaseCounts, PF!Unset, Unset, PF!pfVars, toggles
    <3> QED
      BY <3>1, EndInv
  <2> QED
    BY <1>1, <2>1, MarkInv, StartSpaceInv, BitSpaceInv, PFGapInv DEF PF!NextPhase
<1>2. CASE Legacy!NextPhase /\ UNCHANGED toggles
  <2>1. CASE Legacy!Done
    <3>1. EndBurst
      BY <2>1 DEF Legacy!Done, Legacy!EndBurst, EndBurst, Legacy!BaseRate, BaseRate,
                  Legacy!BaseCounts, BaseCounts, Legacy!Unset, Unset
    <3> QED
      BY <1>2, <3>1, EndInv
  <2> QED
    BY <1>2, <2>1, LegacyGapInv, LegacyBitInv DEF Legacy!NextPhase
<1>3. CASE RCX!NextPhase /\ UNCHANGED toggles
  <2>1. CASE RCX!Done
    <3>1. EndBurst
      BY <2>1 DEF RCX!Done, RCX!EndBurst, EndBurst, RCX!BaseRate, BaseRate,
                  RCX!BaseCounts, BaseCounts, RCX!Unset, Unset
    <3> QED
      BY <1>3, <3>1, EndInv
  <2> QED
    BY <1>3, <2>1, RepeatGapInv, RCXBitInv DEF RCX!NextPhase
<1> QED
  BY <1>1, <1>2, <1>3 DEF IrNextPhase

\* Every step keeps the invariant.
LEMMA StepInv == IInv /\ [Next]_vars => IInv'
<1> SUFFICES ASSUME IInv, [Next]_vars PROVE IInv'
  OBVIOUS
<1>1. CASE StartPF
  BY <1>1, StartPFInv
<1>2. CASE StartLegacy
  BY <1>2, StartLegacyInv
<1>3. CASE StartRCX
  BY <1>3, StartRCXInv
<1>4. CASE IrAbortAll
  BY <1>4, EndInv DEF IrAbortAll
<1>5. CASE ResetState
  BY <1>5, ResetInv
<1>6. CASE IrNextPhase
  BY <1>6, PhaseInv
<1>7. CASE UNCHANGED vars
  BY <1>7, StutterInv
<1> QED
  BY <1>1, <1>2, <1>3, <1>4, <1>5, <1>6, <1>7 DEF Next

\* The invariant holds throughout, for every send (irNextPhase and its encoders).
THEOREM InductiveInvariant == Spec => []IInv
<1>1. Init => IInv
  BY InitInv
<1>2. IInv /\ [Next]_vars => IInv'
  BY StepInv
<1> QED
  BY <1>1, <1>2, PTL DEF Spec

-----------------------------------------------------------------------------
(* What follows from it                                                    *)

\* Each engine finds its own view in the union, its countdowns fit 16 bits and
\* are not empty, and between bursts there is no light.
THEOREM TypeInvariant == Spec => []TypeOK
<1>1. IInv => TypeOK
  <2> SUFFICES ASSUME IInv PROVE TypeOK
    OBVIOUS
  <2>1. PF!TypeOK
    <3>1. active = "PF" => s \in PF!PFState /\ ear.heard \in Seq({"0", "1", "noise"})
      BY PFFieldsType DEF PFPlace, PFHeard
    <3> QED
      BY <3>1 DEF IInv, SharedInv, Memory, PF!TypeOK, PF!Channel, PF!NoToggle
  <2>2. Legacy!TypeOK
    <3>1. active = "Legacy" => s \in Legacy!LegacyState /\ ear \in LegacyEar
      BY DEF IInv, LegacyInv
    <3> QED
      BY <3>1 DEF Legacy!TypeOK, LegacyEar, U8
  <2>3. RCX!TypeOK
    <3> SUFFICES ASSUME active = "RCX"
                 PROVE  /\ s.bytes \in Seq(0 .. 255) /\ Len(s.bytes) \in 1 .. 37
                        /\ s.byteIdx \in 0 .. Len(s.bytes) /\ s.bitIdx \in 0 .. 10
                        /\ s.bitTicks \in 1 .. 255 /\ s.repeat \in 1 .. 15
                        /\ ear.line \in Seq({0, 1}) /\ ear.bytes \in Seq(0 .. 255)
      BY DEF RCX!TypeOK, RCX!Byte, RCX!MaxFramedBytes
    <3>0. RCXPlace
      BY RCXFieldsType
    <3>1. s.bytes \in Seq(0 .. 255) /\ Len(s.bytes) \in 1 .. 37
      BY <3>0 DEF RCXPlace, U8
    <3>2. s.byteIdx \in 0 .. Len(s.bytes)
      <4>1. PICK m \in 1 .. 37 : m = Len(s.bytes)
        BY <3>1
      <4>2. PICK i \in 0 .. 37 : i = s.byteIdx
        BY <3>0 DEF RCXPlace
      <4>3. s.byteIdx <= Len(s.bytes)
        BY <3>0 DEF RCXPlace
      <4>4. i <= m
        BY <4>1, <4>2, <4>3
      <4>5. i \in 0 .. m
        BY <4>4
      <4> QED
        BY <4>1, <4>2, <4>5, Zenon
    <3>5. s.bitIdx \in 0 .. 10
      BY <3>0 DEF RCXPlace
    <3>3. s.bitTicks \in 1 .. 255 /\ s.repeat \in 1 .. 15
      BY <3>0 DEF RCXPlace
    <3>4. ear.line \in Seq({0, 1}) /\ ear.bytes \in Seq(0 .. 255)
      BY <3>0 DEF RCXPlace, RCXEar, U8
    <3> QED
      BY <3>1, <3>2, <3>3, <3>4, <3>5
  <2> QED
    BY <2>1, <2>2, <2>3 DEF IInv, SharedInv, TypeOK
<1> QED
  BY <1>1, InductiveInvariant, PTL

\* The messages of a Power Functions burst are spaced as the protocol says,
\* whatever their bits (pfNextPhase).
THEOREM PFMessagesAlwaysSpaced == Spec => []PFMessagesAreSpaced
<1>1. IInv => PFMessagesAreSpaced
  BY DEF IInv, PFInv, PFMessagesAreSpaced, PF!MessagesAreSpaced
<1> QED
  BY <1>1, InductiveInvariant, PTL

\* From an automatic message heard to the next overridden one heard or reset,
\* the next automatic message has the other toggle bit exactly if an even number
\* of them was cut short unheard in between (pfBuildNibbles, doResetState).
THEOREM PFTogglesAlwaysAlternate == Spec => []PFTogglesAlternate
<1>1. IInv => PFTogglesAlternate
  BY DEF IInv, SharedInv, PFTogglesAlternate
<1> QED
  BY <1>1, InductiveInvariant, PTL

\* Every message is heard bit for bit, with a check that holds, for every
\* channel, mode, datum and override (pfBuildNibbles, pfNextPhase).
THEOREM PFMessagesAlwaysHeard == Spec => []PFReceiverHearsMessage
<1>1. IInv => PFReceiverHearsMessage
  <2> SUFFICES ASSUME IInv, active = "PF", s.pos = 17, s.phase = 1
               PROVE  PF!ReceiverHearsMessage
    BY DEF PFReceiverHearsMessage, PF!ReceiverHearsMessage
  <2>1. /\ Len(ear.heard) = 17 - 1
        /\ \A k \in 0 .. 17 - 2 :
             ear.heard[k + 1] = IF PF!MessageBit(s.nibbles, k) = 1 THEN "1" ELSE "0"
    BY DEF IInv, PFInv
  <2>2. Len(ear.heard) = 16 /\ 17 - 2 = 15
    BY <2>1
  <2>3. OddColumns(s.nibbles)
    BY DEF IInv, PFInv
  <2> QED
    BY <2>1, <2>2, <2>3 DEF PF!ReceiverHearsMessage, OddColumns
<1> QED
  BY <1>1, InductiveInvariant, PTL

\* The messages of a Legacy burst are spaced as the channel asks
\* (legacyNextPhase).
THEOREM LegacyMessagesAlwaysSpaced == Spec => []LegacyMessagesAreSpaced
<1>1. IInv => LegacyMessagesAreSpaced
  BY DEF IInv, LegacyInv, LegacyMessagesAreSpaced, Legacy!MessagesAreSpaced
<1> QED
  BY <1>1, InductiveInvariant, PTL

\* Every Legacy command is heard byte for byte, with a check that holds
\* (irStartLegacy, legacyNextPhase).
THEOREM LegacyCommandsAlwaysHeard == Spec => []LegacyReceiverHearsCommand
<1>1. IInv => LegacyReceiverHearsCommand
  <2> SUFFICES ASSUME IInv, active = "Legacy", Legacy!FirstBit,
                      s.inGap = 1 \/ s.repeat = 5
               PROVE  /\ ear.line = <<>> /\ Len(ear.bytes) = 2
                      /\ Legacy!Nibble(1) = ear.request.channel
                      /\ Legacy!Nibble(2) = ear.request.orange
                      /\ Legacy!Nibble(3) = ear.request.yellow
                      /\ (Legacy!Nibble(1) + Legacy!Nibble(2) + Legacy!Nibble(3)
                            + Legacy!Nibble(4)) % 16 = 0
    BY DEF LegacyReceiverHearsCommand, Legacy!ReceiverHearsCommand, Legacy!RepeatCount
  <2>1. PICK c \in Legacy!Command : c = ear.request
    BY DEF IInv, LegacyInv, LegacyEar
  <2>2. /\ s.byte0 = 16 * c.channel + c.orange
        /\ s.byte1 = 16 * c.yellow + Legacy!Check(c)
    BY <2>1 DEF IInv, LegacyInv
  <2>3. s.byteIdx = 0 /\ s.bitIdx = 0
    BY DEF Legacy!FirstBit
  <2>4. ear.bytes = <<s.byte0, s.byte1>>
    BY <2>3 DEF IInv, LegacyInv
  <2>5. ear.line = <<>>
    <3>1. Sampled(ear.line, s.byte0, 0)
      BY <2>3 DEF IInv, LegacyInv
    <3>2. ear.line \in Seq({0, 1})
      BY DEF IInv, LegacyInv, LegacyEar
    <3> QED
      BY <3>1, <3>2 DEF Sampled
  <2> DEFINE k == Legacy!Check(c)
  <2>6. /\ c.channel \in 4 .. 7 /\ c.orange \in 0 .. 15 /\ c.yellow \in 0 .. 15
        /\ k \in 0 .. 15 /\ (c.channel + c.orange + c.yellow + k) % 16 = 0
    BY CommandBytes
  <2>7. \A x \in 0 .. 15, y \in 0 .. 15 : (16 * x + y) \div 16 = x /\ (16 * x + y) % 16 = y
    OBVIOUS
  <2>8. /\ Legacy!Nibble(1) = s.byte0 \div 16 /\ Legacy!Nibble(2) = s.byte0 % 16
        /\ Legacy!Nibble(3) = s.byte1 \div 16 /\ Legacy!Nibble(4) = s.byte1 % 16
    <3>1. /\ 1 % 2 = 1 /\ 2 % 2 = 0 /\ 3 % 2 = 1 /\ 4 % 2 = 0
          /\ (1 + 1) \div 2 = 1 /\ (2 + 1) \div 2 = 1
          /\ (3 + 1) \div 2 = 2 /\ (4 + 1) \div 2 = 2
      OBVIOUS
    <3>2. ear.bytes[1] = s.byte0 /\ ear.bytes[2] = s.byte1
      BY <2>4
    <3> QED
      BY <3>1, <3>2 DEF Legacy!Nibble
  <2> HIDE DEF k
  <2>9. s.byte1 = 16 * c.yellow + k
    BY <2>2 DEF k
  <2>10. /\ s.byte0 \div 16 = c.channel /\ s.byte0 % 16 = c.orange
         /\ s.byte1 \div 16 = c.yellow /\ s.byte1 % 16 = k
    <3>1. PICK x \in 0 .. 15 : x = c.channel
      BY <2>6
    <3>2. PICK y \in 0 .. 15 : y = c.orange
      BY <2>6
    <3>3. PICK z \in 0 .. 15 : z = c.yellow
      BY <2>6
    <3>4. PICK q \in 0 .. 15 : q = k
      BY <2>6
    <3>5. s.byte0 = 16 * x + y /\ s.byte1 = 16 * z + q
      BY <2>2, <2>9, <3>1, <3>2, <3>3, <3>4
    <3>6. (16 * x + y) \div 16 = x /\ (16 * x + y) % 16 = y
      BY <2>7
    <3>7. (16 * z + q) \div 16 = z /\ (16 * z + q) % 16 = q
      BY <2>7
    <3> QED
      BY <3>1, <3>2, <3>3, <3>4, <3>5, <3>6, <3>7
  <2>11. Len(ear.bytes) = 2
    BY <2>4
  <2> QED
    BY <2>1, <2>5, <2>6, <2>8, <2>10, <2>11
<1> QED
  BY <1>1, InductiveInvariant, PTL

\* At the end of every frame the receiver has exactly the bytes of the send,
\* whatever they are and however many (irStartRCX, rcxNextPhase).
THEOREM RCXFramesAlwaysHeard == Spec => []RCXReceiverHearsFrame
<1>1. IInv => RCXReceiverHearsFrame
  <2> SUFFICES ASSUME IInv, active = "RCX", RCX!Finished
               PROVE  ear.line = <<>> /\ ear.bytes = ear.request.bytes
    BY DEF RCXReceiverHearsFrame, RCX!ReceiverHearsFrame
  <2>1. /\ ear.line = <<>> /\ ear.request.bytes = s.bytes /\ Len(ear.bytes) = s.byteIdx
        /\ \A k \in 1 .. s.byteIdx : ear.bytes[k] = s.bytes[k]
    BY DEF IInv, RCXInv
  <2>2. PICK w \in Seq(U8) : w = s.bytes
    BY DEF IInv, RCXInv, RCXState
  <2>3. PICK h \in Seq(U8) : h = ear.bytes
    BY DEF IInv, RCXInv, RCXEar
  <2>4. PICK i \in 0 .. 37 : i = s.byteIdx
    BY DEF IInv, RCXInv, RCXState
  <2>5. i <= Len(w) /\ i >= Len(w)
    BY <2>2, <2>4 DEF IInv, RCXInv, RCX!Finished
  <2>6. Len(h) = Len(w) /\ \A k \in 1 .. Len(w) : h[k] = w[k]
    BY <2>1, <2>2, <2>3, <2>4, <2>5
  <2>7. h = w
    BY <2>6
  <2> QED
    BY <2>1, <2>2, <2>3, <2>7
<1> QED
  BY <1>1, InductiveInvariant, PTL

\* The gap before a repeated frame outlasts the brick's reply at every carrier
\* (RCX_REPEAT_GAP_TICKS).
THEOREM RCXRepeatsAlwaysLeaveGap == Spec => []RCXRepeatsLeaveGap
<1>1. IInv => RCXRepeatsLeaveGap
  <2> SUFFICES ASSUME IInv, active = "RCX", RCX!FirstBit, ear.copies > 0
               PROVE  ear.silence * reloadCounts >= 90000
    BY DEF RCXRepeatsLeaveGap, RCX!RepeatsLeaveGap
  <2>1. ear.silence >= 4615 /\ reloadCounts \in 25 .. 28
    BY DEF IInv, RCXInv
  <2>2. ear.silence \in Nat
    BY DEF IInv, RCXInv, RCXEar
  <2>3. \A x \in Nat : x >= 4615 => x * 25 >= 90000 /\ x * 26 >= 90000
                                     /\ x * 27 >= 90000 /\ x * 28 >= 90000
    OBVIOUS
  <2>4. reloadCounts = 25 \/ reloadCounts = 26 \/ reloadCounts = 27 \/ reloadCounts = 28
    BY <2>1
  <2> QED
    BY <2>1, <2>2, <2>3, <2>4
<1> QED
  BY <1>1, InductiveInvariant, PTL

\* The host is told a send is done only when all its copies have been heard
\* (irNextPhase returning 0).
THEOREM DoneAlwaysMeansSent == Spec => DoneMeansSent
<1>1. IInv /\ [Next]_vars =>
        [active' = "none" /\ IrNextPhase => ear.copies = CopiesAsked]_vars
  <2> SUFFICES ASSUME IInv, active' = "none", IrNextPhase PROVE ear.copies = CopiesAsked
    OBVIOUS
  <2>1. CASE PF!NextPhase
    <3>1. active = "PF"
      BY <2>1 DEF PF!NextPhase
    <3>2. PF!Done
      BY <2>1, <3>1 DEF PF!NextPhase, PF!Mark, PF!StartSpace, PF!BitSpace, PF!Gap,
                        PF!Space, PF!Load
    <3>3. s.pos = 17 /\ s.phase = 1 /\ s.repeat + 1 >= 5
      BY <3>2 DEF PF!Done, PF!LastCopy, PF!RepeatCount
    <3>4. s.repeat \in 0 .. 4
      BY <3>1, PFFieldsType DEF PFPlace
    <3>5. ear.copies = s.repeat + 1
      BY <3>1, <3>3 DEF IInv, PFInv
    <3>6. CopiesAsked = 5
      BY <3>1 DEF CopiesAsked, PF!RepeatCount
    <3> QED
      BY <3>3, <3>4, <3>5, <3>6
  <2>2. CASE Legacy!NextPhase
    <3>1. active = "Legacy"
      BY <2>2 DEF Legacy!NextPhase
    <3>2. Legacy!Done
      BY <2>2, <3>1 DEF Legacy!NextPhase, Legacy!Gap, Legacy!SendBit, Legacy!Load
    <3>3. s.repeat >= 5 /\ s.repeat \in 0 .. 5
      BY <3>1, <3>2, LegacyFieldsType DEF LegacyPlace, Legacy!Done, Legacy!RepeatCount
    <3>4. ear.copies = s.repeat
      BY <3>1 DEF IInv, LegacyInv
    <3>5. CopiesAsked = 5
      BY <3>1 DEF CopiesAsked, Legacy!RepeatCount
    <3> QED
      BY <3>3, <3>4, <3>5
  <2>3. CASE RCX!NextPhase
    <3>1. active = "RCX"
      BY <2>3 DEF RCX!NextPhase
    <3>2. RCX!Done
      BY <2>3, <3>1 DEF RCX!NextPhase, RCX!RepeatGap, RCX!SendBit, RCX!Load
    <3>3. RCX!Finished /\ s.repeat <= 1 /\ s.repeat \in 1 .. 15
      BY <3>1, <3>2, RCXFieldsType DEF RCXPlace, RCX!Done
    <3>4. s.repeat = 1
      BY <3>3
    <3>5. ear.copies = RCX!CopiesAsked(ear.request.options) - 1 + 1
      BY <3>1, <3>3, <3>4 DEF IInv, RCXInv
    <3>6. CopiesAsked = RCX!CopiesAsked(ear.request.options)
      BY <3>1 DEF CopiesAsked
    <3>7. PICK o \in U8 : o = ear.request.options
      BY <3>1 DEF IInv, RCXInv, RCXEar
    <3>8. RCX!CopiesAsked(o) \in 1 .. 15
      BY OptionsType
    <3> QED
      BY <3>5, <3>6, <3>7, <3>8
  <2> QED
    BY <2>1, <2>2, <2>3 DEF IrNextPhase
<1> QED
  BY <1>1, InductiveInvariant, PTL DEF Spec, DoneMeansSent

-----------------------------------------------------------------------------
(* The bursts are those IREngine assumes                                   *)

\* The longest burst is a frame of 37 bytes sent 15 times.
LEMMA MostPhases == 15 * (11 * RCX!MaxFramedBytes + 1) - 1 = 6119
  BY DEF RCX!MaxFramedBytes

\* The phases to come, engine by engine, now and after a step.
LEMMA RemainingCases ==
  /\ active = "none" => Remaining = 0
  /\ active = "PF" => Remaining = 36 * (5 - s.repeat) - 1 - 2 * s.pos - s.phase
  /\ active = "Legacy" =>
       Remaining = IF s.repeat = 5 THEN 0
                   ELSE 23 * (5 - s.repeat) - 1 + s.inGap - 11 * s.byteIdx - s.bitIdx
  /\ active = "RCX" =>
       Remaining = (11 * Len(s.bytes) + 1) * s.repeat - 1 - 11 * s.byteIdx - s.bitIdx
<1>1. active = "none" => Remaining = 0
  BY DEF Remaining
<1>2. active = "PF" => Remaining = 36 * (5 - s.repeat) - 1 - 2 * s.pos - s.phase
  BY DEF Remaining, PF!Remaining, PF!RepeatCount
<1>3. active = "Legacy" => Remaining = Legacy!Remaining
  BY DEF Remaining
<1>4. active = "RCX" => Remaining = RCX!Remaining
  BY DEF Remaining
<1> QED
  BY <1>1, <1>2, <1>3, <1>4 DEF Legacy!Remaining, Legacy!RepeatCount, RCX!Remaining

\* A promotion is a Start of IRBurst.
LEMMA BurstStarts ==
  ASSUME active = "none", active' \in Engine, NEW p \in Nat, Remaining' = p,
         1 <= p, p <= 6119
  PROVE  Burst!Start
<1> DEFINE M == 15 * (11 * RCX!MaxFramedBytes + 1) - 1
<1>1. M = 6119
  BY MostPhases
<1> HIDE DEF M
<1>2. p \in 1 .. M
  BY <1>1
<1> QED
  BY <1>2 DEF Burst!Start, M

\* A phase is a Load of IRBurst.
LEMMA BurstLoads ==
  ASSUME active # "none", active' = active, ticks' # 0,
         NEW p \in Nat, Remaining = p, p > 0, Remaining' = p - 1
  PROVE  Burst!Load
  BY DEF Burst!Load

\* The end of a burst, done or cut short, is an End of IRBurst.
LEMMA BurstEndsOrRests ==
  ASSUME active \in Engine \cup {"none"}, EndBurst
  PROVE  Burst!End \/ UNCHANGED Burst!bvars
<1>1. active' = "none"
  BY DEF EndBurst
<1>2. Remaining' = 0
  BY <1>1 DEF Remaining
<1>3. CASE active = "none"
  BY <1>1, <1>2, <1>3, RemainingCases DEF Burst!bvars
<1>4. CASE active # "none"
  BY <1>1, <1>2, <1>4 DEF Burst!End
<1> QED
  BY <1>3, <1>4

\* The phases of n bytes sent r times with their gaps: no less than one copy, no
\* more than the longest burst, and one copy less with one repeat less.
LEMMA FramePhases ==
  ASSUME NEW n \in 1 .. 37, NEW r \in 1 .. 15
  PROVE  /\ (11 * n + 1) * r \in Nat /\ (11 * n + 1) * r <= 6120
         /\ (11 * n + 1) * r >= 11 * n + 1
         /\ (11 * n + 1) * (r - 1) = (11 * n + 1) * r - (11 * n + 1)
<1>1. 11 * n + 1 \in 12 .. 408
  OBVIOUS
<1> DEFINE P(x, y) == x * y \in Nat /\ x * y <= 6120 /\ x * y >= x /\ x * (y - 1) = x * y - x
<1>2. \A x \in 12 .. 408 : P(x, r)
  <2> TAKE x \in 12 .. 408
  <2>1. \/ r = 1 \/ r = 2 \/ r = 3 \/ r = 4 \/ r = 5 \/ r = 6 \/ r = 7 \/ r = 8
        \/ r = 9 \/ r = 10 \/ r = 11 \/ r = 12 \/ r = 13 \/ r = 14 \/ r = 15
    OBVIOUS
  <2> QED
    BY <2>1
<1> QED
  BY <1>1, <1>2

\* A Power Functions burst begins with 179 phases to come, and is a Start.
LEMMA PFServed == ASSUME IInv, StartPF PROVE Burst!Start
<1>1. PICK send \in PFSends : PF!Start(send.channel, send.mode, send.data, send.flags)
  BY DEF StartPF
<1>2. active = "none" /\ active' = "PF"
  BY <1>1 DEF PF!Start, PF!Promote
<1>3. s'.repeat = 0 /\ s'.pos = 0 /\ s'.phase = 0
  BY <1>1 DEF PF!Start, PF!Promote
<1>4. Remaining' = 179
  <2>1. Remaining' = 36 * (5 - s'.repeat) - 1 - 2 * s'.pos - s'.phase
    BY <1>2 DEF Remaining, PF!Remaining, PF!RepeatCount
  <2> QED
    BY <1>3, <2>1
<1>5. 179 \in Nat /\ 1 <= 179 /\ 179 <= 6119
  OBVIOUS
<1> QED
  BY <1>2, <1>4, <1>5, BurstStarts DEF Engine

\* A Legacy burst begins with 114, and is a Start.
LEMMA LegacyServed == ASSUME IInv, StartLegacy PROVE Burst!Start
<1>1. PICK c \in LegacySends : Legacy!Start(c)
  BY DEF StartLegacy
<1>2. active = "none" /\ active' = "Legacy"
  BY <1>1 DEF Legacy!Start, Legacy!Promote
<1>3. s'.repeat = 0 /\ s'.byteIdx = 0 /\ s'.bitIdx = 0 /\ s'.inGap = 0
  BY <1>1 DEF Legacy!Start, Legacy!Promote
<1>4. Remaining' = 114
  <2>1. Remaining' = IF s'.repeat = 5 THEN 0
                     ELSE 23 * (5 - s'.repeat) - 1 + s'.inGap - 11 * s'.byteIdx - s'.bitIdx
    BY <1>2 DEF Remaining, Legacy!Remaining, Legacy!RepeatCount
  <2> QED
    BY <1>3, <2>1
<1>5. 114 \in Nat /\ 1 <= 114 /\ 114 <= 6119
  OBVIOUS
<1> QED
  BY <1>2, <1>4, <1>5, BurstStarts DEF Engine

\* An RCX burst begins with those of its frame and repeats, and is a Start.
LEMMA RCXServed == ASSUME IInv, StartRCX PROVE Burst!Start
<1>1. PICK content, options : RCX!Start(content, options)
  BY DEF StartRCX, RCX!StartRCX, RCX!StartRCXRaw
<1>2. active = "none" /\ active' = "RCX"
  BY <1>1 DEF RCX!Start, RCX!Promote
<1>3. s'.byteIdx = 0 /\ s'.bitIdx = 0
  BY <1>1 DEF RCX!Start, RCX!Promote
<1>4. IInv'
  BY StartRCXInv
<1>5. s' \in RCXState /\ Len(s'.bytes) \in 1 .. 37
  BY <1>2, <1>4 DEF IInv, RCXInv
<1>6. PICK n \in 1 .. 37 : n = Len(s'.bytes)
  BY <1>5
<1>7. PICK r \in 1 .. 15 : r = s'.repeat
  BY <1>5 DEF RCXState
<1>8. Remaining' = (11 * n + 1) * r - 1
  <2>1. Remaining' = (11 * Len(s'.bytes) + 1) * s'.repeat - 1 - 11 * s'.byteIdx - s'.bitIdx
    BY <1>2 DEF Remaining, RCX!Remaining
  <2>2. Remaining' = (11 * n + 1) * r - 1 - 11 * 0 - 0
    BY <1>3, <1>6, <1>7, <2>1
  <2>3. (11 * n + 1) * r \in Nat
    BY FramePhases
  <2> QED
    BY <2>2, <2>3
<1>9. PICK p \in Nat : p = (11 * n + 1) * r /\ p <= 6120 /\ p >= 11 * n + 1
  BY FramePhases
<1>10. Remaining' = p - 1 /\ p - 1 \in Nat /\ 1 <= p - 1 /\ p - 1 <= 6119
  BY <1>8, <1>9
<1> QED
  BY <1>2, <1>10, BurstStarts DEF Engine


\* A Power Functions phase takes one off what is to come.
LEMMA PFPhaseServed ==
  ASSUME IInv, IInv', active = "PF", PF!Mark \/ PF!StartSpace \/ PF!BitSpace \/ PF!Gap
  PROVE  Burst!Load
<1>0. active' = active
  BY DEF PF!Mark, PF!StartSpace, PF!BitSpace, PF!Gap, PF!Space, PF!Load
<1>1. s \in PF!PFState
  BY DEF IInv, PFInv
<1>2. ticks' # 0
  BY <1>0 DEF IInv, SharedInv
<1>3. PICK r \in 0 .. 4 : r = s.repeat
  BY PFFieldsType DEF PFPlace
<1>4. PICK q \in 0 .. 17 : q = s.pos
  BY PFFieldsType DEF PFPlace
<1>5. PICK f \in {0, 1} : f = s.phase
  BY PFFieldsType DEF PFPlace
<1>6. Remaining = 36 * (5 - r) - 1 - 2 * q - f
  BY <1>3, <1>4, <1>5, RemainingCases
<1>7. Remaining' = 36 * (5 - s'.repeat) - 1 - 2 * s'.pos - s'.phase
  BY <1>0 DEF Remaining, PF!Remaining, PF!RepeatCount
<1>8. /\ f = 0 => s'.repeat = r /\ s'.pos = q /\ s'.phase = 1
      /\ f = 1 /\ q <= 16 => s'.repeat = r /\ s'.pos = q + 1 /\ s'.phase = 0
      /\ f = 1 /\ q = 17 => s'.repeat = r + 1 /\ s'.pos = 0 /\ s'.phase = 0 /\ r < 4
  <2>1. CASE PF!Mark
    <3>1. s.phase = 0
      BY <2>1 DEF PF!Mark
    <3>2. s'.repeat = s.repeat /\ s'.pos = s.pos /\ s'.phase = 1
      BY <1>1, <2>1 DEF PF!Mark, PF!PFState
    <3> QED
      BY <1>3, <1>4, <1>5, <3>1, <3>2
  <2>2. CASE PF!StartSpace
    <3>1. s.phase = 1 /\ s.pos = 0
      BY <2>2 DEF PF!StartSpace
    <3>2. s'.repeat = s.repeat /\ s'.pos = 1 /\ s'.phase = 0
      BY <1>1, <2>2 DEF PF!StartSpace, PF!PFState
    <3> QED
      BY <1>3, <1>4, <1>5, <3>1, <3>2
  <2>3. CASE PF!BitSpace
    <3>1. s.phase = 1 /\ s.pos \in 1 .. 16
      BY <2>3 DEF PF!BitSpace
    <3>2. s'.repeat = s.repeat /\ s'.pos = s.pos + 1 /\ s'.phase = 0
      BY <1>1, <2>3 DEF PF!BitSpace, PF!PFState
    <3> QED
      BY <1>3, <1>4, <1>5, <3>1, <3>2
  <2>4. CASE PF!Gap
    <3>1. s.phase = 1 /\ s.pos = 17 /\ ~(s.repeat + 1 >= 5)
      BY <2>4 DEF PF!Gap, PF!LastCopy, PF!RepeatCount
    <3>2. s'.repeat = s.repeat + 1 /\ s'.pos = 0 /\ s'.phase = 0
      BY <1>1, <2>4 DEF PF!Gap, PF!AfterGap, PF!PFState
    <3> QED
      BY <1>3, <1>4, <1>5, <3>1, <3>2
  <2> QED
    BY <2>1, <2>2, <2>3, <2>4
<1>9. PICK p \in Nat : Remaining = p /\ p > 0 /\ Remaining' = p - 1
  <2>1. Remaining \in Nat /\ Remaining > 0
    BY <1>6, <1>8
  <2>2. Remaining' = Remaining - 1
    BY <1>6, <1>7, <1>8
  <2> QED
    BY <2>1, <2>2
<1> QED
  BY <1>0, <1>2, <1>9, BurstLoads

\* So does a Legacy one, the gap included.
LEMMA LegacyPhaseServed ==
  ASSUME IInv, IInv', active = "Legacy", Legacy!Gap \/ Legacy!SendBit
  PROVE  Burst!Load
<1>0. active' = active
  BY DEF Legacy!Gap, Legacy!SendBit, Legacy!Load
<1>1. s \in Legacy!LegacyState
  BY DEF IInv, LegacyInv
<1>2. ticks' # 0
  BY <1>0 DEF IInv, SharedInv
<1>3. PICK r \in 0 .. 5 : r = s.repeat
  BY LegacyFieldsType DEF LegacyPlace
<1>4. PICK y \in {0, 1} : y = s.byteIdx
  BY LegacyFieldsType DEF LegacyPlace
<1>5. PICK b \in 0 .. 10 : b = s.bitIdx
  BY LegacyFieldsType DEF LegacyPlace
<1>6. PICK g \in {0, 1} : g = s.inGap
  BY LegacyFieldsType DEF LegacyPlace
<1>7. r < 5
  BY <1>3 DEF Legacy!Gap, Legacy!SendBit, Legacy!RepeatCount
<1>8. Remaining = 23 * (5 - r) - 1 + g - 11 * y - b
  BY <1>3, <1>4, <1>5, <1>6, <1>7, RemainingCases
<1>9. Remaining' = IF s'.repeat = 5 THEN 0
                   ELSE 23 * (5 - s'.repeat) - 1 + s'.inGap - 11 * s'.byteIdx - s'.bitIdx
  BY <1>0 DEF Remaining, Legacy!Remaining, Legacy!RepeatCount
<1>10. /\ g = 1 => s'.repeat = r /\ s'.byteIdx = y /\ s'.bitIdx = b /\ s'.inGap = 0
       /\ g = 0 /\ b < 10 => s'.repeat = r /\ s'.byteIdx = y /\ s'.bitIdx = b + 1
                             /\ s'.inGap = 0
       /\ g = 0 /\ b = 10 /\ y = 0 => s'.repeat = r /\ s'.byteIdx = 1 /\ s'.bitIdx = 0
                             /\ s'.inGap = 0
       /\ g = 0 /\ b = 10 /\ y = 1 =>
            /\ s'.repeat = r + 1 /\ s'.byteIdx = 0 /\ s'.bitIdx = 0
            /\ s'.inGap = IF r + 1 < 5 THEN 1 ELSE 0
  <2>1. CASE Legacy!Gap
    <3>1. s.inGap = 1
      BY <2>1 DEF Legacy!Gap
    <3>2. /\ s'.repeat = s.repeat /\ s'.byteIdx = s.byteIdx /\ s'.bitIdx = s.bitIdx
          /\ s'.inGap = 0
      BY <1>1, <2>1 DEF Legacy!Gap, Legacy!LegacyState
    <3> QED
      BY <1>3, <1>4, <1>5, <1>6, <3>1, <3>2
  <2>2. CASE Legacy!SendBit
    <3>1. s.inGap = 0 /\ s' = Legacy!AfterBit(s)
      BY <2>2 DEF Legacy!SendBit
    <3>2. CASE s.bitIdx < 10
      <4>1. s' = [s EXCEPT !.bitIdx = s.bitIdx + 1]
        BY <3>1, <3>2 DEF Legacy!AfterBit
      <4>2. /\ s'.repeat = s.repeat /\ s'.byteIdx = s.byteIdx
            /\ s'.bitIdx = s.bitIdx + 1 /\ s'.inGap = s.inGap
        BY <1>1, <4>1 DEF Legacy!LegacyState
      <4> QED
        BY <1>3, <1>4, <1>5, <1>6, <3>1, <3>2, <4>2
    <3>3. CASE ~(s.bitIdx < 10) /\ s.byteIdx = 0
      <4>1. s' = [s EXCEPT !.bitIdx = 0, !.byteIdx = 1]
        BY <3>1, <3>3 DEF Legacy!AfterBit
      <4>2. s'.repeat = s.repeat /\ s'.byteIdx = 1 /\ s'.bitIdx = 0 /\ s'.inGap = s.inGap
        BY <1>1, <4>1 DEF Legacy!LegacyState
      <4> QED
        BY <1>3, <1>4, <1>5, <1>6, <3>1, <3>3, <4>2
    <3>4. CASE ~(s.bitIdx < 10) /\ s.byteIdx # 0
      <4> DEFINE h == IF s.repeat + 1 < Legacy!RepeatCount THEN 1 ELSE 0
      <4>1. s' = [s EXCEPT !.bitIdx = 0, !.byteIdx = 0, !.repeat = s.repeat + 1, !.inGap = h]
        BY <3>1, <3>4 DEF Legacy!AfterBit
      <4>2. h = IF s.repeat + 1 < 5 THEN 1 ELSE 0
        BY DEF Legacy!RepeatCount
      <4> HIDE DEF h
      <4>3. s'.repeat = s.repeat + 1 /\ s'.byteIdx = 0 /\ s'.bitIdx = 0 /\ s'.inGap = h
        BY <1>1, <4>1 DEF Legacy!LegacyState
      <4> QED
        BY <1>3, <1>4, <1>5, <1>6, <3>1, <3>4, <4>2, <4>3
    <3> QED
      BY <3>2, <3>3, <3>4
  <2> QED
    BY <2>1, <2>2
<1>11. PICK p \in Nat : Remaining = p /\ p > 0 /\ Remaining' = p - 1
  <2>1. CASE g = 1
    <3>1. /\ s'.repeat = r /\ s'.byteIdx = y /\ s'.bitIdx = b /\ s'.inGap = 0
      BY <1>10, <2>1
    <3>2. Remaining' = 23 * (5 - r) - 1 + 0 - 11 * y - b
      BY <1>7, <1>9, <3>1
    <3>3. 23 * (5 - r) - 1 + 0 - 11 * y - b \in Nat
      BY <1>7
    <3> QED
      BY <1>7, <1>8, <2>1, <3>2, <3>3
  <2>2. CASE g = 0 /\ b < 10
    BY <1>7, <1>8, <1>9, <1>10, <2>2
  <2>3. CASE g = 0 /\ b = 10 /\ y = 0
    BY <1>7, <1>8, <1>9, <1>10, <2>3
  <2>4. CASE g = 0 /\ b = 10 /\ y = 1 /\ r + 1 < 5
    BY <1>7, <1>8, <1>9, <1>10, <2>4
  <2>5. CASE g = 0 /\ b = 10 /\ y = 1 /\ r + 1 = 5
    BY <1>7, <1>8, <1>9, <1>10, <2>5
  <2> QED
    BY <1>7, <2>1, <2>2, <2>3, <2>4, <2>5
<1> QED
  BY <1>0, <1>2, <1>11, BurstLoads

\* So does an RCX one; a gap makes up for going back to the first byte.
LEMMA RCXPhaseServed ==
  ASSUME IInv, IInv', active = "RCX", RCX!RepeatGap \/ RCX!SendBit
  PROVE  Burst!Load
<1>0. active' = active
  BY DEF RCX!RepeatGap, RCX!SendBit, RCX!Load
<1>1. s \in RCXState
  BY DEF IInv, RCXInv
<1>2. ticks' # 0
  BY <1>0 DEF IInv, SharedInv
<1>3. PICK r \in 1 .. 15 : r = s.repeat
  BY RCXFieldsType DEF RCXPlace
<1>4. PICK n \in 1 .. 37 : n = Len(s.bytes)
  BY RCXFieldsType DEF RCXPlace
<1>5. PICK y \in 0 .. 37 : y = s.byteIdx
  BY RCXFieldsType DEF RCXPlace
<1>6. PICK b \in 0 .. 10 : b = s.bitIdx
  BY RCXFieldsType DEF RCXPlace
<1>7. y <= n /\ (y >= n => b = 0)
  BY <1>4, <1>5, <1>6 DEF IInv, RCXInv, RCX!Finished
<1>8. Remaining = (11 * n + 1) * r - 1 - 11 * y - b
  BY <1>3, <1>4, <1>5, <1>6, RemainingCases
<1>9. Remaining' = (11 * Len(s'.bytes) + 1) * s'.repeat - 1 - 11 * s'.byteIdx - s'.bitIdx
  BY <1>0 DEF Remaining, RCX!Remaining
<1>10. PICK q \in Nat : q = (11 * n + 1) * r
  BY FramePhases
<1>11. q >= 11 * n + 1 /\ (11 * n + 1) * (r - 1) = q - (11 * n + 1)
  BY <1>10, FramePhases
<1>12. CASE RCX!RepeatGap
  <2>1. s.byteIdx >= Len(s.bytes) /\ s.repeat > 1
    BY <1>12 DEF RCX!RepeatGap, RCX!Finished
  <2>2. y = n /\ b = 0 /\ r > 1
    BY <1>3, <1>4, <1>5, <1>7, <2>1
  <2>3. s' = [s EXCEPT !.repeat = s.repeat - 1, !.byteIdx = 0, !.bitIdx = 0]
    BY <1>12 DEF RCX!RepeatGap, RCX!Rewind
  <2>4. s'.bytes = s.bytes /\ s'.repeat = s.repeat - 1 /\ s'.byteIdx = 0 /\ s'.bitIdx = 0
    BY <1>1, <2>3 DEF RCXState
  <2>5. Remaining' = (11 * n + 1) * (r - 1) - 1 - 11 * 0 - 0
    BY <1>3, <1>4, <1>9, <2>4
  <2>6. (11 * n + 1) * (r - 1) > 0
    <3>1. PICK k \in 1 .. 15 : k = r - 1
      BY <2>2
    <3>2. (11 * n + 1) * k >= 11 * n + 1
      BY FramePhases
    <3> QED
      BY <3>1, <3>2
  <2>7. q - 1 - 11 * n > 0
    BY <1>11, <2>6
  <2>8. PICK p \in Nat : p = q - 1 - 11 * n /\ p > 0
    BY <2>7
  <2>9. Remaining = p /\ Remaining' = p - 1
    BY <1>8, <1>10, <1>11, <2>2, <2>5, <2>8
  <2> QED
    BY <1>0, <1>2, <2>8, <2>9, BurstLoads
<1>13. CASE RCX!SendBit
  <2>1. ~(s.byteIdx >= Len(s.bytes)) /\ s' = RCX!AfterBit(s)
    BY <1>13 DEF RCX!SendBit, RCX!Finished
  <2>2. y < n
    BY <1>4, <1>5, <2>1
  <2>3. PICK p \in Nat : p = q - 1 - 11 * y - b /\ p > 0
    BY <1>11, <2>2
  <2>4. Remaining = p
    BY <1>8, <1>10, <2>3
  <2>5. CASE b < 10
    <3>1. s' = [s EXCEPT !.bitIdx = s.bitIdx + 1]
      BY <1>6, <2>1, <2>5 DEF RCX!AfterBit
    <3>2. /\ s'.bytes = s.bytes /\ s'.repeat = s.repeat /\ s'.byteIdx = s.byteIdx
          /\ s'.bitIdx = s.bitIdx + 1
      BY <1>1, <3>1 DEF RCXState
    <3>3. Remaining' = q - 1 - 11 * y - (b + 1)
      BY <1>3, <1>4, <1>5, <1>6, <1>9, <1>10, <3>2
    <3>4. Remaining' = p - 1
      BY <2>3, <3>3
    <3> QED
      BY <1>0, <1>2, <2>3, <2>4, <3>4, BurstLoads
  <2>6. CASE b = 10
    <3>1. s' = [s EXCEPT !.bitIdx = 0, !.byteIdx = s.byteIdx + 1]
      BY <1>6, <2>1, <2>6 DEF RCX!AfterBit
    <3>2. /\ s'.bytes = s.bytes /\ s'.repeat = s.repeat /\ s'.byteIdx = s.byteIdx + 1
          /\ s'.bitIdx = 0
      BY <1>1, <3>1 DEF RCXState
    <3>3. Remaining' = q - 1 - 11 * (y + 1) - 0
      BY <1>3, <1>4, <1>5, <1>9, <1>10, <3>2
    <3>4. Remaining' = p - 1
      BY <2>3, <2>6, <3>3
    <3> QED
      BY <1>0, <1>2, <2>3, <2>4, <3>4, BurstLoads
  <2> QED
    BY <2>5, <2>6
<1> QED
  BY <1>12, <1>13

\* The last call of a burst is its end, whoever serves it.
LEMMA DoneEnds ==
  ASSUME IrNextPhase
  PROVE  \/ active = "PF" /\ (PF!Mark \/ PF!StartSpace \/ PF!BitSpace \/ PF!Gap)
         \/ active = "Legacy" /\ (Legacy!Gap \/ Legacy!SendBit)
         \/ active = "RCX" /\ (RCX!RepeatGap \/ RCX!SendBit)
         \/ EndBurst
<1>1. PF!Done => EndBurst
  BY DEF PF!Done, PF!EndBurst, EndBurst, PF!BaseRate, BaseRate,
         PF!BaseCounts, BaseCounts, PF!Unset, Unset
<1>2. Legacy!Done => EndBurst
  BY DEF Legacy!Done, Legacy!EndBurst, EndBurst, Legacy!BaseRate, BaseRate,
         Legacy!BaseCounts, BaseCounts, Legacy!Unset, Unset
<1>3. RCX!Done => EndBurst
  BY DEF RCX!Done, RCX!EndBurst, EndBurst, RCX!BaseRate, BaseRate,
         RCX!BaseCounts, BaseCounts, RCX!Unset, Unset
<1> QED
  BY <1>1, <1>2, <1>3 DEF IrNextPhase, PF!NextPhase, Legacy!NextPhase, RCX!NextPhase

\* Whatever the engine, data and options, a burst is the exact number of phases
\* its protocol takes, none of them empty: what IREngine assumes of irNextPhase.
THEOREM AlwaysServesBurst == Spec => ServesBurst
<1>1. Init => Burst!Init
  BY DEF Init, PhaseInit, Burst!Init, Remaining
<1>2. IInv /\ IInv' /\ [Next]_vars => [Burst!Next]_(Burst!bvars)
  <2> SUFFICES ASSUME IInv, IInv', [Next]_vars
               PROVE  Burst!Next \/ UNCHANGED Burst!bvars
    BY DEF Burst!bvars
  <2>0. active \in Engine \cup {"none"}
    BY DEF IInv, SharedInv
  <2>1. CASE StartPF \/ StartLegacy \/ StartRCX
    BY <2>1, PFServed, LegacyServed, RCXServed DEF Burst!Next
  <2>2. CASE EndBurst
    BY <2>0, <2>2, BurstEndsOrRests DEF Burst!Next
  <2>3. CASE IrAbortAll \/ ResetState
    BY <2>2, <2>3 DEF IrAbortAll, ResetState
  <2>4. CASE IrNextPhase
    BY <2>2, <2>4, DoneEnds, PFPhaseServed, LegacyPhaseServed, RCXPhaseServed DEF Burst!Next
  <2>5. CASE UNCHANGED vars
    <3>1. active' = active /\ s' = s
      BY <2>5 DEF vars, phaseVars, codeVars
    <3>2. Remaining' = Remaining
      BY <3>1 DEF Remaining, PF!Remaining, Legacy!Remaining, RCX!Remaining
    <3> QED
      BY <3>1, <3>2 DEF Burst!bvars
  <2> QED
    BY <2>1, <2>3, <2>4, <2>5 DEF Next
<1> QED
  BY <1>1, <1>2, InductiveInvariant, PTL DEF Spec, ServesBurst, Burst!Spec
=============================================================================
