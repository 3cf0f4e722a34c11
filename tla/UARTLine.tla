------------------------------ MODULE UARTLine ------------------------------
(***************************************************************************)
(* The asynchronous serial line that the Legacy and RCX protocols share:   *)
(* what legacyNextPhase and rcxNextPhase put on the air for the bitIdx-th  *)
(* bit of a byte, and what a receiver makes of eleven such bits.  A mark   *)
(* (carrier on) is a 0.                                                    *)
(***************************************************************************)
EXTENDS Naturals, Sequences

Bit(n, i) == (n \div 2^i) % 2

\* oddParity: the bit that makes the number of ones odd.
OddParity(b) ==
  (1 + Bit(b, 0) + Bit(b, 1) + Bit(b, 2) + Bit(b, 3)
     + Bit(b, 4) + Bit(b, 5) + Bit(b, 6) + Bit(b, 7)) % 2

\* The carrier during a bit: start, eight data bits from the least
\* significant, odd parity, stop.
CarrierForSwapped(b, bitIdx) ==
  CASE bitIdx = 0       -> 1
    [] bitIdx \in 1 .. 8 -> 1 - Bit(b, 8 - bitIdx)
    [] bitIdx = 9       -> 1 - OddParity(b)
    [] bitIdx = 10      -> 0
CarrierFor(b, bitIdx) ==
  CASE bitIdx = 0       -> 1
    [] bitIdx \in 1 .. 8 -> 1 - Bit(b, bitIdx - 1)
    [] bitIdx = 9       -> 1 - OddParity(b)
    [] bitIdx = 10      -> 0

\* A receiver: eleven carrier samples make a byte if start, stop and parity
\* are right: an odd number of ones is an even number of marks.
IsByte(c) ==
  /\ Len(c) = 11 /\ c[1] = 1 /\ c[11] = 0
  /\ (c[2] + c[3] + c[4] + c[5] + c[6] + c[7] + c[8] + c[9] + c[10]) % 2 = 0
ByteOf(c) ==
  LET one(k) == 1 - c[k + 2]
  IN  one(0) + 2 * one(1) + 4 * one(2) + 8 * one(3)
        + 16 * one(4) + 32 * one(5) + 64 * one(6) + 128 * one(7)

\* A receiver that has heard e hears one bit more.
Hear(e, on) ==
  LET samples == Append(e.line, on)
  IN  IF IsByte(samples)
      THEN [e EXCEPT !.line = <<>>, !.bytes = Append(@, ByteOf(samples))]
      ELSE [e EXCEPT !.line = samples]
=============================================================================
