--------------------------- MODULE MCPacketParser ---------------------------
(***************************************************************************)
(* PacketParser for TLC: three-bit bytes, frames of up to one payload      *)
(* byte, junk that holds every valid LEN, invalid ones, and SOF.           *)
(***************************************************************************)
EXTENDS PacketParser

Bit(n, i) == (n \div 2^i) % 2
MCXor(a, b) ==
  LET x(i) == (Bit(a, i) + Bit(b, i)) % 2 IN x(0) + 2 * x(1) + 4 * x(2)

ASSUME PingIsBuilt == Ping = BuildPacket(0, CmdPing, <<>>)
=============================================================================
