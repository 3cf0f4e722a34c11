---------------------------- MODULE PacketParser ----------------------------
(***************************************************************************)
(* The serial framing of packet.c: parserConsume fed one byte at a time by *)
(* loop(), and buildPacket, the frame it is meant to recognise.  The host  *)
(* first puts anything on the wire (a program that died in mid-frame, line *)
(* noise, a terminal), then retries PING until it is heard.  There is no   *)
(* timeout between bytes.                                                  *)
(***************************************************************************)
EXTENDS Naturals, Sequences

CONSTANTS
  ByteMax,      \* the largest value of a byte: 255 in the code
  SOF,          \* PROTO_SOF
  MaxPayload,   \* PROTO_MAX_PAYLOAD
  CmdPing,      \* CMD_PING
  Noise,        \* the bytes the host's junk is drawn from
  Xor(_, _)     \* the exclusive or of two bytes

Byte == 0 .. ByteMax

ASSUME ByteAssumption ==
  /\ ByteMax \in Nat /\ MaxPayload \in Nat
  /\ MaxPayload + 2 <= ByteMax
  /\ SOF \in Byte /\ CmdPing \in Byte /\ Noise \subseteq Byte
ASSUME XorAssumption ==
  \A a, b \in Byte : Xor(a, b) \in Byte /\ (Xor(a, b) = 0 <=> a = b)

VARIABLES
  state,      \* the parser: "sof", "len", "body" or "chk"
  len, index, buf, xorAcc,
  pkt,        \* the last packet delivered
  ready,      \* a packet is waiting for loop()
  heard,      \* ghost: the bytes consumed since the last accepted SOF
  retrying,   \* the host has stopped sending junk and retries PING
  sent        \* how much of the current PING the host has sent

parserVars == <<state, len, index, buf, xorAcc, pkt, ready>>
vars == <<parserVars, heard, retrying, sent>>

MaxLen  == MaxPayload + 2
BufIndex == 0 .. MaxLen - 1

\* buildPacket; the checksum covers LEN and everything after it, not SOF.
Checksum(bytes) ==
  LET chk[i \in 1 .. Len(bytes)] ==
        IF i = 1 THEN bytes[1] ELSE Xor(chk[i - 1], bytes[i])
  IN  chk[Len(bytes)]
BuildPacket(seq, cmd, payload) ==
  LET covered == <<2 + Len(payload), seq, cmd>> \o payload
  IN  <<SOF>> \o covered \o <<Checksum(covered)>>

\* BuildPacket(0, CmdPing, <<>>), spelt out.
Ping == <<SOF, 2, 0, CmdPing, Xor(2, CmdPing)>>

Init ==
  /\ state = "sof" /\ ready = 0
  /\ len = 0 /\ index = 0 /\ xorAcc = 0       \* static storage
  /\ buf = [i \in BufIndex |-> 0]
  /\ pkt = [seq |-> 0, cmd |-> 0, payload |-> <<>>]
  /\ heard = <<>> /\ retrying = 0 /\ sent = 0

\* The ghost keeps the bytes since the SOF; no frame has more than MaxLen + 3.
Record(b) ==
  heard' = IF Len(heard) < MaxLen + 3 THEN Append(heard, b) ELSE heard

-----------------------------------------------------------------------------
(* parserConsume, one disjunct per state                                   *)

WaitSof(b) ==
  /\ state = "sof"
  /\ IF b = SOF THEN state' = "len" /\ heard' = <<b>>
                ELSE UNCHANGED <<state, heard>>
  /\ UNCHANGED <<len, index, buf, xorAcc, pkt, ready>>

\* LEN counts SEQ and CMD; one more than buf holds would overrun it.
LenAcceptableOff(l) == l >= 2 /\ l <= MaxLen + 1
LenAcceptable(l) == l >= 2 /\ l <= MaxLen

ReadLen(b) ==
  /\ state = "len"
  /\ len' = b
  /\ IF LenAcceptable(b)
     THEN index' = 0 /\ xorAcc' = b /\ state' = "body"
     ELSE state' = "sof" /\ UNCHANGED <<index, xorAcc>>
  /\ Record(b)
  /\ UNCHANGED <<buf, pkt, ready>>

ReadBody(b) ==
  /\ state = "body"
  /\ buf' = [buf EXCEPT ![index] = b]
  /\ xorAcc' = Xor(xorAcc, b)
  /\ index' = index + 1
  /\ state' = IF index + 1 >= len THEN "chk" ELSE "body"
  /\ Record(b)
  /\ UNCHANGED <<len, pkt, ready>>

ChecksumUnread(b) == TRUE
ChecksumMatches(b) == xorAcc = b

\* On a bad checksum the parser must not stay where it is.
StayAfterMismatch(b) == IF ChecksumMatches(b) THEN "sof" ELSE "chk"
AfterChk(b) == "sof"

ReadChk(b) ==
  /\ state = "chk"
  /\ state' = AfterChk(b)
  /\ IF ChecksumMatches(b)
     THEN /\ pkt' = [seq |-> buf[0], cmd |-> buf[1],
                     payload |-> [i \in 1 .. len - 2 |-> buf[i + 1]]]
          /\ ready' = 1
     ELSE UNCHANGED <<pkt, ready>>
  /\ Record(b)
  /\ UNCHANGED <<len, index, buf, xorAcc>>

ParserConsume(b) ==
  /\ ready = 0
  /\ WaitSof(b) \/ ReadLen(b) \/ ReadBody(b) \/ ReadChk(b)

-----------------------------------------------------------------------------
\* loop() clears ready and dispatches before it reads the next byte.
HandlePacket ==
  /\ ready = 1
  /\ ready' = 0
  /\ UNCHANGED <<state, len, index, buf, xorAcc, pkt, heard, retrying, sent>>

SendNoise ==
  /\ retrying = 0
  /\ \E b \in Noise : ParserConsume(b)
  /\ UNCHANGED <<retrying, sent>>

StartRetrying ==
  /\ retrying = 0 /\ retrying' = 1
  /\ UNCHANGED <<parserVars, heard, sent>>

SendPing ==
  /\ retrying = 1
  /\ ParserConsume(Ping[sent + 1])
  /\ sent' = IF sent = 4 THEN 0 ELSE sent + 1
  /\ UNCHANGED retrying

Next == SendNoise \/ StartRetrying \/ SendPing \/ HandlePacket

Spec == Init /\ [][Next]_vars

\* loop() keeps running and a host that retries keeps retrying.
FairSpec == Spec /\ WF_vars(HandlePacket) /\ WF_vars(SendPing)

-----------------------------------------------------------------------------
(* Properties                                                              *)

TypeOK ==
  /\ state \in {"sof", "len", "body", "chk"}
  /\ len \in Byte /\ index \in 0 .. MaxLen
  /\ buf \in [BufIndex -> Byte] /\ xorAcc \in Byte
  /\ ready \in {0, 1} /\ retrying \in {0, 1} /\ sent \in 0 .. 4

\* Every byte of a body is stored inside buf, whatever LEN the host claims,
\* and a packet is only ever copied out of bytes of this frame.
BufferBound ==
  /\ state = "body" => index < len /\ len >= 2 /\ len <= MaxLen
  /\ state = "chk" => index = len /\ len >= 2 /\ len <= MaxLen

\* A packet is delivered exactly when the bytes since the SOF are the frame
\* buildPacket makes of that packet: nothing corrupt, stale or truncated gets
\* through, and no intact frame that was listened to is dropped (parserConsume).
DeliveredIffFrame ==
  [][state = "chk" /\ state' # "chk" =>
       IF Checksum(Tail(heard')) = 0
       THEN ready' = 1 /\ heard' = BuildPacket(pkt'.seq, pkt'.cmd, pkt'.payload)
       ELSE ready' = 0 /\ pkt' = pkt]_vars

\* Whatever was on the wire before, a host that retries PING is heard: the
\* parser cannot be wedged, although it has no timeout.
RetryIsHeard ==
  retrying = 1 ~> (ready = 1 /\ pkt = [seq |-> 0, cmd |-> CmdPing, payload |-> <<>>])
=============================================================================
