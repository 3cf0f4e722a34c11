------------------------ MODULE PacketParser_proofs ------------------------
(***************************************************************************)
(* The parser's buffer is safe, and a packet is delivered exactly when a   *)
(* frame was heard, for every byte width, payload limit and exclusive or.  *)
(***************************************************************************)
EXTENDS PacketParser, WellFoundedInduction, TLAPS

\* Induction over the natural numbers, for a set of them.
LEMMA NatSetInduction ==
  ASSUME NEW S, 0 \in S, \A n \in Nat : n \in S => n + 1 \in S
  PROVE  \A n \in Nat : n \in S
<1> DEFINE T == Nat \ S
<1> SUFFICES ASSUME T # {} PROVE FALSE
  OBVIOUS
<1>1. PICK x \in T : \A y \in T : ~(<<y, x>> \in OpToRel(<, Nat))
  BY NatLessThanWellFounded, WFMin
<1>2. x \in Nat /\ x - 1 \in Nat /\ (x - 1) + 1 = x
  OBVIOUS
<1>3. <<x - 1, x>> \in OpToRel(<, Nat)
  BY <1>2 DEF OpToRel
<1>4. x - 1 \in S
  BY <1>1, <1>2, <1>3
<1>5. x \in S
  BY <1>2, <1>4
<1> QED
  BY <1>5

\* A sequence and its tail grow together.
LEMMA TailAppends ==
  ASSUME NEW S, NEW s \in Seq(S), s # <<>>, NEW b \in S
  PROVE  /\ Append(s, b) \in Seq(S) /\ Len(Append(s, b)) = Len(s) + 1
         /\ Append(s, b)[Len(s) + 1] = b
         /\ \A i \in 1 .. Len(s) : Append(s, b)[i] = s[i]
         /\ Tail(s) \in Seq(S) /\ Tail(Append(s, b)) = Append(Tail(s), b)
         /\ Len(Tail(s)) = Len(s) - 1
         /\ \A i \in 1 .. Len(s) - 1 : Tail(s)[i] = s[i + 1]
<1>1. Tail(Append(s, b)) = Append(Tail(s), b)
  <2> DEFINE l == Tail(Append(s, b))
             r == Append(Tail(s), b)
  <2>1. l \in Seq(S) /\ r \in Seq(S) /\ Len(l) = Len(s) /\ Len(r) = Len(s)
    OBVIOUS
  <2>2. \A i \in 1 .. Len(s) : l[i] = r[i]
    OBVIOUS
  <2> HIDE DEF l, r
  <2>3. l = r
    BY <2>1, <2>2
  <2> QED
    BY <2>3 DEF l, r
<1>2. Tail(s) \in Seq(S) /\ Len(Tail(s)) = Len(s) - 1
  OBVIOUS
<1>3. \A i \in 1 .. Len(s) - 1 : Tail(s)[i] = s[i + 1]
  OBVIOUS
<1>4. Append(s, b) \in Seq(S) /\ Len(Append(s, b)) = Len(s) + 1
  OBVIOUS
<1>5. Append(s, b)[Len(s) + 1] = b /\ \A i \in 1 .. Len(s) : Append(s, b)[i] = s[i]
  OBVIOUS
<1> QED
  BY <1>1, <1>2, <1>3, <1>4, <1>5

\* The elements of two sequences put together.
LEMMA ConcatElements ==
  ASSUME NEW S, NEW s \in Seq(S), NEW t \in Seq(S)
  PROVE  /\ s \o t \in Seq(S) /\ Len(s \o t) = Len(s) + Len(t)
         /\ \A i \in 1 .. Len(s) : (s \o t)[i] = s[i]
         /\ \A i \in Len(s) + 1 .. Len(s) + Len(t) : (s \o t)[i] = t[i - Len(s)]
  OBVIOUS

\* A sequence is its first elements and the rest.
LEMMA SplitsAt ==
  ASSUME NEW S, NEW t \in Seq(S), NEW h \in Seq(S), NEW p \in Seq(S),
         NEW k, k = Len(h), Len(t) = k + Len(p),
         \A i \in 1 .. k : h[i] = t[i],
         \A i \in 1 .. Len(p) : p[i] = t[i + k]
  PROVE  t = h \o p
<1> DEFINE r == h \o p
<1>1. /\ r \in Seq(S) /\ Len(r) = k + Len(p)
      /\ \A i \in 1 .. k : r[i] = h[i]
      /\ \A i \in k + 1 .. k + Len(p) : r[i] = p[i - k]
  BY ConcatElements
<1> HIDE DEF r
<1>2. k \in Nat /\ Len(p) \in Nat
  OBVIOUS
<1>3. \A i \in 1 .. k + Len(p) : r[i] = t[i]
  <2> TAKE i \in 1 .. k + Len(p)
  <2>1. CASE i \in 1 .. k
    BY <1>1, <2>1
  <2>2. CASE i \in k + 1 .. k + Len(p)
    <3>1. i - k \in 1 .. Len(p) /\ (i - k) + k = i
      BY <1>2, <2>2
    <3> QED
      BY <1>1, <2>2, <3>1
  <2> QED
    BY <1>2, <2>1, <2>2
<1>4. t = r
  BY <1>1, <1>3
<1> QED
  BY <1>4 DEF r

\* Here there are three: LEN, SEQ and CMD.
LEMMA HeadAndRest ==
  ASSUME NEW S, NEW t \in Seq(S), NEW p \in Seq(S), Len(t) = Len(p) + 3,
         \A i \in 1 .. Len(p) : p[i] = t[i + 3]
  PROVE  t = <<t[1], t[2], t[3]>> \o p
<1> DEFINE h == <<t[1], t[2], t[3]>>
           k == 3
<1>1. h \in Seq(S) /\ k = Len(h)
  OBVIOUS
<1>2. \A i \in 1 .. k : h[i] = t[i]
  OBVIOUS
<1>3. Len(t) = k + Len(p) /\ \A i \in 1 .. Len(p) : p[i] = t[i + k]
  OBVIOUS
<1> HIDE DEF h, k
<1>4. t = h \o p
  BY <1>1, <1>2, <1>3, SplitsAt
<1> QED
  BY <1>4 DEF h

USE ByteAssumption, XorAssumption

\* The LEN, SEQ, CMD and CHK of a PING are bytes.
LEMMA PingBytes == \A i \in 1 .. 5 : Ping[i] \in Byte
<1>1. 0 \in Byte /\ 2 \in Byte
  BY DEF Byte
<1>2. Xor(2, CmdPing) \in Byte
  BY <1>1
<1> QED
  BY <1>1, <1>2 DEF Ping

\* A byte keeps the types and the bounds, in each of the parser's states.
LEMMA ConsumeSafe ==
  ASSUME TypeOK, BufferBound, NEW b \in Byte, ParserConsume(b)
  PROVE  /\ state' \in {"sof", "len", "body", "chk"}
         /\ len' \in Byte /\ index' \in 0 .. MaxLen
         /\ buf' \in [BufIndex -> Byte] /\ xorAcc' \in Byte
         /\ ready' \in {0, 1}
         /\ BufferBound'
<1> USE DEF TypeOK, BufferBound
<1>1. CASE WaitSof(b)
  BY <1>1 DEF WaitSof
<1>2. CASE ReadLen(b)
  <2>1. MaxLen \in Nat /\ MaxLen >= 2 /\ 0 \in 0 .. MaxLen
    BY DEF MaxLen
  <2>2. CASE LenAcceptable(b)
    BY <1>2, <2>1, <2>2 DEF ReadLen, LenAcceptable, Byte
  <2>3. CASE ~LenAcceptable(b)
    BY <1>2, <2>3 DEF ReadLen
  <2> QED
    BY <2>2, <2>3
<1>3. CASE ReadBody(b)
  <2>1. index \in Nat /\ len \in Nat /\ MaxLen \in Nat
    BY DEF Byte, MaxLen
  <2>2. index \in BufIndex /\ index < len /\ len <= MaxLen
    BY <1>3, <2>1 DEF ReadBody, BufIndex
  <2>3. index' \in 0 .. MaxLen /\ BufferBound'
    <3>1. /\ index' = index + 1 /\ len' = len
          /\ state' = IF index + 1 >= len THEN "chk" ELSE "body"
      BY <1>3 DEF ReadBody
    <3>2. len >= 2
      BY <1>3 DEF ReadBody
    <3> QED
      BY <2>1, <2>2, <3>1, <3>2
  <2>4. buf' \in [BufIndex -> Byte] /\ xorAcc' \in Byte
    BY <1>3, <2>2 DEF ReadBody
  <2> QED
    BY <1>3, <2>3, <2>4 DEF ReadBody
<1>4. CASE ReadChk(b)
  BY <1>4 DEF ReadChk, AfterChk
<1> QED
  BY <1>1, <1>2, <1>3, <1>4 DEF ParserConsume

\* However the host misuses LEN, a body byte is stored inside buf, and what
\* is copied to pkt was written by this frame.
THEOREM BufferSafe == Spec => [](TypeOK /\ BufferBound)
<1>1. Init => TypeOK /\ BufferBound
  BY DEF Init, TypeOK, BufferBound, Byte, BufIndex, MaxLen
<1>2. ASSUME TypeOK, BufferBound, [Next]_vars
      PROVE  (TypeOK /\ BufferBound)'
  <2>1. CASE SendNoise
    BY <1>2, <2>1, ConsumeSafe DEF SendNoise, TypeOK
  <2>2. CASE StartRetrying
    BY <1>2, <2>2 DEF StartRetrying, parserVars, TypeOK, BufferBound
  <2>3. CASE SendPing
    <3>1. Ping[sent + 1] \in Byte
      BY <1>2, PingBytes DEF TypeOK
    <3> QED
      BY <1>2, <2>3, <3>1, ConsumeSafe DEF SendPing, TypeOK
  <2>4. CASE HandlePacket
    BY <1>2, <2>4 DEF HandlePacket, TypeOK, BufferBound
  <2>5. CASE UNCHANGED vars
    BY <1>2, <2>5 DEF vars, parserVars, TypeOK, BufferBound
  <2> QED
    BY <1>2, <2>1, <2>2, <2>3, <2>4, <2>5 DEF Next
<1> QED
  BY <1>1, <1>2, PTL DEF Spec

\* The parser's variables keep their types: its index fits a uint8_t, and its
\* state is one of the four.
THEOREM TypeInvariant == Spec => []TypeOK
  BY BufferSafe, PTL

-----------------------------------------------------------------------------
\* f accumulates the exclusive or of the first n bytes of s.
IsSum(f, s, n) ==
  f = [i \in 1 .. n |-> IF i = 1 THEN s[1] ELSE Xor(f[i - 1], s[i])]

\* What the recursion of Checksum computes exists, for any length.
LEMMA SumExists == ASSUME NEW s PROVE \A n \in Nat : \E f : IsSum(f, s, n)
<1> DEFINE S == { n \in Nat : \E f : IsSum(f, s, n) }
<1>1. 0 \in S
  <2> DEFINE f == [i \in 1 .. 0 |-> 0]
  <2>1. IsSum(f, s, 0)
    BY DEF IsSum
  <2> QED
    BY <2>1
<1>2. ASSUME NEW n \in Nat, n \in S PROVE n + 1 \in S
  <2>1. PICK f : IsSum(f, s, n)
    BY <1>2
  <2> DEFINE last == IF n = 0 THEN s[1] ELSE Xor(f[n], s[n + 1])
             g == [i \in 1 .. n + 1 |-> IF i = n + 1 THEN last ELSE f[i]]
  <2>2. \A i \in 1 .. n : f[i] = IF i = 1 THEN s[1] ELSE Xor(f[i - 1], s[i])
    BY <2>1 DEF IsSum
  <2>3. \A i \in 1 .. n + 1 :
          g[i] = IF i = 1 THEN s[1] ELSE Xor(g[i - 1], s[i])
    <3> TAKE i \in 1 .. n + 1
    <3>1. CASE i = 1
      BY <2>2, <3>1
    <3>2. CASE i # 1 /\ i = n + 1
      <4>1. n # 0 /\ i - 1 = n /\ g[i - 1] = f[n] /\ g[i] = last
        BY <3>2
      <4> QED
        BY <3>2, <4>1
    <3>3. CASE i # 1 /\ i # n + 1
      <4>1. i \in 1 .. n /\ i - 1 \in 1 .. n /\ g[i] = f[i] /\ g[i - 1] = f[i - 1]
        BY <3>3
      <4> HIDE DEF g
      <4> QED
        BY <2>2, <3>3, <4>1
    <3> QED
      BY <3>1, <3>2, <3>3
  <2>4. g = [i \in 1 .. n + 1 |-> g[i]]
    OBVIOUS
  <2>5. IsSum(g, s, n + 1)
    <3> HIDE DEF g
    <3> QED
      BY <2>3, <2>4 DEF IsSum
  <2> HIDE DEF g
  <2> QED
    BY <2>5
<1> HIDE DEF S
<1>3. \A n \in Nat : n \in S
  BY <1>1, <1>2, NatSetInduction
<1> QED
  BY <1>3 DEF S

\* It depends on nothing but the bytes.
LEMMA SumUnique ==
  ASSUME NEW s, NEW t, NEW m \in Nat, NEW n \in Nat, NEW f, NEW g,
         IsSum(f, s, m), IsSum(g, t, n), m <= n, \A i \in 1 .. m : s[i] = t[i]
  PROVE  \A i \in 1 .. m : f[i] = g[i]
<1> DEFINE S == { i \in Nat : i \in 1 .. m => f[i] = g[i] }
<1>1. \A i \in 1 .. m : f[i] = IF i = 1 THEN s[1] ELSE Xor(f[i - 1], s[i])
  BY DEF IsSum
<1>2. \A i \in 1 .. m : g[i] = IF i = 1 THEN t[1] ELSE Xor(g[i - 1], t[i])
  BY DEF IsSum
<1>3. 0 \in S
  OBVIOUS
<1>4. ASSUME NEW i \in Nat, i \in S PROVE i + 1 \in S
  <2> SUFFICES ASSUME i + 1 \in 1 .. m PROVE f[i + 1] = g[i + 1]
    OBVIOUS
  <2>1. CASE i = 0
    BY <1>1, <1>2, <2>1
  <2>2. CASE i # 0
    <3>1. i \in 1 .. m /\ (i + 1) - 1 = i /\ i + 1 # 1
      BY <2>2
    <3>2. f[i] = g[i]
      BY <1>4, <3>1
    <3> QED
      BY <1>1, <1>2, <3>1, <3>2
  <2> QED
    BY <2>1, <2>2
<1> HIDE DEF S
<1>5. \A i \in Nat : i \in S
  BY <1>3, <1>4, NatSetInduction
<1> QED
  BY <1>5 DEF S

\* The checksum is the last of the accumulated values.
LEMMA ChecksumIsSum ==
  ASSUME NEW s, Len(s) \in Nat
  PROVE  \E f : IsSum(f, s, Len(s)) /\ Checksum(s) = f[Len(s)]
<1> DEFINE f == CHOOSE f : IsSum(f, s, Len(s))
<1>1. IsSum(f, s, Len(s))
  BY SumExists
<1>2. Checksum(s) = f[Len(s)]
  BY DEF Checksum, IsSum
<1> QED
  BY <1>1, <1>2

\* Each further byte is added to it.
LEMMA ChecksumAppends ==
  ASSUME NEW s \in Seq(Byte), NEW b \in Byte
  PROVE  /\ s = <<>> => Checksum(Append(s, b)) = b
         /\ s # <<>> => Checksum(Append(s, b)) = Xor(Checksum(s), b)
<1> DEFINE t == Append(s, b)
           m == Len(s)
<1>1. /\ m \in Nat /\ Len(t) = m + 1 /\ t[m + 1] = b
      /\ \A i \in 1 .. m : t[i] = s[i]
  OBVIOUS
<1>2. s = <<>> <=> m = 0
  OBVIOUS
<1> HIDE DEF t, m
<1>3. PICK g : IsSum(g, t, m + 1) /\ Checksum(t) = g[m + 1]
  <2>1. m + 1 \in Nat
    BY <1>1
  <2> QED
    BY <1>1, <2>1, ChecksumIsSum
<1>4. g[m + 1] = IF m + 1 = 1 THEN t[1] ELSE Xor(g[(m + 1) - 1], t[m + 1])
  BY <1>1, <1>3 DEF IsSum
<1>5. CASE m = 0
  BY <1>1, <1>2, <1>3, <1>4, <1>5 DEF t
<1>6. CASE m # 0
  <2>1. PICK f : IsSum(f, s, m) /\ Checksum(s) = f[m]
    BY <1>1, ChecksumIsSum DEF m
  <2>2. \A i \in 1 .. m : f[i] = g[i]
    <3>1. m <= m + 1 /\ m + 1 \in Nat
      BY <1>1
    <3> QED
      BY <1>1, <1>3, <2>1, <3>1, SumUnique
  <2>3. f[m] = g[m] /\ (m + 1) - 1 = m /\ m + 1 # 1
    BY <1>1, <1>6, <2>2
  <2>4. Checksum(t) = Xor(Checksum(s), b)
    BY <1>1, <1>3, <1>4, <2>1, <2>3
  <2> QED
    BY <1>2, <1>6, <2>4 DEF t
<1> QED
  BY <1>5, <1>6

-----------------------------------------------------------------------------
\* In mid-frame, what was heard since the SOF is LEN and what is in buf, and
\* the running exclusive or is the checksum of it.
FrameInv ==
  /\ heard \in Seq(Byte)
  /\ state \in {"len", "body", "chk"} => heard # <<>> /\ heard[1] = SOF
  /\ state = "len" => Len(heard) = 1
  /\ state \in {"body", "chk"} =>
       /\ Len(heard) = index + 2 /\ heard[2] = len
       /\ \A i \in 1 .. index : heard[i + 2] = buf[i - 1]
       /\ xorAcc = Checksum(Tail(heard))

IInv == TypeOK /\ BufferBound /\ FrameInv

\* The bytes heard are recorded until a frame is complete.
LEMMA Recorded ==
  ASSUME NEW b, IInv, Record(b), state \in {"len", "body", "chk"}
  PROVE  heard' = Append(heard, b)
<1>1. MaxLen \in Nat /\ MaxLen >= 2 /\ index \in Nat
  BY DEF IInv, TypeOK, MaxLen
<1>2. Len(heard) = 1 \/ (Len(heard) = index + 2 /\ index <= MaxLen)
  BY DEF IInv, TypeOK, FrameInv
<1>3. Len(heard) < MaxLen + 3
  BY <1>1, <1>2
<1> QED
  BY <1>3 DEF Record

\* Every byte keeps the invariant: a frame is recorded as it is stored.
LEMMA ConsumeRecords ==
  ASSUME IInv, NEW b \in Byte, ParserConsume(b)
  PROVE  FrameInv'
<1>1. heard \in Seq(Byte)
  BY DEF IInv, FrameInv
<1>2. CASE WaitSof(b)
  <2>1. CASE b = SOF
    <3>1. state' = "len" /\ heard' = <<SOF>>
      BY <1>2, <2>1 DEF WaitSof
    <3> QED
      BY <3>1 DEF FrameInv
  <2>2. CASE b # SOF
    BY <1>1, <1>2, <2>2 DEF WaitSof, FrameInv
  <2> QED
    BY <2>1, <2>2
<1>3. CASE ReadLen(b)
  <2>1. /\ heard # <<>> /\ heard[1] = SOF /\ Len(heard) = 1
        /\ heard' = Append(heard, b) /\ len' = b
    BY <1>3, Recorded DEF ReadLen, IInv, FrameInv
  <2>2. /\ heard' \in Seq(Byte) /\ Len(heard') = 2 /\ heard'[1] = SOF /\ heard'[2] = b
        /\ Tail(heard') = Append(Tail(heard), b) /\ Len(Tail(heard)) = 0
        /\ Tail(heard) \in Seq(Byte)
    BY <1>1, <2>1, TailAppends
  <2>3. Tail(heard) = <<>>
    BY <2>2
  <2>4. Checksum(Tail(heard')) = b
    <3>1. Checksum(Append(Tail(heard), b)) = b
      BY <2>2, <2>3, ChecksumAppends
    <3> QED
      BY <2>2, <3>1
  <2>5. state' = "sof" \/ (state' = "body" /\ index' = 0 /\ xorAcc' = b)
    BY <1>3 DEF ReadLen
  <2>6. heard' # <<>>
    BY <2>2
  <2> QED
    BY <2>1, <2>2, <2>4, <2>5, <2>6 DEF FrameInv
<1>4. CASE ReadBody(b)
  <2>1. /\ heard # <<>> /\ heard[1] = SOF /\ Len(heard) = index + 2 /\ heard[2] = len
        /\ \A i \in 1 .. index : heard[i + 2] = buf[i - 1]
        /\ xorAcc = Checksum(Tail(heard)) /\ heard' = Append(heard, b)
    BY <1>4, Recorded DEF ReadBody, IInv, FrameInv
  <2>2. index \in Nat /\ index \in BufIndex /\ buf \in [BufIndex -> Byte]
    <3>1. index \in Nat /\ len \in Nat /\ MaxLen \in Nat
      BY DEF IInv, TypeOK, Byte, MaxLen
    <3>2. index < len /\ len <= MaxLen
      BY <1>4 DEF ReadBody, IInv, BufferBound
    <3>3. index \in BufIndex
      BY <3>1, <3>2 DEF BufIndex
    <3> QED
      BY <3>1, <3>3 DEF IInv, TypeOK
  <2>3. /\ heard' \in Seq(Byte) /\ Len(heard') = index + 3 /\ heard'[index + 3] = b
        /\ \A i \in 1 .. index + 2 : heard'[i] = heard[i]
        /\ Tail(heard') = Append(Tail(heard), b) /\ Len(Tail(heard)) = index + 1
        /\ Tail(heard) \in Seq(Byte)
    BY <1>1, <2>1, <2>2, TailAppends
  <2>4. /\ index' = index + 1 /\ len' = len /\ state' \in {"body", "chk"}
        /\ buf' = [buf EXCEPT ![index] = b] /\ xorAcc' = Xor(xorAcc, b)
    BY <1>4 DEF ReadBody
  <2>5. \A i \in 1 .. index + 1 : heard'[i + 2] = buf'[i - 1]
    <3> TAKE i \in 1 .. index + 1
    <3>1. CASE i = index + 1
      BY <2>2, <2>3, <2>4, <3>1
    <3>2. CASE i # index + 1
      <4>1. i \in 1 .. index /\ i + 2 \in 1 .. index + 2 /\ i - 1 # index
        BY <2>2, <3>2
      <4>2. i - 1 \in BufIndex
        <5>1. MaxLen \in Nat
          BY DEF MaxLen
        <5>2. index >= 0 /\ index <= MaxLen - 1
          BY <2>2, <5>1 DEF BufIndex
        <5> QED
          BY <2>2, <4>1, <5>1, <5>2 DEF BufIndex
      <4> QED
        BY <2>1, <2>2, <2>3, <2>4, <4>1, <4>2
    <3> QED
      BY <3>1, <3>2
  <2>6. Tail(heard) # <<>>
    BY <2>2, <2>3
  <2>7. Checksum(Tail(heard')) = xorAcc'
    BY <2>1, <2>3, <2>4, <2>6, ChecksumAppends, ZenonT(60)
  <2>8. heard' # <<>> /\ heard'[1] = SOF /\ heard'[2] = len /\ Len(heard') = index' + 2
    BY <2>1, <2>2, <2>3, <2>4
  <2> QED
    BY <2>3, <2>4, <2>5, <2>7, <2>8 DEF FrameInv
<1>5. CASE ReadChk(b)
  <2>1. heard # <<>> /\ heard' = Append(heard, b)
    BY <1>5, Recorded DEF ReadChk, IInv, FrameInv
  <2>2. heard' \in Seq(Byte)
    BY <1>1, <2>1, TailAppends
  <2>3. state' = "sof"
    BY <1>5 DEF ReadChk, AfterChk
  <2> QED
    BY <2>2, <2>3 DEF FrameInv
<1> QED
  BY <1>2, <1>3, <1>4, <1>5 DEF ParserConsume

\* So does every other step.
LEMMA FrameStep ==
  ASSUME IInv, [Next]_vars
  PROVE  FrameInv'
<1>1. CASE SendNoise
  BY <1>1, ConsumeRecords DEF SendNoise
<1>2. CASE StartRetrying
  BY <1>2 DEF StartRetrying, parserVars, IInv, FrameInv
<1>3. CASE SendPing
  <2>1. Ping[sent + 1] \in Byte
    BY PingBytes DEF IInv, TypeOK
  <2> QED
    BY <1>3, <2>1, ConsumeRecords DEF SendPing
<1>4. CASE HandlePacket
  BY <1>4 DEF HandlePacket, IInv, FrameInv
<1>5. CASE UNCHANGED vars
  BY <1>5 DEF vars, parserVars, IInv, FrameInv
<1> QED
  BY <1>1, <1>2, <1>3, <1>4, <1>5 DEF Next

\* A frame is its SOF, the bytes its checksum covers and the checksum.
LEMMA FrameParts ==
  ASSUME NEW s \in Seq(Byte), s # <<>>, s[1] = SOF, NEW b \in Byte
  PROVE  Append(s, b) = <<SOF>> \o Tail(s) \o <<b>>
<1> DEFINE l == Append(s, b)
           r == <<SOF>> \o Tail(s) \o <<b>>
<1>1. Tail(s) \in Seq(Byte) /\ Len(Tail(s)) = Len(s) - 1 /\ Len(s) \in Nat
  OBVIOUS
<1>2. l \in Seq(Byte) /\ Len(l) = Len(s) + 1
  OBVIOUS
<1>3. r \in Seq(Byte) /\ Len(r) = Len(s) + 1
  BY <1>1
<1>4. \A i \in 1 .. Len(s) + 1 : l[i] = r[i]
  BY <1>1
<1> HIDE DEF l, r
<1>5. l = r
  BY <1>2, <1>3, <1>4
<1> QED
  BY <1>5 DEF l, r

\* What the last byte of a frame does.
LEMMA ChkDelivers ==
  ASSUME IInv, NEW b \in Byte, ParserConsume(b), state = "chk"
  PROVE  IF Checksum(Tail(heard')) = 0
         THEN ready' = 1 /\ heard' = BuildPacket(pkt'.seq, pkt'.cmd, pkt'.payload)
         ELSE ready' = 0 /\ pkt' = pkt
<1> DEFINE t == Tail(heard)
           p == [i \in 1 .. len - 2 |-> buf[i + 1]]
<1>1. ReadChk(b) /\ ready = 0
  BY DEF ParserConsume, WaitSof, ReadLen, ReadBody
<1>2. /\ heard \in Seq(Byte) /\ heard # <<>> /\ heard[1] = SOF
      /\ Len(heard) = index + 2 /\ heard[2] = len
      /\ \A i \in 1 .. index : heard[i + 2] = buf[i - 1]
      /\ xorAcc = Checksum(t)
  BY DEF IInv, FrameInv
<1>3. index = len /\ len \in Nat /\ len >= 2 /\ xorAcc \in Byte
  BY DEF IInv, TypeOK, BufferBound, Byte
<1>4. heard' = Append(heard, b)
  BY <1>1, Recorded DEF ReadChk
<1>5. /\ t \in Seq(Byte) /\ Tail(heard') = Append(t, b) /\ Len(t) = len + 1
      /\ \A i \in 1 .. len + 1 : t[i] = heard[i + 1]
  BY <1>2, <1>3, <1>4, TailAppends
<1>6. t[1] = len /\ \A i \in 1 .. len : t[i + 1] = buf[i - 1]
  BY <1>2, <1>3, <1>5
<1> HIDE DEF t
<1>7. t = <<2 + Len(p), buf[0], buf[1]>> \o p
  <2>1. len - 2 \in Nat /\ \A i \in 1 .. len - 2 : buf[i + 1] \in Byte
    <3>1. MaxLen \in Nat /\ len <= MaxLen
      BY DEF IInv, BufferBound, MaxLen
    <3>2. \A i \in 1 .. len - 2 : i + 1 \in BufIndex
      BY <1>3, <3>1 DEF BufIndex
    <3> QED
      BY <1>3, <3>2 DEF IInv, TypeOK
  <2>2. /\ p \in Seq(Byte) /\ Len(p) = len - 2
        /\ \A i \in 1 .. len - 2 : p[i] = buf[i + 1]
    BY <2>1
  <2> HIDE DEF p
  <2>3. \A i \in 1 .. len - 2 : buf[i + 1] = t[i + 3]
    <3> TAKE i \in 1 .. len - 2
    <3>1. i + 2 \in 1 .. len /\ (i + 2) - 1 = i + 1 /\ (i + 2) + 1 = i + 3
      BY <1>3
    <3>2. t[(i + 2) + 1] = buf[(i + 2) - 1]
      BY <1>6, <3>1
    <3> QED
      BY <3>1, <3>2
  <2>4. buf[0] = t[2] /\ buf[1] = t[3] /\ 2 + Len(p) = t[1]
    <3>1. 1 \in 1 .. len /\ 2 \in 1 .. len
      BY <1>3
    <3>2. t[1 + 1] = buf[1 - 1] /\ t[2 + 1] = buf[2 - 1]
      BY <1>6, <3>1
    <3> QED
      BY <1>3, <1>6, <2>2, <3>2
  <2>5. t = <<t[1], t[2], t[3]>> \o p
    <3>1. Len(t) = Len(p) + 3 /\ \A i \in 1 .. Len(p) : p[i] = t[i + 3]
      BY <1>3, <1>5, <2>2, <2>3
    <3> QED
      BY <1>5, <2>2, <3>1, HeadAndRest
  <2> QED
    BY <2>4, <2>5
<1>8. Checksum(Tail(heard')) = Xor(xorAcc, b)
  <2>1. t # <<>>
    BY <1>3, <1>5
  <2> QED
    BY <1>2, <1>5, <2>1, ChecksumAppends, ZenonT(60)
<1>9. Checksum(Tail(heard')) = 0 <=> xorAcc = b
  BY <1>3, <1>8
<1>10. CASE xorAcc = b
  <2>1. pkt' = [seq |-> buf[0], cmd |-> buf[1], payload |-> p] /\ ready' = 1
    BY <1>1, <1>10 DEF ReadChk, ChecksumMatches
  <2>2. heard' = <<SOF>> \o t \o <<Checksum(t)>>
    BY <1>2, <1>4, <1>10, FrameParts DEF t
  <2>3. BuildPacket(buf[0], buf[1], p) = <<SOF>> \o t \o <<Checksum(t)>>
    BY <1>7 DEF BuildPacket
  <2> HIDE DEF p
  <2>4. pkt'.seq = buf[0] /\ pkt'.cmd = buf[1] /\ pkt'.payload = p
    BY <2>1
  <2> QED
    BY <1>9, <1>10, <2>1, <2>2, <2>3, <2>4
<1>11. CASE xorAcc # b
  BY <1>1, <1>9, <1>11 DEF ReadChk, ChecksumMatches
<1> QED
  BY <1>10, <1>11

\* A packet is delivered exactly when the bytes since its SOF are the frame
\* buildPacket makes of it, for any width, payload limit and exclusive or:
\* parserConsume accepts nothing else and drops no intact frame.
THEOREM DeliversExactlyFrames == Spec => DeliveredIffFrame
<1>1. Init => FrameInv
  BY DEF Init, FrameInv
<1>2. ASSUME IInv, [Next]_vars
      PROVE  FrameInv'
  BY <1>2, FrameStep
<1>3. ASSUME IInv, [Next]_vars, state = "chk", state' # "chk"
      PROVE  IF Checksum(Tail(heard')) = 0
             THEN ready' = 1 /\ heard' = BuildPacket(pkt'.seq, pkt'.cmd, pkt'.payload)
             ELSE ready' = 0 /\ pkt' = pkt
  <2>1. PICK b \in Byte : ParserConsume(b)
    <3>1. CASE SendNoise
      BY <3>1 DEF SendNoise
    <3>2. CASE SendPing
      <4>1. Ping[sent + 1] \in Byte
        BY <1>3, PingBytes DEF IInv, TypeOK
      <4> QED
        BY <3>2, <4>1 DEF SendPing
    <3>3. CASE StartRetrying
      BY <1>3, <3>3 DEF StartRetrying, parserVars
    <3>4. CASE HandlePacket
      BY <1>3, <3>4 DEF HandlePacket
    <3>5. CASE UNCHANGED vars
      BY <1>3, <3>5 DEF vars, parserVars
    <3> QED
      BY <1>3, <3>1, <3>2, <3>3, <3>4, <3>5 DEF Next
  <2> QED
    BY <1>3, <2>1, ChkDelivers
<1> QED
  <2>1. Spec => []IInv
    BY <1>1, <1>2, BufferSafe, PTL DEF Spec, IInv
  <2> QED
    BY <1>3, <2>1, PTL DEF Spec, DeliveredIffFrame
=============================================================================
