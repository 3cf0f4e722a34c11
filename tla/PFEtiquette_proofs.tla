------------------------- MODULE PFEtiquette_proofs -------------------------
(***************************************************************************)
(* The staggered schedule gets a copy through, whatever the two channels,  *)
(* the moments the bursts start and the length of a message up to tm.      *)
(***************************************************************************)
EXTENDS PFEtiquette, Integers, TLAPS

\* When the n-th copy begins, in units since the burst was promoted: the head
\* start, then the targets one by one.
StartsAt(n, ch) ==
  CASE n = 1 -> 20 - 5 * ch
    [] n = 2 -> 45 - 5 * ch
    [] n = 3 -> 70 - 5 * ch
    [] n = 4 -> 100 + 5 * ch
    [] n = 5 -> 130 + 15 * ch

\* The age of a burst, told from the countdown to its next copy, or, when there
\* is none to come, from what is left of the last.
Clock(b) ==
  IF wait[b] > 0 THEN StartsAt(repeat[b] + 1, channel[b]) - wait[b]
                 ELSE StartsAt(5, channel[b]) + Length - left[b]

\* A board is on the air for Length units from the start of each copy.
BoardInv(b) ==
  /\ wait[b] > 0 => /\ repeat[b] < 5
                    /\ repeat[b] = 0 => Clock(b) >= 0
                    /\ repeat[b] > 0 => Clock(b) >= StartsAt(repeat[b], channel[b])
  /\ repeat[b] = 0 => left[b] = 0
  /\ wait[b] = 0 /\ left[b] > 0 => repeat[b] = 5
  /\ wait[b] > 0 /\ repeat[b] > 0 =>
       LET end == StartsAt(repeat[b], channel[b]) + Length
       IN  left[b] = IF Clock(b) < end THEN end - Clock(b) ELSE 0

\* Bursts started together stay together, and their first copies are apart.
TogetherInv ==
  together = 1 =>
    /\ Busy(1) /\ Busy(2) => Clock(1) = Clock(2)
    /\ \A b \in Board : repeat[b] = 1 => hit[b] = 0

\* Copies begun, less the one on the air while nothing has met it.
Covered(b) == IF left[b] > 0 /\ hit[b] = 0 THEN repeat[b] - 1 ELSE repeat[b]

\* b's i-th copy overlaps the other board's m-th, d units its senior.
Overlap(b, i, m, d) ==
  LET apart == StartsAt(i, channel[b]) - StartsAt(m, channel[Other(b)]) - d
  IN  apart < Length /\ apart > -Length

AllOverlap(b, n, d) == \A i \in 1 .. n : \E m \in 1 .. 5 : Overlap(b, i, m, d)

\* While no copy of a burst was clear and at most one burst was met, every
\* copy begun met one of that burst, at the one distance between the two.
RivalInv(b) ==
  /\ Busy(b) /\ Busy(Other(b)) => rivals[b] > 0
  /\ rivals[b] = 0 /\ clear[b] = 0 => Covered(b) = 0
  /\ rivals[b] <= 1 /\ clear[b] = 0 =>
       \E d \in Int :
         /\ Busy(b) /\ Busy(Other(b)) => d = Clock(b) - Clock(Other(b))
         /\ AllOverlap(b, Covered(b), d)

IInv ==
  /\ TypeOK /\ TogetherInv
  /\ \A b \in Board : BoardInv(b) /\ RivalInv(b)

USE LengthAssumption DEF Board, Other, Tm, Channel, RepeatCount

-----------------------------------------------------------------------------
(* The schedule                                                            *)

\* Copies begin one target after another, in order, at least 25 units apart.
LEMMA Schedule ==
  ASSUME NEW ch \in Channel
  PROVE  /\ \A n \in 1 .. 5 : StartsAt(n, ch) \in Nat
         /\ StartsAt(1, ch) = HeadStart(ch)
         /\ \A n \in 1 .. 4 : /\ Target(n, ch) \in Nat
                              /\ StartsAt(n + 1, ch) = StartsAt(n, ch) + Target(n, ch)
                              /\ Target(n, ch) >= 25 /\ Target(n, ch) <= 60
         /\ HeadStart(ch) \in 5 .. 20
<1>1. ch = 0 \/ ch = 1 \/ ch = 2 \/ ch = 3
  OBVIOUS
<1>2. \A n \in 1 .. 5 : n = 1 \/ n = 2 \/ n = 3 \/ n = 4 \/ n = 5
  OBVIOUS
<1>3. \A n \in 1 .. 5 : StartsAt(n, ch) \in Nat
  BY <1>1, <1>2 DEF StartsAt
<1>4. /\ StartsAt(1, ch) = HeadStart(ch) /\ HeadStart(ch) \in 5 .. 20
  BY <1>1 DEF StartsAt, HeadStart
<1>5. \A n \in 1 .. 4 :
         /\ Target(n, ch) \in Nat
         /\ StartsAt(n + 1, ch) = StartsAt(n, ch) + Target(n, ch)
         /\ Target(n, ch) >= 25 /\ Target(n, ch) <= 60
  <2> TAKE n \in 1 .. 4
  <2>1. n = 1 \/ n = 2 \/ n = 3 \/ n = 4
    OBVIOUS
  <2> QED
    BY <1>1, <2>1 DEF StartsAt, Target
<1> QED
  BY <1>3, <1>4, <1>5

\* Later copies begin later.
LEMMA Increasing ==
  ASSUME NEW ch \in Channel, NEW m \in 1 .. 5, NEW n \in 1 .. 5, m <= n
  PROVE  StartsAt(m, ch) <= StartsAt(n, ch)
<1>1. ch = 0 \/ ch = 1 \/ ch = 2 \/ ch = 3
  OBVIOUS
<1>2. m = 1 \/ m = 2 \/ m = 3 \/ m = 4 \/ m = 5
  OBVIOUS
<1>3. n = 1 \/ n = 2 \/ n = 3 \/ n = 4 \/ n = 5
  OBVIOUS
<1> QED
  BY <1>1, <1>2, <1>3 DEF StartsAt

\* The spacing of any two channels differs enough that five copies of one
\* cannot all overlap copies of the other, at whatever distance.
LEMMA NeverAllOverlap ==
  ASSUME NEW ch \in Channel, NEW oc \in Channel, ch # oc, NEW d \in Int,
         \A i \in 1 .. 5 : \E m \in 1 .. 5 :
           LET apart == StartsAt(i, ch) - StartsAt(m, oc) - d
           IN  apart < 5 /\ apart > -5
  PROVE  FALSE
<1> DEFINE Near(i, m) ==
      LET apart == StartsAt(i, ch) - StartsAt(m, oc) - d
      IN  apart < 5 /\ apart > -5
<1>1. /\ \A n \in 1 .. 5 : StartsAt(n, ch) \in Nat
      /\ \A n \in 1 .. 5 : StartsAt(n, oc) \in Nat
  BY Schedule
<1>2. \A i \in 1 .. 4 : StartsAt(i + 1, ch) >= StartsAt(i, ch) + 25
  <2> TAKE i \in 1 .. 4
  <2>1. i \in 1 .. 5 /\ i + 1 \in 1 .. 5
    OBVIOUS
  <2>2. /\ Target(i, ch) \in Nat /\ Target(i, ch) >= 25
        /\ StartsAt(i + 1, ch) = StartsAt(i, ch) + Target(i, ch)
    BY Schedule
  <2> QED
    BY <1>1, <2>1, <2>2
<1>3. ASSUME NEW i \in 1 .. 4, NEW m \in 1 .. 5, NEW n \in 1 .. 5,
             Near(i, m), Near(i + 1, n)
      PROVE  n > m
  <2>1. i \in 1 .. 5 /\ i + 1 \in 1 .. 5
    OBVIOUS
  <2>2. StartsAt(n, oc) > StartsAt(m, oc)
    BY <1>1, <1>2, <1>3, <2>1
  <2>3. CASE n <= m
    <3>1. StartsAt(n, oc) <= StartsAt(m, oc)
      BY <2>3, Increasing
    <3> QED
      BY <1>1, <2>2, <3>1
  <2> QED
    BY <2>3
<1>4. \A i \in 1 .. 5 : \E m \in 1 .. 5 : Near(i, m)
  OBVIOUS
<1> HIDE DEF Near
<1>5. PICK m1 \in 1 .. 5 : Near(1, m1)
  BY <1>4
<1>6. PICK m2 \in 1 .. 5 : Near(1 + 1, m2)
  BY <1>4
<1>7. PICK m3 \in 1 .. 5 : Near(2 + 1, m3)
  BY <1>4
<1>8. PICK m4 \in 1 .. 5 : Near(3 + 1, m4)
  BY <1>4
<1>9. PICK m5 \in 1 .. 5 : Near(4 + 1, m5)
  BY <1>4
<1>10. m1 < m2 /\ m2 < m3 /\ m3 < m4 /\ m4 < m5
  BY <1>3, <1>5, <1>6, <1>7, <1>8, <1>9
<1>11. m3 = 3 /\ m5 = 5
  BY <1>10
<1>12. Near(3, 3) /\ Near(5, 5)
  BY <1>7, <1>9, <1>11
<1> QED
  BY <1>12 DEF Near, StartsAt

-----------------------------------------------------------------------------
(* Types, and a board by itself                                            *)

\* Types hold at the start and every step keeps them.
LEMMA TypesKept ==
  /\ Init => TypeOK
  /\ TypeOK /\ (\A b \in Board : BoardInv(b)) /\ [Next]_vars => TypeOK'
<1>1. Init => TypeOK
  BY DEF Init, TypeOK, Zero
<1>2. ASSUME TypeOK, \A b \in Board : BoardInv(b), [Next]_vars PROVE TypeOK'
  <2> USE <1>2 DEF TypeOK
  <2>1. ASSUME NEW b \in Board, Send(b) PROVE TypeOK'
    <3>1. channel[b] \in Channel /\ HeadStart(channel[b]) \in 0 .. 12 * Tm
      BY Schedule
    <3>2. \A n \in 0 .. 2 : AtMost2(n + 1) \in 0 .. 2
      BY DEF AtMost2
    <3>3. rivals' \in [Board -> 0 .. 2]
      BY <2>1, <3>2 DEF Send
    <3>4. together' \in {0, 1}
      BY <2>1 DEF Send
    <3> QED
      BY <2>1, <3>1, <3>3, <3>4 DEF Send
  <2>2. ASSUME NEW b \in Board, Abort(b) PROVE TypeOK'
    BY <2>2 DEF Abort
  <2>3. CASE Tick
    <3>1. \A b \in Board : wait'[b] \in 0 .. 12 * Tm
      <4> TAKE b \in Board
      <4>1. CASE Begins(b)
        <5>1. repeat[b] + 1 \in 1 .. 5
          BY <1>2, <4>1 DEF Begins, BoardInv
        <5>2. NextCopy(b) \in 0 .. 12 * Tm
          <6>1. CASE repeat[b] + 1 < RepeatCount
            <7>1. repeat[b] + 1 \in 1 .. 4
              BY <5>1, <6>1
            <7>2. channel[b] \in Channel
              OBVIOUS
            <7>3. /\ Target(repeat[b] + 1, channel[b]) \in Nat
                  /\ Target(repeat[b] + 1, channel[b]) <= 60
              BY <7>1, <7>2, Schedule
            <7> QED
              BY <6>1, <7>3 DEF NextCopy
          <6>2. CASE ~(repeat[b] + 1 < RepeatCount)
            BY <6>2 DEF NextCopy
          <6> QED
            BY <6>1, <6>2
        <5> QED
          BY <2>3, <4>1, <5>2 DEF Tick
      <4>2. CASE ~Begins(b)
        BY <2>3, <4>2 DEF Tick, Less1
      <4> QED
        BY <4>1, <4>2
    <3>2. \A b \in Board : repeat'[b] \in 0 .. RepeatCount
      BY <1>2, <2>3 DEF Tick, Begins, BoardInv
    <3>3. \A b \in Board : left'[b] \in 0 .. Length
      BY <2>3 DEF Tick, Less1
    <3>4. /\ wait' = [b \in Board |-> wait'[b]]
          /\ repeat' = [b \in Board |-> repeat'[b]]
          /\ left' = [b \in Board |-> left'[b]]
      BY <2>3 DEF Tick
    <3>5. hit' \in [Board -> {0, 1}] /\ clear' \in [Board -> {0, 1}]
      BY <2>3 DEF Tick
    <3> QED
      BY <2>3, <3>1, <3>2, <3>3, <3>4, <3>5 DEF Tick
  <2>4. CASE UNCHANGED vars
    BY <2>4 DEF vars
  <2> QED
    BY <1>2, <2>1, <2>2, <2>3, <2>4 DEF Next
<1> QED
  BY <1>1, <1>2

\* The age of a burst is an integer.
LEMMA ClockType ==
  ASSUME TypeOK, NEW b \in Board, BoardInv(b)
  PROVE  Clock(b) \in Int
<1>1. channel[b] \in Channel /\ wait[b] \in Nat /\ left[b] \in Nat
  BY DEF TypeOK
<1>2. StartsAt(5, channel[b]) \in Nat
  BY <1>1, Schedule
<1>3. CASE wait[b] > 0
  <2>1. repeat[b] + 1 \in 1 .. 5
    BY <1>3 DEF TypeOK, BoardInv
  <2>2. StartsAt(repeat[b] + 1, channel[b]) \in Nat
    BY <1>1, <2>1, Schedule
  <2> QED
    BY <1>1, <1>3, <2>2 DEF Clock
<1>4. CASE ~(wait[b] > 0)
  BY <1>1, <1>2, <1>4 DEF Clock
<1> QED
  BY <1>3, <1>4

\* A copy is on the air for Length units from its start.
LEMMA OnAir ==
  ASSUME TypeOK, NEW b \in Board, BoardInv(b), left[b] > 0
  PROVE  /\ repeat[b] \in 1 .. 5 /\ Busy(b)
         /\ Clock(b) >= StartsAt(repeat[b], channel[b])
         /\ Clock(b) < StartsAt(repeat[b], channel[b]) + Length
<1>1. /\ channel[b] \in Channel /\ wait[b] \in Nat /\ left[b] \in 0 .. Length
      /\ repeat[b] \in 1 .. 5
  BY DEF TypeOK, BoardInv
<1>2. StartsAt(repeat[b], channel[b]) \in Nat /\ Clock(b) \in Int
  BY <1>1, Schedule, ClockType
<1>3. CASE wait[b] > 0
  BY <1>1, <1>2, <1>3 DEF BoardInv, Busy
<1>4. CASE ~(wait[b] > 0)
  <2>1. repeat[b] = 5
    BY <1>1, <1>4 DEF BoardInv
  <2> QED
    BY <1>1, <1>2, <1>4, <2>1 DEF Clock, Busy
<1> QED
  BY <1>3, <1>4

\* What a unit of time does to a board that is to stay busy: it is a unit
\* older; and each copy begins after the one before is over.
LEMMA TickBoard ==
  ASSUME TypeOK, NEW b \in Board, BoardInv(b), Tick
  PROVE  /\ BoardInv(b)'
         /\ Busy(b)' => Busy(b) /\ Clock(b)' = Clock(b) + 1
         /\ Begins(b) => left[b] = 0
<1> DEFINE r == repeat[b]
           ch == channel[b]
<1>1. /\ ch \in Channel /\ channel' = channel /\ r \in 0 .. 5
      /\ wait[b] \in Nat /\ left[b] \in 0 .. Length /\ Clock(b) \in Int
  BY ClockType DEF Tick, TypeOK
<1>2. /\ wait'[b] = IF Begins(b) THEN NextCopy(b) ELSE Less1(wait[b])
      /\ repeat'[b] = IF Begins(b) THEN r + 1 ELSE r
      /\ left'[b] = IF Begins(b) THEN Length ELSE Less1(left[b])
  BY DEF Tick
<1>3. \A n \in 1 .. 5 : StartsAt(n, ch) \in Nat
  BY <1>1, Schedule
<1>4. CASE Begins(b)
  <2>1. wait[b] = 1 /\ r \in 0 .. 4 /\ r + 1 \in 1 .. 5
    BY <1>1, <1>4 DEF Begins, BoardInv
  <2>2. Clock(b) = StartsAt(r + 1, ch) - 1 /\ StartsAt(r + 1, ch) \in Nat
    BY <1>3, <2>1 DEF Clock
  <2>3. left[b] = 0
    <3>1. CASE r = 0
      BY <3>1 DEF BoardInv
    <3>2. CASE r # 0
      <4>1. r \in 1 .. 4
        BY <2>1, <3>2
      <4>2. /\ Target(r, ch) \in Nat /\ StartsAt(r + 1, ch) = StartsAt(r, ch) + Target(r, ch)
            /\ Target(r, ch) >= 25 /\ StartsAt(r, ch) \in Nat
        BY <1>1, <1>3, <4>1, Schedule
      <4>3. ~(Clock(b) < StartsAt(r, ch) + Length)
        BY <2>2, <4>2
      <4> QED
        BY <2>1, <4>1, <4>3 DEF BoardInv
    <3> QED
      BY <3>1, <3>2
  <2>4. Busy(b) /\ repeat'[b] = r + 1 /\ left'[b] = Length
    BY <1>2, <1>4, <2>1 DEF Busy
  <2>5. Clock(b)' = StartsAt(r + 1, ch)
    <3>1. CASE r + 1 < 5
      <4>1. /\ Target(r + 1, ch) \in Nat /\ Target(r + 1, ch) >= 25
            /\ StartsAt((r + 1) + 1, ch) = StartsAt(r + 1, ch) + Target(r + 1, ch)
        BY <1>1, <2>1, <3>1, Schedule
      <4>2. wait'[b] = Target(r + 1, ch)
        BY <1>2, <1>4, <3>1 DEF NextCopy
      <4> QED
        BY <1>1, <2>2, <2>4, <4>1, <4>2 DEF Clock
    <3>2. CASE ~(r + 1 < 5)
      <4>1. r + 1 = 5 /\ wait'[b] = 0
        BY <1>2, <1>4, <2>1, <3>2 DEF NextCopy
      <4> QED
        BY <1>1, <2>2, <2>4, <4>1 DEF Clock
    <3> QED
      BY <3>1, <3>2
  <2>6. wait'[b] > 0 => repeat'[b] < 5
    BY <1>2, <1>4, <2>1 DEF NextCopy
  <2>7. wait'[b] = 0 => repeat'[b] = 5
    <3> SUFFICES ASSUME wait'[b] = 0, repeat'[b] # 5 PROVE FALSE
      OBVIOUS
    <3>1. r + 1 \in 1 .. 4
      BY <2>1, <2>4
    <3>2. Target(r + 1, ch) \in Nat /\ Target(r + 1, ch) >= 25
      BY <1>1, <3>1, Schedule
    <3> QED
      BY <1>2, <1>4, <3>1, <3>2 DEF NextCopy
  <2>8. BoardInv(b)'
    BY <1>1, <2>1, <2>2, <2>4, <2>5, <2>6, <2>7 DEF BoardInv
  <2> QED
    BY <2>2, <2>3, <2>4, <2>5, <2>8
<1>5. CASE ~Begins(b)
  <2>1. repeat'[b] = r /\ wait'[b] = Less1(wait[b]) /\ left'[b] = Less1(left[b])
    BY <1>2, <1>5
  <2>2. wait[b] # 1
    BY <1>5 DEF Begins
  <2>3. CASE wait[b] > 0
    <3>1. wait'[b] = wait[b] - 1 /\ wait'[b] > 0
      BY <1>1, <2>1, <2>2, <2>3 DEF Less1
    <3>2. r \in 0 .. 4 /\ StartsAt(r + 1, ch) \in Nat
      BY <1>1, <1>3, <2>3 DEF BoardInv
    <3>3. Clock(b) = StartsAt(r + 1, ch) - wait[b]
          /\ Clock(b)' = StartsAt(r + 1, ch) - wait'[b]
      BY <1>1, <2>1, <2>3, <3>1 DEF Clock
    <3>4. Clock(b)' = Clock(b) + 1
      BY <1>1, <3>1, <3>2, <3>3
    <3>5. CASE r = 0
      <4>1. left'[b] = 0 /\ Clock(b) >= 0
        BY <2>1, <2>3, <3>5 DEF BoardInv, Less1
      <4> QED
        BY <1>1, <1>5, <2>1, <2>3, <3>1, <3>4, <3>5, <4>1 DEF BoardInv, Busy
    <3>6. CASE r # 0
      <4>1. r \in 1 .. 4 /\ StartsAt(r, ch) \in Nat /\ Clock(b) >= StartsAt(r, ch)
        BY <1>3, <2>3, <3>2, <3>6 DEF BoardInv
      <4>2. left[b] = IF Clock(b) < StartsAt(r, ch) + Length
                      THEN StartsAt(r, ch) + Length - Clock(b) ELSE 0
        BY <1>1, <2>3, <4>1 DEF BoardInv
      <4>3. left'[b] = IF Clock(b)' < StartsAt(r, ch) + Length
                       THEN StartsAt(r, ch) + Length - Clock(b)' ELSE 0
        BY <1>1, <2>1, <3>4, <4>1, <4>2 DEF Less1
      <4>4. BoardInv(b)'
        BY <1>1, <2>1, <3>1, <3>4, <4>1, <4>3 DEF BoardInv
      <4> QED
        BY <1>5, <2>3, <3>4, <4>4 DEF Busy
    <3> QED
      BY <3>5, <3>6
  <2>4. CASE ~(wait[b] > 0)
    <3>1. wait[b] = 0 /\ wait'[b] = 0
      BY <1>1, <2>1, <2>4 DEF Less1
    <3>2. BoardInv(b)'
      BY <1>1, <2>1, <3>1 DEF BoardInv, Less1
    <3>3. left'[b] > 0 => left[b] > 0 /\ left'[b] = left[b] - 1
      BY <1>1, <2>1 DEF Less1
    <3>4. left'[b] > 0 => Clock(b)' = Clock(b) + 1
      BY <1>1, <1>3, <3>1, <3>3 DEF Clock
    <3> QED
      BY <1>5, <3>1, <3>2, <3>3, <3>4 DEF Busy
  <2> QED
    BY <2>3, <2>4
<1> QED
  BY <1>4, <1>5

\* A promotion is the birth of a burst, and leaves the other board alone.
LEMMA SendBoard ==
  ASSUME TypeOK, NEW b \in Board, Send(b), \A c \in Board : BoardInv(c)
  PROVE  /\ \A c \in Board : BoardInv(c)'
         /\ ~Busy(b) /\ Busy(b)' /\ Clock(b)' = 0 /\ Covered(b)' = 0
         /\ Busy(Other(b))' = Busy(Other(b)) /\ Clock(Other(b))' = Clock(Other(b))
         /\ Covered(Other(b))' = Covered(Other(b)) /\ Other(b) \in Board
         /\ Other(b) # b /\ Other(Other(b)) = b
<1> DEFINE o == Other(b)
<1>1. o \in Board /\ o # b /\ Other(o) = b /\ \A c \in Board : c = b \/ c = o
  OBVIOUS
<1>2. /\ wait'[b] = HeadStart(channel[b]) /\ repeat'[b] = 0 /\ ~Busy(b)
      /\ channel' = channel /\ left' = left /\ hit' = hit
      /\ wait'[o] = wait[o] /\ repeat'[o] = repeat[o]
  BY <1>1 DEF Send, TypeOK
<1>3. HeadStart(channel[b]) \in 5 .. 20 /\ StartsAt(1, channel[b]) = HeadStart(channel[b])
  <2>1. channel[b] \in Channel
    BY DEF TypeOK
  <2> QED
    BY <2>1, Schedule
<1>4. left[b] = 0
  <2>1. left[b] \in Nat
    BY DEF TypeOK
  <2> QED
    BY <1>2, <2>1 DEF Busy
<1>5. Busy(b)' /\ Clock(b)' = 0 /\ Covered(b)' = 0
  BY <1>2, <1>3, <1>4 DEF Busy, Clock, Covered
<1>6. BoardInv(b)'
  BY <1>2, <1>3, <1>4, <1>5 DEF BoardInv
<1> HIDE DEF o
<1>7. Clock(o)' = Clock(o)
  BY <1>2 DEF Clock
<1>8. Busy(o)' = Busy(o)
  BY <1>2 DEF Busy
<1>9. Covered(o)' = Covered(o)
  BY <1>2 DEF Covered
<1>10. BoardInv(o)'
  <2>1. BoardInv(o)
    BY <1>1
  <2> QED
    BY <1>2, <1>7, <2>1 DEF BoardInv
<1> QED
  BY <1>1, <1>2, <1>5, <1>6, <1>7, <1>8, <1>9, <1>10 DEF o

\* An abort is the end of a burst, and leaves the other board alone.
LEMMA AbortBoard ==
  ASSUME TypeOK, NEW b \in Board, Abort(b), \A c \in Board : BoardInv(c)
  PROVE  /\ \A c \in Board : BoardInv(c)'
         /\ ~Busy(b)' /\ Covered(b)' = 0
         /\ Covered(Other(b))' = Covered(Other(b)) /\ Other(b) \in Board
         /\ Other(b) # b /\ Other(Other(b)) = b
<1> DEFINE o == Other(b)
<1>1. o \in Board /\ o # b /\ Other(o) = b /\ \A c \in Board : c = b \/ c = o
  OBVIOUS
<1>2. /\ wait'[b] = 0 /\ repeat'[b] = 0 /\ left'[b] = 0
      /\ channel' = channel /\ hit' = hit
      /\ wait'[o] = wait[o] /\ repeat'[o] = repeat[o] /\ left'[o] = left[o]
  BY <1>1 DEF Abort, TypeOK
<1>3. ~Busy(b)' /\ Covered(b)' = 0 /\ BoardInv(b)'
  BY <1>2 DEF Busy, Covered, BoardInv
<1> HIDE DEF o
<1>4. Clock(o)' = Clock(o)
  BY <1>2 DEF Clock
<1>5. Covered(o)' = Covered(o)
  BY <1>2 DEF Covered
<1>6. BoardInv(o)'
  <2>1. BoardInv(o)
    BY <1>1
  <2> QED
    BY <1>2, <1>4, <2>1 DEF BoardInv
<1> QED
  BY <1>1, <1>3, <1>5, <1>6 DEF o

-----------------------------------------------------------------------------
(* Two boards                                                              *)

\* The first copies of bursts started together are over before any other
\* copy of either begins.
LEMMA FirstCopiesApart ==
  TypeOK /\ (\A c \in Board : BoardInv(c)) =>
    \A b \in Board :
      repeat[b] = 1 /\ left[b] > 0 /\ left[Other(b)] > 0 => Clock(b) # Clock(Other(b))
<1> SUFFICES ASSUME TypeOK, \A c \in Board : BoardInv(c), NEW b \in Board,
                    repeat[b] = 1, left[b] > 0, left[Other(b)] > 0
             PROVE  Clock(b) # Clock(Other(b))
  OBVIOUS
<1> DEFINE o == Other(b)
<1>1. o \in Board /\ channel[b] \in Channel /\ channel[o] \in Channel
  BY DEF TypeOK
<1>2. channel[b] # channel[o]
  BY DEF TypeOK
<1>3. /\ Clock(b) >= StartsAt(1, channel[b])
      /\ Clock(b) < StartsAt(1, channel[b]) + Length
  BY OnAir
<1>4. /\ repeat[o] \in 1 .. 5
      /\ Clock(o) >= StartsAt(repeat[o], channel[o])
      /\ Clock(o) < StartsAt(repeat[o], channel[o]) + Length
  BY <1>1, OnAir
<1>5. Clock(b) \in Int /\ Clock(o) \in Int
  BY <1>1, ClockType
<1>6. StartsAt(1, channel[b]) = 20 - 5 * channel[b]
  BY DEF StartsAt
<1>7. CASE repeat[o] = 1
  <2>1. StartsAt(1, channel[o]) = 20 - 5 * channel[o]
    BY DEF StartsAt
  <2> QED
    BY <1>1, <1>2, <1>3, <1>4, <1>5, <1>6, <1>7, <2>1
<1>8. CASE repeat[o] # 1
  <2>1. 2 \in 1 .. 5 /\ 2 <= repeat[o]
    BY <1>4, <1>8
  <2>2. StartsAt(2, channel[o]) <= StartsAt(repeat[o], channel[o])
    BY <1>1, <1>4, <2>1, Increasing
  <2>3. StartsAt(2, channel[o]) = 45 - 5 * channel[o]
    BY DEF StartsAt
  <2>4. StartsAt(repeat[o], channel[o]) \in Nat
    BY <1>1, <1>4, Schedule
  <2> QED
    BY <1>1, <1>3, <1>4, <1>5, <1>6, <2>2, <2>3, <2>4
<1> QED
  BY <1>7, <1>8

\* The same after a step.
LEMMA FirstCopiesApartNext ==
  TypeOK' /\ (\A c \in Board : BoardInv(c))' =>
    (\A b \in Board :
       repeat[b] = 1 /\ left[b] > 0 /\ left[Other(b)] > 0 => Clock(b) # Clock(Other(b)))'
  BY FirstCopiesApart, PTL

\* What a unit of time does to a copy on the air, as the other board sees it.
LEMMA TickHit ==
  ASSUME TypeOK, NEW b \in Board, Tick
  PROVE  /\ channel' = channel /\ rivals' = rivals /\ together' = together
         /\ hit'[b] = IF left'[b] > 0 /\ left'[Other(b)] > 0 THEN 1
                      ELSE IF left'[b] = 0 THEN 0
                      ELSE IF Begins(b) THEN 0 ELSE hit[b]
         /\ clear'[b] = IF Ends(b) /\ hit[b] = 0 THEN 1 ELSE clear[b]
<1> DEFINE meet == \A c \in Board : left'[c] > 0
<1>1. meet <=> left'[b] > 0 /\ left'[Other(b)] > 0
  OBVIOUS
<1>2. hit' = [c \in Board |-> IF meet THEN 1
                              ELSE IF left'[c] = 0 THEN 0
                              ELSE IF Begins(c) THEN 0 ELSE hit[c]]
  BY DEF Tick
<1>3. clear' = [c \in Board |-> IF Ends(c) /\ hit[c] = 0 THEN 1 ELSE clear[c]]
  BY DEF Tick
<1>4. channel' = channel /\ rivals' = rivals /\ together' = together
  BY DEF Tick
<1> HIDE DEF meet
<1> QED
  BY <1>1, <1>2, <1>3, <1>4

\* Bursts started together stay together, and their first copies stay apart.
LEMMA TogetherStep ==
  ASSUME TypeOK, TypeOK', TogetherInv, \A c \in Board : BoardInv(c), [Next]_vars
  PROVE  TogetherInv'
<1>1. ASSUME NEW b \in Board, Send(b) PROVE TogetherInv'
  <2> DEFINE o == Other(b)
  <2>1. /\ Clock(b)' = 0 /\ Clock(o)' = Clock(o) /\ o \in Board /\ o # b
    BY <1>1, SendBoard
  <2>2. together' = (IF JustStarted(o) THEN 1 ELSE 0) /\ repeat'[b] = 0
        /\ repeat'[o] = repeat[o]
    BY <1>1, <2>1 DEF Send, TypeOK
  <2>3. CASE JustStarted(o)
    <3>1. repeat[o] = 0 /\ wait[o] = HeadStart(channel[o])
      BY <2>3 DEF JustStarted
    <3>2. /\ HeadStart(channel[o]) \in 5 .. 20
          /\ StartsAt(1, channel[o]) = HeadStart(channel[o])
      <4>1. channel[o] \in Channel
        BY <2>1 DEF TypeOK
      <4> QED
        BY <4>1, Schedule
    <3>3. Clock(o) = 0
      BY <3>1, <3>2 DEF Clock
    <3>4. Clock(1)' = Clock(2)'
      BY <2>1, <3>3
    <3>5. \A c \in Board : repeat'[c] = 0
      BY <2>1, <2>2, <3>1
    <3> QED
      BY <3>4, <3>5 DEF TogetherInv
  <2>4. CASE ~JustStarted(o)
    BY <2>2, <2>4 DEF TogetherInv
  <2> QED
    BY <2>3, <2>4
<1>2. ASSUME NEW b \in Board, Abort(b) PROVE TogetherInv'
  BY <1>2 DEF Abort, TogetherInv
<1>3. CASE Tick
  <2> SUFFICES ASSUME together = 1 PROVE TogetherInv'
    BY <1>3 DEF Tick, TogetherInv
  <2>1. \A c \in Board : BoardInv(c)'
    BY <1>3, TickBoard
  <2>2. Busy(1)' /\ Busy(2)' => Clock(1)' = Clock(2)'
    BY <1>3, TickBoard DEF TogetherInv
  <2>3. ASSUME NEW b \in Board, repeat'[b] = 1 PROVE hit'[b] = 0
    <3>1. ~(left'[b] > 0 /\ left'[Other(b)] > 0)
      <4> SUFFICES ASSUME left'[b] > 0, left'[Other(b)] > 0 PROVE FALSE
        OBVIOUS
      <4>1. Busy(1)' /\ Busy(2)'
        BY DEF Busy
      <4>2. Clock(b)' = Clock(Other(b))'
        BY <2>2, <4>1
      <4> QED
        BY <2>1, <2>3, <4>2, FirstCopiesApartNext
    <3>2. hit'[b] = IF left'[b] = 0 THEN 0 ELSE IF Begins(b) THEN 0 ELSE hit[b]
      BY <1>3, <3>1, TickHit
    <3>3. ~Begins(b) => repeat[b] = 1
      BY <1>3, <2>3 DEF Tick
    <3> QED
      BY <3>2, <3>3 DEF TogetherInv
  <2> QED
    BY <2>2, <2>3 DEF TogetherInv
<1>4. CASE UNCHANGED vars
  BY <1>4 DEF vars, TogetherInv, Busy, Clock
<1> QED
  BY <1>1, <1>2, <1>3, <1>4 DEF Next

-----------------------------------------------------------------------------
(* Rivals                                                                  *)

\* Copies on the air together overlap in the schedules of their bursts.
LEMMA MeetingOverlaps ==
  TypeOK /\ (\A c \in Board : BoardInv(c)) =>
    \A b \in Board :
      left[b] > 0 /\ left[Other(b)] > 0 =>
        /\ Busy(b) /\ Busy(Other(b)) /\ repeat[Other(b)] \in 1 .. 5
        /\ Overlap(b, repeat[b], repeat[Other(b)], Clock(b) - Clock(Other(b)))
<1> SUFFICES ASSUME TypeOK, \A c \in Board : BoardInv(c), NEW b \in Board,
                    left[b] > 0, left[Other(b)] > 0
             PROVE  /\ Busy(b) /\ Busy(Other(b)) /\ repeat[Other(b)] \in 1 .. 5
                    /\ Overlap(b, repeat[b], repeat[Other(b)],
                               Clock(b) - Clock(Other(b)))
  OBVIOUS
<1> DEFINE o == Other(b)
<1>1. o \in Board /\ channel[b] \in Channel /\ channel[o] \in Channel
  BY DEF TypeOK
<1>2. /\ repeat[b] \in 1 .. 5 /\ Busy(b)
      /\ Clock(b) >= StartsAt(repeat[b], channel[b])
      /\ Clock(b) < StartsAt(repeat[b], channel[b]) + Length
  BY OnAir
<1>3. /\ repeat[o] \in 1 .. 5 /\ Busy(o)
      /\ Clock(o) >= StartsAt(repeat[o], channel[o])
      /\ Clock(o) < StartsAt(repeat[o], channel[o]) + Length
  BY <1>1, OnAir
<1>4. /\ Clock(b) \in Int /\ Clock(o) \in Int
      /\ StartsAt(repeat[b], channel[b]) \in Nat
      /\ StartsAt(repeat[o], channel[o]) \in Nat
  BY <1>1, <1>2, <1>3, ClockType, Schedule
<1>5. Overlap(b, repeat[b], repeat[o], Clock(b) - Clock(o))
  BY <1>2, <1>3, <1>4 DEF Overlap
<1> QED
  BY <1>2, <1>3, <1>5

\* The same after a step.
LEMMA MeetingOverlapsNext ==
  TypeOK' /\ (\A c \in Board : BoardInv(c))' =>
    (\A b \in Board :
       left[b] > 0 /\ left[Other(b)] > 0 =>
         /\ Busy(b) /\ Busy(Other(b)) /\ repeat[Other(b)] \in 1 .. 5
         /\ Overlap(b, repeat[b], repeat[Other(b)], Clock(b) - Clock(Other(b))))'
  BY MeetingOverlaps, PTL

\* A unit of time covers at most one copy more, one that has just met another.
LEMMA TickCovers ==
  ASSUME TypeOK, NEW b \in Board, BoardInv(b), Tick, clear'[b] = 0
  PROVE  /\ clear[b] = 0 /\ Covered(b) \in 0 .. 5
         /\ \/ Covered(b)' = Covered(b)
            \/ /\ Covered(b)' = Covered(b) + 1 /\ Covered(b)' = repeat'[b]
               /\ left'[b] > 0 /\ left'[Other(b)] > 0
<1> DEFINE o == Other(b)
           meet == left'[b] > 0 /\ left'[o] > 0
<1>1. /\ hit'[b] = IF meet THEN 1 ELSE IF left'[b] = 0 THEN 0
                   ELSE IF Begins(b) THEN 0 ELSE hit[b]
      /\ clear[b] = 0 /\ ~(Ends(b) /\ hit[b] = 0)
  BY TickHit
<1>2. /\ repeat'[b] = IF Begins(b) THEN repeat[b] + 1 ELSE repeat[b]
      /\ left'[b] = IF Begins(b) THEN Length ELSE Less1(left[b])
  BY DEF Tick
<1>3. repeat[b] \in 0 .. 5 /\ left[b] \in 0 .. Length /\ hit[b] \in {0, 1}
  BY DEF TypeOK
<1>4. left[b] > 0 => repeat[b] > 0
  BY <1>3 DEF BoardInv
<1>5. Covered(b) \in 0 .. 5
  BY <1>3, <1>4 DEF Covered
<1> HIDE DEF meet
<1>6. CASE Begins(b)
  <2>1. left[b] = 0 /\ left'[b] > 0 /\ left'[b] # 0 /\ repeat'[b] = repeat[b] + 1
    BY <1>2, <1>6, TickBoard
  <2>2. Covered(b) = repeat[b]
    BY <2>1 DEF Covered
  <2>3. CASE meet
    <3>1. Covered(b)' = repeat'[b]
      BY <1>1, <2>3 DEF Covered
    <3> QED
      BY <1>1, <1>5, <2>1, <2>2, <2>3, <3>1 DEF meet
  <2>4. CASE ~meet
    <3>1. Covered(b)' = repeat'[b] - 1
      BY <1>1, <1>6, <2>1, <2>4 DEF Covered
    <3> QED
      BY <1>1, <1>3, <1>5, <2>1, <2>2, <3>1
  <2> QED
    BY <2>3, <2>4
<1>7. CASE ~Begins(b)
  <2>1. repeat'[b] = repeat[b] /\ left'[b] = Less1(left[b])
    BY <1>2, <1>7
  <2>2. CASE left[b] = 0
    <3>1. left'[b] = 0
      BY <2>1, <2>2 DEF Less1
    <3> QED
      BY <1>1, <1>5, <2>1, <2>2, <3>1 DEF Covered
  <2>3. CASE left[b] = 1
    <3>1. left'[b] = 0 /\ hit[b] # 0
      BY <1>1, <2>1, <2>3 DEF Less1, Ends
    <3> QED
      BY <1>1, <1>5, <2>1, <3>1 DEF Covered
  <2>4. CASE left[b] > 1
    <3>1. left'[b] > 0 /\ left[b] > 0 /\ left'[b] # 0
      BY <1>3, <2>1, <2>4 DEF Less1
    <3>2. CASE meet
      <4>1. Covered(b)' = repeat'[b]
        BY <1>1, <3>2 DEF Covered
      <4>2. Covered(b) = repeat[b] \/ Covered(b) + 1 = repeat[b]
        BY <1>3 DEF Covered
      <4> QED
        BY <1>1, <1>5, <2>1, <3>1, <3>2, <4>1, <4>2 DEF meet
    <3>3. CASE ~meet
      <4>1. hit'[b] = hit[b]
        BY <1>1, <1>7, <3>1, <3>3
      <4> QED
        BY <1>1, <1>5, <2>1, <3>1, <4>1 DEF Covered
    <3> QED
      BY <3>2, <3>3
  <2> QED
    BY <1>3, <2>2, <2>3, <2>4
<1> QED
  BY <1>6, <1>7

\* A promotion meets the other board's burst, or leaves the distance free.
LEMMA RivalSend ==
  ASSUME TypeOK, TypeOK', NEW b \in Board, Send(b),
         \A c \in Board : BoardInv(c) /\ RivalInv(c)
  PROVE  \A c \in Board : RivalInv(c)'
<1> DEFINE o == Other(b)
<1>1. /\ \A c \in Board : BoardInv(c)'
      /\ ~Busy(b) /\ Busy(b)' /\ Clock(b)' = 0 /\ Covered(b)' = 0
      /\ Busy(o)' = Busy(o) /\ Clock(o)' = Clock(o)
      /\ Covered(o)' = Covered(o) /\ o \in Board /\ o # b /\ Other(o) = b
  BY SendBoard
<1>2. \A c \in Board : c = b \/ c = o
  OBVIOUS
<1>3. Clock(o) \in Int
  BY <1>1, ClockType
<1>4. /\ rivals'[b] = IF Busy(o) THEN 1 ELSE 0
      /\ rivals'[o] = IF Busy(o) THEN AtMost2(rivals[o] + 1) ELSE rivals[o]
      /\ clear'[o] = clear[o] /\ channel' = channel
  BY <1>1 DEF Send, TypeOK
<1>5. rivals[o] \in 0 .. 2
  BY <1>1 DEF TypeOK
<1> HIDE DEF o
<1>6. RivalInv(b)'
  <2>1. PICK d \in Int : d = Clock(b)' - Clock(o)'
    BY <1>1, <1>3
  <2>2. AllOverlap(b, Covered(b), d)'
    BY <1>1 DEF AllOverlap
  <2> QED
    BY <1>1, <1>4, <2>1, <2>2 DEF RivalInv, o
<1>7. RivalInv(o)'
  <2>1. Busy(o) => rivals'[o] > 0 /\ (rivals'[o] <= 1 => rivals[o] = 0)
    BY <1>4, <1>5 DEF AtMost2
  <2>2. RivalInv(o)
    BY <1>1
  <2>3. CASE Busy(o)
    <3>1. ASSUME rivals'[o] <= 1, clear'[o] = 0 PROVE Covered(o)' = 0
      BY <1>1, <1>4, <2>1, <2>2, <2>3, <3>1 DEF RivalInv
    <3>2. PICK d \in Int : d = Clock(o)' - Clock(b)'
      BY <1>1, <1>3
    <3>3. ASSUME Covered(o)' = 0 PROVE AllOverlap(o, Covered(o), d)'
      BY <3>3 DEF AllOverlap
    <3>4. rivals'[o] # 0
      BY <2>1, <2>3
    <3> QED
      BY <1>1, <2>1, <2>3, <3>1, <3>2, <3>3, <3>4 DEF RivalInv
  <2>4. CASE ~Busy(o)
    <3>1. rivals'[o] = rivals[o]
      BY <1>4, <2>4
    <3>2. ASSUME rivals[o] <= 1, clear[o] = 0
          PROVE  \E d \in Int : AllOverlap(o, Covered(o), d)'
      <4>1. PICK d \in Int : AllOverlap(o, Covered(o), d)
        BY <2>2, <3>2 DEF RivalInv
      <4>2. AllOverlap(o, Covered(o), d)'
        BY <1>1, <1>4, <4>1 DEF AllOverlap, Overlap
      <4> QED
        BY <4>2
    <3> QED
      BY <1>1, <1>4, <2>2, <2>4, <3>1, <3>2 DEF RivalInv
  <2> QED
    BY <2>3, <2>4
<1> QED
  BY <1>2, <1>6, <1>7

\* An abort covers nothing and leaves the distance free.
LEMMA RivalAbort ==
  ASSUME TypeOK, NEW b \in Board, Abort(b),
         \A c \in Board : BoardInv(c) /\ RivalInv(c)
  PROVE  \A c \in Board : RivalInv(c)'
<1> DEFINE o == Other(b)
<1>1. /\ ~Busy(b)' /\ Covered(b)' = 0
      /\ Covered(o)' = Covered(o) /\ o \in Board /\ o # b /\ Other(o) = b
  BY AbortBoard
<1>2. \A c \in Board : c = b \/ c = o
  OBVIOUS
<1>3. rivals' = rivals /\ clear' = clear /\ channel' = channel
  BY DEF Abort
<1> HIDE DEF o
<1>4. RivalInv(b)'
  <2>1. AllOverlap(b, Covered(b), 0)'
    BY <1>1 DEF AllOverlap
  <2> QED
    BY <1>1, <2>1 DEF RivalInv
<1>5. RivalInv(o)'
  <2>1. RivalInv(o)
    BY <1>1
  <2>2. ASSUME rivals[o] <= 1, clear[o] = 0
        PROVE  \E d \in Int : AllOverlap(o, Covered(o), d)'
    <3>1. PICK d \in Int : AllOverlap(o, Covered(o), d)
      BY <2>1, <2>2 DEF RivalInv
    <3>2. AllOverlap(o, Covered(o), d)'
      BY <1>1, <1>3, <3>1 DEF AllOverlap, Overlap
    <3> QED
      BY <3>2
  <2> QED
    BY <1>1, <1>3, <2>1, <2>2 DEF RivalInv
<1> QED
  BY <1>2, <1>4, <1>5

\* A unit of time keeps the distance, and a copy that becomes covered overlaps
\* the copy it has just met.
LEMMA RivalTick ==
  ASSUME TypeOK, TypeOK', Tick, \A c \in Board : BoardInv(c) /\ RivalInv(c),
         NEW b \in Board
  PROVE  RivalInv(b)'
<1> DEFINE o == Other(b)
<1>1. o \in Board /\ o # b
  OBVIOUS
<1>2. /\ Busy(b)' => Busy(b) /\ Clock(b)' = Clock(b) + 1
      /\ Busy(o)' => Busy(o) /\ Clock(o)' = Clock(o) + 1
      /\ \A c \in Board : BoardInv(c)'
  BY <1>1, TickBoard
<1>3. Clock(b) \in Int /\ Clock(o) \in Int
  BY <1>1, ClockType
<1>4. channel' = channel /\ rivals' = rivals
  BY TickHit
<1>5. RivalInv(b)
  OBVIOUS
<1>6. /\ left'[b] > 0 /\ left'[o] > 0 =>
           /\ Busy(b)' /\ Busy(o)' /\ repeat'[o] \in 1 .. 5
           /\ Overlap(b, repeat[b], repeat[o], Clock(b) - Clock(o))'
  BY <1>2, MeetingOverlapsNext
<1> HIDE DEF o
<1>7. Busy(b)' /\ Busy(o)' => Clock(b)' - Clock(o)' = Clock(b) - Clock(o)
  BY <1>2, <1>3
<1>8. Busy(b)' /\ Busy(o)' => rivals[b] > 0
  BY <1>2, <1>5 DEF RivalInv, o
<1>9. ASSUME clear'[b] = 0
      PROVE  /\ clear[b] = 0 /\ Covered(b) \in 0 .. 5
             /\ \/ Covered(b)' = Covered(b)
                \/ /\ Covered(b)' = Covered(b) + 1 /\ Covered(b)' = repeat'[b]
                   /\ left'[b] > 0 /\ left'[o] > 0
  BY <1>9, TickCovers DEF o
<1>10. ASSUME rivals'[b] = 0, clear'[b] = 0 PROVE Covered(b)' = 0
  BY <1>4, <1>5, <1>6, <1>8, <1>9, <1>10 DEF RivalInv
<1>11. ASSUME rivals'[b] <= 1, clear'[b] = 0
       PROVE  \E d \in Int :
                /\ Busy(b)' /\ Busy(o)' => d = Clock(b)' - Clock(o)'
                /\ AllOverlap(b, Covered(b), d)'
  <2>1. PICK d \in Int :
          /\ Busy(b) /\ Busy(o) => d = Clock(b) - Clock(o)
          /\ AllOverlap(b, Covered(b), d)
    BY <1>4, <1>5, <1>9, <1>11 DEF RivalInv, o
  <2>2. Busy(b)' /\ Busy(o)' => d = Clock(b)' - Clock(o)'
    BY <1>2, <1>7, <2>1
  <2>3. \A i, m : Overlap(b, i, m, d)' <=> Overlap(b, i, m, d)
    BY <1>4 DEF Overlap
  <2>4. \A i \in 1 .. Covered(b) : \E m \in 1 .. 5 : Overlap(b, i, m, d)'
    BY <2>1, <2>3 DEF AllOverlap
  <2>5. CASE Covered(b)' = Covered(b)
    BY <2>2, <2>4, <2>5 DEF AllOverlap
  <2>6. CASE Covered(b)' # Covered(b)
    <3>1. /\ Covered(b) \in 0 .. 5 /\ Covered(b)' = Covered(b) + 1
          /\ Covered(b)' = repeat'[b] /\ left'[b] > 0 /\ left'[o] > 0
      BY <1>9, <1>11, <2>6
    <3>2. PICK n \in 0 .. 6 : n = Covered(b)'
      BY <3>1
    <3>3. PICK m \in 1 .. 5 : m = repeat'[o]
      BY <1>6, <3>1
    <3>4. Overlap(b, n, m, d)'
      BY <1>6, <2>2, <3>1, <3>2, <3>3 DEF Overlap
    <3>5. \A i \in 1 .. n : \E k \in 1 .. 5 : Overlap(b, i, k, d)'
      <4>1. \A i \in 1 .. n : i \in 1 .. Covered(b) \/ i = n
        BY <3>1, <3>2
      <4> QED
        BY <2>4, <3>4, <4>1
    <3> QED
      BY <2>2, <3>2, <3>5 DEF AllOverlap
  <2> QED
    BY <2>5, <2>6
<1> QED
  BY <1>4, <1>8, <1>10, <1>11 DEF RivalInv, o

\* Five copies covered would all overlap copies of one rival burst.
LEMMA NotAllCovered ==
  ASSUME TypeOK, NEW b \in Board, RivalInv(b), Sent(b), rivals[b] <= 1
  PROVE  clear[b] = 1
<1> SUFFICES ASSUME clear[b] = 0 PROVE FALSE
  BY DEF TypeOK
<1> DEFINE ch == channel[b]
           oc == channel[Other(b)]
<1>1. Covered(b) = 5
  <2>1. left[b] \in Nat
    BY DEF TypeOK
  <2> QED
    BY <2>1 DEF Sent, Busy, Covered
<1>2. PICK d \in Int : \A i \in 1 .. 5 : \E m \in 1 .. 5 : Overlap(b, i, m, d)
  BY <1>1 DEF RivalInv, AllOverlap
<1>3. ch \in Channel /\ oc \in Channel /\ ch # oc
  BY DEF TypeOK
<1>4. /\ \A n \in 1 .. 5 : StartsAt(n, ch) \in Nat
      /\ \A n \in 1 .. 5 : StartsAt(n, oc) \in Nat
  BY <1>3, Schedule
<1>5. \A i \in 1 .. 5 : \E m \in 1 .. 5 :
        LET apart == StartsAt(i, ch) - StartsAt(m, oc) - d
        IN  apart < 5 /\ apart > -5
  <2> TAKE i \in 1 .. 5
  <2>1. PICK m \in 1 .. 5 : Overlap(b, i, m, d)
    BY <1>2
  <2> HIDE DEF ch, oc
  <2>2. /\ StartsAt(i, ch) - StartsAt(m, oc) - d < Length
        /\ StartsAt(i, ch) - StartsAt(m, oc) - d > -Length
    BY <2>1 DEF Overlap, ch, oc
  <2>3. LET apart == StartsAt(i, ch) - StartsAt(m, oc) - d
        IN  apart < 5 /\ apart > -5
    BY <1>4, <2>2
  <2> QED
    BY <2>3
<1> HIDE DEF ch, oc
<1> QED
  BY <1>3, <1>5, NeverAllOverlap

-----------------------------------------------------------------------------
(* Theorems                                                                *)

\* The invariant holds of every behaviour, for any length of a message.
THEOREM InductiveInvariant == Spec => []IInv
<1>1. Init => IInv
  <2> SUFFICES ASSUME Init PROVE IInv
    OBVIOUS
  <2>1. TypeOK
    BY TypesKept
  <2>2. \A b \in Board : /\ wait[b] = 0 /\ repeat[b] = 0 /\ left[b] = 0
                         /\ ~Busy(b) /\ Covered(b) = 0
    BY DEF Init, Zero, Busy, Covered
  <2>3. TogetherInv
    BY DEF Init, TogetherInv
  <2>4. \A b \in Board : BoardInv(b)
    BY <2>2 DEF BoardInv
  <2>5. \A b \in Board : RivalInv(b)
    <3> TAKE b \in Board
    <3>1. AllOverlap(b, Covered(b), 0)
      BY <2>2 DEF AllOverlap
    <3> QED
      BY <2>2, <3>1 DEF RivalInv
  <2> QED
    BY <2>1, <2>3, <2>4, <2>5 DEF IInv
<1>2. ASSUME IInv, [Next]_vars PROVE IInv'
  <2>1. TypeOK /\ TogetherInv /\ \A b \in Board : BoardInv(b) /\ RivalInv(b)
    BY <1>2 DEF IInv
  <2>2. TypeOK'
    BY <1>2, <2>1, TypesKept
  <2>3. TogetherInv'
    BY <1>2, <2>1, <2>2, TogetherStep
  <2>4. (\A b \in Board : BoardInv(b))'
    <3>1. ASSUME NEW b \in Board, Send(b) PROVE \A c \in Board : BoardInv(c)'
      BY <2>1, <3>1, SendBoard
    <3>2. ASSUME NEW b \in Board, Abort(b) PROVE \A c \in Board : BoardInv(c)'
      BY <2>1, <3>2, AbortBoard
    <3>3. CASE Tick
      BY <2>1, <3>3, TickBoard
    <3>4. CASE UNCHANGED vars
      BY <2>1, <3>4 DEF vars, BoardInv, Clock
    <3> QED
      BY <1>2, <3>1, <3>2, <3>3, <3>4 DEF Next
  <2>5. (\A b \in Board : RivalInv(b))'
    <3>1. ASSUME NEW b \in Board, Send(b) PROVE \A c \in Board : RivalInv(c)'
      BY <2>1, <2>2, <3>1, RivalSend
    <3>2. ASSUME NEW b \in Board, Abort(b) PROVE \A c \in Board : RivalInv(c)'
      BY <2>1, <3>2, RivalAbort
    <3>3. CASE Tick
      BY <2>1, <2>2, <3>3, RivalTick
    <3>4. CASE UNCHANGED vars
      BY <2>1, <3>4 DEF vars, RivalInv, Clock, Busy, Covered, AllOverlap, Overlap
    <3> QED
      BY <1>2, <3>1, <3>2, <3>3, <3>4 DEF Next
  <2> QED
    BY <2>2, <2>3, <2>4, <2>5 DEF IInv
<1> QED
  BY <1>1, <1>2, PTL DEF Spec

\* The countdowns and counts of a board keep their ranges: none of the waits
\* exceeds the longest target.
THEOREM TypeInvariant == Spec => []TypeOK
  BY InductiveInvariant, PTL DEF IInv

\* One burst never collides with one burst of another channel on all five
\* copies, whenever the two were started, whether or not the other was cut
\* short, and for messages of any length up to tm (pfNextPhase's schedule).
THEOREM ACopyAlwaysGetsThrough == Spec => []ACopyGetsThrough
<1>1. IInv => ACopyGetsThrough
  BY NotAllCovered DEF IInv, ACopyGetsThrough
<1> QED
  BY <1>1, InductiveInvariant, PTL

\* Boards keyed in the same instant miss each other's first message, whatever
\* their channels (irPoll's head start).
THEOREM FirstCopiesAlwaysMiss == Spec => []FirstCopiesMiss
<1>1. IInv => FirstCopiesMiss
  BY DEF IInv, TogetherInv, FirstCopiesMiss
<1> QED
  BY <1>1, InductiveInvariant, PTL
=============================================================================
