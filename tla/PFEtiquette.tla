---------------------------- MODULE PFEtiquette ----------------------------
(***************************************************************************)
(* Two boards in one room, serving different Power Functions channels and  *)
(* knowing nothing of each other.  Copies that are on the air at the same  *)
(* time are lost, both of them; the staggered schedule is to get one       *)
(* through nevertheless.  Time passes in fifths of tm.                     *)
(***************************************************************************)
EXTENDS Naturals

CONSTANT Length   \* units a copy is on the air

Tm == 5
INSTANCE PFSchedule

ASSUME LengthAssumption == Length \in 1 .. Tm

Board == {1, 2}
Other(b) == 3 - b

VARIABLES
  channel,   \* board -> the channel its host sends on
  wait,      \* board -> units to its next copy, 0 when none is to come
  repeat,    \* board -> copies begun in the burst started last
  left,      \* board -> units to the end of the copy on the air
  hit,       \* board -> 1: that copy met one of the other board's
  clear,     \* board -> 1: a copy of the burst met none
  rivals,    \* board -> the other board's bursts this one met: 0, 1 or more
  together   \* 1: both bursts were started in the same unit

vars == <<channel, wait, repeat, left, hit, clear, rivals, together>>

Zero == [b \in Board |-> 0]
Busy(b) == wait[b] > 0 \/ left[b] > 0
JustStarted(b) == Busy(b) /\ repeat[b] = 0 /\ wait[b] = HeadStart(channel[b])

Init ==
  /\ channel \in [Board -> Channel] /\ channel[1] < channel[2]
  /\ wait = Zero /\ repeat = Zero /\ left = Zero
  /\ hit = Zero /\ clear = Zero /\ rivals = Zero /\ together = 0

-----------------------------------------------------------------------------
AtMost2(n) == IF n > 2 THEN 2 ELSE n

\* irPoll promotes a PF_SEND, which the host may make whenever the board is idle.
Send(b) ==
  LET o == Other(b)
  IN  /\ ~Busy(b)
      /\ wait' = [wait EXCEPT ![b] = HeadStart(channel[b])]
      /\ repeat' = [repeat EXCEPT ![b] = 0]
      /\ clear' = [clear EXCEPT ![b] = 0]
      /\ rivals' = IF Busy(o)
                   THEN [rivals EXCEPT ![b] = 1, ![o] = AtMost2(@ + 1)]
                   ELSE [rivals EXCEPT ![b] = 0]
      /\ together' = IF JustStarted(o) THEN 1 ELSE 0
      /\ UNCHANGED <<channel, left, hit>>

\* irAbortAll in mid-burst.
Abort(b) ==
  /\ Busy(b)
  /\ wait' = [wait EXCEPT ![b] = 0] /\ left' = [left EXCEPT ![b] = 0]
  /\ repeat' = [repeat EXCEPT ![b] = 0] /\ together' = 0
  /\ UNCHANGED <<channel, hit, clear, rivals>>

Less1(n) == IF n = 0 THEN 0 ELSE n - 1
Begins(b) == wait[b] = 1
Ends(b) == left[b] = 1

NextCopy(b) ==
  IF repeat[b] + 1 < RepeatCount THEN Target(repeat[b] + 1, channel[b]) ELSE 0

\* A unit of time passes on both boards.
Tick ==
  /\ \E b \in Board : Busy(b)
  /\ wait' = [b \in Board |-> IF Begins(b) THEN NextCopy(b) ELSE Less1(wait[b])]
  /\ repeat' = [b \in Board |-> IF Begins(b) THEN repeat[b] + 1 ELSE repeat[b]]
  /\ left' = [b \in Board |-> IF Begins(b) THEN Length ELSE Less1(left[b])]
  /\ LET meet == \A b \in Board : left'[b] > 0
     IN  hit' = [b \in Board |-> IF meet THEN 1
                                 ELSE IF left'[b] = 0 THEN 0
                                 ELSE IF Begins(b) THEN 0 ELSE hit[b]]
  /\ clear' = [b \in Board |-> IF Ends(b) /\ hit[b] = 0 THEN 1 ELSE clear[b]]
  /\ UNCHANGED <<channel, rivals, together>>

Next == Tick \/ \E b \in Board : Send(b) \/ Abort(b)

Spec == Init /\ [][Next]_vars

\* Hosts that only send, and let every burst run to its end.
SendNext == Tick \/ \E b \in Board : Send(b)
SendSpec == Init /\ [][SendNext]_vars

-----------------------------------------------------------------------------
(* Properties                                                              *)

TypeOK ==
  /\ channel \in [Board -> Channel] /\ channel[1] # channel[2]
  /\ wait \in [Board -> 0 .. 12 * Tm] /\ left \in [Board -> 0 .. Length]
  /\ repeat \in [Board -> 0 .. RepeatCount] /\ rivals \in [Board -> 0 .. 2]
  /\ hit \in [Board -> {0, 1}] /\ clear \in [Board -> {0, 1}]
  /\ together \in {0, 1}

Sent(b) == ~Busy(b) /\ repeat[b] = RepeatCount

\* One burst never collides with one burst of another channel on all five
\* copies, whenever the two were started and whether or not the other was cut
\* short (PROTOCOL.md on the spacing, pfNextPhase).
ACopyGetsThrough ==
  \A b \in Board : Sent(b) /\ rivals[b] <= 1 => clear[b] = 1

\* Boards keyed in the same instant miss each other's first message altogether
\* (irPoll's comment on the head start).
FirstCopiesMiss ==
  together = 1 => \A b \in Board : repeat[b] = 1 => hit[b] = 0

\* PROTOCOL.md: uncoordinated transmitters on different channels cannot collide
\* on all five copies, however often they send and although no burst is cut
\* short.
NeverAllFive == \A b \in Board : Sent(b) => clear[b] = 1
=============================================================================
