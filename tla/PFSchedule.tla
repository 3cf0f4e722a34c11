----------------------------- MODULE PFSchedule -----------------------------
(***************************************************************************)
(* When the five copies of a Power Functions message go on the air.  The   *)
(* schedule depends on the channel, and on nothing else.                   *)
(***************************************************************************)
EXTENDS Naturals

CONSTANT Tm   \* the maximum length of a message, in the unit of the user

Channel == 0 .. 3
RepeatCount == 5

\* From the promotion to the first copy.
HeadStartForAll(ch) == 4 * Tm
HeadStart(ch) == (4 - ch) * Tm

\* Start to start, after copies 1 and 2 and after copies 3 and 4.
TargetForAll(repeat, ch) == IF repeat <= 2 THEN 5 * Tm ELSE 6 * Tm
Target(repeat, ch) == IF repeat <= 2 THEN 5 * Tm ELSE (6 + 2 * ch) * Tm
=============================================================================
