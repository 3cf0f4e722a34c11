---------------------------- MODULE MCIRNextPhase ----------------------------
(***************************************************************************)
(* The sends IRNextPhase is checked with: every mode, both channels of     *)
(* extreme spacing, both overrides; every Legacy channel, with and without *)
(* carry of the check; RCX with and without framing, repeats and a carrier *)
(* select of its own.                                                      *)
(***************************************************************************)
EXTENDS IRNextPhase

PFSend(c, m, d, f) == [channel |-> c, mode |-> m, data |-> d, flags |-> f]
MCPFSends ==
  {PFSend(0, m, 90, 0) : m \in {"COMBO_DIRECT", "SINGLE_PWM", "COMBO_PWM"}}
    \cup {PFSend(3, m, 255, 0) : m \in {"COMBO_DIRECT", "SINGLE_CST"}}
    \cup {PFSend(3, "SINGLE_PWM", 16, 1), PFSend(0, "SINGLE_CST", 165, 3),
          PFSend(3, "COMBO_PWM", 90, 3)}

LegacySend(c, o, y) == [channel |-> c, orange |-> o, yellow |-> y]
MCLegacySends ==
  {LegacySend(4, 5, 15), LegacySend(5, 15, 0), LegacySend(6, 3, 7),
   LegacySend(7, 15, 15)}

RCXSend(r, d, o) == [raw |-> r, data |-> d, options |-> o]
MCRCXSends ==
  {RCXSend(FALSE, <<90, 255>>, 50), RCXSend(FALSE, <<0>>, 15),
   RCXSend(TRUE, <<85, 1>>, 33), RCXSend(TRUE, <<255>>, 3)}

\* Frames of other data are balanced too.
SomeBytes == {0, 1, 90, 128, 255}
ASSUME MoreFramesAreBalanced ==
  \A n \in 1 .. 3 : \A data \in [1 .. n -> SomeBytes] : RCX!IsBalanced(data)
=============================================================================
