----------------------------- MODULE MCDispatch -----------------------------
(***************************************************************************)
(* Dispatch for TLC: for every length check, range check and mask, packets *)
(* on both sides of it.                                                    *)
(***************************************************************************)
EXTENDS Dispatch

Of(cmds, payloads) == [cmd : cmds, payload : payloads]
Zeros(n) == [i \in 1 .. n |-> 0]

MCPackets ==
  Of(CoreQueries \cup IfaceQueries \cup
       {"RESET_STATE", "ENTER_BOOTLOADER", "IR_ABORT_ALL", "unknown"},
     {<<>>, <<1>>})
  \cup Of({"IFACE_RESET_COUNT"}, {<<>>, <<5>>, <<6>>, <<7>>, <<8>>, <<6, 7>>})
  \* masks: none, two outputs, one, all of them, and bits beyond the six
  \cup Of({"IFACE_SET_OUTPUTS"},
          {<<>>, <<0>>, <<6, 255, 7>>, <<5, 1>>, <<32, 100>>,
           <<63, 1, 2, 3, 4, 5, 6>>, <<65, 9>>, <<65, 9, 9>>, <<192>>})
  \cup Of({"PF_SEND"},
          {<<0, 0, 85>>, <<0, 0, 85, 0>>, <<3, 3, 255, 3>>, <<4, 1, 0, 0>>,
           <<1, 4, 0, 0>>, <<0, 0, 85, 0, 0>>})
  \cup Of({"LEGACY_SEND"},
          {<<4, 0>>, <<4, 0, 15>>, <<7, 15, 1>>, <<3, 1, 1>>, <<8, 1, 1>>,
           <<4, 16, 1>>, <<4, 1, 16>>, <<4, 0, 15, 0>>})
  \* up to and beyond 16 data bytes and 37 framed bytes
  \cup Of({"RCX_SEND", "RCX_SEND_RAW"}, { Zeros(n) : n \in {0, 1, 2, 17, 18, 38, 39} })
=============================================================================
