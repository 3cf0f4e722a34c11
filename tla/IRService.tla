----------------------------- MODULE IRService -----------------------------
(***************************************************************************)
(* What the board promises a host about infrared sends, as the host sees   *)
(* it on the serial port: every IR_ACCEPTED token is matched by exactly    *)
(* one IR_DONE carrying the same token and engine, a token is never handed *)
(* out while the host still waits for an earlier send with that token, and *)
(* ERR_BUSY is only ever said to a host that has an IR_DONE to wait for.   *)
(* IREngine implements this specification.                                 *)
(***************************************************************************)
CONSTANTS
  Token,      \* the token values a reply can carry
  Engine      \* the engine ids: PF, Legacy, RCX

VARIABLES
  awaiting,   \* the sends accepted and not yet reported done
  reply,      \* the message being put on the wire in this step
  linked      \* FALSE once the board has left for the ROM bootloader

svars == <<awaiting, reply, linked>>

Send == [token : Token, engine : Engine]

Silent      == [kind |-> "silent"]
OK          == [kind |-> "ok"]
Busy        == [kind |-> "busy"]
Accepted(m) == [kind |-> "accepted", send |-> m]
Finished(m) == [kind |-> "done", send |-> m]

Init ==
  /\ awaiting = {}
  /\ reply = Silent
  /\ linked = TRUE

\* IR_ACCEPTED: a fresh token, and at most one earlier send is unresolved.
Accept(m) ==
  /\ \A w \in awaiting : w.token # m.token
  /\ \A v, w \in awaiting : v = w
  /\ awaiting' = awaiting \cup {m}
  /\ reply' = Accepted(m)

\* IR_DONE: resolves a send the host is waiting for.
Done(m) ==
  /\ m \in awaiting
  /\ awaiting' = awaiting \ {m}
  /\ reply' = Finished(m)

\* ERR_BUSY: "wait for IR_DONE, then retry" only makes sense if one is due.
Refuse ==
  /\ awaiting # {}
  /\ reply' = Busy
  /\ UNCHANGED awaiting

\* Any other step of the board: an OK, or nothing on the wire.
Other ==
  /\ reply' \in {OK, Silent}
  /\ UNCHANGED awaiting

\* The port disappears; what was awaited can no longer be resolved.
Leave ==
  /\ linked' = FALSE
  /\ reply' = Silent
  /\ UNCHANGED awaiting

\* The board enumerates again and the host starts over.
Reconnect ==
  /\ ~linked
  /\ linked' = TRUE
  /\ awaiting' = {}
  /\ reply' = Silent

Next ==
  \/ /\ linked
     /\ UNCHANGED linked
     /\ \/ \E m \in Send : Accept(m) \/ Done(m)
        \/ Refuse
        \/ Other
  \/ linked /\ Leave
  \/ Reconnect

Spec == Init /\ [][Next]_svars
=============================================================================
