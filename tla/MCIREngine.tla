----------------------------- MODULE MCIREngine -----------------------------
(***************************************************************************)
(* IREngine for TLC: three tokens, so that the counter wraps while sends   *)
(* are outstanding; one-bit bytes, so that a 16-bit store can be torn; two *)
(* phases; and the production RCX carrier next to one other.               *)
(***************************************************************************)
EXTENDS IREngine

MCRCXReload == {"base", "sel1"}
=============================================================================
