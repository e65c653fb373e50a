--------------------------- MODULE MCThreadSupport ---------------------------
(* Small instances of ThreadSupport for TLC. *)
EXTENDS ThreadSupport
=============================================================================
