---------------------------- MODULE MCHandleTypes ----------------------------
(* Small instances of HandleTypes for TLC. *)
EXTENDS HandleTypes

\* Types of the core, with the defaults of InitAccessDefaults.
MCTypeSec == [t \in AllTypes |->
  [create |-> FALSE, ident |-> IF t = IdentType THEN Root ELSE Core]]
MCHndlSec == [t \in AllTypes |->
  [r \in Rights |-> CASE r = "Read" -> {"IDENTITY"}
                      [] r = "Delete" -> {"OWNER"}
                      [] OTHER -> {}]]
\* The rules the plugin system puts on plugin handles: nobody but the core
\* may delete or clone one.
MCStrict == {[r \in Rights |-> IF r = "Read" THEN {} ELSE {"IDENTITY"}]}
MCCallers == [pOwner : {Core} \cup Idents, pIdentity : {Core, NULL}]
MCTypes == (Stride * 2)..(Stride * (MaxTypesMade + 2) - 1)
=============================================================================
