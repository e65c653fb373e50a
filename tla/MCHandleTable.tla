--------------------------- MODULE MCHandleTable ---------------------------
(* Small instances of HandleTable for TLC. *)
EXTENDS HandleTable

\* Natives create handles of the core's types for the calling plugin; the
\* defaults of InitAccessDefaults.
MCTypeSec == [t \in AllTypes |->
  [create |-> FALSE, ident |-> IF t = IdentType THEN Root ELSE Core]]
MCHndlSec == [t \in AllTypes |->
  [r \in Rights |-> CASE r = "Read" -> {"IDENTITY"}
                      [] r = "Delete" -> {"OWNER"}
                      [] OTHER -> {}]]
MCAccessRules == {}
\* Natives act for a plugin with the core's identity; an extension may act
\* with no identity at all.
MCCallers ==
  [pOwner : Idents, pIdentity : {Core, NULL}] \cup [pOwner : {Core}, pIdentity : {Core}]
=============================================================================
