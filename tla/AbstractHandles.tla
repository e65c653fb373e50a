--------------------------- MODULE AbstractHandles ---------------------------
(***************************************************************************)
(* What the handle system promises to those who use it, with no table, no  *)
(* serial numbers, no reference counts and no chains: a handle stands for  *)
(* an object, a clone for the object of the handle it was cloned from, and *)
(* an object is destroyed at the moment its last handle is closed.         *)
(* HandleTable implements it (RefinesAbstract in HandleTable).             *)
(***************************************************************************)
EXTENDS Naturals, FiniteSets

CONSTANT Made    \* the numbers handles are given, in the order of creation

VARIABLES
  made,       \* how many handles were ever made
  handles,    \* the open handles
  object,     \* handle -> the object it stands for, 0 for none
  destroyed   \* the objects whose destructor was called

avars == <<made, handles, object, destroyed>>

AInit ==
  /\ made = 2 /\ handles = {1, 2}
  /\ object = [n \in Made |-> 0]
  /\ destroyed = {}

\* Handles are numbered as they are made: no number is given out again.
ANew(o) ==
  /\ made + 1 \in Made
  /\ made' = made + 1
  /\ handles' = handles \cup {made + 1}
  /\ object' = [object EXCEPT ![made + 1] = o]
  /\ UNCHANGED destroyed

\* A new handle for a new object (number n is made with handle n), or for none.
AMake == ANew(0) \/ ANew(made + 1)

\* Only an open handle is cloned.
AClone(h) == h \in handles /\ ANew(object[h])

\* A handle is closed; its object goes with it, at once, if and only if no
\* other open handle stands for the object.
AClose(h) ==
  /\ h \in handles
  /\ handles' = handles \ {h}
  /\ object' = [object EXCEPT ![h] = 0]
  /\ destroyed' =
       IF object[h] = 0 \/ \E g \in handles \ {h} : object[g] = object[h]
       THEN destroyed ELSE destroyed \cup {object[h]}
  /\ UNCHANGED made

ANext == AMake \/ \E h \in Made : AClone(h) \/ AClose(h)

ASpec == AInit /\ [][ANext]_avars
=============================================================================
