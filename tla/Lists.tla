------------------------------- MODULE Lists ---------------------------------
(***************************************************************************)
(* Lists out of which the code takes elements while it walks them          *)
(* (iterator erase, public/sm_queue.h, sourcehook's List): the walk leaves *)
(* the others, in their order.                                             *)
(***************************************************************************)
EXTENDS Integers, Sequences

\* What the walk over s has left after n elements, when those in T stay.
Walk(s, T) ==
  LET left[n \in 0..Len(s)] ==
        IF n = 0 THEN <<>> ELSE IF s[n] \in T THEN Append(left[n-1], s[n]) ELSE left[n-1]
  IN  left

\* The elements of s that are in T.
Filter(s, T) == Walk(s, T)[Len(s)]

=============================================================================
