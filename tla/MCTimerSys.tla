----------------------------- MODULE MCTimerSys ------------------------------
\* Instances of TimerSys for TLC.
EXTENDS TimerSys

Kind(repeat, nomap, precise) ==
  [REPEAT |-> repeat, NO_MAPCHANGE |-> nomap, TICK_PRECISE |-> precise]

\* For nested calls: a kind for each list, one of them ending with the map.
NestedKinds == {Kind(FALSE, TRUE, FALSE), Kind(TRUE, FALSE, FALSE), Kind(TRUE, FALSE, TRUE)}

\* For time: single timers that wait for the think and that do not, and one that
\* repeats and waits for it.
TimedKinds == {Kind(FALSE, FALSE, p) : p \in BOOLEAN} \cup {Kind(TRUE, FALSE, FALSE)}

\* Addresses of timer objects are interchangeable.
TimerSymmetry == Permutations(Timers)

=============================================================================
