--------------------------- MODULE MCTimerNatives ----------------------------
\* Instances of TimerNatives for TLC.
EXTENDS TimerNatives

\* One plugin owns all the data handles.
OneOwner == [d \in Data |-> CHOOSE p \in Plugins : TRUE]

=============================================================================
