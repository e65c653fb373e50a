---------------------------- MODULE MCMenuVoting -----------------------------
\* Instances of MenuVoting for TLC.
EXTENDS MenuVoting

=============================================================================
