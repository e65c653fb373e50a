----------------------------- MODULE MCDBManager -----------------------------
\* Instances of DBManager for TLC.
EXTENDS DBManager

\* Addresses of operations are interchangeable.
OpSymmetry == Permutations(Ops)

=============================================================================
