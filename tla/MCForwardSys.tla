---------------------------- MODULE MCForwardSys -----------------------------
\* Instances of ForwardSys for TLC.
EXTENDS ForwardSys

CONSTANTS p1, p2, f1, f2

MCOwner == (f1 :> p1) @@ (f2 :> p2)

\* Addresses of list nodes are interchangeable.
NodeSymmetry == Permutations(Nodes)

=============================================================================
