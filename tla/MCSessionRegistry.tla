------------------------- MODULE MCSessionRegistry -------------------------
EXTENDS SessionRegistry, TLC

CONSTANTS n1, n2, s1, s2, s3

\* Two sockets at the first node and one at the second.
TwoNodes == s1 :> n1 @@ s2 :> n1 @@ s3 :> n2

\* Two sockets at one node.
OneNode == s1 :> n1 @@ s2 :> n1

\* Sound with OneNode: its sockets are interchangeable.
OneNodeSymmetry ==
    Permutations(Slots) \cup Permutations(Devices) \cup Permutations(Sockets)

\* A socket at each of two nodes.
OneEach == s1 :> n1 @@ s3 :> n2
=============================================================================
