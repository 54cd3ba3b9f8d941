----------------------------- MODULE MCSessions -----------------------------
(***************************************************************************)
(* Sessions for TLC: streams, Peers, devices and codes are interchangeable.*)
(***************************************************************************)
EXTENDS Sessions, TLC

Symmetry == Permutations(Session) \cup Permutations(Device)
              \cup Permutations(Token) \cup Permutations(Peer)

=============================================================================
