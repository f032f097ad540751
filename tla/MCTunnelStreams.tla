-------------------------- MODULE MCTunnelStreams --------------------------
(* Instances of TunnelStreams for TLC. *)
EXTENDS TunnelStreams, TLC

CONSTANTS a1

\* One agent serves every stream.
OneAgent == [s \in Streams |-> a1]

OneSlotEach == [c \in SlotKinds |-> 1]

Symmetry == Permutations(Streams) \cup Permutations(Sockets)
=============================================================================
