----------------------------- MODULE MCNetEvent -----------------------------
(* NetEvent on a small instance: a listener and two other descriptors, one *)
(* two-byte payload, a batch of at most two events.                        *)
EXTENDS NetEvent, TLC

CONSTANT MaxWire  \* bound: bytes on the wire of one descriptor

MCPayloads == {<<5, 0>>}

Bounded ==
    \A fd \in Fds : Len(wire[fd]) <= MaxWire

Symmetry == Permutations(Fds \ {ListenFd})
=============================================================================
