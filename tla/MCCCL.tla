------------------------------- MODULE MCCCL -------------------------------
(* CCL for TLC: the nodes c0, h0 and p0 are the ones the constructor links. *)
EXTENDS CCL, TLC

CONSTANTS c0, h0, p0

FirstNode == [conn |-> c0, thread |-> h0, port |-> p0]
MCSentinel == [l \in Lists |-> FirstNode[l]]

Symmetry ==
  Permutations(Thread)
    \cup Permutations(Key \ {ZeroKey})
    \cup Permutations(Node \ {Sentinel[l] : l \in Lists})
=============================================================================
