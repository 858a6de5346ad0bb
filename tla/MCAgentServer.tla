--------------------------- MODULE MCAgentServer ---------------------------
(* AgentServer for TLC: h0 is the first node of the thread list. *)
EXTENDS AgentServer, TLC

CONSTANTS h0, Heap   \* Heap: the other addresses a node can have

MCThread == {Tester, Server} \cup Handler
MCKey == {ZeroKey, Garbage} \cup Handler
MCNode == {h0} \cup Heap
MCLists == {"thread"}
MCSentinel == [l \in Lists |-> h0]
HandlerSymmetry == Permutations(Handler) \cup Permutations(Heap)
=============================================================================
