----------------------------- MODULE CCLReaders -----------------------------
(* What a Find that took no lock may conclude from finding nothing.  `kept`  *)
(* is a history variable beside the state of CCL: the threads in a Find      *)
(* whose key was in the list at every moment since the call began.           *)
EXTENDS CCL

VARIABLE kept

rvars == <<vars, kept>>

Holds(call) == \E n \in Node : place[n] = call.list /\ key[n] = call.key

ReadersInit == Init /\ kept = {}

ReadersNext ==
  /\ Next
  /\ kept' = {t \in Thread : /\ pc'[t] = "Walk"
                             /\ Holds(op[t])'
                             /\ pc[t] = "Walk" => t \in kept}

ReadersSpec == ReadersInit /\ [][ReadersNext]_rvars

\* FindIP, FindPort and FindThread return NULL for a key that was in the list
\* throughout the call only to a reader that a free overtook: nodes unlinked,
\* linked and allocated around a reader never lead it past what it looks for.
FindMissHonest ==
  [][\A t \in Thread :
       pc[t] = "Walk" /\ pc'[t] = "idle" /\ ptr[t] = Null /\ t \notin stale =>
         t \notin kept]_rvars
=============================================================================
