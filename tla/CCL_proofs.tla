----------------------------- MODULE CCL_proofs -----------------------------
(***************************************************************************)
(* Proofs about CCL for any number of threads, nodes, keys and lists.      *)
(***************************************************************************)
EXTENDS CCL, FiniteSetTheorems, TLAPS

-----------------------------------------------------------------------------
(* The inductive invariant. *)

\* The lock will never be released: its holder returned without unlocking, or
\* has changed the head of a list and is on its way to that return.
Doomed == lock # Null /\ pc[lock] \notin Inside \ {"RemFreeHead"}

\* What a waiting Add read before it had the lock is still the head, and no
\* list is empty, unless the lock will never be released.
HeadsSettled ==
  /\ \A t \in Thread : pc[t] = "AddLock" => ptr[t] = head[op[t].list] \/ Doomed
  /\ \A l \in Lists : head[l] = Null => Doomed

\* The cursor of an Add is in its list; the node it allocated is its own.
AddCursor ==
  \A t \in Thread :
    /\ pc[t] \in {"AddMalloc", "AddWalk"} =>
         ptr[t] # Null /\ place[ptr[t]] = op[t].list
    /\ pc[t] = "AddWalk" => place[temp[t]] = "heap" /\ next[temp[t]] = Null
    /\ pc[t] = "AddUnlock" => place[temp[t]] = op[t].list

\* The two cursors of a Remove are neighbours in its list, prev is only used
\* by the search loop, and the first iterations start from the head.
RemoveCursors ==
  \A t \in Thread :
    /\ pc[t] \notin {"RemWalk", "RemFree", "RemUnlock"} => prev[t] = Null
    /\ pc[t] = "RemHead" => temp[t] = head[op[t].list]
    /\ pc[t] = "RemWalk" =>
         /\ temp[t] # Null => place[temp[t]] = op[t].list
         /\ prev[t] # Null => /\ place[prev[t]] = op[t].list
                              /\ next[prev[t]] = temp[t]
                              /\ key[prev[t]] # op[t].key
         /\ prev[t] = Null /\ temp[t] # Null => key[temp[t]] # op[t].key
    /\ pc[t] \in {"RemFreeHead", "RemFree"} =>
         /\ place[temp[t]] = "heap"
         /\ next[temp[t]] # Null => Linked(next[temp[t]])

\* An allocated node outside the lists is held by a call inside the lock.
HeapHeld ==
  \A n \in Node : place[n] = "heap" =>
    \E t \in Thread : pc[t] \in {"AddWalk", "RemFreeHead", "RemFree"} /\ temp[t] = n

IInv ==
  /\ TypeOK
  /\ OnlyHolderInside
  /\ HeadsSettled
  /\ ListsWellLinked
  /\ AddCursor
  /\ RemoveCursors
  /\ HeapHeld

-----------------------------------------------------------------------------
(* Every step is one of these: the entry actions of a family differ only in *)
(* the list they name.                                                      *)
Cases(t) ==
  \/ \E l \in Lists, k \in Key :
       BeginAdd(t, l, k) \/ BeginRemove(t, l, k)
  \/ \E l \in Lists, k \in Key \cup {Null} : BeginWalk(t, l, k)
  \/ Step(t)

LEMMA NextCases ==
  ASSUME Next
  PROVE  \E t \in Thread : Cases(t)
<1>1. PICK t \in Thread : Call(t) \/ Step(t)
  BY DEF Next
<1>2. CASE Call(t)
  <2>1. \/ \E l \in Lists, k \in Key : BeginAdd(t, l, k) \/ BeginRemove(t, l, k)
        \/ \E l \in Lists, k \in Key \cup {Null} : BeginWalk(t, l, k)
    BY <1>2 DEF Call, FindID, DumpList, AddConnection, AddThread, AddPort, RemoveConnection,
       RemoveThread, RemovePort, FindIP, FindThread, FindPort
  <2>2. QED BY <2>1 DEF Cases
<1>3. CASE Step(t)
  BY <1>3 DEF Cases
<1>4. QED BY <1>1, <1>2, <1>3

-----------------------------------------------------------------------------
(* Type correctness. *)

LEMMA InitTypeOK == Init => TypeOK
  BY CCLAssumption DEF Init, TypeOK, Counter, Label, Inside

USE DEF locals, memory

\* A call that returns leaves its locals cleared.
LEMMA ReturnTypeOK ==
  ASSUME TypeOK, NEW t \in Thread, NEW path, Return(t, path)
  PROVE  /\ lock' \in Thread \cup {Null}
         /\ pc' = [pc EXCEPT ![t] = "idle"]
         /\ pc' \in [Thread -> Label]
         /\ op' \in [Thread -> Calls \cup {Null}]
         /\ ptr' \in [Thread -> Node \cup {Null}]
         /\ prev' \in [Thread -> Node \cup {Null}]
         /\ temp' \in [Thread -> Node \cup {Null}]
         /\ op' = [op EXCEPT ![t] = Null]
         /\ temp' = [temp EXCEPT ![t] = Null]
  BY DEF TypeOK, Return, Goto, Label

LEMMA NextTypeOK ==
  ASSUME TypeOK, [Next]_vars
  PROVE  TypeOK'
<1>1. CASE UNCHANGED vars
  BY <1>1 DEF TypeOK, vars
<1>2. CASE Next
  <2>1. PICK t \in Thread : Cases(t)
    BY <1>2, NextCases
  <2>2. ASSUME NEW l \in Lists, NEW k \in Key, BeginAdd(t, l, k)
        PROVE  TypeOK'
    BY <2>2, CCLAssumption DEF TypeOK, Calls, BeginAdd, Goto, Label, Inside
  <2>3. ASSUME NEW l \in Lists, NEW k \in Key, BeginRemove(t, l, k)
        PROVE  TypeOK'
    BY <2>3, CCLAssumption DEF TypeOK, Calls, BeginRemove, Goto, Label, Inside
  <2>4. ASSUME NEW l \in Lists, NEW k \in Key \cup {Null}, BeginWalk(t, l, k)
        PROVE  TypeOK'
    BY <2>4, CCLAssumption DEF TypeOK, Calls, BeginWalk, Goto, Label, Inside
  <2>5. CASE AddLock(t)
    BY <2>5 DEF TypeOK, AddLock, Goto, Label, Inside
  <2>6. CASE AddMalloc(t)
    BY <2>6, CCLAssumption DEF TypeOK, Calls, AddMalloc, FreeNodes, Goto, Label, Inside
  <2>7. CASE AddMallocFails(t)
    BY <2>7, ReturnTypeOK DEF TypeOK, AddMallocFails, Inside
  <2>8. CASE AddWalk(t)
    BY <2>8 DEF TypeOK, AddWalk, Inside
  <2>9. CASE AddLink(t)
    BY <2>9, CCLAssumption DEF TypeOK, AddLink, Linked, AddCounter, Counter, Goto, Label, Inside
  <2>10. CASE AddUnlock(t)
    BY <2>10, ReturnTypeOK DEF TypeOK, AddUnlock, Inside
  <2>11. CASE RemLock(t)
    BY <2>11 DEF TypeOK, Calls, RemLock, Goto, Label, Inside
  <2>12. CASE RemHeadHit(t)
    BY <2>12 DEF TypeOK, RemHeadHit, Goto, Label, Inside
  <2>13. CASE RemHeadMiss(t)
    BY <2>13 DEF TypeOK, RemHeadMiss, Goto, Label, Inside
  <2>14. CASE RemFreeHead(t)
    <3>0. op[t].list \in Lists
      BY <2>14 DEF TypeOK, Calls, RemFreeHead, Inside
    <3>1. RemoveHeadCounter(op[t].list) \in Counter
      BY <3>0, CCLAssumption DEF RemoveHeadCounter, Counter
    <3>2. cnt' \in [Counter -> Int]
      BY <2>14, <3>1 DEF TypeOK, RemFreeHead
    <3>3. /\ place' \in [Node -> {"free", "heap"} \cup Lists]
          /\ stale' \subseteq Thread
      BY <2>14 DEF TypeOK, RemFreeHead, Free
    <3>4. QED
      BY <2>14, <3>2, <3>3, ReturnTypeOK DEF TypeOK, RemFreeHead, Inside
  <2>15. CASE RemWalk(t)
    BY <2>15 DEF TypeOK, RemWalk, Inside
  <2>16. CASE RemNotFound(t)
    BY <2>16, ReturnTypeOK DEF TypeOK, RemNotFound, Inside
  <2>17. CASE RemUnlink(t)
    BY <2>17 DEF TypeOK, RemUnlink, Goto, Label, Inside
  <2>18. CASE RemFree(t)
    <3>1. RemoveCounter(op[t].list) \in Counter
      BY DEF RemoveCounter, Counter
    <3>2. cnt' \in [Counter -> Int]
      BY <2>18, <3>1 DEF TypeOK, RemFree
    <3>3. /\ place' \in [Node -> {"free", "heap"} \cup Lists]
          /\ stale' \subseteq Thread
      BY <2>18 DEF TypeOK, RemFree, Free
    <3>4. QED
      BY <2>18, <3>2, <3>3 DEF TypeOK, RemFree, Goto, Label, Inside
  <2>19. CASE RemUnlock(t)
    BY <2>19, ReturnTypeOK DEF TypeOK, RemUnlock, Inside
  <2>20. CASE WalkOn(t)
    BY <2>20 DEF TypeOK, WalkOn, Inside
  <2>21. CASE WalkReturns(t)
    BY <2>21 DEF TypeOK, WalkReturns, Goto, Label, Inside
  <2>22. CASE Fault(t)
    BY <2>22 DEF TypeOK, Fault, Label, Inside
  <2>23. QED
    BY <2>1, <2>2, <2>3, <2>4, <2>5, <2>6, <2>7, <2>8, <2>9, <2>10, <2>11, <2>12,
       <2>13, <2>14, <2>15, <2>16, <2>17, <2>18, <2>19, <2>20, <2>21, <2>22
       DEF Cases, Step
<1>3. QED BY <1>1, <1>2

\* The type invariant: every pointer is a node or Null, and a call that is
\* under way has its arguments and the node it works on.
THEOREM TypeCorrect == Spec => []TypeOK
<1>1. Init => TypeOK
  BY InitTypeOK
<1>2. TypeOK /\ [Next]_vars => TypeOK'
  BY NextTypeOK
<1>3. QED BY <1>1, <1>2, PTL DEF Spec

-----------------------------------------------------------------------------
(* The shape of a step: outside the lock it only moves the pc, arguments and *)
(* cursor of its thread; inside, it is the holder of the lock who steps and  *)
(* everyone else is outside.                                                 *)
OutsideStep(t) ==
  /\ pc[t] \notin Inside
  /\ pc'[t] \notin Inside
  /\ UNCHANGED <<lock, memory, prev, temp>>
  /\ \A u \in Thread \ {t} : pc'[u] = pc[u] /\ op'[u] = op[u] /\ ptr'[u] = ptr[u]
  /\ pc'[t] = "AddLock" => ptr'[t] = head[op'[t].list]

InsideStep(t) ==
  /\ pc[t] \in Inside \cup {"AddLock", "RemLock"}
  /\ pc[t] \in Inside => lock = t
  /\ pc[t] \notin Inside => lock = Null /\ memory' = memory
  /\ pc'[t] \in Inside => lock' = t
  /\ pc'[t] \notin Inside => pc'[t] = "idle" /\ prev'[t] = Null
  /\ lock' \in {Null, t}
  /\ \A u \in Thread \ {t} :
       /\ pc[u] \notin Inside
       /\ pc'[u] = pc[u] /\ op'[u] = op[u] /\ ptr'[u] = ptr[u]
       /\ prev'[u] = prev[u] /\ temp'[u] = temp[u]

LEMMA OutsideSteps ==
  ASSUME TypeOK, NEW t \in Thread,
         \/ \E l \in Lists, k \in Key : BeginAdd(t, l, k) \/ BeginRemove(t, l, k)
         \/ \E l \in Lists, k \in Key \cup {Null} : BeginWalk(t, l, k)
         \/ WalkOn(t) \/ WalkReturns(t)
         \/ pc[t] = "Walk" /\ Fault(t)
  PROVE  OutsideStep(t)
<1>1. ASSUME NEW l \in Lists, NEW k \in Key, BeginAdd(t, l, k)
      PROVE  OutsideStep(t)
  BY <1>1 DEF TypeOK, OutsideStep, BeginAdd, Goto, Inside
<1>2. ASSUME NEW l \in Lists, NEW k \in Key, BeginRemove(t, l, k)
      PROVE  OutsideStep(t)
  BY <1>2 DEF TypeOK, OutsideStep, BeginRemove, Goto, Inside
<1>3. ASSUME NEW l \in Lists, NEW k \in Key \cup {Null}, BeginWalk(t, l, k)
      PROVE  OutsideStep(t)
  BY <1>3 DEF TypeOK, OutsideStep, BeginWalk, Goto, Inside
<1>4. CASE WalkOn(t)
  BY <1>4 DEF TypeOK, OutsideStep, WalkOn, Inside
<1>5. CASE WalkReturns(t)
  BY <1>5 DEF TypeOK, OutsideStep, WalkReturns, Goto, Inside
<1>6. CASE pc[t] = "Walk" /\ Fault(t)
  BY <1>6 DEF TypeOK, OutsideStep, Fault, Inside
<1>7. QED BY <1>1, <1>2, <1>3, <1>4, <1>5, <1>6

\* The steps of a call that changes a list.
WriterStep(t) ==
  \/ AddLock(t) \/ AddMalloc(t) \/ AddMallocFails(t) \/ AddWalk(t)
  \/ AddLink(t) \/ AddUnlock(t)
  \/ RemLock(t) \/ RemHeadHit(t) \/ RemHeadMiss(t) \/ RemFreeHead(t)
  \/ RemWalk(t) \/ RemNotFound(t) \/ RemUnlink(t) \/ RemFree(t) \/ RemUnlock(t)

LEMMA InsideSteps ==
  ASSUME TypeOK, OnlyHolderInside, NEW t \in Thread, WriterStep(t)
  PROVE  InsideStep(t)
<1>1. CASE AddLock(t) \/ RemLock(t)
  BY <1>1, CCLAssumption
     DEF TypeOK, OnlyHolderInside, InsideStep, AddLock, RemLock, LockFree, Goto, Inside
<1>2. CASE \/ AddMalloc(t) \/ AddWalk(t) \/ AddLink(t)
           \/ RemHeadHit(t) \/ RemHeadMiss(t) \/ RemWalk(t)
           \/ RemUnlink(t) \/ RemFree(t)
  BY <1>2 DEF TypeOK, OnlyHolderInside, InsideStep, AddMalloc, AddWalk, AddLink,
     RemHeadHit, RemHeadMiss, RemWalk, RemUnlink, RemFree, Goto, Inside
<1>3. CASE \/ AddMallocFails(t) \/ AddUnlock(t) \/ RemFreeHead(t)
           \/ RemNotFound(t) \/ RemUnlock(t)
  BY <1>3 DEF TypeOK, OnlyHolderInside, InsideStep, AddMallocFails, AddUnlock,
     RemFreeHead, RemNotFound, RemUnlock, Return, Goto, Inside
<1>4. QED BY <1>1, <1>2, <1>3 DEF WriterStep

\* A reader may fault, a call inside the lock may not: its cursor is in a list.
LEMMA OnlyReadersFault ==
  ASSUME IInv, NEW t \in Thread, Fault(t)
  PROVE  pc[t] = "Walk"
<1>1. \A n \in Node : place[n] = "free" => place[n] \notin Lists
  BY CCLAssumption
<1>2. pc[t] = "AddWalk" => place[ptr[t]] # "free"
  BY <1>1 DEF IInv, TypeOK, AddCursor, Calls, Inside
<1>3. pc[t] = "RemHead" /\ temp[t] # Null => place[temp[t]] # "free"
  BY <1>1 DEF IInv, TypeOK, RemoveCursors, ListsWellLinked, Calls, Inside
<1>4. pc[t] = "RemWalk" /\ temp[t] # Null => place[temp[t]] # "free"
  BY <1>1 DEF IInv, TypeOK, RemoveCursors, Calls, Inside
<1>5. QED BY <1>2, <1>3, <1>4 DEF Fault, Cursor

LEMMA StepShapes ==
  ASSUME IInv, Next
  PROVE  \E t \in Thread : OutsideStep(t) \/ (WriterStep(t) /\ InsideStep(t))
<1>1. PICK t \in Thread : Cases(t)
  BY NextCases
<1>2. CASE \/ \E l \in Lists, k \in Key : BeginAdd(t, l, k) \/ BeginRemove(t, l, k)
           \/ \E l \in Lists, k \in Key \cup {Null} : BeginWalk(t, l, k)
  BY <1>2, OutsideSteps DEF IInv
<1>3. CASE WalkOn(t) \/ WalkReturns(t) \/ Fault(t)
  BY <1>3, OnlyReadersFault, OutsideSteps DEF IInv
<1>4. CASE WriterStep(t)
  BY <1>4, InsideSteps DEF IInv
<1>5. QED BY <1>1, <1>2, <1>3, <1>4 DEF Cases, Step, WriterStep

-----------------------------------------------------------------------------
(* Preservation of the parts of the invariant. *)

LEMMA NextHolder ==
  ASSUME IInv, Next
  PROVE  OnlyHolderInside'
<1>1. PICK t \in Thread : OutsideStep(t) \/ (WriterStep(t) /\ InsideStep(t))
  BY StepShapes
<1>2. CASE OutsideStep(t)
  BY <1>2 DEF IInv, OnlyHolderInside, OutsideStep
<1>3. CASE InsideStep(t)
  BY <1>3 DEF IInv, OnlyHolderInside, InsideStep
<1>4. QED BY <1>1, <1>2, <1>3

\* Once doomed, always doomed.
LEMMA StaysDoomed ==
  ASSUME IInv, Next, Doomed
  PROVE  Doomed'
<1>1. PICK t \in Thread : OutsideStep(t) \/ (WriterStep(t) /\ InsideStep(t))
  BY StepShapes
<1>2. CASE OutsideStep(t)
  BY <1>2 DEF IInv, TypeOK, Doomed, OutsideStep, Inside
<1>3. CASE WriterStep(t) /\ InsideStep(t)
  <2>1. lock = t /\ pc[t] = "RemFreeHead"
    BY <1>3 DEF InsideStep, Doomed
  <2>2. RemFreeHead(t)
    BY <1>3, <2>1 DEF WriterStep, AddLock, AddMalloc, AddMallocFails, AddWalk, AddLink,
       AddUnlock, RemLock, RemHeadHit, RemHeadMiss, RemFreeHead, RemWalk,
       RemNotFound, RemUnlink, RemFree, RemUnlock
  <2>3. lock' = t /\ pc'[t] = "idle"
    BY <2>1, <2>2 DEF IInv, TypeOK, RemFreeHead, Return, UnlockingPaths, Goto
  <2>4. QED BY <2>3, CCLAssumption DEF Doomed, Inside
<1>4. QED BY <1>1, <1>2, <1>3

LEMMA NextHeadsSettled ==
  ASSUME IInv, Next
  PROVE  HeadsSettled'
<1>1. PICK t \in Thread : OutsideStep(t) \/ (WriterStep(t) /\ InsideStep(t))
  BY StepShapes
<1>2. CASE OutsideStep(t)
  BY <1>2, StaysDoomed DEF IInv, HeadsSettled, OutsideStep
<1>3. CASE RemHeadHit(t)
  <2>1. Doomed'
    BY <1>3, CCLAssumption DEF IInv, TypeOK, OnlyHolderInside, RemHeadHit, Goto, Doomed, Inside
  <2>2. QED BY <2>1 DEF HeadsSettled
<1>4. CASE WriterStep(t) /\ InsideStep(t) /\ ~RemHeadHit(t)
  <2>1. head' = head
    BY <1>4 DEF WriterStep, AddLock, AddMalloc, AddMallocFails, AddWalk, AddLink,
       AddUnlock, RemLock, RemHeadMiss, RemFreeHead, RemWalk,
       RemNotFound, RemUnlink, RemFree, RemUnlock
  <2>2. pc'[t] # "AddLock"
    BY <1>4 DEF InsideStep, Inside
  <2>3. QED BY <1>4, <2>1, <2>2, StaysDoomed DEF IInv, HeadsSettled, InsideStep
<1>5. QED BY <1>1, <1>2, <1>3, <1>4

\* The lists stay well linked while memory outside them changes.
LEMMA LinksKept ==
  ASSUME TypeOK, ListsWellLinked, TypeOK',
         head' = head,
         \A n \in Node : Linked(n)' <=> Linked(n),
         \A n \in Node : Linked(n) => place'[n] = place[n] /\ next'[n] = next[n]
  PROVE  ListsWellLinked'
  BY DEF TypeOK, ListsWellLinked, Linked

\* The node that RemHeadHit takes out is the first one of the list.
LEMMA HeadHit ==
  ASSUME IInv, NEW t \in Thread, RemHeadHit(t)
  PROVE  /\ op[t].list \in Lists
         /\ temp[t] \in Node /\ temp[t] = head[op[t].list]
         /\ place[temp[t]] = op[t].list
         /\ prev[t] = Null
<1>1. op[t].list \in Lists /\ temp[t] \in Node /\ pc[t] = "RemHead"
  BY DEF IInv, TypeOK, Calls, RemHeadHit, Inside
<1>2. temp[t] = head[op[t].list] /\ prev[t] = Null
  BY <1>1 DEF IInv, RemoveCursors
<1>3. place[temp[t]] = op[t].list
  BY <1>1, <1>2, CCLAssumption DEF IInv, ListsWellLinked
<1>4. QED BY <1>1, <1>2, <1>3

LEMMA NextListsWellLinked ==
  ASSUME IInv, Next
  PROVE  ListsWellLinked'
<1> USE CCLAssumption
<1>t. TypeOK'
  BY NextTypeOK DEF IInv
<1>1. PICK t \in Thread : OutsideStep(t) \/ (WriterStep(t) /\ InsideStep(t))
  BY StepShapes
<1>2. CASE OutsideStep(t)
  BY <1>2 DEF IInv, ListsWellLinked, Linked, OutsideStep
<1>3. CASE \/ AddLock(t) \/ AddMallocFails(t) \/ AddWalk(t) \/ AddUnlock(t)
           \/ RemLock(t) \/ RemHeadMiss(t) \/ RemWalk(t) \/ RemNotFound(t)
           \/ RemUnlock(t)
  BY <1>3 DEF IInv, ListsWellLinked, Linked, AddLock, AddMallocFails, AddWalk, AddUnlock,
     RemLock, RemHeadMiss, RemWalk, RemNotFound, RemUnlock
<1>4. CASE AddMalloc(t)
  <2>1. PICK n \in FreeNodes :
          /\ place' = [place EXCEPT ![n] = "heap"]
          /\ next'  = [next  EXCEPT ![n] = Null]
    BY <1>4 DEF AddMalloc
  <2>2. n \in Node /\ place[n] = "free" /\ head' = head
    BY <1>4 DEF AddMalloc, FreeNodes
  <2>3. QED BY <1>t, <2>1, <2>2, LinksKept DEF IInv, TypeOK, Linked
<1>5. CASE RemFreeHead(t) \/ RemFree(t)
  <2>1. temp[t] \in Node /\ place[temp[t]] = "heap"
    BY <1>5 DEF IInv, TypeOK, RemoveCursors, RemFreeHead, RemFree
  <2>2. head' = head /\ next' = next /\ place' = [place EXCEPT ![temp[t]] = "free"]
    BY <1>5 DEF RemFreeHead, RemFree, Free
  <2>3. QED BY <1>t, <2>1, <2>2, LinksKept DEF IInv, TypeOK, Linked
<1>6. CASE AddLink(t)
  <2> DEFINE last == ptr[t]
             new  == temp[t]
             l    == op[t].list
  <2>1. /\ last \in Node /\ place[last] = l /\ l \in Lists /\ next[last] = Null
        /\ new \in Node /\ place[new] = "heap" /\ next[new] = Null
    BY <1>6 DEF IInv, TypeOK, Calls, AddCursor, AddLink, Inside
  <2>2. /\ head' = head
        /\ next'  = [next  EXCEPT ![last] = new]
        /\ place' = [place EXCEPT ![new] = l]
    BY <1>6, <2>1 DEF AddLink, Linked
  <2>3. \A m \in Lists : head[m] # new
    BY <2>1 DEF IInv, TypeOK, ListsWellLinked
  <2>4. \A m \in Node : Linked(m) => next[m] # new
    BY <2>1 DEF IInv, TypeOK, ListsWellLinked, Linked
  <2> HIDE DEF last, new, l
  <2>5. QED
    BY <2>1, <2>2, <2>3, <2>4 DEF IInv, TypeOK, ListsWellLinked, Linked
<1>7. CASE RemHeadHit(t)
  <2> DEFINE first == temp[t]
             l     == op[t].list
  <2>1. /\ first \in Node /\ first = head[l] /\ l \in Lists /\ place[first] = l
    BY <1>7, HeadHit
  <2>2. /\ head'  = [head EXCEPT ![l] = next[first]]
        /\ next'  = next
        /\ place' = [place EXCEPT ![first] = "heap"]
    BY <1>7 DEF RemHeadHit
  <2> HIDE DEF first, l
  <2>3. \A n \in Node : Linked(n) => next[n] # first
    BY <2>1 DEF IInv, TypeOK, ListsWellLinked, Linked
  <2>4. QED
    BY <2>1, <2>2, <2>3 DEF IInv, TypeOK, ListsWellLinked, Linked
<1>8. CASE RemUnlink(t)
  <2> DEFINE before == prev[t]
             gone   == temp[t]
             l      == op[t].list
  <2>1. /\ gone \in Node /\ place[gone] = l /\ l \in Lists
        /\ before \in Node /\ place[before] = l /\ next[before] = gone
    BY <1>8 DEF IInv, TypeOK, Calls, RemoveCursors, RemUnlink, Inside
  <2>2. /\ head'  = head
        /\ next'  = [next  EXCEPT ![before] = next[gone]]
        /\ place' = [place EXCEPT ![gone] = "heap"]
    BY <1>8 DEF RemUnlink
  <2> HIDE DEF before, gone, l
  <2>3. /\ head[l] # gone
        /\ \A n \in Node : Linked(n) /\ n # before => next[n] # gone
    BY <2>1 DEF IInv, TypeOK, ListsWellLinked, Linked
  <2>4. QED
    BY <2>1, <2>2, <2>3 DEF IInv, TypeOK, ListsWellLinked, Linked
<1>9. QED BY <1>1, <1>2, <1>3, <1>4, <1>5, <1>6, <1>7, <1>8 DEF WriterStep

LEMMA NextAddCursor ==
  ASSUME IInv, Next
  PROVE  AddCursor'
<1> USE CCLAssumption
<1>1. PICK t \in Thread : OutsideStep(t) \/ (WriterStep(t) /\ InsideStep(t))
  BY StepShapes
<1>2. CASE OutsideStep(t)
  BY <1>2 DEF IInv, AddCursor, OutsideStep, Inside
<1> SUFFICES ASSUME WriterStep(t), InsideStep(t)
             PROVE  AddCursor'
  BY <1>1, <1>2
\* The other threads are outside the lock: only t has a cursor.
<1>3. ASSUME NEW u \in Thread \ {t}
      PROVE  pc'[u] \notin Inside
  BY DEF InsideStep
<1>4. SUFFICES
        /\ pc'[t] \in {"AddMalloc", "AddWalk"} =>
             ptr'[t] # Null /\ place'[ptr'[t]] = op'[t].list
        /\ pc'[t] = "AddWalk" => place'[temp'[t]] = "heap" /\ next'[temp'[t]] = Null
        /\ pc'[t] = "AddUnlock" => place'[temp'[t]] = op'[t].list
  BY <1>3 DEF AddCursor, Inside
<1>5. CASE AddLock(t)
  <2>1. head[op[t].list] = ptr[t] /\ ptr[t] # Null /\ op[t].list \in Lists
    BY <1>5 DEF IInv, TypeOK, Calls, HeadsSettled, Doomed, AddLock, LockFree, Inside
  <2>2. place[ptr[t]] = op[t].list
    BY <2>1 DEF IInv, ListsWellLinked
  <2>3. QED BY <1>5, <2>1, <2>2 DEF IInv, TypeOK, AddLock, Goto
<1>6. CASE AddMalloc(t)
  <2>1. PICK n \in FreeNodes :
          /\ temp'  = [temp  EXCEPT ![t] = n]
          /\ place' = [place EXCEPT ![n] = "heap"]
          /\ next'  = [next  EXCEPT ![n] = Null]
    BY <1>6 DEF AddMalloc
  <2>2. /\ ptr[t] \in Node /\ place[ptr[t]] = op[t].list /\ op[t].list \in Lists
        /\ n \in Node /\ place[n] = "free"
    BY <1>6 DEF IInv, TypeOK, Calls, AddCursor, AddMalloc, FreeNodes, Inside
  <2>3. ptr' = ptr /\ op' = op /\ pc' = [pc EXCEPT ![t] = "AddWalk"]
    BY <1>6 DEF AddMalloc, Goto
  <2>4. QED BY <2>1, <2>2, <2>3 DEF IInv, TypeOK
<1>7. CASE AddWalk(t)
  BY <1>7 DEF IInv, TypeOK, Calls, AddCursor, ListsWellLinked, Linked, AddWalk, Inside
<1>8. CASE AddLink(t)
  BY <1>8 DEF IInv, TypeOK, Calls, AddCursor, Linked, AddLink, Goto, Inside
<1>9. CASE \/ AddMallocFails(t) \/ AddUnlock(t) \/ RemFreeHead(t)
           \/ RemNotFound(t) \/ RemUnlock(t)
  BY <1>9 DEF IInv, TypeOK, AddMallocFails, AddUnlock, RemFreeHead, RemNotFound,
     RemUnlock, Return, Goto
<1>10. CASE \/ RemLock(t) \/ RemHeadHit(t) \/ RemHeadMiss(t) \/ RemWalk(t)
            \/ RemUnlink(t) \/ RemFree(t)
  BY <1>10 DEF IInv, TypeOK, RemLock, RemHeadHit, RemHeadMiss, RemWalk, RemUnlink,
     RemFree, Goto
<1>11. QED BY <1>5, <1>6, <1>7, <1>8, <1>9, <1>10 DEF WriterStep

LEMMA NextRemoveCursors ==
  ASSUME IInv, Next
  PROVE  RemoveCursors'
<1> USE CCLAssumption
<1>1. PICK t \in Thread : OutsideStep(t) \/ (WriterStep(t) /\ InsideStep(t))
  BY StepShapes
<1>2. CASE OutsideStep(t)
  BY <1>2 DEF IInv, RemoveCursors, Linked, OutsideStep, Inside
<1> SUFFICES ASSUME WriterStep(t), InsideStep(t)
             PROVE  RemoveCursors'
  BY <1>1, <1>2
<1>3. ASSUME NEW u \in Thread \ {t}
      PROVE  /\ pc'[u] \notin Inside
             /\ prev'[u] = Null
  BY DEF IInv, RemoveCursors, InsideStep, Inside
<1>4. SUFFICES
        /\ pc'[t] \notin {"RemWalk", "RemFree", "RemUnlock"} => prev'[t] = Null
        /\ pc'[t] = "RemHead" => temp'[t] = head'[op'[t].list]
        /\ pc'[t] = "RemWalk" =>
             /\ temp'[t] # Null => place'[temp'[t]] = op'[t].list
             /\ prev'[t] # Null => /\ place'[prev'[t]] = op'[t].list
                                  /\ next'[prev'[t]] = temp'[t]
                                  /\ key'[prev'[t]] # op'[t].key
             /\ prev'[t] = Null /\ temp'[t] # Null => key'[temp'[t]] # op'[t].key
        /\ pc'[t] \in {"RemFreeHead", "RemFree"} =>
             /\ place'[temp'[t]] = "heap"
             /\ next'[temp'[t]] # Null => place'[next'[temp'[t]]] \in Lists
  BY <1>3 DEF RemoveCursors, Linked, Inside
<1>5. CASE AddLock(t) \/ AddMalloc(t) \/ AddWalk(t) \/ AddLink(t)
  BY <1>5 DEF IInv, TypeOK, RemoveCursors, AddLock, AddMalloc, AddWalk, AddLink, Goto
<1>6. CASE \/ AddMallocFails(t) \/ AddUnlock(t) \/ RemFreeHead(t)
           \/ RemNotFound(t) \/ RemUnlock(t)
  BY <1>6 DEF IInv, TypeOK, AddMallocFails, AddUnlock, RemFreeHead, RemNotFound,
     RemUnlock, Return, Goto
<1>7. CASE RemLock(t)
  BY <1>7 DEF IInv, TypeOK, RemoveCursors, RemLock, Goto
<1>8. CASE RemHeadHit(t)
  <2>1. /\ temp[t] \in Node /\ temp[t] = head[op[t].list] /\ op[t].list \in Lists
        /\ place[temp[t]] = op[t].list /\ prev[t] = Null
    BY <1>8, HeadHit
  <2>2. next[temp[t]] # Null => /\ next[temp[t]] \in Node /\ next[temp[t]] # temp[t]
                                /\ place[next[temp[t]]] \in Lists
    BY <2>1 DEF IInv, TypeOK, ListsWellLinked, Linked
  <2>3. /\ pc' = [pc EXCEPT ![t] = "RemFreeHead"] /\ next' = next /\ temp' = temp
        /\ place' = [place EXCEPT ![temp[t]] = "heap"] /\ prev' = prev
    BY <1>8 DEF RemHeadHit, Goto
  <2>4. QED BY <2>1, <2>2, <2>3 DEF IInv, TypeOK
<1>9. CASE RemHeadMiss(t)
  <2>1. temp[t] = head[op[t].list] /\ op[t].list \in Lists /\ prev[t] = Null
    BY <1>9 DEF IInv, TypeOK, Calls, RemoveCursors, RemHeadMiss, Inside
  <2>2. temp[t] # Null => place[temp[t]] = op[t].list
    BY <2>1 DEF IInv, ListsWellLinked
  <2>3. QED BY <1>9, <2>1, <2>2 DEF IInv, TypeOK, RemHeadMiss, Goto
<1>10. CASE RemWalk(t)
  <2>1. /\ temp[t] \in Node /\ place[temp[t]] = op[t].list /\ op[t].list \in Lists
    BY <1>10 DEF IInv, TypeOK, Calls, RemoveCursors, RemWalk, Inside
  <2>2. next[temp[t]] # Null => place[next[temp[t]]] = op[t].list
    BY <2>1 DEF IInv, ListsWellLinked, Linked
  <2>3. QED BY <1>10, <2>1, <2>2 DEF IInv, TypeOK, RemWalk
<1>11. CASE RemUnlink(t)
  <2>1. /\ temp[t] \in Node /\ place[temp[t]] = op[t].list /\ op[t].list \in Lists
        /\ prev[t] \in Node /\ place[prev[t]] = op[t].list /\ next[prev[t]] = temp[t]
        /\ prev[t] # temp[t]
    BY <1>11 DEF IInv, TypeOK, Calls, RemoveCursors, RemUnlink, Inside
  <2>2. temp[t] # Null
    BY <2>1
  <2>3. next[temp[t]] # Null => /\ next[temp[t]] \in Node
                                /\ place[next[temp[t]]] \in Lists
                                /\ next[temp[t]] # temp[t]
    BY <2>1, <2>2 DEF IInv, TypeOK, ListsWellLinked, Linked
  <2>4. /\ pc' = [pc EXCEPT ![t] = "RemFree"] /\ temp' = temp
        /\ next'  = [next EXCEPT ![prev[t]] = next[temp[t]]]
        /\ place' = [place EXCEPT ![temp[t]] = "heap"]
    BY <1>11 DEF RemUnlink, Goto
  <2>5. QED BY <2>1, <2>3, <2>4 DEF IInv, TypeOK
<1>12. CASE RemFree(t)
  BY <1>12 DEF IInv, TypeOK, RemFree, Goto
<1>13. QED BY <1>5, <1>6, <1>7, <1>8, <1>9, <1>10, <1>11, <1>12 DEF WriterStep

LEMMA NextHeapHeld ==
  ASSUME IInv, Next
  PROVE  HeapHeld'
<1> USE CCLAssumption
<1>1. PICK t \in Thread : OutsideStep(t) \/ (WriterStep(t) /\ InsideStep(t))
  BY StepShapes
<1> DEFINE Holding == {"AddWalk", "RemFreeHead", "RemFree"}
<1>2. CASE OutsideStep(t)
  BY <1>2 DEF IInv, HeapHeld, OutsideStep, Inside
<1> SUFFICES ASSUME WriterStep(t), InsideStep(t), NEW n \in Node, place'[n] = "heap"
             PROVE  \E u \in Thread : pc'[u] \in Holding /\ temp'[u] = n
  BY <1>1, <1>2 DEF HeapHeld
\* Whoever holds n is inside the lock, so it is t, before and after the step.
<1>3. place[n] = "heap" => pc[t] \in Holding /\ temp[t] = n
  BY DEF IInv, HeapHeld, InsideStep, Inside
<1>4. CASE AddMalloc(t) \/ RemHeadHit(t) \/ RemUnlink(t)
  <2>1. CASE place[n] = "heap"
    BY <1>3, <1>4, <2>1 DEF AddMalloc, RemHeadHit, RemUnlink
  <2>2. CASE place[n] # "heap"
    BY <1>4, <2>2 DEF IInv, TypeOK, AddMalloc, RemHeadHit, RemUnlink, Goto
  <2>3. QED BY <2>1, <2>2
<1>5. CASE AddLink(t)
  <2>1. /\ place[ptr[t]] = op[t].list /\ op[t].list \in Lists /\ ptr[t] # Null
        /\ temp[t] \in Node
    BY <1>5 DEF IInv, TypeOK, Calls, AddCursor, AddLink, Inside
  <2>2. place' = [place EXCEPT ![temp[t]] = op[t].list]
    BY <1>5, <2>1 DEF AddLink, Linked
  <2>3. QED BY <1>3, <2>1, <2>2 DEF IInv, TypeOK
<1>6. CASE RemFreeHead(t) \/ RemFree(t)
  <2>1. place' = [place EXCEPT ![temp[t]] = "free"] /\ temp[t] \in Node
    BY <1>6 DEF IInv, TypeOK, RemFreeHead, RemFree, Free
  <2>2. QED BY <1>3, <2>1 DEF IInv, TypeOK
<1>7. CASE AddWalk(t)
  BY <1>3, <1>7 DEF AddWalk
<1>8. CASE \/ AddLock(t) \/ AddMallocFails(t) \/ AddUnlock(t) \/ RemLock(t)
           \/ RemHeadMiss(t) \/ RemWalk(t) \/ RemNotFound(t) \/ RemUnlock(t)
  BY <1>3, <1>8 DEF AddLock, AddMallocFails, AddUnlock, RemLock, RemHeadMiss,
     RemWalk, RemNotFound, RemUnlock
<1>9. QED BY <1>4, <1>5, <1>6, <1>7, <1>8 DEF WriterStep

-----------------------------------------------------------------------------
(* The theorems. *)

LEMMA InitIInv == Init => IInv
<1> SUFFICES ASSUME Init PROVE IInv
  OBVIOUS
<1> USE CCLAssumption
<1>1. TypeOK
  BY InitTypeOK
<1>2. OnlyHolderInside /\ AddCursor /\ RemoveCursors
  BY DEF Init, OnlyHolderInside, AddCursor, RemoveCursors, Inside
<1>3. HeadsSettled /\ HeapHeld
  BY DEF Init, HeadsSettled, HeapHeld
<1>4. ListsWellLinked
  BY DEF Init, ListsWellLinked
<1>5. QED BY <1>1, <1>2, <1>3, <1>4 DEF IInv

LEMMA NextIInv == IInv /\ [Next]_vars => IInv'
<1>1. ASSUME IInv, Next PROVE IInv'
  BY <1>1, NextTypeOK, NextHolder, NextHeadsSettled, NextListsWellLinked,
     NextAddCursor, NextRemoveCursors, NextHeapHeld DEF IInv
<1>2. ASSUME IInv, UNCHANGED vars PROVE IInv'
  BY <1>2 DEF IInv, TypeOK, OnlyHolderInside, HeadsSettled, Doomed, ListsWellLinked,
     AddCursor, RemoveCursors, HeapHeld, Linked, vars
<1>3. QED BY <1>1, <1>2

LEMMA Invariance == Spec => []IInv
  BY InitIInv, NextIInv, PTL DEF Spec

\* lock1 guards the lists: no two calls are between lock and return at once.
THEOREM LockGuardsLists == Spec => []OnlyHolderInside
  BY Invariance, PTL DEF IInv

\* The three lists stay chains of live nodes of their own.
THEOREM ListsStayLinked == Spec => []ListsWellLinked
  BY Invariance, PTL DEF IInv

LEMMA CursorsLive == IInv => WritersTouchLiveNodes
<1> SUFFICES ASSUME IInv, NEW t \in Thread
             PROVE  /\ pc[t] = "AddWalk" => ptr[t] # Null /\ place[ptr[t]] = op[t].list
                    /\ pc[t] \in {"RemHead", "RemWalk"} /\ temp[t] # Null =>
                         place[temp[t]] = op[t].list
                    /\ pc[t] = "RemWalk" /\ prev[t] # Null =>
                         place[prev[t]] = op[t].list /\ next[prev[t]] = temp[t]
  BY DEF WritersTouchLiveNodes
<1>1. pc[t] = "RemHead" /\ temp[t] # Null => place[temp[t]] = op[t].list
  BY DEF IInv, TypeOK, Calls, RemoveCursors, ListsWellLinked, Inside
<1>2. QED BY <1>1 DEF IInv, AddCursor, RemoveCursors

\* Although Add reads the head before it has the lock, no call ever changes a
\* list through a pointer to a node that left it.
THEOREM WritersSafe == Spec => []WritersTouchLiveNodes
  BY Invariance, CursorsLive, PTL

\* An Add that reports success has linked its node.
THEOREM AddsAreLinked == Spec => []AddedIsLinked
<1>1. IInv => AddedIsLinked
  BY DEF IInv, AddCursor, AddedIsLinked
<1>2. QED BY Invariance, <1>1, PTL

LEMMA LeakedStep ==
  ASSUME IInv, [Next]_vars, Leaked
  PROVE  UNCHANGED <<lock, memory>>
<1>1. CASE UNCHANGED vars
  BY <1>1 DEF vars
<1>2. CASE Next
  <2>1. PICK t \in Thread : OutsideStep(t) \/ (WriterStep(t) /\ InsideStep(t))
    BY <1>2, StepShapes
  <2>2. ~InsideStep(t)
    BY DEF InsideStep, Leaked
  <2>3. QED BY <2>1, <2>2 DEF OutsideStep
<1>3. QED BY <1>1, <1>2

\* A call that returns with the lock freezes the lists and the counters.
THEOREM LeakFreezes == Spec => FrozenOnceLeaked
<1>1. IInv /\ [Next]_vars => [Leaked => UNCHANGED <<lock, memory>>]_vars
  BY LeakedStep
<1>2. QED BY Invariance, <1>1, PTL DEF Spec, FrozenOnceLeaked

-----------------------------------------------------------------------------
(* Readers. *)

\* From a node that is not free, the next field leads to one that is not free.
LEMMA NextNotFree ==
  ASSUME IInv, NEW n \in Node, place[n] # "free", next[n] # Null
  PROVE  next[n] \in Node /\ place[next[n]] # "free"
<1> USE CCLAssumption
<1>1. next[n] \in Node /\ place[n] \in {"heap"} \cup Lists
  BY DEF IInv, TypeOK
<1>2. CASE place[n] \in Lists
  BY <1>1, <1>2 DEF IInv, ListsWellLinked, Linked
<1>3. CASE place[n] = "heap"
  <2>1. PICK t \in Thread : pc[t] \in {"AddWalk", "RemFreeHead", "RemFree"} /\ temp[t] = n
    BY <1>3 DEF IInv, HeapHeld
  <2>2. Linked(next[n])
    BY <2>1 DEF IInv, AddCursor, RemoveCursors
  <2>3. QED BY <1>1, <2>2 DEF Linked
<1>4. QED BY <1>1, <1>2, <1>3

LEMMA NextQuietReader ==
  ASSUME IInv, QuietReaderSafe, [Next]_vars
  PROVE  QuietReaderSafe'
<1> USE CCLAssumption
<1>1. CASE UNCHANGED vars
  BY <1>1 DEF QuietReaderSafe, Reading, vars
<1>2. CASE Next
  <2>1. PICK t \in Thread : Cases(t)
    BY <1>2, NextCases
  <2> SUFFICES ASSUME NEW u \in Thread, Reading(u)', u \notin stale', ptr'[u] # Null
               PROVE  place'[ptr'[u]] # "free"
    BY DEF QuietReaderSafe
  <2>2. TypeOK /\ TypeOK'
    BY NextTypeOK DEF IInv
  <2>3. ASSUME NEW l \in Lists, NEW k \in Key, BeginAdd(t, l, k) \/ BeginRemove(t, l, k)
        PROVE  place'[ptr'[u]] # "free"
    BY <2>2, <2>3 DEF TypeOK, QuietReaderSafe, Reading, BeginAdd, BeginRemove, Goto
  <2>4. ASSUME NEW l \in Lists, NEW k \in Key \cup {Null}, BeginWalk(t, l, k)
        PROVE  place'[ptr'[u]] # "free"
    <3>1. head[l] # Null => place[head[l]] = l
      BY DEF IInv, ListsWellLinked
    <3>2. CASE u = t
      BY <2>2, <2>4, <3>1, <3>2 DEF TypeOK, BeginWalk
    <3>3. CASE u # t
      BY <2>2, <2>4, <3>3 DEF TypeOK, QuietReaderSafe, Reading, BeginWalk, Goto
    <3>4. QED BY <3>2, <3>3
  <2>5. CASE WalkOn(t)
    <3>1. CASE u = t
      <4>1. ptr[t] \in Node /\ place[ptr[t]] # "free" /\ ptr'[t] = next[ptr[t]]
        BY <2>2, <2>5, <3>1 DEF TypeOK, QuietReaderSafe, Reading, WalkOn
      <4>2. QED BY <2>5, <3>1, <4>1, NextNotFree DEF WalkOn
    <3>2. CASE u # t
      BY <2>2, <2>5, <3>2 DEF TypeOK, QuietReaderSafe, Reading, WalkOn
    <3>3. QED BY <3>1, <3>2
  <2>6. CASE WalkReturns(t) \/ Fault(t)
    BY <2>2, <2>6 DEF TypeOK, QuietReaderSafe, Reading, WalkReturns, Fault, Goto
  <2>7. CASE WriterStep(t)
    \* t itself does not read, and the others did before the step.
    <3>1. InsideStep(t)
      BY <2>7, InsideSteps DEF IInv
    <3>2. u # t
      <4>1. CASE pc'[t] = "idle"
        BY <2>2, <2>7, <3>1, <4>1 DEF TypeOK, WriterStep, Reading, AddLock, AddMalloc,
           AddMallocFails, AddWalk, AddLink, AddUnlock, RemLock, RemHeadHit, RemHeadMiss,
           RemFreeHead, RemWalk, RemNotFound, RemUnlink, RemFree, RemUnlock, Return, Goto
      <4>2. CASE pc'[t] # "idle"
        BY <3>1, <4>2 DEF Reading, InsideStep, Inside
      <4>3. QED BY <4>1, <4>2
    <3>3. Reading(u) /\ ptr[u] \in Node /\ ptr'[u] = ptr[u]
      BY <2>2, <3>1, <3>2 DEF TypeOK, Reading, InsideStep
    <3>4. CASE RemFreeHead(t) \/ RemFree(t)
      BY <3>3, <3>4 DEF RemFreeHead, RemFree, Free
    <3>5. CASE AddMalloc(t)
      BY <2>2, <3>3, <3>5 DEF TypeOK, QuietReaderSafe, AddMalloc
    <3>6. CASE AddLink(t)
      <4>1. place[ptr[t]] = op[t].list /\ op[t].list \in Lists
        BY <3>6 DEF IInv, TypeOK, Calls, AddCursor, AddLink, Inside
      <4>2. QED
        BY <2>2, <3>3, <3>6, <4>1 DEF TypeOK, QuietReaderSafe, AddLink, Linked
    <3>7. CASE RemHeadHit(t) \/ RemUnlink(t)
      BY <2>2, <3>3, <3>7 DEF TypeOK, QuietReaderSafe, RemHeadHit, RemUnlink
    <3>8. CASE \/ AddLock(t) \/ AddMallocFails(t) \/ AddWalk(t) \/ AddUnlock(t)
               \/ RemLock(t) \/ RemHeadMiss(t) \/ RemWalk(t) \/ RemNotFound(t)
               \/ RemUnlock(t)
      BY <3>3, <3>8 DEF QuietReaderSafe, AddLock, AddMallocFails, AddWalk, AddUnlock,
         RemLock, RemHeadMiss, RemWalk, RemNotFound, RemUnlock
    <3>9. QED BY <2>7, <3>4, <3>5, <3>6, <3>7, <3>8 DEF WriterStep
  <2>8. QED
    BY <2>1, <2>3, <2>4, <2>5, <2>6, <2>7 DEF Cases, Step, WriterStep
<1>3. QED BY <1>1, <1>2

\* Find and dumpList, which take no lock, are safe from everything but a free
\* that happens during their walk.
THEOREM QuietReadersSafe == Spec => []QuietReaderSafe
<1>1. Init => QuietReaderSafe
  BY DEF Init, QuietReaderSafe, Reading
<1>2. QED BY Invariance, <1>1, NextQuietReader, PTL DEF Spec

-----------------------------------------------------------------------------
(* What the counters count. *)

InList(l)  == {n \in Node : place[n] = l}
Freeing(l) == {t \in Thread : pc[t] \in {"RemFreeHead", "RemFree"} /\ op[t].list = l}
Members(l) == Cardinality(InList(l)) + Cardinality(Freeing(l))

\* Lists are finite, whatever the heap and the threads are: they grow by a
\* node at a time, and only the holder of the lock is about to free one.
ListsFinite == \A l \in Lists : IsFiniteSet(InList(l)) /\ IsFiniteSet(Freeing(l))

LEMMA CountedMembers == \A l : Counted(l) = IF l \in Lists THEN Members(l) ELSE 1
BY DEF Counted, Members, InList, Freeing

LEMMA MembersNat == ASSUME ListsFinite PROVE \A l \in Lists : Members(l) \in Nat
BY FS_CardinalityType DEF ListsFinite, Members

\* A finite set that gains an element has one more.
LEMMA GainCounts ==
  ASSUME NEW S, NEW x, x \notin S, IsFiniteSet(S)
  PROVE  IsFiniteSet(S \cup {x}) /\ Cardinality(S \cup {x}) = Cardinality(S) + 1
BY FS_AddElement

LEMMA LossCounts ==
  ASSUME NEW S, NEW x, x \in S, IsFiniteSet(S)
  PROVE  IsFiniteSet(S \ {x}) /\ Cardinality(S \ {x}) = Cardinality(S) - 1
BY FS_RemoveElement

LEMMA InitCounts == Init => ListsFinite /\ CountersBalance
<1> SUFFICES ASSUME Init PROVE ListsFinite /\ CountersBalance
  OBVIOUS
<1>1. ASSUME NEW l \in Lists
      PROVE  InList(l) = {Sentinel[l]} /\ Freeing(l) = {}
  BY CCLAssumption DEF Init, InList, Freeing
<1>2. ListsFinite
  BY <1>1, FS_Singleton, FS_EmptySet DEF ListsFinite
<1>3. ASSUME NEW l \in Lists PROVE Members(l) = 1
  <2>1. Cardinality(InList(l)) = 1 /\ Cardinality(Freeing(l)) = 0
    BY <1>1, FS_Singleton, FS_EmptySet
  <2>2. QED BY <2>1 DEF Members
<1>4. \A l : Counted(l) = 1
  BY <1>3, CountedMembers
<1>5. QED BY <1>2, <1>4 DEF CountersBalance, Init, Counter

\* A step that adds d to the members of one list and to a counter.
Recount(l, c, d) ==
  /\ cnt' = [cnt EXCEPT ![c] = @ + d]
  /\ \A m \in Lists : Members(m)' = Members(m) + (IF m = l THEN d ELSE 0)

\* A counter that is changed with its list keeps the balance.
LEMMA BalanceKept ==
  ASSUME TypeOK, ListsFinite, CountersBalance, 
         NEW l \in Lists, NEW c \in Counter, NEW d \in Int, c = "tcnt" <=> l = "port",
         Recount(l, c, d)
  PROVE  CountersBalance'
<1>1. \A m \in Lists : Members(m) \in Nat
  BY MembersNat
<1>2. \A m : Counted(m)' = IF m \in Lists THEN Members(m)' ELSE 1
  BY DEF Counted, Members, InList, Freeing
<1>3. \A m : Counted(m) \in Int /\ Counted(m)' = Counted(m) + (IF m = l THEN d ELSE 0)
  BY <1>1, <1>2, CountedMembers DEF Recount
<1>4. l \in {"conn", "thread", "port"}
  BY CCLAssumption
<1>5. QED BY <1>3, <1>4 DEF CountersBalance, TypeOK, Counter, Recount

LEMMA NextCounts ==
  ASSUME IInv, ListsFinite, CountersBalance, Next
  PROVE  ListsFinite' /\ CountersBalance'
<1> USE CCLAssumption
<1>1. PICK t \in Thread : OutsideStep(t) \/ (WriterStep(t) /\ InsideStep(t))
  BY StepShapes
<1>2. CASE \/ OutsideStep(t)
           \/ AddLock(t) \/ AddMalloc(t) \/ AddMallocFails(t) \/ AddWalk(t)
           \/ AddUnlock(t)
           \/ RemLock(t) \/ RemHeadMiss(t) \/ RemWalk(t) \/ RemNotFound(t)
           \/ RemUnlock(t)
           \/ AddLink(t) /\ ptr[t] = Null
  <2>1. \A l \in Lists : InList(l)' = InList(l)
    BY <1>2 DEF IInv, TypeOK, InList, OutsideStep, AddLock, AddMalloc,
       AddMallocFails, AddWalk, AddUnlock, RemLock, RemHeadMiss, RemWalk,
       RemNotFound, RemUnlock, AddLink, memory, FreeNodes
  <2>2. \A l \in Lists : Freeing(l)' = Freeing(l)
    BY <1>2 DEF IInv, TypeOK, Freeing, OutsideStep, AddLock, AddMalloc,
       AddMallocFails, AddWalk, AddUnlock, RemLock, RemHeadMiss, RemWalk,
       RemNotFound, RemUnlock, AddLink, memory, locals, Goto, Return, Inside
  <2>3. cnt' = cnt
    BY <1>2 DEF OutsideStep, AddLock, AddMalloc,
       AddMallocFails, AddWalk, AddUnlock, RemLock, RemHeadMiss, RemWalk,
       RemNotFound, RemUnlock, AddLink, memory
  <2>4. \A l : Counted(l)' = Counted(l)
    BY <2>1, <2>2 DEF Counted, InList, Freeing
  <2>5. QED BY <2>1, <2>2, <2>3, <2>4 DEF ListsFinite, CountersBalance
<1> DEFINE l == op[t].list
           n == temp[t]
<1>f. \A m \in Lists : IsFiniteSet(InList(m)) /\ IsFiniteSet(Freeing(m))
                       /\ Cardinality(InList(m)) \in Nat /\ Cardinality(Freeing(m)) \in Nat
  BY FS_CardinalityType DEF ListsFinite
<1>3. CASE AddLink(t) /\ ptr[t] # Null
  <2>1. /\ l \in Lists /\ n \in Node /\ place[n] = "heap" /\ place[ptr[t]] = l
    BY <1>3 DEF IInv, TypeOK, Calls, AddCursor, AddLink, Inside
  <2>2. /\ place' = [place EXCEPT ![n] = l]
        /\ cnt' = [cnt EXCEPT ![AddCounter(l)] = @ + 1]
    BY <1>3, <2>1 DEF AddLink, Linked
  <2>3. ASSUME NEW m \in Lists
        PROVE  InList(m)' = IF m = l THEN InList(m) \cup {n} ELSE InList(m)
    BY <2>1, <2>2 DEF IInv, TypeOK, InList
  <2>4. n \notin InList(l)
    BY <2>1 DEF InList
  <2>5. ASSUME NEW m \in Lists PROVE Freeing(m)' = Freeing(m)
    BY <1>3 DEF IInv, TypeOK, Freeing, AddLink, Goto, locals
  <2> HIDE DEF n, l
  <2>6. ListsFinite'
    BY <1>f, <2>1, <2>3, <2>4, <2>5, GainCounts DEF ListsFinite
  <2>7. ASSUME NEW m \in Lists
        PROVE  Members(m)' = Members(m) + (IF m = l THEN 1 ELSE 0)
    <3>1. Cardinality(Freeing(m))' = Cardinality(Freeing(m))
      BY <2>5
    <3>2. Cardinality(InList(m))' = Cardinality(InList(m)) + (IF m = l THEN 1 ELSE 0)
      BY <1>f, <2>3, <2>4, GainCounts
    <3>3. QED BY <1>f, <3>1, <3>2 DEF Members
  <2>8. CountersBalance'
    <3>1. AddCounter(l) \in Counter /\ (AddCounter(l) = "tcnt" <=> l = "port")
      BY DEF AddCounter, Counter
    <3>2. Recount(l, AddCounter(l), 1)
      BY <2>2, <2>7 DEF Recount
    <3>3. TypeOK /\ l \in Lists
      BY <2>1 DEF IInv
    <3>4. QED
      BY ONLY <3>1, <3>2, <3>3, ListsFinite, CountersBalance, BalanceKept
  <2>9. QED BY <2>6, <2>8
<1>4. CASE RemHeadHit(t) \/ RemUnlink(t)
  <2>1. l \in Lists /\ n \in Node /\ place[n] = l /\ pc[t] \in {"RemHead", "RemWalk"}
    BY <1>4, HeadHit DEF IInv, TypeOK, Calls, RemoveCursors, RemUnlink, RemHeadHit, Inside
  <2>2. place' = [place EXCEPT ![n] = "heap"] /\ cnt' = cnt
    BY <1>4, <2>1 DEF RemHeadHit, RemUnlink
  <2>3. ASSUME NEW m \in Lists
        PROVE  InList(m)' = IF m = l THEN InList(m) \ {n} ELSE InList(m)
    BY <2>1, <2>2 DEF IInv, TypeOK, InList
  <2>4. n \in InList(l) /\ t \notin Freeing(l)
    BY <2>1 DEF InList, Freeing
  <2>5. ASSUME NEW m \in Lists
        PROVE  Freeing(m)' = IF m = l THEN Freeing(m) \cup {t} ELSE Freeing(m)
    BY <1>4, <2>1 DEF IInv, TypeOK, Freeing, RemHeadHit, RemUnlink, Goto, locals
  <2> HIDE DEF n, l
  <2>6. ListsFinite'
    BY <1>f, <2>1, <2>3, <2>4, <2>5, GainCounts, LossCounts DEF ListsFinite
  <2>7. ASSUME NEW m \in Lists PROVE Members(m)' = Members(m)
    <3>1. Cardinality(Freeing(m))' = Cardinality(Freeing(m)) + (IF m = l THEN 1 ELSE 0)
      BY <1>f, <2>4, <2>5, GainCounts
    <3>2. Cardinality(InList(m))' = Cardinality(InList(m)) - (IF m = l THEN 1 ELSE 0)
      BY <1>f, <2>3, <2>4, LossCounts
    <3>3. QED BY <1>f, <3>1, <3>2 DEF Members
  <2>8. \A m : Counted(m)' = Counted(m)
    BY <2>7 DEF Counted, Members, InList, Freeing
  <2>9. QED BY <2>2, <2>6, <2>8 DEF CountersBalance
<1>5. CASE RemFreeHead(t) \/ RemFree(t)
  <2>1. l \in Lists /\ n \in Node /\ place[n] = "heap" /\ pc[t] \in {"RemFreeHead", "RemFree"}
    BY <1>5 DEF IInv, TypeOK, Calls, RemoveCursors, RemFreeHead, RemFree, Inside
  <2>2. PICK c \in Counter :
          /\ c = "tcnt" <=> l = "port"
          /\ cnt' = [cnt EXCEPT ![c] = @ - 1]
    BY <1>5, <2>1 DEF RemFreeHead, RemFree, RemoveHeadCounter, RemoveCounter, Counter
  <2>3. ASSUME NEW m \in Lists PROVE InList(m)' = InList(m)
    BY <1>5, <2>1 DEF IInv, TypeOK, InList, RemFreeHead, RemFree, Free
  <2>4. t \in Freeing(l)
    BY <2>1 DEF Freeing
  <2>5. ASSUME NEW m \in Lists
        PROVE  Freeing(m)' = IF m = l THEN Freeing(m) \ {t} ELSE Freeing(m)
    BY <1>5, <2>1 DEF IInv, TypeOK, Freeing, RemFreeHead, RemFree, Goto, Return, locals
  <2> HIDE DEF n, l
  <2>6. ListsFinite'
    <3>1. IsFiniteSet(Freeing(l) \ {t})
      BY <1>f, <2>1, <2>4, LossCounts
    <3>2. QED BY <1>f, <2>3, <2>5, <3>1 DEF ListsFinite
  <2>7. ASSUME NEW m \in Lists
        PROVE  Members(m)' = Members(m) + (IF m = l THEN -1 ELSE 0)
    <3>1. Cardinality(Freeing(m))' = Cardinality(Freeing(m)) - (IF m = l THEN 1 ELSE 0)
      BY <1>f, <2>4, <2>5, LossCounts
    <3>2. Cardinality(InList(m))' = Cardinality(InList(m))
      BY <2>3
    <3>3. QED BY <1>f, <3>1, <3>2 DEF Members
  <2>8. cnt' = [cnt EXCEPT ![c] = @ + (-1)]
    BY <2>2 DEF IInv, TypeOK, Counter
  <2>9. CountersBalance'
    <3>1. Recount(l, c, -1)
      BY <2>7, <2>8 DEF Recount
    <3>2. TypeOK /\ l \in Lists
      BY <2>1 DEF IInv
    <3>3. QED
      BY ONLY <2>2, <3>1, <3>2, ListsFinite, CountersBalance, BalanceKept
  <2>10. QED BY <2>6, <2>9
<1>6. QED BY <1>1, <1>2, <1>3, <1>4, <1>5 DEF WriterStep

\* tcnt is the length of the port list, ccnt and pcnt together are the lengths
\* of the other two, whatever calls are made and whatever they find.
THEOREM CountersCorrect == Spec => []CountersBalance
<1>1. ListsFinite /\ CountersBalance /\ UNCHANGED vars => (ListsFinite /\ CountersBalance)'
  BY DEF ListsFinite, CountersBalance, Counted, InList, Freeing, vars
<1>2. ListsFinite /\ CountersBalance /\ IInv /\ [Next]_vars => (ListsFinite /\ CountersBalance)'
  BY <1>1, NextCounts
<1>3. QED BY <1>2, InitCounts, Invariance, PTL DEF Spec

=============================================================================
