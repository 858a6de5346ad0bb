--------------------------- MODULE Registry_proofs ---------------------------
(***************************************************************************)
(* CCL keeps the promise of Registry and accounts for all its memory, for  *)
(* any threads, nodes, keys and lists.  What is reachable along next is    *)
(* expressed by closed sets, so that no proof is an induction on a list.   *)
(***************************************************************************)
EXTENDS CCL_proofs

USE DEF locals, memory

-----------------------------------------------------------------------------
(* Every node of a list is reachable from its head. *)

FromHead(l, S) == (head[l] # Null => head[l] \in S) /\ Closed(S)

AllReached ==
  \A l \in Lists, S \in SUBSET Node :
    FromHead(l, S) => \A n \in Node : place[n] = l => n \in S

LEMMA ReachedUnchanged ==
  ASSUME TypeOK, AllReached, head' = head,
         \A n \in Node : (Linked(n)' <=> Linked(n))
           /\ (Linked(n) => place'[n] = place[n] /\ next'[n] = next[n])
  PROVE  AllReached'
<1> SUFFICES ASSUME NEW l \in Lists, NEW S \in SUBSET Node, FromHead(l, S)'
             PROVE  \A n \in Node : place'[n] = l => n \in S
  BY DEF AllReached
<1>1. FromHead(l, S)
  BY DEF FromHead, Closed
<1>2. QED BY <1>1 DEF AllReached, Linked

LEMMA NextAllReached ==
  ASSUME IInv, AllReached, Next
  PROVE  AllReached'
<1> USE CCLAssumption
<1>t. TypeOK'
  BY NextTypeOK DEF IInv
<1>1. PICK t \in Thread : OutsideStep(t) \/ (WriterStep(t) /\ InsideStep(t))
  BY StepShapes
<1>2. CASE OutsideStep(t)
  BY <1>2, ReachedUnchanged DEF IInv, Linked, OutsideStep
<1>3. CASE \/ AddLock(t) \/ AddMallocFails(t) \/ AddWalk(t) \/ AddUnlock(t)
           \/ RemLock(t) \/ RemHeadMiss(t) \/ RemWalk(t) \/ RemNotFound(t)
           \/ RemUnlock(t)
  <2>1. head' = head /\ next' = next /\ place' = place
    BY <1>3 DEF AddLock, AddMallocFails, AddWalk, AddUnlock,
       RemLock, RemHeadMiss, RemWalk, RemNotFound, RemUnlock
  <2>2. \A n \in Node : Linked(n)' <=> Linked(n)
    BY <2>1 DEF Linked
  <2>3. TypeOK
    BY DEF IInv
  <2>4. QED BY <2>1, <2>2, <2>3, ReachedUnchanged
<1>4. CASE AddMalloc(t)
  <2>1. PICK n \in FreeNodes :
          /\ place' = [place EXCEPT ![n] = "heap"]
          /\ next'  = [next  EXCEPT ![n] = Null]
    BY <1>4 DEF AddMalloc
  <2>2. n \in Node /\ place[n] = "free" /\ head' = head
    BY <1>4 DEF AddMalloc, FreeNodes
  <2>3. \A m \in Node : (Linked(m)' <=> Linked(m))
          /\ (Linked(m) => place'[m] = place[m] /\ next'[m] = next[m])
    BY <2>1, <2>2 DEF IInv, TypeOK, Linked
  <2>4. TypeOK
    BY DEF IInv
  <2>5. QED BY <2>2, <2>3, <2>4, ReachedUnchanged
<1>5. CASE RemFreeHead(t) \/ RemFree(t)
  <2>1. temp[t] \in Node /\ place[temp[t]] = "heap"
    BY <1>5 DEF IInv, TypeOK, RemoveCursors, RemFreeHead, RemFree
  <2>2. head' = head /\ next' = next /\ place' = [place EXCEPT ![temp[t]] = "free"]
    BY <1>5 DEF RemFreeHead, RemFree, Free
  <2>3. QED BY <2>1, <2>2, ReachedUnchanged DEF IInv, TypeOK, Linked
<1>6. CASE AddLink(t)
  <2> DEFINE last == ptr[t]
             new  == temp[t]
             l    == op[t].list
  <2>1. /\ last \in Node /\ place[last] = l /\ l \in Lists /\ next[last] = Null
        /\ new \in Node /\ place[new] = "heap"
    BY <1>6 DEF IInv, TypeOK, Calls, AddCursor, AddLink, Inside
  <2>2. /\ head' = head
        /\ next'  = [next  EXCEPT ![last] = new]
        /\ place' = [place EXCEPT ![new] = l]
    BY <1>6, <2>1 DEF AddLink, Linked
  <2> HIDE DEF last, new, l
  <2> SUFFICES ASSUME NEW m \in Lists, NEW S \in SUBSET Node, FromHead(m, S)'
               PROVE  \A n \in Node : place'[n] = m => n \in S
    BY DEF AllReached
  <2>3. FromHead(m, S)
    BY <2>1, <2>2 DEF IInv, TypeOK, FromHead, Closed, Linked
  <2>4. \A n \in Node : place[n] = m => n \in S
    BY <2>3 DEF AllReached
  <2>5. m = l => new \in S
    BY <2>1, <2>2, <2>4 DEF IInv, TypeOK, FromHead, Closed, Linked
  <2>6. QED BY <2>1, <2>2, <2>4, <2>5 DEF IInv, TypeOK
<1>7. CASE RemHeadHit(t)
  <2> DEFINE gone == temp[t]
             l    == op[t].list
  <2>1. /\ gone \in Node /\ gone = head[l] /\ l \in Lists /\ place[gone] = l
    BY <1>7, HeadHit
  <2>2. /\ head'  = [head EXCEPT ![l] = next[gone]]
        /\ next'  = next
        /\ place' = [place EXCEPT ![gone] = "heap"]
    BY <1>7 DEF RemHeadHit
  <2> HIDE DEF gone, l
  <2>3. \A n \in Node : Linked(n) => next[n] # gone
    BY <2>1 DEF IInv, TypeOK, ListsWellLinked, Linked
  <2> SUFFICES ASSUME NEW m \in Lists, NEW S \in SUBSET Node, FromHead(m, S)'
               PROVE  \A n \in Node : place'[n] = m => n \in S
    BY DEF AllReached
  <2>4. CASE m = l
    <3>1. FromHead(m, S \cup {gone})
      BY <2>1, <2>2, <2>4 DEF IInv, TypeOK, FromHead, Closed, Linked
    <3>2. QED BY <2>1, <2>2, <3>1 DEF IInv, TypeOK, AllReached
  <2>5. CASE m # l
    <3>1. head[m] # gone
      BY <2>1, <2>5 DEF IInv, TypeOK, ListsWellLinked
    <3>2. FromHead(m, S \ {gone})
      BY <2>1, <2>2, <2>3, <2>5, <3>1 DEF IInv, TypeOK, FromHead, Closed, Linked
    <3>3. QED BY <2>1, <2>2, <3>2 DEF IInv, TypeOK, AllReached
  <2>6. QED BY <2>4, <2>5
<1>8. CASE RemUnlink(t)
  <2> DEFINE before == prev[t]
             gone   == temp[t]
             l      == op[t].list
  <2>1. /\ gone \in Node /\ place[gone] = l /\ l \in Lists
        /\ before \in Node /\ place[before] = l /\ next[before] = gone
        /\ before # gone
    BY <1>8 DEF IInv, TypeOK, Calls, RemoveCursors, RemUnlink, Inside
  <2>2. /\ head'  = head
        /\ next'  = [next  EXCEPT ![before] = next[gone]]
        /\ place' = [place EXCEPT ![gone] = "heap"]
    BY <1>8 DEF RemUnlink
  <2> HIDE DEF before, gone, l
  <2>3. /\ \A m \in Lists : head[m] # gone
        /\ \A n \in Node : Linked(n) /\ n # before => next[n] # gone
    BY <2>1 DEF IInv, TypeOK, ListsWellLinked, Linked
  <2> SUFFICES ASSUME NEW m \in Lists, NEW S \in SUBSET Node, FromHead(m, S)'
               PROVE  \A n \in Node : place'[n] = m => n \in S
    BY DEF AllReached
  <2>4. CASE before \in S
    <3>1. FromHead(m, S \cup {gone})
      BY <2>1, <2>2, <2>4 DEF IInv, TypeOK, FromHead, Closed, Linked
    <3>2. QED BY <2>1, <2>2, <3>1 DEF IInv, TypeOK, AllReached
  <2>5. CASE before \notin S
    <3>1. FromHead(m, S \ {gone})
      BY <2>1, <2>2, <2>3, <2>5 DEF IInv, TypeOK, FromHead, Closed, Linked
    <3>2. QED BY <2>1, <2>2, <3>1 DEF IInv, TypeOK, AllReached
  <2>6. QED BY <2>4, <2>5
<1>9. QED BY <1>1, <1>2, <1>3, <1>4, <1>5, <1>6, <1>7, <1>8 DEF WriterStep

-----------------------------------------------------------------------------
(* A Remove overlooks no node: those with its key are still before it. *)

SearchComplete ==
  \A t \in Thread, S \in SUBSET Node :
    pc[t] = "RemWalk" /\ (temp[t] # Null => temp[t] \in S) /\ Closed(S) =>
      \A n \in Node : place[n] = op[t].list /\ key[n] = op[t].key => n \in S

LEMMA NextSearchComplete ==
  ASSUME IInv, AllReached, SearchComplete, Next
  PROVE  SearchComplete'
<1> USE CCLAssumption
<1>1. PICK t \in Thread : OutsideStep(t) \/ (WriterStep(t) /\ InsideStep(t))
  BY StepShapes
<1> SUFFICES ASSUME NEW u \in Thread, NEW S \in SUBSET Node, pc'[u] = "RemWalk",
                    temp'[u] # Null => temp'[u] \in S, Closed(S)'
             PROVE  \A n \in Node : place'[n] = op'[u].list /\ key'[n] = op'[u].key => n \in S
  BY DEF SearchComplete
<1>2. CASE OutsideStep(t)
  <2>1. u # t /\ pc[u] = "RemWalk" /\ op'[u] = op[u] /\ temp' = temp
    BY <1>2 DEF OutsideStep, Inside
  <2>2. head' = head /\ next' = next /\ place' = place /\ key' = key
    BY <1>2 DEF OutsideStep
  <2>3. Closed(S)
    BY <2>2 DEF Closed, Linked
  <2>4. QED BY <2>1, <2>2, <2>3 DEF SearchComplete
<1>3. CASE WriterStep(t) /\ InsideStep(t)
  <2>1. u = t
    BY <1>3 DEF InsideStep, Inside
  <2>2. RemHeadMiss(t) \/ RemWalk(t)
    BY <1>3, <2>1 DEF IInv, TypeOK, WriterStep, AddLock, AddMalloc, AddMallocFails,
       AddWalk, AddLink, AddUnlock, RemLock, RemHeadHit, RemFreeHead, RemNotFound,
       RemUnlink, RemFree, RemUnlock, Goto, Return
  <2>3. next' = next /\ place' = place /\ key' = key /\ op' = op
    BY <2>2 DEF RemHeadMiss, RemWalk
  <2>4. Closed(S)
    BY <2>3 DEF Closed, Linked
  <2>5. CASE RemHeadMiss(t)
    <3>1. temp' = temp /\ temp[t] = head[op[t].list] /\ op[t].list \in Lists
      BY <2>5 DEF IInv, TypeOK, Calls, RemoveCursors, RemHeadMiss, Inside
    <3>2. FromHead(op[t].list, S)
      BY <2>1, <2>4, <3>1 DEF FromHead
    <3>3. QED BY <2>1, <2>3, <3>1, <3>2 DEF AllReached
  <2>6. CASE RemWalk(t)
    <3>1. /\ pc[t] = "RemWalk" /\ temp[t] \in Node /\ key[temp[t]] # op[t].key
          /\ temp'[t] = next[temp[t]]
      BY <2>6 DEF IInv, TypeOK, RemWalk
    <3>2. Closed(S \cup {temp[t]})
      BY <2>1, <2>4, <3>1 DEF Closed
    <3>3. QED BY <2>1, <2>3, <3>1, <3>2 DEF SearchComplete
  <2>7. QED BY <2>2, <2>5, <2>6
<1>4. QED BY <1>1, <1>2, <1>3

\* What a Remove that does not find its key has shown.
LEMMA NotFoundMeansAbsent ==
  ASSUME SearchComplete, NEW t \in Thread, RemNotFound(t)
  PROVE  \A n \in Node : ~(place[n] = op[t].list /\ key[n] = op[t].key)
<1>1. Closed({})
  BY DEF Closed
<1>2. QED BY <1>1 DEF SearchComplete, RemNotFound

\* The node an Add is about to link has the key of the call.
NewNamed == \A t \in Thread : pc[t] = "AddWalk" => key[temp[t]] = op[t].key

LEMMA NextNewNamed ==
  ASSUME IInv, NewNamed, Next
  PROVE  NewNamed'
<1>1. PICK t \in Thread : OutsideStep(t) \/ (WriterStep(t) /\ InsideStep(t))
  BY StepShapes
<1> SUFFICES ASSUME NEW u \in Thread, pc'[u] = "AddWalk"
             PROVE  key'[temp'[u]] = op'[u].key
  BY DEF NewNamed
<1>2. CASE OutsideStep(t)
  <2>1. u # t /\ pc'[u] = pc[u] /\ op'[u] = op[u] /\ temp' = temp /\ key' = key
    BY <1>2 DEF OutsideStep, Inside
  <2>2. QED BY <2>1 DEF NewNamed
<1>3. CASE WriterStep(t) /\ InsideStep(t)
  <2>1. u = t
    BY <1>3 DEF InsideStep, Inside
  <2>2. AddMalloc(t) \/ AddWalk(t)
    BY <1>3, <2>1 DEF IInv, TypeOK, WriterStep, AddLock, AddMalloc, AddMallocFails,
       AddWalk, AddLink, AddUnlock, RemLock, RemHeadMiss, RemHeadHit, RemFreeHead, RemWalk,
       RemNotFound, RemUnlink, RemFree, RemUnlock, Goto, Return
  <2>3. CASE AddMalloc(t)
    BY <2>1, <2>3 DEF IInv, TypeOK, AddMalloc, FreeNodes
  <2>4. CASE AddWalk(t)
    BY <2>1, <2>4 DEF NewNamed, AddWalk
  <2>5. QED BY <2>2, <2>3, <2>4
<1>4. QED BY <1>1, <1>2, <1>3

ListInv == IInv /\ AllReached /\ SearchComplete /\ NewNamed

LEMMA NextListInv == ListInv /\ [Next]_vars => ListInv'
<1>1. ListInv /\ UNCHANGED vars => AllReached' /\ SearchComplete' /\ NewNamed'
  BY DEF vars, ListInv, AllReached, FromHead, SearchComplete, NewNamed, Closed, Linked
<1>2. ListInv /\ Next => AllReached' /\ SearchComplete' /\ NewNamed'
  BY NextAllReached, NextSearchComplete, NextNewNamed DEF ListInv
<1>3. QED BY <1>1, <1>2, NextIInv DEF ListInv

LEMMA ListInvariance == Spec => []ListInv
<1>1. Init => SearchComplete /\ NewNamed
  BY DEF Init, SearchComplete, NewNamed
<1>2. Init => AllReached
  BY CCLAssumption DEF Init, AllReached, FromHead
<1>3. Init => ListInv
  BY <1>1, <1>2, InitIInv DEF ListInv
<1>4. QED BY <1>3, NextListInv, PTL DEF Spec

\* No memory is lost, whatever was added and removed.
THEOREM NodesAccounted == Spec => []NodesAccountedFor
<1>1. ListInv => NodesAccountedFor
  <2> SUFFICES ASSUME IInv, AllReached PROVE NodesAccountedFor
    BY DEF ListInv
  <2>1. ASSUME NEW l \in Lists
        PROVE  Reachable(l) = {n \in Node : place[n] = l}
    <3> DEFINE List == {n \in Node : place[n] = l}
    <3>1. List \in SUBSET Node /\ (head[l] # Null => head[l] \in List) /\ Closed(List)
      BY DEF IInv, TypeOK, ListsWellLinked, Closed, Linked
    <3>2. Reachable(l) \subseteq List
      BY <3>1 DEF Reachable
    <3>3. List \subseteq Reachable(l)
      BY DEF Reachable, AllReached, FromHead
    <3>4. QED BY <3>2, <3>3
  <2>2. ASSUME NEW n \in Node, place[n] = "heap"
        PROVE  \E t \in Thread : pc[t] \in Inside /\ temp[t] = n
    BY <2>2 DEF IInv, HeapHeld, Inside
  <2>3. QED BY <2>1, <2>2 DEF NodesAccountedFor
<1>2. QED BY <1>1, ListInvariance, PTL

-----------------------------------------------------------------------------
(* The refinement: every step of CCL is one of Registry or none. *)

Where == [n \in Node |-> IF Linked(n) THEN place[n] ELSE "out"]
Name  == [n \in Node |-> IF Linked(n) THEN key[n] ELSE Null]
Kind  == [t \in Thread |-> Requested(t)]
Arg   == [t \in Thread |-> IF Requested(t) = "idle" THEN Null ELSE op[t]]

\* The steps that show nothing of the lists.
LEMMA ListsUnchanged ==
  ASSUME TypeOK, \A n \in Node : Linked(n)' <=> Linked(n),
         \A n \in Node : Linked(n) => place'[n] = place[n] /\ key'[n] = key[n]
  PROVE  Where' = Where /\ Name' = Name
  BY DEF Where, Name

\* The calls of the others.
LEMMA OthersUnchanged ==
  ASSUME NEW t \in Thread, \A u \in Thread \ {t} : pc'[u] = pc[u] /\ op'[u] = op[u]
  PROVE  /\ Kind' = [Kind EXCEPT ![t] = Requested(t)']
         /\ Arg' = [Arg EXCEPT ![t] = IF Requested(t)' = "idle" THEN Null ELSE op'[t]]
  BY DEF Kind, Arg, Requested

\* A call that shows nothing of its progress either.
LEMMA CallsUnchanged ==
  ASSUME NEW t \in Thread, \A u \in Thread \ {t} : pc'[u] = pc[u] /\ op'[u] = op[u],
         Requested(t)' = Requested(t), Requested(t) # "idle" => op'[t] = op[t]
  PROVE  Kind' = Kind /\ Arg' = Arg
  BY DEF Kind, Arg, Requested

LEMMA LostUnlessLeaked ==
  ASSUME IInv, NEW t \in Thread, WriterStep(t), InsideStep(t)
  PROVE  ~Leaked /\ (Leaked' <=> lock' = t /\ pc'[t] \notin Inside)
  BY CCLAssumption DEF IInv, TypeOK, InsideStep, Leaked, Inside, Label

LEMMA InitPromise == Init => Promise!Init
<1> SUFFICES ASSUME Init PROVE Promise!Init
  OBVIOUS
<1> USE CCLAssumption
<1>1. Where \in [Node -> {"out"} \cup Lists]
      /\ \A n \in Node : \A l \in Lists : Where[n] = l <=> Sentinel[l] = n
  BY DEF Init, Where, Linked
<1>2. Name = [n \in Node |-> IF Where[n] = "out" THEN Null ELSE ZeroKey]
  BY DEF Init, Name, Where, Linked
<1>3. Kind = [t \in Thread |-> "idle"] /\ Arg = [t \in Thread |-> Null]
  BY DEF Init, Kind, Arg, Requested
<1>4. ~Leaked /\ head = Sentinel
  BY DEF Init, Leaked
<1>5. \E k \in Key : Name = [n \in Node |-> IF Where[n] = "out" THEN Null ELSE k]
  BY <1>2
<1>6. /\ Where \in [Node -> {"out"} \cup Lists]
      /\ \A n \in Node : \A l \in Lists : Where[n] = l <=> Sentinel[l] = n
      /\ \E k \in Key : Name = [n \in Node |-> IF Where[n] = "out" THEN Null ELSE k]
      /\ head = Sentinel
      /\ Kind = [t \in Thread |-> "idle"]
      /\ Arg = [t \in Thread |-> Null]
      /\ Leaked = FALSE
  BY <1>1, <1>3, <1>4, <1>5
<1>7. QED
  BY ONLY <1>6 DEF Promise!Init, Where, Name, Kind, Arg

\* Asking, reading and faulting.
LEMMA OutsidePromise ==
  ASSUME IInv, NEW t \in Thread, OutsideStep(t),
         \/ \E l \in Lists, k \in Key : BeginAdd(t, l, k) \/ BeginRemove(t, l, k)
         \/ \E l \in Lists, k \in Key \cup {Null} : BeginWalk(t, l, k)
         \/ WalkOn(t) \/ WalkReturns(t)
         \/ pc[t] = "Walk" /\ Fault(t)
  PROVE  Promise!Next \/ UNCHANGED Promise!vars
<1>1. Where' = Where /\ Name' = Name /\ head' = head
  BY ListsUnchanged DEF IInv, OutsideStep, Linked
<1>2. Leaked' <=> Leaked
  BY CCLAssumption DEF IInv, TypeOK, OutsideStep, Leaked
<1>3. \A u \in Thread \ {t} : pc'[u] = pc[u] /\ op'[u] = op[u]
  BY DEF OutsideStep
<1>4. ASSUME NEW l \in Lists, NEW k \in Key, BeginAdd(t, l, k) \/ BeginRemove(t, l, k)
      PROVE  Promise!Next
  <2>1. /\ pc[t] = "idle" /\ op'[t] = [list |-> l, key |-> k]
        /\ pc'[t] \in {"AddLock", "RemLock"}
    BY <1>4 DEF IInv, TypeOK, BeginAdd, BeginRemove, Goto
  <2>2. Kind[t] = "idle"
    BY <2>1 DEF Kind, Requested
  <2>3. Kind' = [Kind EXCEPT ![t] = "add"] \/ Kind' = [Kind EXCEPT ![t] = "remove"]
    BY <1>3, <2>1, OthersUnchanged DEF Requested
  <2>4. Arg' = [Arg EXCEPT ![t] = [list |-> l, key |-> k]]
    BY <1>3, <2>1, OthersUnchanged DEF Requested
  <2>5. Promise!Ask(t)
    BY <1>1, <1>2, <2>2, <2>3, <2>4 DEF Promise!Ask, Promise!Become, Where, Name, Kind, Arg
  <2>6. QED BY <2>5 DEF Promise!Next
<1>5. CASE \/ \E l \in Lists, k \in Key \cup {Null} : BeginWalk(t, l, k)
           \/ WalkOn(t) \/ WalkReturns(t)
           \/ pc[t] = "Walk" /\ Fault(t)
  <2>1. pc[t] \in {"idle", "Walk"} /\ pc'[t] \in {"idle", "Walk", "fault"}
    BY <1>5 DEF IInv, TypeOK, BeginWalk, WalkOn, WalkReturns, Fault, Goto
  <2>2. Kind' = Kind /\ Arg' = Arg
    BY <1>3, <2>1, CallsUnchanged DEF Requested
  <2>3. QED BY <1>1, <1>2, <2>2 DEF Promise!vars, Where, Name, Kind, Arg
<1>6. QED BY <1>4, <1>5

\* The steps of a call inside the lock.
LEMMA SilentPromise ==
  ASSUME IInv, NEW t \in Thread, WriterStep(t), InsideStep(t),
         \/ AddLock(t) \/ AddMalloc(t) \/ AddWalk(t)
         \/ RemLock(t) \/ RemHeadMiss(t) \/ RemWalk(t) \/ RemFree(t)
  PROVE  UNCHANGED Promise!vars
<1>1. /\ head' = head
      /\ \A n \in Node : (Linked(n)' <=> Linked(n))
           /\ (Linked(n) => place'[n] = place[n] /\ key'[n] = key[n])
  <2>1. CASE AddMalloc(t)
    <3>1. PICK n \in FreeNodes : /\ place' = [place EXCEPT ![n] = "heap"]
                                 /\ key'   = [key   EXCEPT ![n] = op[t].key]
      BY <2>1 DEF AddMalloc
    <3>2. QED BY <2>1, <3>1, CCLAssumption DEF IInv, TypeOK, AddMalloc, FreeNodes, Linked
  <2>2. CASE RemFree(t)
    <3>1. temp[t] \in Node /\ place[temp[t]] = "heap"
      BY <2>2 DEF IInv, TypeOK, RemoveCursors, RemFree
    <3>2. QED BY <2>2, <3>1, CCLAssumption DEF IInv, TypeOK, RemFree, Free, Linked
  <2>3. CASE AddLock(t) \/ AddWalk(t) \/ RemLock(t) \/ RemHeadMiss(t) \/ RemWalk(t)
    BY <2>3 DEF AddLock, AddWalk, RemLock, RemHeadMiss, RemWalk, Linked
  <2>4. QED BY <2>1, <2>2, <2>3
<1>2. Where' = Where /\ Name' = Name
  BY <1>1, ListsUnchanged DEF IInv
<1>3. op' = op /\ Requested(t)' = Requested(t) /\ pc'[t] \in Inside
  BY DEF IInv, TypeOK, AddLock, AddMalloc, AddWalk, RemLock, RemHeadMiss, RemWalk, RemFree,
     Goto, Requested, Inside
<1>4. Kind' = Kind /\ Arg' = Arg
  BY <1>3, CallsUnchanged DEF InsideStep
<1>5. Leaked' <=> Leaked
  BY <1>3, LostUnlessLeaked
<1>6. QED BY <1>1, <1>2, <1>4, <1>5 DEF Promise!vars, Where, Name, Kind, Arg

LEMMA AddShown ==
  ASSUME IInv, NewNamed, NEW t \in Thread, AddLink(t)
  PROVE  /\ temp[t] \in Node /\ Where[temp[t]] = "out"
         /\ Where' = [Where EXCEPT ![temp[t]] = op[t].list]
         /\ Name' = [Name EXCEPT ![temp[t]] = op[t].key]
         /\ head' = head /\ op' = op /\ pc[t] = "AddWalk" /\ pc'[t] = "AddUnlock"
<1>1. /\ ptr[t] \in Node /\ place[ptr[t]] = op[t].list /\ op[t].list \in Lists
      /\ temp[t] \in Node /\ place[temp[t]] = "heap"
  BY DEF IInv, TypeOK, Calls, AddCursor, AddLink, Inside
<1>2. /\ place' = [place EXCEPT ![temp[t]] = op[t].list]
      /\ key' = key /\ head' = head /\ op' = op
  <2>1. Linked(ptr[t]) /\ ptr[t] # Null
    BY <1>1, CCLAssumption DEF Linked
  <2>2. QED BY <1>1, <2>1 DEF AddLink
<1>3. pc[t] = "AddWalk" /\ pc'[t] = "AddUnlock"
  BY DEF IInv, TypeOK, AddLink, Goto
<1>4. key[temp[t]] = op[t].key
  BY <1>3 DEF NewNamed
<1>5. "heap" \notin Lists /\ place \in [Node -> {"free", "heap"} \cup Lists]
  BY CCLAssumption DEF IInv, TypeOK
<1>6. place'[temp[t]] = op[t].list /\ place[temp[t]] \notin Lists
  BY <1>1, <1>2, <1>5
<1>7. \A n \in Node : n # temp[t] => place'[n] = place[n]
  BY <1>1, <1>2, <1>5
<1>8. Where' = [Where EXCEPT ![temp[t]] = op[t].list] /\ Where[temp[t]] = "out"
  BY <1>1, <1>6, <1>7 DEF Where, Linked
<1>9. Name' = [Name EXCEPT ![temp[t]] = op[t].key]
  BY <1>1, <1>2, <1>4, <1>6, <1>7 DEF Name, Linked
<1>10. QED BY <1>1, <1>2, <1>3, <1>8, <1>9

LEMMA AddPromise ==
  ASSUME IInv, NewNamed, NEW t \in Thread, WriterStep(t), InsideStep(t), AddLink(t)
  PROVE  Promise!Add(t)
<1>1. /\ temp[t] \in Node /\ Where[temp[t]] = "out"
      /\ Where' = [Where EXCEPT ![temp[t]] = op[t].list]
      /\ Name' = [Name EXCEPT ![temp[t]] = op[t].key]
      /\ head' = head /\ op' = op /\ pc[t] = "AddWalk" /\ pc'[t] = "AddUnlock"
  BY AddShown
<1>2. /\ Kind[t] = "add" /\ Arg[t] = op[t]
      /\ Kind' = [Kind EXCEPT ![t] = "done"] /\ Arg' = Arg
  <2>1. \A u \in Thread \ {t} : pc'[u] = pc[u] /\ op'[u] = op[u]
    BY DEF InsideStep
  <2>2. Requested(t) = "add" /\ Requested(t)' = "done"
    BY <1>1 DEF Requested
  <2>3. Kind[t] = "add" /\ Arg[t] = op[t]
    BY <2>2 DEF Kind, Arg
  <2>4. Kind' = [Kind EXCEPT ![t] = "done"] /\ Arg' = [Arg EXCEPT ![t] = op[t]]
    BY <1>1, <2>1, <2>2, OthersUnchanged
  <2>5. Arg' = Arg
    BY <2>3, <2>4 DEF Arg
  <2>6. QED BY <2>3, <2>4, <2>5
<1>3. \E e \in {e \in Node : Where[e] = "out"} :
        /\ Where' = [Where EXCEPT ![e] = Arg[t].list]
        /\ Name'  = [Name  EXCEPT ![e] = Arg[t].key]
  BY <1>1, <1>2
<1>4. ~Leaked /\ ~Leaked'
  BY <1>1, LostUnlessLeaked DEF Inside
<1>5. UNCHANGED <<head, Arg, Leaked>>
  BY <1>1, <1>2, <1>4 DEF Leaked
<1>6. QED
  BY <1>2, <1>3, <1>4, <1>5
     DEF Promise!Add, Promise!Become, Where, Name, Kind, Arg

\* What it takes to show a node leaving a list.
LEMMA TakenOut ==
  ASSUME IInv, NEW n \in Node, place' = [place EXCEPT ![n] = "heap"], key' = key
  PROVE  Where' = [Where EXCEPT ![n] = "out"] /\ Name' = [Name EXCEPT ![n] = Null]
<1>1. "heap" \notin Lists /\ place \in [Node -> {"free", "heap"} \cup Lists]
  BY CCLAssumption DEF IInv, TypeOK
<1>2. place'[n] \notin Lists /\ \A m \in Node \ {n} : place'[m] = place[m]
  BY <1>1
<1>3. QED BY <1>2 DEF Where, Name, Linked

\* How the call of t shows, from one step to the next.
LEMMA CallShown ==
  ASSUME IInv, NEW t \in Thread, InsideStep(t), op' = op,
         Requested(t) # "idle", Requested(t)' # "idle"
  PROVE  /\ Kind[t] = Requested(t) /\ Arg[t] = op[t]
         /\ Kind' = [Kind EXCEPT ![t] = Requested(t)'] /\ Arg' = Arg
<1>1. \A u \in Thread \ {t} : pc'[u] = pc[u] /\ op'[u] = op[u]
  BY DEF InsideStep
<1>2. Kind[t] = Requested(t) /\ Arg[t] = op[t]
  BY DEF Kind, Arg
<1>3. Kind' = [Kind EXCEPT ![t] = Requested(t)'] /\ Arg' = [Arg EXCEPT ![t] = op[t]]
  BY <1>1, OthersUnchanged
<1>4. QED BY <1>2, <1>3 DEF Arg

LEMMA RemovePromise ==
  ASSUME IInv, NEW t \in Thread, WriterStep(t), InsideStep(t), RemUnlink(t)
  PROVE  Promise!Remove(t)
<1>1. /\ temp[t] \in Node /\ place[temp[t]] = op[t].list /\ op[t].list \in Lists
      /\ prev[t] \in Node /\ place[prev[t]] = op[t].list /\ next[prev[t]] = temp[t]
      /\ pc[t] = "RemWalk" /\ key[temp[t]] = op[t].key
  BY DEF IInv, TypeOK, Calls, RemoveCursors, RemUnlink, Inside
<1>2. head[op[t].list] # temp[t]
  BY <1>1, CCLAssumption DEF IInv, TypeOK, ListsWellLinked, Linked
<1>3. /\ place' = [place EXCEPT ![temp[t]] = "heap"]
      /\ key' = key /\ head' = head /\ op' = op /\ pc' = [pc EXCEPT ![t] = "RemFree"]
  BY DEF RemUnlink, Goto
<1>4. pc'[t] = "RemFree"
  BY <1>3 DEF IInv, TypeOK
<1>5. Where' = [Where EXCEPT ![temp[t]] = "out"] /\ Name' = [Name EXCEPT ![temp[t]] = Null]
  BY <1>1, <1>3, TakenOut
<1>6. Where[temp[t]] = op[t].list /\ Name[temp[t]] = op[t].key
  BY <1>1 DEF Where, Name, Linked
<1>7. /\ Kind[t] = "remove" /\ Arg[t] = op[t]
      /\ Kind' = [Kind EXCEPT ![t] = "done"] /\ Arg' = Arg
  BY <1>1, <1>3, <1>4, CallShown DEF Requested
<1>8. \E e \in {e \in Node : Where[e] = Arg[t].list /\ Name[e] = Arg[t].key} :
        /\ e # head[Arg[t].list]
        /\ Where' = [Where EXCEPT ![e] = "out"] /\ Name'  = [Name  EXCEPT ![e] = Null]
  BY <1>1, <1>2, <1>5, <1>6, <1>7
<1>9. ~Leaked /\ UNCHANGED <<head, Arg, Leaked>>
  BY <1>3, <1>4, <1>7, LostUnlessLeaked DEF Inside, Leaked
<1>10. QED
  BY <1>7, <1>8, <1>9
     DEF Promise!Remove, Promise!Named, Promise!TakeOut, Promise!Become, Where, Name, Kind, Arg

LEMMA RemoveFirstPromise ==
  ASSUME IInv, Next, AllReached', NEW t \in Thread, WriterStep(t), InsideStep(t), RemHeadHit(t)
  PROVE  Promise!RemoveFirst(t)
<1> DEFINE l == op[t].list
           e == temp[t]
           rest == {n \in Node : Where'[n] = l}
<1>1. /\ l \in Lists /\ e \in Node /\ e = head[l] /\ place[e] = l
  BY HeadHit
<1>2. /\ pc[t] = "RemHead" /\ key[e] = op[t].key
      /\ place' = [place EXCEPT ![e] = "heap"]
      /\ head' = [head EXCEPT ![l] = next[e]]
      /\ key' = key /\ op' = op /\ pc' = [pc EXCEPT ![t] = "RemFreeHead"]
  BY DEF RemHeadHit, Goto
<1>3. pc'[t] = "RemFreeHead" /\ head'[l] = next[e]
  BY <1>1, <1>2 DEF IInv, TypeOK
<1>4. Where' = [Where EXCEPT ![e] = "out"] /\ Name' = [Name EXCEPT ![e] = Null]
  BY <1>1, <1>2, TakenOut
<1>5. Where[e] = l /\ Name[e] = op[t].key
  BY <1>1, <1>2 DEF Where, Name, Linked
<1>6. /\ Kind[t] = "remove" /\ Arg[t] = op[t]
      /\ Kind' = [Kind EXCEPT ![t] = "losing"] /\ Arg' = Arg
  BY <1>2, <1>3, CallShown DEF Requested
<1>7. head'[l] # Null => head'[l] \in rest
  <2>1. TypeOK'
    BY NextTypeOK DEF IInv
  <2>2. ListsWellLinked'
    BY NextListsWellLinked
  <2>3. QED BY <1>1, <2>1, <2>2 DEF TypeOK, ListsWellLinked, Where, Linked
<1>8. head'[l] = Null => rest = {}
  <2>1. ASSUME NEW m \in Lists, head'[m] = Null, NEW n \in Node, place'[n] = m PROVE FALSE
    <3>1. {} \in SUBSET Node /\ FromHead(m, {})'
      BY <2>1 DEF FromHead, Closed
    <3>2. \A S \in SUBSET Node : FromHead(m, S)' => \A x \in Node : place'[x] = m => x \in S
      BY <2>1 DEF AllReached
    <3>3. \A x \in Node : place'[x] = m => x \in {}
      BY <3>1, <3>2
    <3>4. QED BY <2>1, <3>3
  <2>2. "out" \notin Lists
    BY CCLAssumption
  <2>3. \A n \in Node : Where'[n] = l => place'[n] = l
    BY <1>1, <2>2 DEF Where
  <2>4. QED BY <1>1, <2>1, <2>3
<1>9. \E f \in IF rest = {} THEN {Null} ELSE rest : head' = [head EXCEPT ![l] = f]
  BY <1>2, <1>3, <1>7, <1>8
<1>10. ~Leaked /\ UNCHANGED <<Arg, Leaked>>
  BY <1>3, <1>6, LostUnlessLeaked DEF Inside, Leaked
<1>11. head[l] \in {n \in Node : Where[n] = l /\ Name[n] = op[t].key}
  BY <1>1, <1>5
<1>12. QED
  BY <1>1, <1>4, <1>6, <1>9, <1>10, <1>11
     DEF Promise!RemoveFirst, Promise!Named, Promise!TakeOut, Promise!Become,
         Where, Name, Kind, Arg

\* A call that goes back to its caller.
LEMMA GoneBack ==
  ASSUME IInv, NEW t \in Thread, InsideStep(t), pc'[t] = "idle", Requested(t) # "idle"
  PROVE  /\ Kind[t] = Requested(t) /\ Arg[t] = op[t]
         /\ Kind' = [Kind EXCEPT ![t] = "idle"] /\ Arg' = [Arg EXCEPT ![t] = Null]
<1>1. \A u \in Thread \ {t} : pc'[u] = pc[u] /\ op'[u] = op[u]
  BY DEF InsideStep
<1>2. Requested(t)' = "idle"
  BY DEF Requested
<1>3. Kind[t] = Requested(t) /\ Arg[t] = op[t]
  BY DEF Kind, Arg
<1>4. QED BY <1>1, <1>2, <1>3, OthersUnchanged

LEMMA LosePromise ==
  ASSUME IInv, SearchComplete, NEW t \in Thread, WriterStep(t), InsideStep(t),
         AddMallocFails(t) \/ RemFreeHead(t) \/ RemNotFound(t)
  PROVE  Promise!Lose(t)
<1>1. pc'[t] = "idle" /\ lock = t /\ lock' = t
  BY DEF IInv, TypeOK, InsideStep, AddMallocFails, RemFreeHead, RemNotFound, Return, Goto,
     UnlockingPaths, Inside
<1>2. ~Leaked /\ Leaked'
  BY <1>1, LostUnlessLeaked DEF Inside
<1>3. \/ pc[t] = "AddMalloc"
      \/ pc[t] = "RemFreeHead"
      \/ pc[t] = "RemWalk" /\ RemNotFound(t)
  BY DEF AddMallocFails, RemFreeHead, RemNotFound
<1>4. /\ Kind[t] = Requested(t) /\ Arg[t] = op[t]
      /\ Kind' = [Kind EXCEPT ![t] = "idle"] /\ Arg' = [Arg EXCEPT ![t] = Null]
  BY <1>1, <1>3, GoneBack DEF Requested
<1>5. Where' = Where /\ Name' = Name /\ head' = head
  <2>1. CASE AddMallocFails(t) \/ RemNotFound(t)
    BY <2>1 DEF AddMallocFails, RemNotFound, Where, Name, Linked
  <2>2. CASE RemFreeHead(t)
    <3>1. /\ temp[t] \in Node /\ place[temp[t]] = "heap"
          /\ place' = [place EXCEPT ![temp[t]] = "free"] /\ key' = key /\ head' = head
      BY <2>2 DEF IInv, TypeOK, RemoveCursors, RemFreeHead, Free
    <3>2. \A n \in Node : (Linked(n)' <=> Linked(n))
            /\ (Linked(n) => place'[n] = place[n] /\ key'[n] = key[n])
      BY <3>1, CCLAssumption DEF IInv, TypeOK, Linked
    <3>3. QED BY <3>1, <3>2, ListsUnchanged DEF IInv
  <2>3. QED BY <2>1, <2>2
<1>6. CASE pc[t] = "AddMalloc"
  <2>1. Kind[t] = "add"
    BY <1>4, <1>6 DEF Requested
  <2>2. QED
    BY <1>2, <1>4, <1>5, <2>1
       DEF Promise!Lose, Promise!Leave, Promise!Become, Where, Name, Kind, Arg
<1>7. CASE pc[t] = "RemFreeHead"
  <2>1. Kind[t] = "losing"
    BY <1>4, <1>7 DEF Requested
  <2>2. QED
    BY <1>2, <1>4, <1>5, <2>1
       DEF Promise!Lose, Promise!Leave, Promise!Become, Where, Name, Kind, Arg
<1>8. CASE pc[t] = "RemWalk" /\ RemNotFound(t)
  <2>1. Kind[t] = "remove"
    BY <1>4, <1>8 DEF Requested
  <2>2. op[t].list \in Lists /\ op[t].key \in Key
    BY <1>8 DEF IInv, TypeOK, Calls, Inside
  <2>3. {e \in Node : Where[e] = Arg[t].list /\ Name[e] = Arg[t].key} = {}
    BY <1>4, <1>8, <2>2, NotFoundMeansAbsent, CCLAssumption DEF Where, Name, Linked
  <2>4. QED
    BY <1>2, <1>4, <1>5, <2>1, <2>3
       DEF Promise!Lose, Promise!Leave, Promise!Become, Promise!Named, Where, Name, Kind, Arg
<1>9. QED BY <1>3, <1>6, <1>7, <1>8

LEMMA ReturnPromise ==
  ASSUME IInv, NEW t \in Thread, WriterStep(t), InsideStep(t), AddUnlock(t) \/ RemUnlock(t)
  PROVE  Promise!Return(t)
<1>1. /\ pc'[t] = "idle" /\ lock' = Null /\ pc[t] \in {"AddUnlock", "RemUnlock"}
      /\ head' = head /\ place' = place /\ key' = key
  BY DEF IInv, TypeOK, AddUnlock, RemUnlock, Return, Goto, UnlockingPaths
<1>2. ~Leaked /\ ~Leaked'
  BY <1>1, LostUnlessLeaked, CCLAssumption DEF Leaked
<1>3. Kind[t] = "done"
  BY <1>1, GoneBack DEF Requested
<1>4. Kind' = [Kind EXCEPT ![t] = "idle"] /\ Arg' = [Arg EXCEPT ![t] = Null]
  BY <1>1, GoneBack DEF Requested
<1>5. Where' = Where /\ Name' = Name
  BY <1>1 DEF Where, Name, Linked
<1>6. UNCHANGED <<head, Leaked>>
  BY <1>1, <1>2 DEF Leaked
<1>7. QED
  BY <1>2, <1>3, <1>4, <1>5, <1>6
     DEF Promise!Return, Promise!Leave, Promise!Become, Where, Name, Kind, Arg

LEMMA NextPromise ==
  ASSUME ListInv, [Next]_vars
  PROVE  [Promise!Next]_(Promise!vars)
<1>1. CASE UNCHANGED vars
  BY <1>1 DEF Promise!vars, vars, Requested, Leaked, Linked
<1>2. CASE Next
  <2>1. IInv /\ SearchComplete /\ NewNamed /\ AllReached'
    BY NextListInv DEF ListInv
  <2>2. PICK t \in Thread : Cases(t)
    BY <1>2, NextCases
  <2>3. CASE \/ \E l \in Lists, k \in Key : BeginAdd(t, l, k) \/ BeginRemove(t, l, k)
             \/ \E l \in Lists, k \in Key \cup {Null} : BeginWalk(t, l, k)
             \/ WalkOn(t) \/ WalkReturns(t)
             \/ pc[t] = "Walk" /\ Fault(t)
    <3>1. OutsideStep(t)
      BY <2>1, <2>3, OutsideSteps DEF IInv
    <3>2. QED BY <2>1, <2>3, <3>1, OutsidePromise
  <2>4. CASE WriterStep(t)
    <3>1. InsideStep(t)
      BY <2>1, <2>4, InsideSteps DEF IInv
    <3>2. CASE AddLink(t)
      BY <2>1, <2>4, <3>1, <3>2, AddPromise DEF Promise!Next
    <3>3. CASE RemUnlink(t)
      BY <2>1, <2>4, <3>1, <3>3, RemovePromise DEF Promise!Next
    <3>4. CASE RemHeadHit(t)
      BY <1>2, <2>1, <2>4, <3>1, <3>4, RemoveFirstPromise DEF Promise!Next
    <3>5. CASE AddMallocFails(t) \/ RemFreeHead(t) \/ RemNotFound(t)
      BY <2>1, <2>4, <3>1, <3>5, LosePromise DEF Promise!Next
    <3>6. CASE AddUnlock(t) \/ RemUnlock(t)
      BY <2>1, <2>4, <3>1, <3>6, ReturnPromise DEF Promise!Next
    <3>7. CASE \/ AddLock(t) \/ AddMalloc(t) \/ AddWalk(t)
               \/ RemLock(t) \/ RemHeadMiss(t) \/ RemWalk(t) \/ RemFree(t)
      BY <2>1, <2>4, <3>1, <3>7, SilentPromise
    <3>8. QED BY <2>4, <3>2, <3>3, <3>4, <3>5, <3>6, <3>7 DEF WriterStep
  <2>5. CASE Fault(t)
    <3>1. pc[t] = "Walk"
      BY <2>1, <2>5, OnlyReadersFault DEF IInv
    <3>2. QED BY <2>3, <2>5, <3>1
  <2>6. QED BY <2>2, <2>3, <2>4, <2>5 DEF Cases, Step, WriterStep
<1>3. QED BY <1>1, <1>2

\* Every call of Add or Remove takes effect at one moment between its request
\* and its return, on three lists of keys that nothing else changes.
THEOREM PromiseKept == Spec => KeepsPromise
<1>1. QED BY InitPromise, NextPromise, ListInvariance, PTL DEF Spec, KeepsPromise, Promise!Spec
=============================================================================
