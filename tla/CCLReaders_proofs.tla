-------------------------- MODULE CCLReaders_proofs --------------------------
(***************************************************************************)
(* What a Find that took no lock may conclude, for any threads, nodes,     *)
(* keys and lists.  As in Registry_proofs, what is ahead of a cursor is    *)
(* expressed by closed sets.                                               *)
(***************************************************************************)
EXTENDS CCLReaders, Registry_proofs

USE DEF locals, memory

-----------------------------------------------------------------------------
(* From every node of a list, next leads to the one behind which Add links. *)

\* T has, with a node, those of list l whose next field leads to it.
Backward(l, T) == \A n \in Node : place[n] = l /\ next[n] \in T => n \in T

EndReached ==
  \A l \in Lists, e \in Node, T \in SUBSET Node :
    place[e] = l /\ next[e] = Null /\ e \in T /\ Backward(l, T) =>
      \A n \in Node : place[n] = l => n \in T

LEMMA EndUnchanged ==
  ASSUME EndReached,
         \A n \in Node : (Linked(n)' <=> Linked(n))
           /\ (Linked(n) => place'[n] = place[n] /\ next'[n] = next[n])
  PROVE  EndReached'
<1> SUFFICES ASSUME NEW l \in Lists, NEW e \in Node, NEW T \in SUBSET Node,
                    place'[e] = l, next'[e] = Null, e \in T, Backward(l, T)'
             PROVE  \A n \in Node : place'[n] = l => n \in T
  BY DEF EndReached
<1>1. Backward(l, T)
  BY DEF Backward, Linked
<1>2. place[e] = l /\ next[e] = Null
  BY DEF Linked
<1>3. QED BY <1>1, <1>2 DEF EndReached, Linked

LEMMA AddLinkEnd ==
  ASSUME IInv, EndReached, NEW t \in Thread, AddLink(t)
  PROVE  EndReached'
<1> USE CCLAssumption
<1> DEFINE last == ptr[t]
           new  == temp[t]
           k    == op[t].list
<1>1. /\ last \in Node /\ place[last] = k /\ k \in Lists /\ next[last] = Null
      /\ new \in Node /\ place[new] = "heap" /\ next[new] = Null
  BY DEF IInv, TypeOK, Calls, AddCursor, AddLink, Inside
<1>2. next' = [next EXCEPT ![last] = new] /\ place' = [place EXCEPT ![new] = k]
  BY <1>1 DEF AddLink, Linked
<1> HIDE DEF last, new, k
<1>3. /\ next \in [Node -> Node \cup {Null}] /\ place \in [Node -> {"free", "heap"} \cup Lists]
      /\ last # new
  BY <1>1 DEF IInv, TypeOK
<1> SUFFICES ASSUME NEW l \in Lists, NEW e \in Node, NEW T \in SUBSET Node,
                    place'[e] = l, next'[e] = Null, e \in T, Backward(l, T)'
             PROVE  \A n \in Node : place'[n] = l => n \in T
  BY DEF EndReached
<1>4. CASE l # k
  <2>1. Backward(l, T) /\ place[e] = l /\ next[e] = Null
    BY <1>1, <1>2, <1>3, <1>4 DEF Backward
  <2>2. \A n \in Node : place[n] = l => n \in T
    BY <2>1 DEF EndReached
  <2>3. QED BY <1>2, <1>3, <1>4, <2>2
<1>5. CASE l = k
  <2>1. e = new
    <3> SUFFICES ASSUME e # new PROVE FALSE
      OBVIOUS
    <3>1. place[e] = l /\ next[e] = Null /\ e # last
      BY <1>1, <1>2, <1>3
    <3>2. Backward(l, Node \ {e}) /\ last \in Node \ {e}
      BY <1>1, <3>1 DEF Backward
    <3>3. e \in Node \ {e}
      BY <1>1, <1>5, <3>1, <3>2 DEF EndReached
    <3>4. QED BY <3>3
  <2>2. last \in T
    BY <1>1, <1>2, <1>3, <1>5, <2>1 DEF Backward
  <2>3. Backward(l, T)
    BY <1>1, <1>2, <1>3, <1>5 DEF Backward
  <2>4. \A n \in Node : place[n] = l => n \in T
    BY <1>1, <1>5, <2>2, <2>3 DEF EndReached
  <2>5. QED BY <1>2, <1>3, <2>1, <2>4
<1>6. QED BY <1>4, <1>5

LEMMA RemHeadHitEnd ==
  ASSUME IInv, EndReached, NEW t \in Thread, RemHeadHit(t)
  PROVE  EndReached'
<1> USE CCLAssumption
<1> DEFINE gone == temp[t]
           k    == op[t].list
<1>1. /\ gone \in Node /\ gone = head[k] /\ k \in Lists /\ place[gone] = k
  BY HeadHit
<1>2. next' = next /\ place' = [place EXCEPT ![gone] = "heap"]
  BY DEF RemHeadHit
<1> HIDE DEF gone, k
<1>3. \A n \in Node : Linked(n) => next[n] # gone
  BY <1>1 DEF IInv, TypeOK, ListsWellLinked, Linked
<1>4. place \in [Node -> {"free", "heap"} \cup Lists]
  BY DEF IInv, TypeOK
<1> SUFFICES ASSUME NEW l \in Lists, NEW e \in Node, NEW T \in SUBSET Node,
                    place'[e] = l, next'[e] = Null, e \in T, Backward(l, T)'
             PROVE  \A n \in Node : place'[n] = l => n \in T
  BY DEF EndReached
<1>5. place[e] = l /\ next[e] = Null /\ T \cup {gone} \in SUBSET Node
  BY <1>1, <1>2, <1>4
<1>6. Backward(l, T \cup {gone})
  BY <1>1, <1>2, <1>3, <1>4 DEF Backward, Linked
<1>7. \A n \in Node : place[n] = l => n \in T \cup {gone}
  BY <1>5, <1>6 DEF EndReached
<1>8. QED BY <1>1, <1>2, <1>4, <1>7

LEMMA RemUnlinkEnd ==
  ASSUME IInv, EndReached, NEW t \in Thread, RemUnlink(t)
  PROVE  EndReached'
<1> USE CCLAssumption
<1> DEFINE before == prev[t]
           gone   == temp[t]
           k      == op[t].list
<1>1. /\ gone \in Node /\ place[gone] = k /\ k \in Lists
      /\ before \in Node /\ place[before] = k /\ next[before] = gone
      /\ before # gone
  BY DEF IInv, TypeOK, Calls, RemoveCursors, RemUnlink, Inside
<1>2. /\ next'  = [next  EXCEPT ![before] = next[gone]]
      /\ place' = [place EXCEPT ![gone] = "heap"]
  BY DEF RemUnlink
<1> HIDE DEF before, gone, k
<1>3. \A n \in Node : Linked(n) /\ n # before => next[n] # gone
  BY <1>1 DEF IInv, TypeOK, ListsWellLinked, Linked
<1>4. next \in [Node -> Node \cup {Null}] /\ place \in [Node -> {"free", "heap"} \cup Lists]
  BY DEF IInv, TypeOK
<1> SUFFICES ASSUME NEW l \in Lists, NEW e \in Node, NEW T \in SUBSET Node,
                    place'[e] = l, next'[e] = Null, e \in T, Backward(l, T)'
             PROVE  \A n \in Node : place'[n] = l => n \in T
  BY DEF EndReached
<1>5. \A n \in Node \ {gone} : place'[n] = place[n] /\ (n # before => next'[n] = next[n])
  BY <1>2, <1>4
<1>6. place[e] = l /\ e # gone
  BY <1>1, <1>2, <1>4
<1>7. next'[before] = next[gone] /\ place'[gone] = "heap"
  BY <1>1, <1>2, <1>4
<1>8. \A T2 \in SUBSET Node, f \in Node :
        place[f] = l /\ next[f] = Null /\ f \in T2 /\ Backward(l, T2) /\ T2 \subseteq T \cup {gone} =>
          \A n \in Node : place'[n] = l => n \in T
  <2>1. \A n \in Node : place'[n] = l => n # gone /\ place[n] = l
    BY <1>1, <1>5, <1>7
  <2>2. QED BY <2>1 DEF EndReached
<1>9. CASE l # k
  <2>1. Backward(l, T) /\ next[e] = Null
    BY <1>1, <1>5, <1>6, <1>9 DEF Backward
  <2>2. QED BY <1>6, <1>8, <2>1
<1>10. CASE l = k /\ e = before
  <2>1. next[gone] = Null
    BY <1>7, <1>10
  <2>2. Backward(l, T \cup {gone})
    BY <1>1, <1>3, <1>5, <1>10 DEF Backward, Linked
  <2>3. QED BY <1>1, <1>8, <1>10, <2>1, <2>2
<1>11. CASE l = k /\ e # before /\ next[gone] \in T
  <2>1. Backward(l, T \cup {gone})
    BY <1>1, <1>3, <1>5, <1>7, <1>11 DEF Backward, Linked
  <2>2. next[e] = Null
    BY <1>5, <1>6, <1>11
  <2>3. QED BY <1>1, <1>6, <1>8, <2>1, <2>2
<1>12. CASE l = k /\ e # before /\ next[gone] \notin T
  <2>1. Backward(l, T \ {gone})
    BY <1>1, <1>3, <1>5, <1>7, <1>12 DEF Backward, Linked
  <2>2. next[e] = Null
    BY <1>5, <1>6, <1>12
  <2>3. QED BY <1>1, <1>6, <1>8, <2>1, <2>2
<1>13. QED BY <1>9, <1>10, <1>11, <1>12

LEMMA NextEndReached ==
  ASSUME IInv, EndReached, Next
  PROVE  EndReached'
<1> USE CCLAssumption
<1>1. PICK t \in Thread : OutsideStep(t) \/ (WriterStep(t) /\ InsideStep(t))
  BY StepShapes
<1>2. CASE OutsideStep(t)
  BY <1>2, EndUnchanged DEF Linked, OutsideStep
<1>3. CASE \/ AddLock(t) \/ AddMallocFails(t) \/ AddWalk(t) \/ AddUnlock(t)
           \/ RemLock(t) \/ RemHeadMiss(t) \/ RemWalk(t) \/ RemNotFound(t)
           \/ RemUnlock(t)
  <2>1. next' = next /\ place' = place
    BY <1>3 DEF AddLock, AddMallocFails, AddWalk, AddUnlock,
       RemLock, RemHeadMiss, RemWalk, RemNotFound, RemUnlock
  <2>2. QED BY <2>1, EndUnchanged DEF Linked
<1>4. CASE AddMalloc(t)
  <2>1. PICK n \in FreeNodes :
          /\ place' = [place EXCEPT ![n] = "heap"]
          /\ next'  = [next  EXCEPT ![n] = Null]
    BY <1>4 DEF AddMalloc
  <2>2. n \in Node /\ place[n] = "free"
    BY DEF FreeNodes
  <2>3. \A m \in Node : (Linked(m)' <=> Linked(m))
          /\ (Linked(m) => place'[m] = place[m] /\ next'[m] = next[m])
    BY <2>1, <2>2 DEF IInv, TypeOK, Linked
  <2>4. QED BY <2>3, EndUnchanged
<1>5. CASE RemFreeHead(t) \/ RemFree(t)
  <2>1. temp[t] \in Node /\ place[temp[t]] = "heap"
    BY <1>5 DEF IInv, TypeOK, RemoveCursors, RemFreeHead, RemFree
  <2>2. next' = next /\ place' = [place EXCEPT ![temp[t]] = "free"]
    BY <1>5 DEF RemFreeHead, RemFree, Free
  <2>3. \A m \in Node : (Linked(m)' <=> Linked(m))
          /\ (Linked(m) => place'[m] = place[m] /\ next'[m] = next[m])
    BY <2>1, <2>2 DEF IInv, TypeOK, Linked
  <2>4. QED BY <2>3, EndUnchanged
<1>6. QED
  BY <1>1, <1>2, <1>3, <1>4, <1>5, AddLinkEnd, RemHeadHitEnd, RemUnlinkEnd DEF WriterStep

-----------------------------------------------------------------------------
(* What a reader looks for is ahead of its cursor. *)

\* S has, with a node that is not free, the node its next field leads to: a
\* reader may be on a node that was unlinked but not yet freed.
Forward(S) == \A n \in S : place[n] # "free" /\ next[n] # Null => next[n] \in S

\* Every node with the key that thread t looks for is ahead of its cursor.
Ahead(t) ==
  \A S \in SUBSET Node : (ptr[t] # Null => ptr[t] \in S) /\ Forward(S) =>
    \A n \in Node : place[n] = op[t].list /\ key[n] = op[t].key => n \in S

KeptAhead == \A t \in Thread : t \in kept => Holds(op[t]) /\ (t \notin stale => Ahead(t))

ReaderInv == ListInv /\ QuietReaderSafe /\ EndReached /\ KeptAhead

\* A reader that was looking before the step and is looking after it
Continues(u) ==
  /\ pc[u] = "Walk" /\ u \in kept /\ u \notin stale
  /\ op'[u] = op[u] /\ Holds(op[u]) /\ Ahead(u)

LEMMA AheadUnchanged ==
  ASSUME NEW u \in Thread, Continues(u), ptr'[u] = ptr[u],
         \A n \in Node : place'[n] = op[u].list /\ key'[n] = op[u].key =>
           place[n] = op[u].list /\ key[n] = op[u].key,
         \A S \in SUBSET Node : Forward(S)' => Forward(S)
  PROVE  Ahead(u)'
  BY DEF Ahead, Continues

\* The call reads the head: all of the list is ahead.
LEMMA BeginWalkAhead ==
  ASSUME ListInv, NEW t \in Thread, NEW l \in Lists, NEW k \in Key \cup {Null}, BeginWalk(t, l, k)
  PROVE  Ahead(t)'
<1>1. UNCHANGED memory /\ ptr'[t] = head[l] /\ op'[t].list = l
  BY DEF BeginWalk, ListInv, IInv, TypeOK
<1> SUFFICES ASSUME NEW S \in SUBSET Node, ptr'[t] # Null => ptr'[t] \in S, Forward(S)'
             PROVE  \A n \in Node : place'[n] = l => n \in S
  BY <1>1 DEF Ahead
<1>2. FromHead(l, S)
  BY <1>1, CCLAssumption DEF FromHead, Forward, Closed, Linked
<1>3. QED BY <1>1, <1>2 DEF ListInv, AllReached

\* The node the cursor leaves has another key.
LEMMA WalkOnAhead ==
  ASSUME ListInv, QuietReaderSafe, NEW t \in Thread, WalkOn(t), Continues(t)
  PROVE  Ahead(t)'
<1>1. /\ UNCHANGED <<memory, op>> /\ ptr[t] \in Node /\ ptr'[t] = next[ptr[t]]
      /\ key[ptr[t]] # op[t].key
  BY DEF WalkOn, ListInv, IInv, TypeOK
<1>2. place[ptr[t]] # "free"
  BY <1>1, CCLAssumption DEF WalkOn, Continues, QuietReaderSafe, Reading
<1> SUFFICES ASSUME NEW S \in SUBSET Node, ptr'[t] # Null => ptr'[t] \in S, Forward(S)'
             PROVE  \A n \in Node : place[n] = op[t].list /\ key[n] = op[t].key => n \in S
  BY <1>1 DEF Ahead
<1>3. Forward(S \cup {ptr[t]})
  BY <1>1 DEF Forward
<1>4. \A n \in Node : place[n] = op[t].list /\ key[n] = op[t].key => n \in S \cup {ptr[t]}
  BY <1>1, <1>3 DEF Continues, Ahead
<1>5. QED BY <1>1, <1>4

\* A node that is linked is linked behind the last one, which is ahead of
\* the cursor because a node with the key is.
LEMMA AddLinkAhead ==
  ASSUME ListInv, EndReached, NEW t \in Thread, AddLink(t),
         NEW u \in Thread, Continues(u), ptr'[u] = ptr[u]
  PROVE  Ahead(u)'
<1> USE CCLAssumption
<1> DEFINE last == ptr[t]
           new  == temp[t]
           k    == op[t].list
<1>1. /\ last \in Node /\ place[last] = k /\ k \in Lists /\ next[last] = Null
      /\ new \in Node /\ place[new] = "heap" /\ next[new] = Null
  BY DEF ListInv, IInv, TypeOK, Calls, AddCursor, AddLink, Inside
<1>2. next' = [next EXCEPT ![last] = new] /\ place' = [place EXCEPT ![new] = k] /\ key' = key
  BY <1>1 DEF AddLink, Linked
<1> HIDE DEF last, new, k
<1>3. /\ next \in [Node -> Node \cup {Null}] /\ place \in [Node -> {"free", "heap"} \cup Lists]
      /\ last # new
  BY <1>1 DEF ListInv, IInv, TypeOK
<1> SUFFICES ASSUME NEW S \in SUBSET Node, ptr[u] # Null => ptr[u] \in S, Forward(S)'
             PROVE  \A n \in Node : place'[n] = op[u].list /\ key[n] = op[u].key => n \in S
  BY <1>2 DEF Ahead, Continues
<1>4. Forward(S)
  BY <1>1, <1>2, <1>3 DEF Forward
<1>5. \A n \in Node : place[n] = op[u].list /\ key[n] = op[u].key => n \in S
  BY <1>4 DEF Continues, Ahead
<1>6. CASE op[u].list # k
  BY <1>2, <1>3, <1>5, <1>6
<1>7. CASE op[u].list = k
  <2>1. PICK found \in Node : place[found] = k /\ key[found] = op[u].key
    BY <1>7 DEF Continues, Holds
  <2>2. found \in S
    BY <1>5, <1>7, <2>1
  <2>3. last \in S
    <3> SUFFICES ASSUME last \notin S PROVE FALSE
      OBVIOUS
    <3>1. Backward(k, Node \ S)
      BY <1>1, <1>3, <1>4 DEF Backward, Forward
    <3>2. found \in Node \ S
      BY <1>1, <2>1, <3>1 DEF EndReached
    <3>3. QED BY <2>2, <3>2
  <2>4. new \in S
    BY <1>1, <1>2, <1>3, <2>3 DEF Forward
  <2>5. QED BY <1>2, <1>3, <1>5, <2>4
<1>8. QED BY <1>6, <1>7

\* A node that is unlinked still leads on: what is ahead of it stays ahead.
LEMMA RemUnlinkAhead ==
  ASSUME ListInv, NEW t \in Thread, RemUnlink(t), NEW u \in Thread, Continues(u), ptr'[u] = ptr[u]
  PROVE  Ahead(u)'
<1> USE CCLAssumption
<1> DEFINE before == prev[t]
           gone   == temp[t]
           k      == op[t].list
<1>1. /\ gone \in Node /\ place[gone] = k /\ k \in Lists
      /\ before \in Node /\ place[before] = k /\ next[before] = gone
      /\ before # gone
  BY DEF ListInv, IInv, TypeOK, Calls, RemoveCursors, RemUnlink, Inside
<1>2. /\ next'  = [next  EXCEPT ![before] = next[gone]]
      /\ place' = [place EXCEPT ![gone] = "heap"] /\ key' = key
  BY DEF RemUnlink
<1> HIDE DEF before, gone, k
<1>3. next \in [Node -> Node \cup {Null}] /\ place \in [Node -> {"free", "heap"} \cup Lists]
  BY DEF ListInv, IInv, TypeOK
<1> SUFFICES ASSUME NEW S \in SUBSET Node, ptr[u] # Null => ptr[u] \in S, Forward(S)',
                    NEW n \in Node, place'[n] = op[u].list, key[n] = op[u].key,
                    op[u].list \in Lists
             PROVE  n \in S
  <2>1. op[u].list \in Lists
    BY DEF Continues, ListInv, IInv, TypeOK, Calls
  <2>2. QED BY <1>2, <2>1 DEF Ahead, Continues
<1>4. n # gone /\ place[n] = op[u].list
  BY <1>1, <1>2, <1>3
<1>5. CASE before \in S
  <2>1. Forward(S \cup {gone})
    BY <1>1, <1>2, <1>3, <1>5 DEF Forward
  <2>2. QED BY <1>1, <1>4, <2>1 DEF Continues, Ahead
<1>6. CASE before \notin S
  <2>1. Forward(S)
    BY <1>1, <1>2, <1>3, <1>6 DEF Forward
  <2>2. QED BY <1>4, <2>1 DEF Continues, Ahead
<1>7. QED BY <1>5, <1>6

\* A thread that reads through the step of another, and is not overtaken by
\* a free in it.
LEMMA ReadsOn ==
  ASSUME ReaderInv, NEW u \in Thread, pc[u] = "Walk", u \in kept, u \notin stale, op'[u] = op[u]
  PROVE  Continues(u)
  BY DEF ReaderInv, KeptAhead, Continues

LEMMA WriterAhead ==
  ASSUME ReaderInv, NEW t \in Thread, WriterStep(t), NEW u \in Thread, Continues(u),
         ptr'[u] = ptr[u], u \notin stale'
  PROVE  Ahead(u)'
<1> USE CCLAssumption
<1>1. CASE \/ AddLock(t) \/ AddMallocFails(t) \/ AddWalk(t) \/ AddUnlock(t)
           \/ RemLock(t) \/ RemHeadMiss(t) \/ RemWalk(t) \/ RemNotFound(t)
           \/ RemUnlock(t)
  <2>1. next' = next /\ place' = place /\ key' = key
    BY <1>1 DEF AddLock, AddMallocFails, AddWalk, AddUnlock,
       RemLock, RemHeadMiss, RemWalk, RemNotFound, RemUnlock
  <2>2. QED BY <2>1, AheadUnchanged DEF Forward
<1>2. CASE AddMalloc(t)
  <2>1. PICK n \in FreeNodes :
          /\ place' = [place EXCEPT ![n] = "heap"]
          /\ key'   = [key   EXCEPT ![n] = op[t].key]
          /\ next'  = [next  EXCEPT ![n] = Null]
    BY <1>2 DEF AddMalloc
  <2>2. n \in Node /\ place[n] = "free" /\ op[u].list \in Lists
    BY DEF FreeNodes, Continues, ReaderInv, ListInv, IInv, TypeOK, Calls
  <2>3. \A m \in Node : m # n => place'[m] = place[m] /\ key'[m] = key[m] /\ next'[m] = next[m]
    BY <2>1, <2>2 DEF ReaderInv, ListInv, IInv, TypeOK
  <2>4. place'[n] = "heap"
    BY <2>1, <2>2 DEF ReaderInv, ListInv, IInv, TypeOK
  <2>5. \A m \in Node : place'[m] = op[u].list /\ key'[m] = op[u].key =>
          place[m] = op[u].list /\ key[m] = op[u].key
    BY <2>2, <2>3, <2>4
  <2>6. \A S \in SUBSET Node : Forward(S)' => Forward(S)
    BY <2>2, <2>3 DEF Forward
  <2>7. QED BY <2>5, <2>6, AheadUnchanged
<1>3. CASE AddLink(t)
  BY <1>3, AddLinkAhead DEF ReaderInv
<1>4. CASE RemHeadHit(t)
  <2>1. /\ temp[t] \in Node /\ place[temp[t]] \in Lists
        /\ next' = next /\ key' = key /\ place' = [place EXCEPT ![temp[t]] = "heap"]
        /\ op[u].list \in Lists
    <3>1. IInv
      BY DEF ReaderInv, ListInv
    <3>2. temp[t] \in Node /\ place[temp[t]] \in Lists
      BY <1>4, <3>1, HeadHit
    <3>3. op[u].list \in Lists
      BY <3>1 DEF Continues, IInv, TypeOK, Calls
    <3>4. QED BY <1>4, <3>2, <3>3 DEF RemHeadHit
  <2>2. \A m \in Node : /\ place'[m] = op[u].list => place[m] = op[u].list
                        /\ place'[m] = "free" <=> place[m] = "free"
    BY <2>1 DEF ReaderInv, ListInv, IInv, TypeOK
  <2>3. \A S \in SUBSET Node : Forward(S)' => Forward(S)
    BY <2>1, <2>2 DEF Forward
  <2>4. QED BY <2>1, <2>2, <2>3, AheadUnchanged
<1>5. CASE RemUnlink(t)
  BY <1>5, RemUnlinkAhead DEF ReaderInv
<1>6. CASE RemFreeHead(t) \/ RemFree(t)
  BY <1>6 DEF RemFreeHead, RemFree, Free, Reading, Continues
<1>7. QED BY <1>1, <1>2, <1>3, <1>4, <1>5, <1>6 DEF WriterStep

LEMMA NextKeptAhead ==
  ASSUME ReaderInv, ReadersNext
  PROVE  KeptAhead'
<1>1. PICK t \in Thread : Cases(t)
  BY NextCases DEF ReadersNext
<1> SUFFICES ASSUME NEW u \in Thread, u \in kept'
             PROVE  Holds(op[u])' /\ (u \notin stale' => Ahead(u)')
  BY DEF KeptAhead
<1>2. pc'[u] = "Walk" /\ Holds(op[u])' /\ (pc[u] = "Walk" => u \in kept)
  BY DEF ReadersNext
<1> SUFFICES ASSUME u \notin stale' PROVE Ahead(u)'
  BY <1>2
<1>3. TypeOK
  BY DEF ReaderInv, ListInv, IInv
<1>4. ASSUME u # t, pc'[u] = pc[u], op'[u] = op[u], ptr'[u] = ptr[u], UNCHANGED memory,
             u \notin stale
      PROVE  Ahead(u)'
  <2>1. Continues(u)
    BY <1>2, <1>4, ReadsOn
  <2>2. QED BY <1>4, <2>1, AheadUnchanged DEF Forward
<1>5. ASSUME NEW l \in Lists, NEW k \in Key, BeginAdd(t, l, k) \/ BeginRemove(t, l, k)
      PROVE  Ahead(u)'
  <2>1. u # t
    BY <1>2, <1>3, <1>5 DEF TypeOK, BeginAdd, BeginRemove, Goto
  <2>2. QED BY <1>3, <1>4, <1>5, <2>1 DEF TypeOK, BeginAdd, BeginRemove, Goto
<1>6. ASSUME NEW l \in Lists, NEW k \in Key \cup {Null}, BeginWalk(t, l, k)
      PROVE  Ahead(u)'
  <2>1. CASE u = t
    BY <1>6, <2>1, BeginWalkAhead DEF ReaderInv
  <2>2. CASE u # t
    BY <1>3, <1>4, <1>6, <2>2 DEF TypeOK, BeginWalk, Goto
  <2>3. QED BY <2>1, <2>2
<1>7. CASE WalkOn(t)
  <2>1. CASE u = t
    <3>1. Continues(t)
      BY <1>2, <1>7, <2>1, ReadsOn DEF WalkOn
    <3>2. QED BY <1>7, <2>1, <3>1, WalkOnAhead DEF ReaderInv
  <2>2. CASE u # t
    BY <1>3, <1>4, <1>7, <2>2 DEF TypeOK, WalkOn
  <2>3. QED BY <2>1, <2>2
<1>8. CASE WalkReturns(t) \/ Fault(t)
  <2>1. u # t
    BY <1>2, <1>3, <1>8 DEF TypeOK, WalkReturns, Fault, Goto
  <2>2. QED BY <1>3, <1>4, <1>8, <2>1 DEF TypeOK, WalkReturns, Fault, Goto
<1>9. CASE WriterStep(t)
  <2>1. InsideStep(t)
    BY <1>9, InsideSteps DEF ReaderInv, ListInv, IInv
  <2>2. u # t /\ pc[u] = "Walk" /\ op'[u] = op[u] /\ ptr'[u] = ptr[u]
    BY <1>2, <2>1 DEF InsideStep, Inside
  <2>3. u \notin stale
    BY <1>9 DEF WriterStep, AddLock, AddMalloc, AddMallocFails, AddWalk, AddLink, AddUnlock,
       RemLock, RemHeadHit, RemHeadMiss, RemFreeHead, RemWalk, RemNotFound, RemUnlink,
       RemFree, RemUnlock, Free
  <2>4. Continues(u)
    BY <1>2, <2>2, <2>3, ReadsOn
  <2>5. QED BY <1>9, <2>2, <2>4, WriterAhead
<1>10. QED BY <1>1, <1>5, <1>6, <1>7, <1>8, <1>9 DEF Cases, Step, WriterStep

-----------------------------------------------------------------------------
(* The invariant, and what a Find that finds nothing has shown. *)

LEMMA InitReaderInv == ReadersInit => ReaderInv
<1> SUFFICES ASSUME ReadersInit PROVE ReaderInv
  OBVIOUS
<1>1. ListInv /\ QuietReaderSafe
  <2>1. SearchComplete /\ NewNamed /\ QuietReaderSafe
    BY DEF ReadersInit, Init, SearchComplete, NewNamed, QuietReaderSafe, Reading
  <2>2. AllReached
    BY CCLAssumption DEF ReadersInit, Init, AllReached, FromHead
  <2>3. QED BY <2>1, <2>2, InitIInv DEF ReadersInit, ListInv
<1>2. EndReached
  BY CCLAssumption DEF ReadersInit, Init, EndReached
<1>3. KeptAhead
  BY DEF ReadersInit, KeptAhead
<1>4. QED BY <1>1, <1>2, <1>3 DEF ReaderInv

LEMMA NextReaderInv == ReaderInv /\ [ReadersNext]_rvars => ReaderInv'
<1>1. ReaderInv /\ UNCHANGED rvars => EndReached' /\ KeptAhead'
  BY DEF rvars, vars, ReaderInv, EndReached, Backward, KeptAhead, Holds, Ahead, Forward
<1>2. ReaderInv /\ ReadersNext => EndReached' /\ KeptAhead'
  BY NextEndReached, NextKeptAhead DEF ReaderInv, ListInv, ReadersNext
<1>3. ReaderInv /\ [ReadersNext]_rvars => ListInv' /\ QuietReaderSafe'
  BY NextListInv, NextQuietReader DEF ReaderInv, ListInv, ReadersNext, rvars
<1>4. QED BY <1>1, <1>2, <1>3 DEF ReaderInv

\* A Find that returns Null and that no free overtook looked for a key that was
\* not in the list at some moment of the call, whatever others linked, unlinked
\* and allocated around it.
THEOREM MissesAreHonest == ReadersSpec => FindMissHonest
<1> DEFINE Honest == \A t \in Thread :
             pc[t] = "Walk" /\ pc'[t] = "idle" /\ ptr[t] = Null /\ t \notin stale =>
               t \notin kept
<1>1. ReaderInv => \A t \in Thread : ptr[t] = Null /\ t \notin stale => t \notin kept
  <2> SUFFICES ASSUME ReaderInv, NEW t \in Thread, ptr[t] = Null, t \notin stale, t \in kept
               PROVE  FALSE
    OBVIOUS
  <2>1. Ahead(t) /\ Holds(op[t])
    BY DEF ReaderInv, KeptAhead
  <2>2. Forward({})
    BY DEF Forward
  <2>3. QED BY <2>1, <2>2 DEF Ahead, Holds
<1>2. ReaderInv => Honest
  BY <1>1
<1>3. ReadersSpec => []ReaderInv
  BY InitReaderInv, NextReaderInv, PTL DEF ReadersSpec
<1>4. QED BY <1>2, <1>3, PTL DEF FindMissHonest, Honest
=============================================================================
