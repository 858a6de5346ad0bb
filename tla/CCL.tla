--------------------------------- MODULE CCL ---------------------------------
(***************************************************************************)
(* The connection control list (class CCL, connect.cpp): three singly     *)
(* linked lists - connections, threads and ports - with one mutex, lock1,  *)
(* and three counters.  Any number of threads call Add, Remove and Find.   *)
(*                                                                         *)
(* The three families of functions are the same code over three node       *)
(* types; they differ in the list and in the counter each path updates     *)
(* (AddCounter, RemoveHeadCounter, RemoveCounter).  One action therefore   *)
(* stands for one step of all three, and the entry actions bind the list.  *)
(*                                                                         *)
(* Steps are as fine as the code's shared accesses: the head is read       *)
(* BEFORE the lock in Add, every loop iteration is a step, unlinking and   *)
(* freeing are two steps.  A path that returns without                     *)
(* pthread_mutex_unlock leaves the lock with its caller.                   *)
(***************************************************************************)
EXTENDS Integers, FiniteSets

CONSTANTS
  Thread,    \* the threads that call into the object
  Node,      \* heap addresses a list node can occupy; bounds the heap
  Key,       \* ip addresses, thread handles or port numbers
  ZeroKey,   \* the key the constructor stores in the three first nodes
  Null,      \* the null pointer; also "nobody" as an owner of the lock
  Lists,     \* the lists in use
  Sentinel   \* Sentinel[l]: the node the constructor links into list l

\* The calls a thread can be in: a list and the key (FindID and dumpList have
\* none).
Calls == [list : Lists, key : Key \cup {Null}]

ASSUME CCLAssumption ==
  /\ ZeroKey \in Key
  /\ Null \notin Node \cup Thread \cup Key
  /\ Null \notin Calls
  /\ Lists \subseteq {"conn", "thread", "port"}
  /\ Sentinel \in [Lists -> Node]
  /\ \A l, m \in Lists : Sentinel[l] = Sentinel[m] => l = m

VARIABLES
  lock,   \* lock1: Null or the thread that holds it
  head,   \* head[l]: CCL::head, phead, thead
  next,   \* next[n]: the next field of node n
  key,    \* key[n]: the ip, port or ThreadID.p field of node n
  place,  \* where node n is: "free", "heap" (allocated, in no list) or a list
  cnt,    \* the counters ccnt, pcnt and tcnt
  pc,     \* pc[t]: what thread t does next
  op,     \* op[t]: list and key of the call thread t is in
  ptr,    \* ptr[t]: the cursor; after Find, the pointer it returned
  prev,   \* prev[t]: the node before the cursor in Remove
  temp,   \* temp[t]: the node Add allocated or Remove takes out
  stale   \* threads whose pointer from Find or a dump predates a free

vars == <<lock, head, next, key, place, cnt, pc, op, ptr, prev, temp, stale>>

locals == <<op, ptr, prev, temp>>
memory == <<head, next, key, place, cnt>>

Counter == {"ccnt", "pcnt", "tcnt"}

\* Labels at which a thread is between pthread_mutex_lock and its return.
Inside == {"AddMalloc", "AddWalk", "AddUnlock", "RemHead", "RemFreeHead",
           "RemWalk", "RemFree", "RemUnlock"}
Label == Inside \cup {"idle", "AddLock", "RemLock", "Walk", "fault"}

Linked(n) == place[n] \in Lists
Reading(t) == pc[t] = "Walk" \/ (pc[t] = "idle" /\ ptr[t] # Null)
Running == \A t \in Thread : pc[t] # "fault"

-----------------------------------------------------------------------------
(* The differences between the three families of functions. *)

\* The counter AddConnection, AddThread and AddPort increment.
AddCounter(l) == IF l = "port" THEN "tcnt" ELSE "pcnt"

\* The counter each Remove decrements when the head holds the key.
RemoveHeadCounter(l) ==
  CASE l = "conn" -> "ccnt" [] l = "thread" -> "pcnt" [] l = "port" -> "tcnt"

\* Mutant: RemovePort decrements the counter that AddPort does not increment.
RemoveCounterMixedUp(l) == "pcnt"

\* The counter each Remove decrements when a later node holds the key.
RemoveCounter(l) == IF l = "port" THEN "tcnt" ELSE "pcnt"

\* Mutant: the head branch of Remove unlocks before it returns.
UnlockingPathsWithHead == {"added", "removed", "headRemoved"}

\* Mutant: Add returns without unlocking.
UnlockingPathsNotAdded == {"removed"}

\* The paths that reach pthread_mutex_unlock.  Out of memory, the head
\* removed, and key not found all return while lock1 is held.
UnlockingPaths == {"added", "removed"}

-----------------------------------------------------------------------------
(* Library: pthread_mutex_lock on a PTHREAD_MUTEX_INITIALIZER mutex, which *)
(* is not recursive, and the heap.                                         *)

LockFree(t) == lock = Null

FreeNodes == {n \in Node : place[n] = "free"}

\* free(n): the bytes stay readable until malloc hands the address out again.
Free(n) ==
  /\ place' = [place EXCEPT ![n] = "free"]
  /\ stale' = stale \cup {t \in Thread : Reading(t)}

\* The pointer the next step of thread t dereferences.
Cursor(t) ==
  CASE pc[t] \in {"AddWalk", "Walk"}   -> ptr[t]
    [] pc[t] \in {"RemHead", "RemWalk"} -> temp[t]
    [] OTHER -> Null

\* Reading through a pointer to freed memory may end the process; the other
\* outcome, reading the bytes left there, is the ordinary step of the walk.
Fault(t) ==
  /\ Cursor(t) # Null
  /\ place[Cursor(t)] = "free"
  /\ pc' = [pc EXCEPT ![t] = "fault"]
  /\ UNCHANGED <<lock, locals, memory, stale>>

Goto(t, label) == pc' = [pc EXCEPT ![t] = label]

\* Thread t returns to its caller along the named path.
Return(t, path) ==
  /\ Goto(t, "idle")
  /\ lock' = IF path \in UnlockingPaths THEN Null ELSE lock
  /\ ptr'  = [ptr  EXCEPT ![t] = Null]
  /\ prev' = [prev EXCEPT ![t] = Null]
  /\ temp' = [temp EXCEPT ![t] = Null]
  /\ op'   = [op   EXCEPT ![t] = Null]

-----------------------------------------------------------------------------
(* Add: AddConnection, AddThread, AddPort. *)

\* The call: the head pointer is read before the lock is requested.
BeginAdd(t, l, k) ==
  /\ pc[t] = "idle"
  /\ Goto(t, "AddLock")
  /\ op'  = [op  EXCEPT ![t] = [list |-> l, key |-> k]]
  /\ ptr' = [ptr EXCEPT ![t] = head[l]]
  /\ UNCHANGED <<lock, memory, prev, temp, stale>>

AddConnection(t, ip)   == "conn"   \in Lists /\ BeginAdd(t, "conn", ip)
AddThread(t, threadID) == "thread" \in Lists /\ BeginAdd(t, "thread", threadID)
AddPort(t, port)       == "port"   \in Lists /\ BeginAdd(t, "port", port)

\* Mutant: Add does not take the lock.
AddLockForgotten(t) ==
  /\ pc[t] = "AddLock"
  /\ Goto(t, "AddMalloc")
  /\ UNCHANGED <<lock, locals, memory, stale>>

AddLock(t) ==
  /\ pc[t] = "AddLock"
  /\ LockFree(t)
  /\ lock' = t
  /\ Goto(t, "AddMalloc")
  /\ UNCHANGED <<locals, memory, stale>>

\* Mutant: the result of malloc is not compared with NULL.
AddMallocUnchecked(t) ==
  /\ pc[t] = "AddMalloc"
  /\ Goto(t, "AddWalk")
  /\ UNCHANGED <<lock, locals, memory, stale>>

\* malloc may fail at any time; the call returns with the lock.
AddMallocFails(t) ==
  /\ pc[t] = "AddMalloc"
  /\ Return(t, "noMemory")
  /\ UNCHANGED <<memory, stale>>

\* Mutant: the new node's next field keeps what the heap had there.
AddMallocNoInit(t) ==
  /\ pc[t] = "AddMalloc"
  /\ \E n \in FreeNodes :
       /\ temp'  = [temp  EXCEPT ![t] = n]
       /\ place' = [place EXCEPT ![n] = "heap"]
       /\ key'   = [key   EXCEPT ![n] = op[t].key]
  /\ Goto(t, "AddWalk")
  /\ UNCHANGED <<lock, head, next, cnt, op, ptr, prev, stale>>

\* malloc succeeds; the new node is filled in before it is published.
AddMalloc(t) ==
  /\ pc[t] = "AddMalloc"
  /\ \E n \in FreeNodes :
       /\ temp'  = [temp  EXCEPT ![t] = n]
       /\ place' = [place EXCEPT ![n] = "heap"]
       /\ key'   = [key   EXCEPT ![n] = op[t].key]
       /\ next'  = [next  EXCEPT ![n] = Null]
  /\ Goto(t, "AddWalk")
  /\ UNCHANGED <<lock, head, cnt, op, ptr, prev, stale>>

\* Mutant: the cursor is not advanced.
AddWalkStuck(t) ==
  /\ pc[t] = "AddWalk"
  /\ ptr[t] # Null
  /\ next[ptr[t]] # Null
  /\ UNCHANGED vars

\* One iteration that moves the cursor on.
AddWalk(t) ==
  /\ pc[t] = "AddWalk"
  /\ ptr[t] # Null
  /\ next[ptr[t]] # Null
  /\ ptr' = [ptr EXCEPT ![t] = next[ptr[t]]]
  /\ UNCHANGED <<lock, memory, pc, op, prev, temp, stale>>

\* The loop ends: it links the new node behind the last one and counts it,
\* or it never ran because the head it started from was Null.
AddLink(t) ==
  /\ pc[t] = "AddWalk"
  /\ ptr[t] # Null => next[ptr[t]] = Null
  /\ IF ptr[t] = Null THEN UNCHANGED memory ELSE
       /\ cnt'   = [cnt   EXCEPT ![AddCounter(op[t].list)] = @ + 1]
       /\ next'  = [next  EXCEPT ![ptr[t]] = temp[t]]
       /\ place' = [place EXCEPT ![temp[t]] =
                      IF Linked(ptr[t]) THEN place[ptr[t]] ELSE @]
       /\ UNCHANGED <<head, key>>
  /\ Goto(t, "AddUnlock")
  /\ UNCHANGED <<lock, locals, stale>>

AddUnlock(t) ==
  /\ pc[t] = "AddUnlock"
  /\ Return(t, "added")
  /\ UNCHANGED <<memory, stale>>

-----------------------------------------------------------------------------
(* Remove: RemoveConnection, RemoveThread, RemovePort. *)

BeginRemove(t, l, k) ==
  /\ pc[t] = "idle"
  /\ Goto(t, "RemLock")
  /\ op'  = [op  EXCEPT ![t] = [list |-> l, key |-> k]]
  /\ ptr' = [ptr EXCEPT ![t] = Null]
  /\ UNCHANGED <<lock, memory, prev, temp, stale>>

RemoveConnection(t, ip)   == "conn" \in Lists /\ BeginRemove(t, "conn", ip)
RemoveThread(t, threadID) == "thread" \in Lists /\ BeginRemove(t, "thread", threadID)
RemovePort(t, port)       == "port" \in Lists /\ BeginRemove(t, "port", port)

RemLock(t) ==
  /\ pc[t] = "RemLock"
  /\ LockFree(t)
  /\ lock' = t
  /\ temp' = [temp EXCEPT ![t] = head[op[t].list]]
  /\ Goto(t, "RemHead")
  /\ UNCHANGED <<memory, op, ptr, prev, stale>>

\* The first test: does the head hold the key?
RemHeadHit(t) ==
  /\ pc[t] = "RemHead"
  /\ temp[t] # Null
  /\ key[temp[t]] = op[t].key
  /\ head'  = [head  EXCEPT ![op[t].list] = next[temp[t]]]
  /\ place' = [place EXCEPT ![temp[t]] = "heap"]
  /\ Goto(t, "RemFreeHead")
  /\ UNCHANGED <<lock, next, key, cnt, locals, stale>>

RemHeadMiss(t) ==
  /\ pc[t] = "RemHead"
  /\ temp[t] # Null => key[temp[t]] # op[t].key
  /\ Goto(t, "RemWalk")
  /\ UNCHANGED <<lock, memory, locals, stale>>

RemFreeHead(t) ==
  /\ pc[t] = "RemFreeHead"
  /\ Free(temp[t])
  /\ cnt' = [cnt EXCEPT ![RemoveHeadCounter(op[t].list)] = @ - 1]
  /\ Return(t, "headRemoved")
  /\ UNCHANGED <<head, next, key>>

\* One iteration of the search loop.
RemWalk(t) ==
  /\ pc[t] = "RemWalk"
  /\ temp[t] # Null
  /\ key[temp[t]] # op[t].key
  /\ prev' = [prev EXCEPT ![t] = temp[t]]
  /\ temp' = [temp EXCEPT ![t] = next[temp[t]]]
  /\ UNCHANGED <<lock, memory, pc, op, ptr, stale>>

RemNotFound(t) ==
  /\ pc[t] = "RemWalk"
  /\ temp[t] = Null
  /\ Return(t, "notFound")
  /\ UNCHANGED <<memory, stale>>

\* Mutant: the node is freed while its predecessor still points to it.
RemUnlinkForgotten(t) ==
  /\ pc[t] = "RemWalk"
  /\ temp[t] # Null
  /\ key[temp[t]] = op[t].key
  /\ place' = [place EXCEPT ![temp[t]] = "heap"]
  /\ Goto(t, "RemFree")
  /\ UNCHANGED <<lock, head, next, key, cnt, locals, stale>>

\* Mutant: the node taken out is cut off from the rest at once.
RemUnlinkClears(t) ==
  /\ pc[t] = "RemWalk"
  /\ temp[t] # Null
  /\ key[temp[t]] = op[t].key
  /\ next'  = [next  EXCEPT ![prev[t]] = next[temp[t]], ![temp[t]] = Null]
  /\ place' = [place EXCEPT ![temp[t]] = "heap"]
  /\ Goto(t, "RemFree")
  /\ UNCHANGED <<lock, head, key, cnt, locals, stale>>

RemUnlink(t) ==
  /\ pc[t] = "RemWalk"
  /\ temp[t] # Null
  /\ key[temp[t]] = op[t].key
  /\ next'  = [next  EXCEPT ![prev[t]] = next[temp[t]]]
  /\ place' = [place EXCEPT ![temp[t]] = "heap"]
  /\ Goto(t, "RemFree")
  /\ UNCHANGED <<lock, head, key, cnt, locals, stale>>

RemFree(t) ==
  /\ pc[t] = "RemFree"
  /\ Free(temp[t])
  /\ cnt' = [cnt EXCEPT ![RemoveCounter(op[t].list)] = @ - 1]
  /\ Goto(t, "RemUnlock")
  /\ UNCHANGED <<lock, head, next, key, locals>>

RemUnlock(t) ==
  /\ pc[t] = "RemUnlock"
  /\ Return(t, "removed")
  /\ UNCHANGED <<memory, stale>>

-----------------------------------------------------------------------------
(* Find: FindIP, FindThread, FindPort, FindID; dumpList.  No lock is taken. *)

BeginWalk(t, l, k) ==
  /\ pc[t] = "idle"
  /\ Goto(t, "Walk")
  /\ op'    = [op  EXCEPT ![t] = [list |-> l, key |-> k]]
  /\ ptr'   = [ptr EXCEPT ![t] = head[l]]
  /\ stale' = stale \ {t}
  /\ UNCHANGED <<lock, memory, prev, temp>>

FindIP(t, ip)           == "conn"   \in Lists /\ BeginWalk(t, "conn", ip)
FindThread(t, threadID) == "thread" \in Lists /\ BeginWalk(t, "thread", threadID)
FindPort(t, port)       == "port"   \in Lists /\ BeginWalk(t, "port", port)

\* FindID compares 640 bytes of DevID, of which AddConnection writes those up to
\* the end of the string only: any node can match and any can not.
FindID(t) == "conn" \in Lists /\ BeginWalk(t, "conn", Null)
MayMatch(t) == op[t] = [list |-> "conn", key |-> Null]

\* dumpList (AgentServer.cpp) prints the thread list: no key ends its walk.
DumpList(t) == "thread" \in Lists /\ BeginWalk(t, "thread", Null)

WalkOn(t) ==
  /\ pc[t] = "Walk"
  /\ ptr[t] # Null
  /\ key[ptr[t]] # op[t].key
  /\ ptr' = [ptr EXCEPT ![t] = next[ptr[t]]]
  /\ UNCHANGED <<lock, memory, pc, op, prev, temp, stale>>

\* Return the node found, or Null at the end of the list.
WalkReturns(t) ==
  /\ pc[t] = "Walk"
  /\ ptr[t] # Null => key[ptr[t]] = op[t].key \/ MayMatch(t)
  /\ Goto(t, "idle")
  /\ op' = [op EXCEPT ![t] = Null]
  /\ UNCHANGED <<lock, memory, ptr, prev, temp, stale>>

-----------------------------------------------------------------------------
(* The specification. *)

\* The state the constructor of BearLDC leaves: one node in each list.
Init ==
  /\ lock  = Null
  /\ head  = Sentinel
  /\ next  = [n \in Node |-> Null]
  /\ key   = [n \in Node |-> ZeroKey]
  /\ place \in [Node -> {"free"} \cup Lists]
  /\ \A n \in Node : \A l \in Lists : place[n] = l <=> Sentinel[l] = n
  /\ cnt   = [c \in Counter |-> 1]
  /\ pc    = [t \in Thread |-> "idle"]
  /\ op    = [t \in Thread |-> Null]
  /\ ptr   = [t \in Thread |-> Null]
  /\ prev  = [t \in Thread |-> Null]
  /\ temp  = [t \in Thread |-> Null]
  /\ stale = {}

Call(t) ==
  \/ FindID(t) \/ DumpList(t)
  \/ \E k \in Key :
       \/ AddConnection(t, k) \/ AddThread(t, k) \/ AddPort(t, k)
       \/ RemoveConnection(t, k) \/ RemoveThread(t, k) \/ RemovePort(t, k)
       \/ FindIP(t, k) \/ FindThread(t, k) \/ FindPort(t, k)

\* A step of a call thread t is in.
Step(t) ==
  \/ AddLock(t) \/ AddMalloc(t) \/ AddMallocFails(t) \/ AddWalk(t)
  \/ AddLink(t) \/ AddUnlock(t)
  \/ RemLock(t) \/ RemHeadHit(t) \/ RemHeadMiss(t) \/ RemFreeHead(t)
  \/ RemWalk(t) \/ RemNotFound(t) \/ RemUnlink(t) \/ RemFree(t) \/ RemUnlock(t)
  \/ WalkOn(t) \/ WalkReturns(t) \/ Fault(t)

Next == Running /\ \E t \in Thread : Call(t) \/ Step(t)

Spec == Init /\ [][Next]_vars

\* A thread inside the lock is scheduled again; nothing is assumed of the
\* order in which waiting threads get the lock, nor that anyone calls.
FairSpec == Spec /\ \A t \in Thread : WF_vars(Running /\ pc[t] \in Inside /\ Step(t))

-----------------------------------------------------------------------------
(* Properties. *)

TypeOK ==
  /\ lock \in Thread \cup {Null}
  /\ head \in [Lists -> Node \cup {Null}]
  /\ next \in [Node -> Node \cup {Null}]
  /\ key \in [Node -> Key]
  /\ place \in [Node -> {"free", "heap"} \cup Lists]
  /\ cnt \in [Counter -> Int]
  /\ pc \in [Thread -> Label]
  /\ op \in [Thread -> Calls \cup {Null}]
  /\ ptr \in [Thread -> Node \cup {Null}]
  /\ prev \in [Thread -> Node \cup {Null}]
  /\ temp \in [Thread -> Node \cup {Null}]
  /\ stale \subseteq Thread
  /\ \A t \in Thread :
       /\ pc[t] = "Walk" => op[t] # Null
       /\ pc[t] \in Inside \cup {"AddLock", "RemLock"} =>
            op[t] # Null /\ op[t].key \in Key
       /\ pc[t] \in {"AddWalk", "AddUnlock", "RemFreeHead", "RemFree"} =>
            temp[t] # Null

\* The lock was lost: its holder is no longer in the code that would unlock
\* it, because an Add or a Remove of the holder returned without unlocking.
Leaked == lock # Null /\ pc[lock] \notin Inside

\* The lists are touched under lock1 only: a thread in the middle of an Add
\* or a Remove is the one holder of the lock.
OnlyHolderInside == \A t \in Thread : pc[t] \in Inside => lock = t

\* A pointer that is stored in a list (head, or next of a linked node) leads
\* to a node of that same list, never to freed or half-built memory, and no
\* two pointers lead to the same node: Add and Remove keep three chains.
ListsWellLinked ==
  /\ \A l \in Lists : head[l] # Null => place[head[l]] = l
  /\ \A n \in Node : Linked(n) /\ next[n] # Null =>
       /\ place[next[n]] = place[n]
       /\ head[place[n]] # next[n]
       /\ \A m \in Node : Linked(m) /\ next[m] = next[n] => m = n

\* A thread that changes a list dereferences only nodes of that list.  Add
\* reads the head before it has the lock, so what it holds may be the head
\* another thread removed and freed meanwhile; the property holds because
\* that removal also keeps lock1, and the Add never goes on.
WritersTouchLiveNodes ==
  \A t \in Thread :
    /\ pc[t] = "AddWalk" => ptr[t] # Null /\ place[ptr[t]] = op[t].list
    /\ pc[t] \in {"RemHead", "RemWalk"} /\ temp[t] # Null =>
         place[temp[t]] = op[t].list
    /\ pc[t] = "RemWalk" /\ prev[t] # Null =>
         place[prev[t]] = op[t].list /\ next[prev[t]] = temp[t]

\* An Add that reports STATUS_OK has put its node into the list it was called
\* for ("Add a comm thread to the list handler list", connect.cpp): the loop
\* that links it needs a list that is not empty.
AddedIsLinked ==
  \A t \in Thread : pc[t] = "AddUnlock" => place[temp[t]] = op[t].list

\* S has, with a node of a list, the node its next field leads to.
Closed(S) == \A n \in S : Linked(n) /\ next[n] # Null => next[n] \in S

\* The nodes reachable from the head of list l: those in every such set that
\* has the head.
Reachable(l) ==
  {n \in Node : \A S \in SUBSET Node :
     (head[l] # Null => head[l] \in S) /\ Closed(S) => n \in S}

\* No memory is lost: an allocated node is reachable from the head of its list
\* or is the node the holder of the lock is about to link or to free.
NodesAccountedFor ==
  /\ \A l \in Lists : Reachable(l) = {n \in Node : place[n] = l}
  /\ \A n \in Node : place[n] = "heap" =>
       \E t \in Thread : pc[t] \in Inside /\ temp[t] = n

\* The nodes of list l as the counters see them: a node is subtracted after
\* it is freed.  A list that is not in use has its first node.
Counted(l) ==
  IF l \notin Lists THEN 1 ELSE
    Cardinality({n \in Node : place[n] = l})
    + Cardinality({t \in Thread :
         pc[t] \in {"RemFreeHead", "RemFree"} /\ op[t].list = l})

\* What the counters count, whatever was added and removed: tcnt is the
\* length of the PORT list, and ccnt and pcnt together are the lengths of the
\* connection and the thread list.
CountersBalance ==
  /\ cnt["tcnt"] = Counted("port")
  /\ cnt["ccnt"] + cnt["pcnt"] = Counted("conn") + Counted("thread")

\* Once one call returned without unlocking, no list, node or counter of the
\* whole object changes again: the three lists share lock1.
FrozenOnceLeaked == [][Leaked => UNCHANGED <<lock, memory>>]_vars

\* While no call returned with the lock, lock1 always becomes free again:
\* every walk under the lock ends.
LockComesBack == []<>(lock = Null) \/ <>Leaked \/ <>~Running

\* CCL keeps the promise of Registry.  An Add takes effect when it links its
\* node, a Remove when it unlinks the one it found; what a call does before
\* and after, and what the lists look like inside, nobody can tell.
Requested(t) ==
  CASE pc[t] \in {"AddLock", "AddMalloc", "AddWalk"} -> "add"
    [] pc[t] \in {"RemLock", "RemHead", "RemWalk"}   -> "remove"
    [] pc[t] \in {"AddUnlock", "RemFree", "RemUnlock"} -> "done"
    [] pc[t] = "RemFreeHead"                           -> "losing"
    [] OTHER                                           -> "idle"

Promise == INSTANCE Registry WITH
  Entry  <- Node,
  Nobody <- Null,
  First  <- Sentinel,
  where  <- [n \in Node |-> IF Linked(n) THEN place[n] ELSE "out"],
  name   <- [n \in Node |-> IF Linked(n) THEN key[n] ELSE Null],
  first  <- head,
  kind   <- [t \in Thread |-> Requested(t)],
  arg    <- [t \in Thread |-> IF Requested(t) = "idle" THEN Null ELSE op[t]],
  lost   <- Leaked

KeepsPromise == Promise!Spec

\* A lock-free reader (Find and the pointer it returns, dumpList) for whom no
\* node was freed since it read the head never points at freed memory, no
\* matter what is added or unlinked around it.
QuietReaderSafe ==
  \A t \in Thread : Reading(t) /\ t \notin stale /\ ptr[t] # Null =>
    place[ptr[t]] # "free"
=============================================================================
