------------------------------- MODULE Registry -------------------------------
(***************************************************************************)
(* What the connection control list promises its callers: three lists of   *)
(* keys that change by whole operations.  A call takes effect at one       *)
(* moment between its request and its return: an Add enters the key, a     *)
(* Remove takes one entry of the key out.  And what it exacts: a call that *)
(* finds no memory, no such key, or its key in the first entry loses the   *)
(* registry, for everybody and for ever.                                   *)
(***************************************************************************)
CONSTANTS
  Thread,   \* the callers
  Entry,    \* the places an entry can be in; bounds the registry
  Key,      \* what is entered
  Lists,    \* the lists in use
  Nobody,   \* no key
  First     \* First[l]: the entry list l starts with

VARIABLES
  where,    \* where[e]: the list entry e is in, or "out"
  name,     \* name[e]: the key of entry e, Nobody if it is out
  first,    \* first[l]: the first entry of list l, Nobody if there is none
  kind,     \* kind[t]: how far the call of t is
  arg,      \* arg[t]: the list and the key it is about, Nobody if t is idle
  lost      \* a call has lost the registry

vars == <<where, name, first, kind, arg, lost>>

Become(t, k) == kind' = [kind EXCEPT ![t] = k]

Named(l, k) == {e \in Entry : where[e] = l /\ name[e] = k}

Ask(t) ==
  /\ kind[t] = "idle"
  /\ Become(t, "add") \/ Become(t, "remove")
  /\ \E l \in Lists, k \in Key : arg' = [arg EXCEPT ![t] = [list |-> l, key |-> k]]
  /\ UNCHANGED <<where, name, first, lost>>

Add(t) ==
  /\ kind[t] = "add" /\ ~lost
  /\ \E e \in Entry :
       /\ where[e] = "out"
       /\ where' = [where EXCEPT ![e] = arg[t].list]
       /\ name'  = [name  EXCEPT ![e] = arg[t].key]
  /\ Become(t, "done")
  /\ UNCHANGED <<first, arg, lost>>

TakeOut(e) ==
  /\ where' = [where EXCEPT ![e] = "out"]
  /\ name'  = [name  EXCEPT ![e] = Nobody]

Remove(t) ==
  /\ kind[t] = "remove" /\ ~lost
  /\ \E e \in Named(arg[t].list, arg[t].key) :
       e # first[arg[t].list] /\ TakeOut(e)
  /\ Become(t, "done")
  /\ UNCHANGED <<first, arg, lost>>

\* The first entry has the key: another one becomes the first, the call loses.
RemoveFirst(t) ==
  /\ kind[t] = "remove" /\ ~lost
  /\ LET l == arg[t].list IN
       /\ first[l] \in Named(l, arg[t].key)
       /\ TakeOut(first[l])
       /\ LET rest == {e \in Entry : where'[e] = l} IN
          \E e \in IF rest = {} THEN {Nobody} ELSE rest :
            first' = [first EXCEPT ![l] = e]
  /\ Become(t, "losing")
  /\ UNCHANGED <<arg, lost>>

Leave(t) ==
  /\ Become(t, "idle")
  /\ arg' = [arg EXCEPT ![t] = Nobody]

Lose(t) ==
  /\ ~lost
  /\ \/ kind[t] = "losing"
     \/ kind[t] = "add"
     \/ kind[t] = "remove" /\ Named(arg[t].list, arg[t].key) = {}
  /\ lost' = TRUE
  /\ Leave(t)
  /\ UNCHANGED <<where, name, first>>

Return(t) ==
  /\ kind[t] = "done" /\ ~lost
  /\ Leave(t)
  /\ UNCHANGED <<where, name, first, lost>>

Init ==
  /\ where \in [Entry -> {"out"} \cup Lists]
  /\ \A e \in Entry : \A l \in Lists : where[e] = l <=> First[l] = e
  /\ \E k \in Key : name = [e \in Entry |-> IF where[e] = "out" THEN Nobody ELSE k]
  /\ first = First
  /\ kind = [t \in Thread |-> "idle"]
  /\ arg = [t \in Thread |-> Nobody]
  /\ lost = FALSE

Next ==
  \E t \in Thread :
    Ask(t) \/ Add(t) \/ Remove(t) \/ RemoveFirst(t) \/ Lose(t) \/ Return(t)

Spec == Init /\ [][Next]_vars
=============================================================================
