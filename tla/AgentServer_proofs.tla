-------------------------- MODULE AgentServer_proofs --------------------------
(***************************************************************************)
(* Proofs about the agent server for any number of handlers, rounds,       *)
(* connections and failures.  It is first shown to be a caller that CCL    *)
(* allows; what is proved of CCL then holds of its list.                   *)
(***************************************************************************)
EXTENDS AgentServer, Registry_proofs

USE DEF locals, memory

-----------------------------------------------------------------------------
(* The types, and the bounds of the two loops. *)

TypeInv ==
  /\ AgentTypeOK
  /\ agent[Tester] \in {"create", "register"} => made[Tester] < Rounds
  /\ agent[Server] \in {"create", "register"} => made[Server] < MaxConns

LEMMA NextTypeInv ==
  ASSUME TypeInv, [AgentNext]_allVars
  PROVE  TypeInv'
<1> USE AgentAssumption DEF Creator
<1>1. CASE UNCHANGED allVars
  BY <1>1 DEF allVars, agentVars, TypeInv, AgentTypeOK
<1>2. ASSUME NEW c \in Creator, CreateThread(c) \/ CreateFails(c) \/ Register(c)
      PROVE  TypeInv'
  BY <1>2 DEF TypeInv, AgentTypeOK, CreateThread, CreateFails, Register, AgentGoto
<1>3. CASE TesterStep
  BY <1>3 DEF TypeInv, AgentTypeOK, TesterStep, NextRound, FirstDump, SecondDump, TestReturns,
     AgentGoto
<1>4. CASE ServerStep \/ Network
  BY <1>4 DEF TypeInv, AgentTypeOK, ServerStep, Network, StartupFails, SetUpListener,
     RestartListener, AcceptNext, Accept, AcceptFails, AgentGoto
<1>5. ASSUME NEW h \in Handler, HandlerStep(h)
      PROVE  TypeInv'
  BY <1>5 DEF TypeInv, AgentTypeOK, HandlerStep, ConnHandler, HandlerExits
<1>6. CASE UNCHANGED agentVars
  BY <1>6 DEF agentVars, TypeInv, AgentTypeOK
<1>7. QED
  BY <1>1, <1>2, <1>3, <1>4, <1>5, <1>6 DEF AgentNext, CreatorStep, ListStep

LEMMA InitTypeInv == AgentInit => TypeInv
  BY AgentAssumption DEF AgentInit, TypeInv, AgentTypeOK, Creator

LEMMA TypeInvariance == AgentSpec => []TypeInv
<1>1. QED BY InitTypeInv, NextTypeInv, PTL DEF AgentSpec

\* AcceptConnections starts over with its own handle or with one nobody has; the
\* other steps of the loops leave the handles alone.
LEMMA LoopsKeepHandles ==
  ASSUME TypeInv, TesterStep \/ ServerStep \/ Network
  PROVE  \A c \in Creator : threadID'[c] \in Handler => threadID'[c] = threadID[c]
<1> USE AgentAssumption DEF Creator, TypeInv, AgentTypeOK
<1>1. CASE RestartListener
  BY <1>1 DEF RestartListener
<1>2. CASE ~RestartListener
  BY <1>2 DEF TesterStep, NextRound, FirstDump, SecondDump, TestReturns, ServerStep, Network,
     StartupFails, SetUpListener, AcceptNext, Accept, AcceptFails
<1>3. QED BY <1>1, <1>2

\* A creator's handle becomes another one only when that handler is made.
LEMMA HandleSteps ==
  ASSUME TypeInv, [AgentNext]_allVars
  PROVE  /\ failures' = 0 => failures = 0
         /\ \A c \in Creator : threadID'[c] \in Handler =>
              threadID'[c] = threadID[c] \/ handler[threadID'[c]] = "none"
<1> USE AgentAssumption DEF Creator, TypeInv, AgentTypeOK
<1>1. ASSUME NEW c \in Creator, CreatorStep(c)
      PROVE  /\ failures' = 0 => failures = 0
             /\ \A d \in Creator : threadID'[d] \in Handler =>
                  threadID'[d] = threadID[d] \/ handler[threadID'[d]] = "none"
  BY <1>1 DEF CreatorStep, CreateThread, CreateFails, Register
<1>2. CASE TesterStep \/ ServerStep \/ Network
  <2>1. failures' = failures
    BY <1>2 DEF TesterStep, NextRound, FirstDump, SecondDump, TestReturns, ServerStep, Network,
       StartupFails, SetUpListener, RestartListener, AcceptNext, Accept, AcceptFails
  <2>2. QED BY <1>2, <2>1, LoopsKeepHandles
<1>3. CASE \/ UNCHANGED <<threadID, failures>>
           \/ \E h \in Handler : HandlerStep(h)
           \/ \E t \in Thread : ListStep(t)
  BY <1>3 DEF HandlerStep, ConnHandler, HandlerExits, ListStep, agentVars
<1>4. QED BY <1>1, <1>2, <1>3 DEF AgentNext, allVars, agentVars

\* Every variable of the agent server keeps to its values.
THEOREM AgentTypeCorrect == AgentSpec => []AgentTypeOK
  BY TypeInvariance, PTL DEF TypeInv

-----------------------------------------------------------------------------
(* The agent server is a caller of CCL. *)

LEMMA AgentCallsCCL ==
  ASSUME TypeInv, [AgentNext]_allVars
  PROVE  [Next]_vars
<1> USE AgentAssumption DEF Creator
<1>1. CASE UNCHANGED allVars
  BY <1>1 DEF allVars
<1>2. ASSUME NEW c \in Creator, Running, CreateThread(c) \/ CreateFails(c) \/ Register(c)
      PROVE  [Next]_vars
  <2>1. c \in Thread /\ threadID[c] \in Key
    BY DEF TypeInv, AgentTypeOK
  <2>2. QED BY <1>2, <2>1 DEF CreateThread, CreateFails, Register, Next, Call
<1>3. CASE Running /\ TesterStep
  BY <1>3 DEF TesterStep, NextRound, FirstDump, SecondDump, TestReturns, Next, Call
<1>4. CASE ServerStep \/ Network
  BY <1>4 DEF ServerStep, Network, StartupFails, SetUpListener,
     RestartListener, AcceptNext, Accept, AcceptFails
<1>5. ASSUME NEW h \in Handler, Running, HandlerStep(h)
      PROVE  [Next]_vars
  BY <1>5 DEF HandlerStep, ConnHandler, HandlerExits, Next, Call
<1>6. ASSUME NEW t \in Thread, Running, ListStep(t)
      PROVE  [Next]_vars
  BY <1>6 DEF ListStep, Next
<1>7. QED
  BY <1>1, <1>2, <1>3, <1>4, <1>5, <1>6 DEF AgentNext, CreatorStep

\* The agent server implements CCL: it calls only what CCL offers, one call
\* at a time in each thread, and touches the lists in no other way.
THEOREM AgentImplements == AgentSpec => AgentImplementsCCL
<1>1. AgentInit => Init
  BY DEF AgentInit
<1>2. QED
  BY <1>1, AgentCallsCCL, TypeInvariance, PTL DEF AgentSpec, AgentImplementsCCL, Spec

LEMMA AgentListInvariance == AgentSpec => []ListInv
  BY AgentImplements, ListInvariance, PTL DEF AgentImplementsCCL

\* What the list promises any caller it keeps for the agent server: Registry's
\* promise, no write through a node that left its list, counters that balance,
\* and lists that stay as they are once a handler has ended with the lock.
THEOREM AgentKeepsPromise ==
  AgentSpec => /\ KeepsPromise
               /\ []WritersTouchLiveNodes
               /\ []CountersBalance
               /\ FrozenOnceLeaked
<1>1. Spec => /\ KeepsPromise
              /\ []WritersTouchLiveNodes
              /\ []CountersBalance
              /\ FrozenOnceLeaked
  BY PromiseKept, WritersSafe, CountersCorrect, LeakFreezes
<1>2. QED BY <1>1, AgentImplements DEF AgentImplementsCCL

-----------------------------------------------------------------------------
(* Who is in which call: creators add, handlers remove themselves. *)

Adding   == {"AddLock", "AddMalloc", "AddWalk", "AddUnlock"}
Removing == {"RemLock", "RemHead", "RemFreeHead", "RemWalk", "RemFree", "RemUnlock"}

Roles ==
  /\ \A t \in Thread : pc[t] \in Adding =>
       t \in Creator /\ agent[t] = "adding" /\ op[t].key = threadID[t]
  /\ \A t \in Thread : pc[t] \in Removing =>
       t \in Handler /\ handler[t] = "removing" /\ op[t].key = t
  /\ \A c \in Creator : agent[c] \notin {"adding", "dumping", "dumpingAgain"} =>
       pc[c] = "idle"
  /\ \A h \in Handler : handler[h] # "removing" => pc[h] = "idle"

\* The steps inside a call stay in it or return.
LEMMA StepLabels ==
  ASSUME IInv, NEW t \in Thread, Step(t)
  PROVE  /\ \A u \in Thread \ {t} : pc'[u] = pc[u] /\ op'[u] = op[u]
         /\ pc[t] # "idle"
         /\ pc'[t] \in Adding => pc[t] \in Adding /\ op'[t] = op[t]
         /\ pc'[t] \in Removing => pc[t] \in Removing /\ op'[t] = op[t]
<1>1. CASE WalkOn(t) \/ WalkReturns(t) \/ Fault(t)
  <2>1. pc[t] = "Walk" /\ pc'[t] \in {"idle", "Walk", "fault"}
    BY <1>1, OnlyReadersFault DEF IInv, TypeOK, WalkOn, WalkReturns, Fault, Goto
  <2>2. OutsideStep(t)
    BY <1>1, OnlyReadersFault, OutsideSteps DEF IInv
  <2>3. QED BY <2>1, <2>2 DEF OutsideStep, Adding, Removing
<1>2. CASE WriterStep(t)
  <2>1. InsideStep(t)
    BY <1>2, InsideSteps DEF IInv
  <2>2. CASE AddLock(t) \/ AddMalloc(t) \/ AddWalk(t) \/ AddLink(t)
    BY <2>1, <2>2 DEF IInv, TypeOK, InsideStep, AddLock, AddMalloc, AddWalk, AddLink, Goto,
       Adding, Removing
  <2>3. CASE \/ RemLock(t) \/ RemHeadHit(t) \/ RemHeadMiss(t) \/ RemWalk(t) \/ RemUnlink(t)
             \/ RemFree(t)
    BY <2>1, <2>3 DEF IInv, TypeOK, InsideStep, RemLock, RemHeadHit, RemHeadMiss, RemWalk,
       RemUnlink, RemFree, Goto, Adding, Removing
  <2>4. CASE AddMallocFails(t) \/ AddUnlock(t) \/ RemFreeHead(t) \/ RemNotFound(t) \/ RemUnlock(t)
    BY <2>1, <2>4 DEF IInv, TypeOK, InsideStep, AddMallocFails, AddUnlock, RemFreeHead,
       RemNotFound, RemUnlock, Return, Goto, Adding, Removing
  <2>5. QED BY <1>2, <2>2, <2>3, <2>4 DEF WriterStep
<1>3. QED BY <1>1, <1>2 DEF Step, WriterStep

LEMMA NextRoles ==
  ASSUME TypeInv, IInv, Roles, [AgentNext]_allVars
  PROVE  Roles'
<1> USE AgentAssumption DEF Creator
<1>t. /\ pc \in [Thread -> Label] /\ op \in [Thread -> Calls \cup {Null}]
      /\ agent \in [Creator -> {"startup", "create", "register", "adding", "dump",
                     "dumping", "dumpingAgain", "accept", "restart", "returned"}]
      /\ handler \in [Handler -> {"none", "running", "removing", "exited"}]
  BY DEF IInv, TypeOK, TypeInv, AgentTypeOK
<1>1. CASE UNCHANGED allVars
  BY <1>1 DEF allVars, vars, agentVars, Roles
<1>2. ASSUME NEW c \in Creator, CreateThread(c)
      PROVE  Roles'
  BY <1>2, <1>t DEF Roles, CreateThread, AgentGoto, vars, Adding, Removing
<1>3. ASSUME NEW c \in Creator, CreateFails(c)
      PROVE  Roles'
  BY <1>3, <1>t DEF Roles, CreateFails, AgentGoto, vars, Adding, Removing
<1>4. ASSUME NEW c \in Creator, Register(c)
      PROVE  Roles'
  BY <1>4, <1>t DEF Roles, Register, AddThread, BeginAdd, Goto, AgentGoto, Adding, Removing
<1>5. CASE NextRound \/ TestReturns
  BY <1>5, <1>t DEF Roles, NextRound, TestReturns, AgentGoto, vars, Adding, Removing
<1>6. CASE FirstDump \/ SecondDump
  BY <1>6, <1>t DEF Roles, FirstDump, SecondDump, DumpList, BeginWalk, Goto, AgentGoto,
     Adding, Removing
<1>7. CASE ServerStep \/ Network
  <2>1. CASE RestartListener
    <3>1. /\ agent[Server] = "restart" /\ agent' = [agent EXCEPT ![Server] = "accept"]
          /\ \A c \in Creator : c # Server => threadID'[c] = threadID[c]
          /\ UNCHANGED <<pc, op, handler>>
      BY <2>1 DEF RestartListener, AgentGoto, vars, locals, TypeInv, AgentTypeOK
    <3>2. pc[Server] = "idle"
      BY <3>1 DEF Roles
    <3>3. QED BY <1>t, <3>1, <3>2 DEF Roles, Adding, Removing
  <2>2. CASE ~RestartListener
    BY <1>7, <2>2, <1>t DEF Roles, ServerStep, Network, StartupFails, SetUpListener,
       AcceptNext, Accept, AcceptFails, AgentGoto, vars, Adding, Removing
  <2>3. QED BY <2>1, <2>2
<1>8. ASSUME NEW h \in Handler, ConnHandler(h)
      PROVE  Roles'
  BY <1>8, <1>t DEF Roles, ConnHandler, RemoveThread, BeginRemove, Goto, Adding, Removing
<1>9. ASSUME NEW h \in Handler, HandlerExits(h)
      PROVE  Roles'
  BY <1>9, <1>t DEF Roles, HandlerExits, vars, Adding, Removing
<1>10. ASSUME NEW t \in Thread, ListStep(t)
       PROVE  Roles'
  <2>1. /\ \A u \in Thread \ {t} : pc'[u] = pc[u] /\ op'[u] = op[u]
        /\ pc[t] # "idle"
        /\ pc'[t] \in Adding => pc[t] \in Adding /\ op'[t] = op[t]
        /\ pc'[t] \in Removing => pc[t] \in Removing /\ op'[t] = op[t]
    BY <1>10, StepLabels DEF ListStep
  <2>2. agent' = agent /\ handler' = handler /\ threadID' = threadID
    BY <1>10 DEF ListStep, agentVars
  <2>3. QED BY <2>1, <2>2 DEF Roles
<1>11. QED
  BY <1>1, <1>2, <1>3, <1>4, <1>5, <1>6, <1>7, <1>8, <1>9, <1>10
     DEF AgentNext, CreatorStep, TesterStep, HandlerStep

LEMMA InitRoles == AgentInit => Roles
  BY AgentAssumption DEF AgentInit, Init, Roles, Adding, Removing, Creator

-----------------------------------------------------------------------------
(* The first node of the list.  From here on the steps of the list are taken *)
(* as what Registry says of them.                                            *)

SentinelInv ==
  /\ head["thread"] = Sentinel["thread"]
  /\ Name[Sentinel["thread"]] = ZeroKey
  /\ \A t \in Thread : Kind[t] # "losing"

LEMMA SentinelLinked ==
  ASSUME IInv, SentinelInv
  PROVE  Sentinel["thread"] \in Node /\ Where[Sentinel["thread"]] = "thread"
<1>1. Sentinel["thread"] \in Node /\ "thread" \in Lists
  BY CCLAssumption, AgentAssumption
<1>2. place[Sentinel["thread"]] = "thread"
  BY <1>1, CCLAssumption DEF IInv, ListsWellLinked, SentinelInv
<1>3. QED BY <1>1, <1>2 DEF Where, Linked

\* What a call that is under way is about.
LEMMA RequestRoles ==
  ASSUME IInv, Roles, NEW t \in Thread
  PROVE  /\ Kind[t] # "idle" => Arg[t].list = "thread" /\ Arg[t] = op[t]
         /\ Kind[t] = "add" => t \in Creator /\ agent[t] = "adding" /\ Arg[t].key = threadID[t]
         /\ Kind[t] = "remove" => t \in Handler /\ handler[t] = "removing" /\ Arg[t].key = t
<1>1. Kind[t] = Requested(t) /\ (Kind[t] # "idle" => Arg[t] = op[t])
  BY DEF Kind, Arg
<1>2. Kind[t] # "idle" => op[t] \in Calls
  BY <1>1 DEF IInv, TypeOK, Requested, Inside
<1>3. Kind[t] # "idle" => op[t].list = "thread"
  BY <1>2, AgentAssumption DEF Calls
<1>4. Kind[t] = "add" => pc[t] \in Adding
  BY <1>1 DEF Requested, Adding
<1>5. Kind[t] = "remove" => pc[t] \in Removing
  BY <1>1 DEF Requested, Removing
<1>6. QED BY <1>1, <1>3, <1>4, <1>5 DEF Roles

\* One step of the list, as the agent server sees it.
Linking(t) ==
  /\ Kind[t] = "add" /\ Kind' = [Kind EXCEPT ![t] = "done"]
  /\ \E e \in Node : /\ Where[e] = "out"
                     /\ Where' = [Where EXCEPT ![e] = "thread"]
                     /\ Name'  = [Name  EXCEPT ![e] = threadID[t]]

Unlinking(t) ==
  /\ Kind[t] = "remove" /\ Kind' = [Kind EXCEPT ![t] = "done"]
  /\ \E e \in Node : /\ Where[e] = "thread" /\ Name[e] = t
                     /\ e # head["thread"]
                     /\ Where' = [Where EXCEPT ![e] = "out"]
                     /\ Name'  = [Name  EXCEPT ![e] = Null]

Asking(t) ==
  /\ Kind[t] = "idle"
  /\ Kind' = [Kind EXCEPT ![t] = "add"] \/ Kind' = [Kind EXCEPT ![t] = "remove"]

\* Its call returns; only a loser returns before its request was met.
Leaving(t) ==
  /\ Kind' = [Kind EXCEPT ![t] = "idle"]
  /\ Kind[t] = "done" \/ Leaked'

LEMMA SeenSteps ==
  ASSUME ListInv, Roles, SentinelInv, [Next]_vars
  PROVE  /\ head' = head
         /\ Leaked => Leaked'
         /\ \/ \E t \in Thread : Linking(t) \/ Unlinking(t)
            \/ /\ UNCHANGED <<Where, Name>>
               /\ \/ \E t \in Thread : Asking(t)
                  \/ \E t \in Thread : Leaving(t)
                  \/ UNCHANGED Kind
<1>1. IInv
  BY DEF ListInv
<1>2. CASE UNCHANGED Promise!vars
  BY <1>2 DEF Promise!vars, Where, Name, Kind
<1>3. ASSUME NEW t \in Thread, Promise!Ask(t)
      PROVE  head' = head /\ Leaked' = Leaked /\ UNCHANGED <<Where, Name>> /\ Asking(t)
  BY <1>3 DEF Promise!Ask, Promise!Become, Asking, Where, Name, Kind
<1>4. ASSUME NEW t \in Thread, Promise!Add(t)
      PROVE  head' = head /\ Leaked' = Leaked /\ Linking(t)
  <2>1. /\ Kind[t] = "add" /\ Kind' = [Kind EXCEPT ![t] = "done"]
        /\ \E e \in Node : /\ Where[e] = "out"
                           /\ Where' = [Where EXCEPT ![e] = Arg[t].list]
                           /\ Name'  = [Name  EXCEPT ![e] = Arg[t].key]
        /\ head' = head /\ Leaked' = Leaked
    BY <1>4 DEF Promise!Add, Promise!Become, Where, Name, Kind, Arg
  <2>2. QED BY <1>1, <2>1, RequestRoles DEF Linking
<1>5. ASSUME NEW t \in Thread, Promise!Remove(t)
      PROVE  head' = head /\ Leaked' = Leaked /\ Unlinking(t)
  <2>1. /\ Kind[t] = "remove" /\ Kind' = [Kind EXCEPT ![t] = "done"]
        /\ \E e \in Node : /\ Where[e] = Arg[t].list /\ Name[e] = Arg[t].key
                           /\ e # head[Arg[t].list]
                           /\ Where' = [Where EXCEPT ![e] = "out"]
                           /\ Name'  = [Name  EXCEPT ![e] = Null]
        /\ head' = head /\ Leaked' = Leaked
    BY <1>5 DEF Promise!Remove, Promise!Become, Promise!Named, Promise!TakeOut,
       Where, Name, Kind, Arg
  <2>2. QED BY <1>1, <2>1, RequestRoles DEF Unlinking
<1>6. ASSUME NEW t \in Thread, Promise!RemoveFirst(t)
      PROVE  FALSE
  <2>1. Kind[t] = "remove" /\ Name[head[Arg[t].list]] = Arg[t].key
    BY <1>6 DEF Promise!RemoveFirst, Promise!Named, Where, Name, Kind, Arg
  <2>2. QED BY <1>1, <2>1, RequestRoles, AgentAssumption DEF SentinelInv
<1>7. ASSUME NEW t \in Thread, Promise!Lose(t)
      PROVE  head' = head /\ Leaked' /\ UNCHANGED <<Where, Name>> /\ Leaving(t)
  BY <1>7 DEF Promise!Lose, Promise!Leave, Promise!Become, Leaving, Where, Name, Kind
<1>8. ASSUME NEW t \in Thread, Promise!Return(t)
      PROVE  head' = head /\ Leaked' = Leaked /\ UNCHANGED <<Where, Name>> /\ Leaving(t)
  BY <1>8 DEF Promise!Return, Promise!Leave, Promise!Become, Leaving, Where, Name, Kind
<1>9. QED
  BY NextPromise, <1>2, <1>3, <1>4, <1>5, <1>6, <1>7, <1>8 DEF Promise!Next

LEMMA NextSentinelInv ==
  ASSUME ListInv, Roles, SentinelInv, [Next]_vars
  PROVE  SentinelInv'
<1>1. Sentinel["thread"] \in Node /\ Where[Sentinel["thread"]] = "thread"
  BY SentinelLinked DEF ListInv
<1>2. Name \in [Node -> Key \cup {Null}] /\ DOMAIN Kind = Thread /\ DOMAIN Kind' = Thread
  BY DEF ListInv, IInv, TypeOK, Name, Kind
<1>3. "out" # "thread" /\ head' = head
  BY SeenSteps
<1>4. ASSUME NEW t \in Thread, Linking(t) \/ Unlinking(t)
      PROVE  SentinelInv'
  BY <1>1, <1>2, <1>3, <1>4 DEF Linking, Unlinking, SentinelInv
<1>5. ASSUME NEW t \in Thread, UNCHANGED Name, Asking(t) \/ Leaving(t)
      PROVE  SentinelInv'
  BY <1>2, <1>3, <1>5 DEF SentinelInv, Asking, Leaving
<1>6. CASE UNCHANGED Name /\ UNCHANGED Kind
  BY <1>3, <1>6 DEF SentinelInv
<1>7. QED BY SeenSteps, <1>4, <1>5, <1>6

LEMMA InitSentinelInv == AgentInit => SentinelInv
<1>1. Init => Name[Sentinel["thread"]] = ZeroKey
  BY CCLAssumption, AgentAssumption DEF Init, Name, Linked
<1>2. QED BY <1>1, AgentAssumption DEF AgentInit, Init, SentinelInv, Kind, Requested

AgentInv == TypeInv /\ ListInv /\ Roles /\ SentinelInv

LEMMA NextAgentInv == AgentInv /\ [AgentNext]_allVars => AgentInv'
  BY NextTypeInv, AgentCallsCCL, NextListInv, NextRoles, NextSentinelInv DEF AgentInv, ListInv

LEMMA AgentInvariance == AgentSpec => []AgentInv
<1>1. AgentSpec => [](TypeInv /\ ListInv)
  BY TypeInvariance, AgentListInvariance, PTL
<1>2. AgentInit => Roles /\ SentinelInv
  BY InitRoles, InitSentinelInv
<1>3. TypeInv /\ ListInv /\ Roles /\ SentinelInv /\ [AgentNext]_allVars => Roles' /\ SentinelInv'
  BY NextAgentInv DEF AgentInv
<1>4. QED BY <1>1, <1>2, <1>3, PTL DEF AgentSpec, AgentInv

\* Nothing ever takes the constructor's node off the thread list.
THEOREM SentinelRemains == AgentSpec => []SentinelStays
  BY AgentInvariance, PTL DEF AgentInv, SentinelInv, SentinelStays

-----------------------------------------------------------------------------
(* A handle that is neither asked for nor listed can not come back: handles *)
(* are given to a creator once, and each creator registers its own once.    *)

Entries(h) == {n \in Node : Where[n] = "thread" /\ Name[n] = h}
Pending(c, h) == threadID[c] = h /\ (agent[c] = "register" \/ Kind[c] = "add")

\* Nobody will register h, or it has done its part of being taken off.
Gone(h) ==
  \/ handler[h] \in {"none", "exited"}
  \/ handler[h] = "removing" /\ Kind[h] \in {"done", "idle"}

OneClaim(h) ==
  /\ \A c, d \in Creator : Pending(c, h) /\ Pending(d, h) => c = d
  /\ \A c \in Creator : Pending(c, h) => Entries(h) = {}
  /\ \A n, m \in Entries(h) : n = m
  /\ Gone(h) => Entries(h) = {} /\ \A c \in Creator : ~Pending(c, h)

ClaimInv == failures = 0 /\ ~Leaked => \A h \in Handler : OneClaim(h)

\* A step that leaves the list and everyone's place in it as they were.
LEMMA ClaimUnchanged ==
  ASSUME NEW h \in Handler, OneClaim(h), UNCHANGED <<Where, Name>>,
         \A c \in Creator : Pending(c, h)' => Pending(c, h),
         Gone(h)' => Gone(h) \/ (Entries(h) = {} /\ \A c \in Creator : ~Pending(c, h)')
  PROVE  OneClaim(h)'
  BY DEF OneClaim, Entries

LEMMA NextClaimInv ==
  ASSUME AgentInv, ClaimInv, [AgentNext]_allVars
  PROVE  ClaimInv'
<1> USE AgentAssumption DEF Creator
<1>1. ListInv /\ Roles /\ SentinelInv /\ [Next]_vars /\ IInv
  BY AgentCallsCCL DEF AgentInv, ListInv
<1>2. failures' = 0 => failures = 0 /\ \A c \in Creator : ~CreateFails(c)
  BY HandleSteps DEF AgentInv, TypeInv, AgentTypeOK, CreateFails
<1> SUFFICES ASSUME failures = 0, ~Leaked, ~Leaked', \A c \in Creator : ~CreateFails(c),
                    NEW h \in Handler
             PROVE  OneClaim(h)'
  BY <1>1, <1>2, SeenSteps DEF ClaimInv
<1>c. OneClaim(h)
  BY DEF ClaimInv
<1>t. /\ agent \in [Creator -> {"startup", "create", "register", "adding", "dump",
                     "dumping", "dumpingAgain", "accept", "restart", "returned"}]
      /\ handler \in [Handler -> {"none", "running", "removing", "exited"}]
      /\ threadID \in [Creator -> Key]
      /\ DOMAIN Kind = Thread /\ DOMAIN Kind' = Thread
      /\ DOMAIN Where = Node /\ DOMAIN Name = Node
  BY DEF AgentInv, TypeInv, AgentTypeOK, Kind, Where, Name
<1>k. \A t \in Thread : pc[t] = "idle" => Kind[t] = "idle"
  BY DEF Kind, Requested
<1>3. CASE UNCHANGED <<Where, Name, Kind, agent, threadID, handler>>
  BY <1>3, <1>c, ClaimUnchanged DEF Pending, Gone
<1>4. ASSUME NEW c \in Creator, CreateThread(c)
      PROVE  OneClaim(h)'
  <2>1. UNCHANGED <<Where, Name, Kind>>
    BY <1>4 DEF CreateThread, vars, Where, Name, Kind, Linked, Requested
  <2>2. Kind[c] = "idle"
    BY <1>1, <1>4, <1>k DEF CreateThread, Roles
  <2>3. PICK g \in Handler :
          /\ handler[g] = "none" /\ handler' = [handler EXCEPT ![g] = "running"]
          /\ threadID' = [threadID EXCEPT ![c] = g]
    BY <1>4 DEF CreateThread
  <2>4. agent' = [agent EXCEPT ![c] = "register"]
    BY <1>4 DEF CreateThread, AgentGoto
  <2>5. CASE h = g
    <3>1. Entries(h) = {} /\ \A d \in Creator : ~Pending(d, h)
      BY <1>c, <2>3, <2>5 DEF OneClaim, Gone
    <3>2. Entries(h)' = {} /\ \A d \in Creator : Pending(d, h)' => d = c
      BY <1>t, <2>1, <2>3, <2>4, <3>1 DEF Entries, Pending
    <3>3. ~Gone(h)'
      BY <1>t, <2>3, <2>5 DEF Gone
    <3>4. QED BY <3>2, <3>3 DEF OneClaim
  <2>6. CASE h # g
    <3>1. \A d \in Creator : Pending(d, h)' => Pending(d, h)
      BY <1>t, <2>1, <2>3, <2>4, <2>6 DEF Pending
    <3>2. Gone(h)' => Gone(h)
      BY <1>t, <2>1, <2>3, <2>6 DEF Gone
    <3>3. QED BY <1>c, <2>1, <3>1, <3>2, ClaimUnchanged
  <2>7. QED BY <2>5, <2>6
<1>5. ASSUME NEW c \in Creator, Register(c)
      PROVE  OneClaim(h)'
  <2>1. UNCHANGED <<Where, Name, threadID, handler>>
    BY <1>5 DEF Register, AddThread, BeginAdd, Where, Name, Linked
  <2>2. \A t \in Thread \ {c} : Kind'[t] = Kind[t]
    BY <1>1, <1>5 DEF IInv, TypeOK, Register, AddThread, BeginAdd, Goto, Kind, Requested
  <2>3. agent[c] = "register" /\ agent' = [agent EXCEPT ![c] = "adding"]
    BY <1>5 DEF Register, AgentGoto
  <2>4. \A d \in Creator : Pending(d, h)' => Pending(d, h)
    BY <1>t, <2>1, <2>2, <2>3 DEF Pending
  <2>5. Gone(h)' => Gone(h)
    BY <2>1, <2>2 DEF Gone
  <2>6. QED BY <1>c, <2>1, <2>4, <2>5, ClaimUnchanged
<1>6. CASE TesterStep \/ ServerStep \/ Network
  <2>1. UNCHANGED <<Where, Name, handler>>
    BY <1>6 DEF TesterStep, NextRound, FirstDump, SecondDump, TestReturns, DumpList, BeginWalk,
       ServerStep, Network, StartupFails, SetUpListener, RestartListener, AcceptNext, Accept,
       AcceptFails, vars, Where, Name, Linked
  <2>2. Kind' = Kind
    BY <1>1, <1>6 DEF IInv, TypeOK, TesterStep, NextRound, FirstDump, SecondDump, TestReturns,
       DumpList, BeginWalk, Goto, ServerStep, Network, StartupFails, SetUpListener,
       RestartListener, AcceptNext, Accept, AcceptFails, vars, Kind, Requested
  <2>3. \A c \in Creator : agent'[c] = "register" => agent[c] = "register"
    BY <1>6, <1>t DEF TesterStep, NextRound, FirstDump, SecondDump, TestReturns, AgentGoto,
       ServerStep, Network, StartupFails, SetUpListener, RestartListener, AcceptNext, Accept,
       AcceptFails
  <2>4. \A c \in Creator : Pending(c, h)' => Pending(c, h)
    <3>1. \A c \in Creator : threadID'[c] = h => threadID[c] = h
      BY <1>6, LoopsKeepHandles DEF AgentInv
    <3>2. QED BY <2>2, <2>3, <3>1 DEF Pending
  <2>5. Gone(h)' => Gone(h)
    BY <2>1, <2>2 DEF Gone
  <2>6. QED BY <1>c, <2>1, <2>4, <2>5, ClaimUnchanged
<1>7. ASSUME NEW g \in Handler, ConnHandler(g)
      PROVE  OneClaim(h)'
  <2>1. UNCHANGED <<Where, Name, threadID, agent>>
    BY <1>7 DEF ConnHandler, RemoveThread, BeginRemove, Where, Name, Linked
  <2>2. Kind'[g] = "remove" /\ \A t \in Thread \ {g} : Kind'[t] = Kind[t]
    BY <1>1, <1>7 DEF IInv, TypeOK, ConnHandler, RemoveThread, BeginRemove, Goto, Kind, Requested
  <2>3. handler' = [handler EXCEPT ![g] = "removing"]
    BY <1>7 DEF ConnHandler
  <2>4. \A c \in Creator : Pending(c, h)' => Pending(c, h)
    BY <2>1, <2>2 DEF Pending
  <2>5. Gone(h)' => Gone(h)
    BY <1>t, <2>2, <2>3 DEF Gone
  <2>6. QED BY <1>c, <2>1, <2>4, <2>5, ClaimUnchanged
<1>8. ASSUME NEW g \in Handler, HandlerExits(g)
      PROVE  OneClaim(h)'
  <2>1. UNCHANGED <<Where, Name, Kind, threadID, agent>>
    BY <1>8 DEF HandlerExits, vars, Where, Name, Kind, Linked, Requested
  <2>2. handler[g] = "removing" /\ Kind[g] = "idle" /\ handler' = [handler EXCEPT ![g] = "exited"]
    BY <1>8, <1>k DEF HandlerExits
  <2>3. Gone(h)' => Gone(h)
    BY <1>t, <2>1, <2>2 DEF Gone
  <2>4. QED BY <1>c, <2>1, <2>3, ClaimUnchanged DEF Pending
<1>9. ASSUME NEW u \in Thread, ListStep(u)
      PROVE  OneClaim(h)'
  <2>1. UNCHANGED <<agent, threadID, handler>>
    BY <1>9 DEF ListStep, agentVars
  <2>2. ASSUME NEW t \in Thread, Linking(t)
        PROVE  OneClaim(h)'
    <3>1. t \in Creator /\ agent[t] = "adding" /\ Pending(t, threadID[t])
      BY <1>1, <2>2, RequestRoles DEF Linking, Pending
    <3>2. PICK e \in Node : /\ Where[e] = "out"
                            /\ Where' = [Where EXCEPT ![e] = "thread"]
                            /\ Name'  = [Name  EXCEPT ![e] = threadID[t]]
      BY <2>2 DEF Linking
    <3>3. Kind[t] = "add" /\ Kind' = [Kind EXCEPT ![t] = "done"]
      BY <2>2 DEF Linking
    <3>4. \A c \in Creator : Pending(c, h)' => Pending(c, h) /\ c # t
      BY <1>t, <2>1, <3>1, <3>3 DEF Pending
    <3>5. Gone(h)' => Gone(h)
      BY <1>t, <2>1, <3>1, <3>3 DEF Gone
    <3>6. CASE h = threadID[t]
      <4>1. Entries(h) = {} /\ ~Gone(h) /\ \A c \in Creator : Pending(c, h) => c = t
        BY <1>c, <3>1, <3>6 DEF OneClaim
      <4>2. \A n \in Entries(h)' : n = e
        BY <1>t, <3>2, <4>1 DEF Entries
      <4>3. QED BY <3>4, <3>5, <4>1, <4>2 DEF OneClaim
    <3>7. CASE h # threadID[t]
      <4>1. Entries(h)' = Entries(h)
        BY <1>t, <3>2, <3>7 DEF Entries
      <4>2. QED BY <1>c, <3>4, <3>5, <4>1 DEF OneClaim
    <3>8. QED BY <3>6, <3>7
  <2>3. ASSUME NEW t \in Thread, Unlinking(t)
        PROVE  OneClaim(h)'
    <3>1. t \in Handler /\ handler[t] = "removing"
      BY <1>1, <2>3, RequestRoles DEF Unlinking
    <3>2. PICK e \in Node : /\ Where[e] = "thread" /\ Name[e] = t
                            /\ Where' = [Where EXCEPT ![e] = "out"]
                            /\ Name'  = [Name  EXCEPT ![e] = Null]
      BY <2>3 DEF Unlinking
    <3>3. Kind' = [Kind EXCEPT ![t] = "done"]
      BY <2>3 DEF Unlinking
    <3>4. \A c \in Creator : Pending(c, h)' => Pending(c, h)
      BY <1>t, <2>1, <3>1, <3>3 DEF Pending
    <3>5. Entries(h)' = Entries(h) \ {e}
      BY <1>t, <3>2 DEF Entries
    <3>6. CASE h = t
      <4>1. e \in Entries(h)
        BY <3>2, <3>6 DEF Entries
      <4>2. Entries(h)' = {} /\ \A c \in Creator : ~Pending(c, h)
        BY <1>c, <3>5, <4>1 DEF OneClaim
      <4>3. QED BY <3>4, <4>2 DEF OneClaim
    <3>7. CASE h # t
      <4>1. Gone(h)' => Gone(h)
        BY <1>t, <2>1, <3>3, <3>7 DEF Gone
      <4>2. QED BY <1>c, <3>4, <3>5, <4>1 DEF OneClaim
    <3>8. QED BY <3>6, <3>7
  <2>4. ASSUME NEW t \in Thread, UNCHANGED <<Where, Name>>, Asking(t)
        PROVE  OneClaim(h)'
    <3>1. Step(u) /\ Kind[t] = "idle" /\ Kind'[t] \in {"add", "remove"}
      BY <1>9, <1>t, <2>4 DEF ListStep, Asking
    <3>2. pc'[t] \in Adding \cup Removing
      BY <3>1 DEF Kind, Requested, Adding, Removing
    <3>3. pc[t] \in Adding \cup Removing
      BY <1>1, <3>1, <3>2, StepLabels DEF Adding, Removing
    <3>4. Kind[t] # "idle"
      BY <3>3 DEF Kind, Requested, Adding, Removing
    <3>5. QED BY <3>1, <3>4
  <2>5. ASSUME NEW t \in Thread, UNCHANGED <<Where, Name>>, Leaving(t)
        PROVE  OneClaim(h)'
    <3>1. Kind[t] = "done" /\ Kind' = [Kind EXCEPT ![t] = "idle"]
      BY <2>5 DEF Leaving
    <3>2. \A c \in Creator : Pending(c, h)' => Pending(c, h)
      BY <1>t, <2>1, <3>1 DEF Pending
    <3>3. Gone(h)' => Gone(h)
      BY <1>t, <2>1, <3>1 DEF Gone
    <3>4. QED BY <1>c, <2>5, <3>2, <3>3, ClaimUnchanged
  <2>6. QED BY <1>1, <1>3, <2>1, <2>2, <2>3, <2>4, <2>5, SeenSteps
<1>10. CASE UNCHANGED allVars
  <2>1. UNCHANGED <<Where, Name, Kind, agent, threadID, handler>>
    BY <1>10 DEF allVars, vars, agentVars, Where, Name, Kind, Linked, Requested
  <2>2. QED BY <1>3, <2>1
<1>11. QED
  BY <1>4, <1>5, <1>6, <1>7, <1>8, <1>9, <1>10 DEF AgentNext, CreatorStep, HandlerStep

LEMMA InitClaimInv == AgentInit => ClaimInv
<1> SUFFICES ASSUME AgentInit, NEW h \in Handler PROVE OneClaim(h)
  BY DEF ClaimInv
<1>1. Entries(h) = {}
  BY CCLAssumption, AgentAssumption DEF AgentInit, Init, Entries, Where, Name, Linked
<1>2. \A c \in Creator : ~Pending(c, h)
  BY AgentAssumption DEF AgentInit, Init, Pending, Kind, Requested, Creator
<1>3. QED BY <1>1, <1>2 DEF OneClaim

LEMMA ListedHasEntry ==
  ASSUME NEW h, Listed(h)
  PROVE  Entries(h) # {}
  BY AgentAssumption DEF Listed, Entries, Where, Name, Linked

\* As long as the lock was not lost and no thread failed to start, the list
\* names no handler that has ended, however creators and handlers interleave.
THEOREM RegistryIsExact == AgentSpec => []RegistryExact
<1>1. ClaimInv => RegistryExact
  BY ListedHasEntry DEF ClaimInv, OneClaim, Gone, RegistryExact
<1>2. QED BY <1>1, AgentInvariance, InitClaimInv, NextClaimInv, PTL DEF AgentSpec

-----------------------------------------------------------------------------
(* How often a handle is on the list or about to be put on it. *)

Claimants(h) == {c \in Creator : Pending(c, h)}
Claims(h) == Cardinality(Entries(h)) + Cardinality(Claimants(h))

\* Each failed pthread_create adds one claim to the handle left in ThreadID,
\* and a handle that was never made is in nobody's ThreadID.
FewClaims(h) ==
  /\ IsFiniteSet(Entries(h))
  /\ Claims(h) <= 1 + failures
  /\ handler[h] = "none" => Entries(h) = {} /\ \A c \in Creator : threadID[c] # h

FewClaimsInv == \A h \in Handler : FewClaims(h)

LEMMA ClaimantsFinite ==
  \A h : /\ IsFiniteSet(Claimants(h)) /\ Cardinality(Claimants(h)) \in Nat
         /\ IsFiniteSet(Claimants(h)') /\ Cardinality(Claimants(h)') \in Nat
<1>1. IsFiniteSet(Creator)
  <2>1. IsFiniteSet({Tester} \cup {Server})
    BY FS_Singleton, FS_AddElement
  <2>2. Creator = {Tester} \cup {Server}
    BY DEF Creator
  <2>3. QED BY <2>1, <2>2
<1>2. \A h : Claimants(h) \subseteq Creator /\ Claimants(h)' \subseteq Creator
  BY DEF Claimants, Creator
<1>3. QED BY <1>1, <1>2, FS_Subset, FS_CardinalityType

\* One more element is at most one more.
LEMMA AddCounts ==
  ASSUME NEW S, NEW x, IsFiniteSet(S)
  PROVE  IsFiniteSet(S \cup {x}) /\ Cardinality(S \cup {x}) <= Cardinality(S) + 1
<1>1. Cardinality(S) \in Nat
  BY FS_CardinalityType
<1>2. CASE x \in S
  BY <1>1, <1>2, FS_AddElement
<1>3. CASE x \notin S
  BY <1>1, <1>3, FS_AddElement
<1>4. QED BY <1>2, <1>3

\* Claims only grow by a failure.
LEMMA ClaimsKept ==
  ASSUME TypeInv, NEW h \in Handler, FewClaims(h), failures' \in Nat, failures' >= failures,
         Entries(h)' \subseteq Entries(h), Claimants(h)' \subseteq Claimants(h),
         handler'[h] = "none" =>
           handler[h] = "none" /\ \A c \in Creator : threadID'[c] = h => threadID[c] = h
  PROVE  FewClaims(h)'
<1>1. /\ IsFiniteSet(Entries(h)') /\ Cardinality(Entries(h)') <= Cardinality(Entries(h))
      /\ Cardinality(Entries(h)) \in Nat /\ Cardinality(Entries(h)') \in Nat
  BY FS_Subset, FS_CardinalityType DEF FewClaims
<1>2. Cardinality(Claimants(h)') <= Cardinality(Claimants(h))
  BY ClaimantsFinite, FS_Subset
<1>3. failures \in Nat
  BY AgentAssumption DEF TypeInv, AgentTypeOK
<1>4. Claims(h)' <= 1 + failures'
  BY <1>1, <1>2, <1>3, ClaimantsFinite DEF FewClaims, Claims
<1>5. QED BY <1>1, <1>4 DEF FewClaims

LEMMA NextFewClaims ==
  ASSUME AgentInv, FewClaimsInv, [AgentNext]_allVars, NEW h \in Handler
  PROVE  FewClaims(h)'
<1> USE AgentAssumption DEF Creator
<1>1. TypeInv /\ ListInv /\ Roles /\ SentinelInv /\ [Next]_vars /\ IInv
  BY AgentCallsCCL DEF AgentInv, ListInv
<1>c. FewClaims(h)
  BY DEF FewClaimsInv
<1>t. /\ agent \in [Creator -> {"startup", "create", "register", "adding", "dump",
                     "dumping", "dumpingAgain", "accept", "restart", "returned"}]
      /\ handler \in [Handler -> {"none", "running", "removing", "exited"}]
      /\ threadID \in [Creator -> Key]
      /\ failures \in Nat
      /\ DOMAIN Kind = Thread /\ DOMAIN Kind' = Thread
      /\ DOMAIN Where = Node /\ DOMAIN Name = Node
  BY <1>1 DEF TypeInv, AgentTypeOK, Kind, Where, Name
<1>k. \A t \in Thread : pc[t] = "idle" => Kind[t] = "idle"
  BY DEF Kind, Requested
<1>n. handler[h] = "none" => \A c \in Creator : threadID[c] # h
  BY <1>c DEF FewClaims
<1>4. ASSUME NEW c \in Creator, CreateThread(c)
      PROVE  FewClaims(h)'
  <2>1. UNCHANGED <<Where, Name, Kind, failures>>
    BY <1>4 DEF CreateThread, vars, Where, Name, Kind, Linked, Requested
  <2>2. Kind[c] = "idle" /\ ~Pending(c, h)
    BY <1>1, <1>4, <1>k DEF CreateThread, Roles, Pending
  <2>3. PICK g \in Handler :
          /\ handler[g] = "none" /\ handler' = [handler EXCEPT ![g] = "running"]
          /\ threadID' = [threadID EXCEPT ![c] = g]
    BY <1>4 DEF CreateThread
  <2>4. agent' = [agent EXCEPT ![c] = "register"]
    BY <1>4 DEF CreateThread, AgentGoto
  <2>5. CASE h = g
    <3>1. Entries(h)' = {} /\ Claimants(h)' \subseteq {c}
      BY <1>c, <1>t, <2>1, <2>3, <2>4, <2>5 DEF FewClaims, Entries, Claimants, Pending
    <3>2. Cardinality(Claimants(h)') <= 1
      <4>1. IsFiniteSet({c}) /\ Cardinality({c}) = 1
        BY FS_Singleton
      <4>2. Cardinality(Claimants(h)') <= Cardinality({c})
        BY <3>1, <4>1, FS_Subset
      <4>3. QED BY <4>1, <4>2
    <3>3. handler'[h] # "none"
      BY <1>t, <2>3, <2>5
    <3>4. QED
      BY <1>t, <2>1, <3>1, <3>2, <3>3, ClaimantsFinite, FS_EmptySet DEF FewClaims, Claims
  <2>6. CASE h # g
    <3>1. Entries(h)' = Entries(h) /\ Claimants(h)' \subseteq Claimants(h)
      BY <1>t, <2>1, <2>2, <2>3, <2>4, <2>6 DEF Entries, Claimants, Pending
    <3>2. handler'[h] = handler[h] /\ \A d \in Creator : threadID'[d] = h => threadID[d] = h
      BY <1>t, <2>3, <2>6
    <3>3. QED BY <1>1, <1>c, <1>t, <2>1, <3>1, <3>2, ClaimsKept
  <2>7. QED BY <2>5, <2>6
<1>5. ASSUME NEW c \in Creator, CreateFails(c)
      PROVE  FewClaims(h)'
  <2>1. UNCHANGED <<Where, Name, Kind, threadID, handler>> /\ failures' = failures + 1
    BY <1>5 DEF CreateFails, vars, Where, Name, Kind, Linked, Requested
  <2>2. agent' = [agent EXCEPT ![c] = "register"]
    BY <1>5 DEF CreateFails, AgentGoto
  <2>3. Entries(h)' = Entries(h) /\ Claimants(h)' \subseteq Claimants(h) \cup {c}
    BY <1>t, <2>1, <2>2 DEF Entries, Claimants, Pending
  <2>4. Cardinality(Claimants(h)') <= Cardinality(Claimants(h)) + 1
    <3>1. /\ IsFiniteSet(Claimants(h) \cup {c})
          /\ Cardinality(Claimants(h) \cup {c}) <= Cardinality(Claimants(h)) + 1
      <4>1. IsFiniteSet(Claimants(h)) /\ Cardinality(Claimants(h)) \in Nat
        BY ClaimantsFinite
      <4>2. QED BY <4>1, AddCounts
    <3>2. Cardinality(Claimants(h)') <= Cardinality(Claimants(h) \cup {c})
      BY <2>3, <3>1, FS_Subset
    <3>3. Cardinality(Claimants(h) \cup {c}) \in Nat
      BY <3>1, FS_CardinalityType
    <3>4. QED BY <3>1, <3>2, <3>3, ClaimantsFinite
  <2>5. Cardinality(Entries(h)) \in Nat
    BY <1>c, FS_CardinalityType DEF FewClaims
  <2>6. Claims(h)' <= 1 + failures'
    BY <1>c, <1>t, <2>1, <2>3, <2>4, <2>5, ClaimantsFinite DEF FewClaims, Claims
  <2>7. QED BY <1>c, <2>1, <2>3, <2>6 DEF FewClaims
<1>6. ASSUME NEW c \in Creator, Register(c)
      PROVE  FewClaims(h)'
  <2>1. UNCHANGED <<Where, Name, threadID, handler, failures>>
    <3>1. UNCHANGED <<place, key, threadID, handler, failures>>
      BY <1>6 DEF Register, AddThread, BeginAdd
    <3>2. QED BY <3>1 DEF Where, Name, Linked
  <2>2. \A t \in Thread \ {c} : Kind'[t] = Kind[t]
    BY <1>1, <1>6 DEF IInv, TypeOK, Register, AddThread, BeginAdd, Goto, Kind, Requested
  <2>3. agent[c] = "register" /\ agent' = [agent EXCEPT ![c] = "adding"]
    BY <1>6 DEF Register, AgentGoto
  <2>4. Entries(h)' = Entries(h) /\ Claimants(h)' \subseteq Claimants(h)
    BY <1>t, <2>1, <2>2, <2>3 DEF Entries, Claimants, Pending
  <2>5. QED BY <1>1, <1>c, <1>t, <2>1, <2>4, ClaimsKept
<1>7. CASE TesterStep \/ ServerStep \/ Network
  <2>1. UNCHANGED <<Where, Name, handler, failures>>
    <3>1. UNCHANGED <<place, key, handler, failures>>
      BY <1>7 DEF TesterStep, NextRound, FirstDump, SecondDump, TestReturns, DumpList, BeginWalk,
         ServerStep, Network, StartupFails, SetUpListener, RestartListener, AcceptNext, Accept,
         AcceptFails, vars
    <3>2. QED BY <3>1 DEF Where, Name, Linked
  <2>2. Kind' = Kind
    BY <1>1, <1>7 DEF IInv, TypeOK, TesterStep, NextRound, FirstDump, SecondDump, TestReturns,
       DumpList, BeginWalk, Goto, ServerStep, Network, StartupFails, SetUpListener,
       RestartListener, AcceptNext, Accept, AcceptFails, vars, Kind, Requested
  <2>3. \A c \in Creator : agent'[c] = "register" => agent[c] = "register"
    BY <1>7, <1>t DEF TesterStep, NextRound, FirstDump, SecondDump, TestReturns, AgentGoto,
       ServerStep, Network, StartupFails, SetUpListener, RestartListener, AcceptNext, Accept,
       AcceptFails
  <2>4. \A c \in Creator : threadID'[c] = h => threadID[c] = h
    BY <1>1, <1>7, LoopsKeepHandles
  <2>5. Entries(h)' = Entries(h) /\ Claimants(h)' \subseteq Claimants(h)
    BY <2>1, <2>2, <2>3, <2>4 DEF Entries, Claimants, Pending
  <2>6. QED BY <1>1, <1>c, <1>t, <2>1, <2>4, <2>5, ClaimsKept
<1>8. ASSUME NEW g \in Handler, HandlerStep(g)
      PROVE  FewClaims(h)'
  <2>1. UNCHANGED <<Where, Name, threadID, agent, failures>>
    <3>1. UNCHANGED <<place, key, threadID, agent, failures>>
      BY <1>8 DEF HandlerStep, ConnHandler, RemoveThread, BeginRemove, HandlerExits, vars
    <3>2. QED BY <3>1 DEF Where, Name, Linked
  <2>2. \A c \in Creator : Kind'[c] = Kind[c]
    BY <1>1, <1>8 DEF IInv, TypeOK, HandlerStep, ConnHandler, RemoveThread, BeginRemove,
       HandlerExits, vars, Goto, Kind, Requested
  <2>3. handler'[h] = "none" => handler[h] = "none"
    BY <1>8, <1>t DEF HandlerStep, ConnHandler, HandlerExits
  <2>4. Entries(h)' = Entries(h) /\ Claimants(h)' \subseteq Claimants(h)
    BY <2>1, <2>2 DEF Entries, Claimants, Pending
  <2>5. QED BY <1>1, <1>c, <1>t, <2>1, <2>3, <2>4, ClaimsKept
<1>9. ASSUME NEW u \in Thread, ListStep(u)
      PROVE  FewClaims(h)'
  <2>1. UNCHANGED <<agent, threadID, handler, failures>>
    BY <1>9 DEF ListStep, agentVars
  <2>2. ASSUME NEW t \in Thread, Linking(t)
        PROVE  FewClaims(h)'
    <3>1. t \in Creator /\ agent[t] = "adding" /\ Pending(t, threadID[t])
      BY <1>1, <2>2, RequestRoles DEF Linking, Pending
    <3>2. PICK e \in Node : /\ Where[e] = "out"
                            /\ Where' = [Where EXCEPT ![e] = "thread"]
                            /\ Name'  = [Name  EXCEPT ![e] = threadID[t]]
      BY <2>2 DEF Linking
    <3>3. Kind[t] = "add" /\ Kind' = [Kind EXCEPT ![t] = "done"]
      BY <2>2 DEF Linking
    <3>4. Claimants(h)' \subseteq Claimants(h) \ {t}
      BY <1>t, <2>1, <3>1, <3>3 DEF Claimants, Pending
    <3>5. CASE h = threadID[t]
      <4>1. Entries(h)' = Entries(h) \cup {e} /\ t \in Claimants(h)
        BY <1>t, <3>1, <3>2, <3>5 DEF Entries, Claimants
      <4>2. /\ IsFiniteSet(Entries(h)') /\ Cardinality(Entries(h)') \in Nat
            /\ Cardinality(Entries(h)') <= Cardinality(Entries(h)) + 1
            /\ Cardinality(Entries(h)) \in Nat
        <5>1. IsFiniteSet(Entries(h)) /\ Cardinality(Entries(h)) \in Nat
          BY <1>c, FS_CardinalityType DEF FewClaims
        <5>2. IsFiniteSet(Entries(h) \cup {e})
              /\ Cardinality(Entries(h) \cup {e}) <= Cardinality(Entries(h)) + 1
          BY <5>1, AddCounts
        <5>3. QED BY <4>1, <5>1, <5>2, FS_CardinalityType
      <4>3. Cardinality(Claimants(h)') <= Cardinality(Claimants(h)) - 1
        <5>1. /\ IsFiniteSet(Claimants(h) \ {t})
              /\ Cardinality(Claimants(h) \ {t}) = Cardinality(Claimants(h)) - 1
          BY <4>1, ClaimantsFinite, FS_RemoveElement
        <5>2. QED BY <3>4, <5>1, FS_Subset
      <4>4. Claims(h)' <= 1 + failures'
        BY <1>c, <1>t, <2>1, <4>2, <4>3, ClaimantsFinite DEF FewClaims, Claims
      <4>5. handler'[h] # "none"
        BY <1>n, <2>1, <3>1, <3>5
      <4>6. QED BY <4>2, <4>4, <4>5 DEF FewClaims
    <3>6. CASE h # threadID[t]
      <4>1. Entries(h)' = Entries(h)
        BY <1>t, <3>2, <3>6 DEF Entries
      <4>2. QED BY <1>1, <1>c, <1>t, <2>1, <3>4, <4>1, ClaimsKept
    <3>7. QED BY <3>5, <3>6
  <2>3. ASSUME NEW t \in Thread, Unlinking(t)
        PROVE  FewClaims(h)'
    <3>1. Entries(h)' \subseteq Entries(h)
      BY <1>t, <2>3 DEF Unlinking, Entries
    <3>2. Claimants(h)' \subseteq Claimants(h)
      BY <1>t, <2>1, <2>3 DEF Unlinking, Claimants, Pending
    <3>3. QED BY <1>1, <1>c, <1>t, <2>1, <3>1, <3>2, ClaimsKept
  <2>4. ASSUME NEW t \in Thread, UNCHANGED <<Where, Name>>, Asking(t)
        PROVE  FewClaims(h)'
    <3>1. Step(u) /\ Kind[t] = "idle" /\ Kind'[t] \in {"add", "remove"}
      BY <1>9, <1>t, <2>4 DEF ListStep, Asking
    <3>2. pc'[t] \in Adding \cup Removing
      BY <3>1 DEF Kind, Requested, Adding, Removing
    <3>3. pc[t] \in Adding \cup Removing
      BY <1>1, <3>1, <3>2, StepLabels DEF Adding, Removing
    <3>4. Kind[t] # "idle"
      BY <3>3 DEF Kind, Requested, Adding, Removing
    <3>5. QED BY <3>1, <3>4
  <2>5. CASE UNCHANGED <<Where, Name>> /\
             (UNCHANGED Kind \/ \E t \in Thread : Leaving(t))
    <3>1. Entries(h)' = Entries(h) /\ Claimants(h)' \subseteq Claimants(h)
      BY <1>t, <2>1, <2>5 DEF Leaving, Entries, Claimants, Pending
    <3>2. QED BY <1>1, <1>c, <1>t, <2>1, <3>1, ClaimsKept
  <2>6. QED BY <1>1, <2>2, <2>3, <2>4, <2>5, SeenSteps
<1>10. CASE UNCHANGED allVars
  <2>1. UNCHANGED <<Where, Name, Kind, agent, threadID, handler, failures>>
    BY <1>10 DEF allVars, vars, agentVars, Where, Name, Kind, Linked, Requested
  <2>2. Entries(h)' = Entries(h) /\ Claimants(h)' = Claimants(h)
    BY <2>1 DEF Entries, Claimants, Pending
  <2>3. QED BY <1>1, <1>c, <1>t, <2>1, <2>2, ClaimsKept
<1>11. QED
  BY <1>4, <1>5, <1>6, <1>7, <1>8, <1>9, <1>10 DEF AgentNext, CreatorStep

LEMMA InitFewClaims == AgentInit => FewClaimsInv
<1> SUFFICES ASSUME AgentInit, NEW h \in Handler PROVE FewClaims(h)
  BY DEF FewClaimsInv
<1>1. Entries(h) = {}
  BY CCLAssumption, AgentAssumption DEF AgentInit, Init, Entries, Where, Name, Linked
<1>2. \A c \in Creator : threadID[c] # h
  BY AgentAssumption DEF AgentInit, Creator
<1>3. Claimants(h) = {}
  BY <1>2 DEF Claimants, Pending
<1>4. QED BY <1>1, <1>2, <1>3, FS_EmptySet DEF FewClaims, Claims, AgentInit

\* A handle is on the list at most once, and once more for each time that a
\* failed pthread_create left it in ThreadID to be registered again.
THEOREM RegisteredAtMostOnce == AgentSpec => []RegisteredOnce
<1>1. ASSUME AgentInv, FewClaimsInv PROVE RegisteredOnce
  <2> DEFINE Named(h) == {n \in Node : place[n] = "thread" /\ key[n] = h}
  <2> SUFFICES ASSUME NEW h \in Handler PROVE Cardinality(Named(h)) <= 1 + failures
    BY DEF RegisteredOnce
  <2>1. Named(h) = Entries(h)
    BY AgentAssumption, CCLAssumption DEF Entries, Where, Name, Linked
  <2> HIDE DEF Named
  <2>2. IsFiniteSet(Entries(h)) /\ Claims(h) <= 1 + failures /\ failures \in Nat
    BY <1>1, AgentAssumption DEF FewClaimsInv, FewClaims, AgentInv, TypeInv, AgentTypeOK
  <2>3. Cardinality(Entries(h)) \in Nat /\ Cardinality(Claimants(h)) \in Nat
    BY <2>2, ClaimantsFinite, FS_CardinalityType
  <2>4. QED BY <2>1, <2>2, <2>3 DEF Claims
<1>2. AgentInv /\ FewClaimsInv /\ [AgentNext]_allVars => FewClaimsInv'
  BY NextFewClaims DEF FewClaimsInv
<1>3. QED BY <1>1, <1>2, AgentInvariance, InitFewClaims, PTL DEF AgentSpec

-----------------------------------------------------------------------------
(* Who loses the lock. *)

LEMMA NextLost ==
  ASSUME AgentInv, ClaimInv, FewClaimsInv, LostByOvertaking, [AgentNext]_allVars
  PROVE  LostByOvertaking'
<1> USE AgentAssumption
<1>1. TypeInv /\ IInv /\ SearchComplete /\ [Next]_vars
  BY AgentCallsCCL DEF AgentInv, ListInv
<1> SUFFICES ASSUME Leaked' PROVE LostByOvertaking'
  BY DEF LostByOvertaking
<1>2. CASE Leaked
  <2>1. UNCHANGED <<lock, memory>>
    BY <1>1, <1>2, LeakedStep
  <2>2. \A h : Listed(h)' = Listed(h)
    BY <2>1 DEF Listed
  <2>3. CASE lock \in Handler /\ ~Listed(lock)
    BY <2>1, <2>2, <2>3 DEF LostByOvertaking
  <2>4. CASE /\ lock \in Creator
             /\ failures = 0 /\ threadID[lock] \in Handler => ~Listed(threadID[lock])
    <3>1. \A h \in Handler : handler[h] = "none" => ~Listed(h)
      BY ListedHasEntry DEF FewClaimsInv, FewClaims
    <3>2. /\ failures' = 0 => failures = 0
          /\ threadID'[lock] \in Handler =>
               threadID'[lock] = threadID[lock] \/ handler[threadID'[lock]] = "none"
      BY <1>1, <2>4, HandleSteps
    <3>3. failures' = 0 /\ threadID'[lock] \in Handler => ~Listed(threadID'[lock])
      BY <2>4, <3>1, <3>2
    <3>4. QED BY <2>1, <2>2, <2>4, <3>3 DEF LostByOvertaking
  <2>5. QED BY <1>2, <2>3, <2>4 DEF LostByOvertaking
<1>3. CASE ~Leaked
  <2>1. Next
    BY <1>1, <1>3 DEF vars, Leaked
  <2>2. PICK t \in Thread : OutsideStep(t) \/ (WriterStep(t) /\ InsideStep(t))
    BY <1>1, <2>1, StepShapes
  <2>3. ~OutsideStep(t)
    BY <1>1, <1>3, CCLAssumption DEF IInv, TypeOK, OutsideStep, Leaked
  <2>4. WriterStep(t) /\ InsideStep(t) /\ lock' = t /\ pc'[t] \notin Inside
    BY <1>1, <2>2, <2>3, LostUnlessLeaked
  <2>5. pc[t] # "RemFreeHead"
    BY DEF AgentInv, SentinelInv, Kind, Requested
  <2>6. AddMallocFails(t) \/ RemNotFound(t)
    BY <1>1, <2>4, <2>5, CCLAssumption
       DEF IInv, TypeOK, WriterStep, AddLock, AddMalloc, AddWalk, AddLink, AddUnlock,
       RemLock, RemHeadHit, RemHeadMiss, RemFreeHead, RemWalk, RemUnlink, RemFree, RemUnlock,
       Goto, Return, UnlockingPaths, Inside
  <2>7. CASE AddMallocFails(t)
    <3>1. pc[t] = "AddMalloc" /\ pc'[t] = "idle" /\ UNCHANGED memory
      BY <1>1, <2>7 DEF AddMallocFails, Return, Goto, IInv, TypeOK
    <3>2. t \in Creator
      BY <3>1 DEF AgentInv, Roles, Adding
    <3>3. \A h : Listed(h)' = Listed(h)
      BY <3>1 DEF Listed
    <3>4. ASSUME failures' = 0, threadID'[t] \in Handler
          PROVE  ~Listed(threadID'[t])
      <4>1. CASE threadID'[t] = threadID[t]
        <5>1. Pending(t, threadID[t])
          BY <3>1, <3>2 DEF Pending, Kind, Requested
        <5>2. failures = 0
          BY <1>1, <3>4, HandleSteps
        <5>3. OneClaim(threadID[t])
          BY <1>3, <3>4, <4>1, <5>2 DEF ClaimInv
        <5>4. Entries(threadID[t]) = {}
          BY <3>2, <5>1, <5>3 DEF OneClaim
        <5>5. QED BY <4>1, <5>4, ListedHasEntry
      <4>2. CASE handler[threadID'[t]] = "none"
        BY <3>4, <4>2, ListedHasEntry DEF FewClaimsInv, FewClaims
      <4>3. QED BY <1>1, <3>2, <3>4, <4>1, <4>2, HandleSteps
    <3>5. QED BY <2>4, <3>2, <3>3, <3>4 DEF LostByOvertaking
  <2>8. CASE RemNotFound(t)
    <3>1. pc[t] = "RemWalk" /\ place' = place /\ key' = key
      BY <2>8 DEF RemNotFound
    <3>2. t \in Handler /\ op[t].key = t /\ op[t] \in Calls
      BY <1>1, <3>1 DEF AgentInv, Roles, Removing, IInv, TypeOK, Inside
    <3>3. op[t].list = "thread"
      BY <3>2 DEF Calls
    <3>4. \A n \in Node : ~(place[n] = "thread" /\ key[n] = t)
      BY <1>1, <2>8, <3>2, <3>3, NotFoundMeansAbsent
    <3>5. QED BY <2>4, <3>1, <3>2, <3>4 DEF LostByOvertaking, Listed
  <2>9. QED BY <2>6, <2>7, <2>8
<1>4. QED BY <1>2, <1>3

\* The lock is lost by a handler that no node of the list names, or by a creator
\* for want of memory, whose last handler the list then does not name: by
\* nobody else and in no other way.
THEOREM LostAsStated == AgentSpec => []LostByOvertaking
<1>1. AgentInit => LostByOvertaking
  BY DEF AgentInit, Init, LostByOvertaking, Leaked
<1>2. AgentInv /\ FewClaimsInv /\ [AgentNext]_allVars => FewClaimsInv'
  BY NextFewClaims DEF FewClaimsInv
<1>3. QED
  BY <1>1, <1>2, NextLost, AgentInvariance, InitClaimInv, NextClaimInv, InitFewClaims, PTL
     DEF AgentSpec
=============================================================================
