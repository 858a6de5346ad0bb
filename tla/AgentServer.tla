----------------------------- MODULE AgentServer -----------------------------
(***************************************************************************)
(* The agent server (AgentServer.cpp) on top of the thread list of CCL.    *)
(* Two creators run side by side: TestThread, which wWinMain calls, and    *)
(* DoWinsock, which accepts connections.  Each creates ConnHandler threads *)
(* and registers every one of them AFTER it was created; a handler takes   *)
(* itself off the list as its last act.  The order of the two calls is     *)
(* nobody's, and the lock they meet at is CCL's.                           *)
(***************************************************************************)
EXTENDS CCL

CONSTANTS
  Tester,       \* the thread that runs TestThread (and the rest of wWinMain)
  Server,       \* the thread that runs DoWinsock
  Handler,      \* the ConnHandler threads; also their handles, ThreadID.p
  Garbage,      \* a handle value that no thread has
  Rounds,       \* the length of TestThread's loop (20 in the code)
  MaxConns,     \* bounds the accepted connections
  MaxFailures   \* bounds the failures of pthread_create

ASSUME AgentAssumption ==
  /\ Thread = {Tester, Server} \cup Handler
  /\ Tester # Server /\ {Tester, Server} \cap Handler = {}
  /\ Key = {ZeroKey, Garbage} \cup Handler
  /\ Handler \cap {ZeroKey, Garbage} = {}
  /\ Lists = {"thread"}
  /\ Rounds \in Nat \ {0} /\ MaxConns \in Nat /\ MaxFailures \in Nat
  /\ Cardinality(Handler) >= Rounds + MaxConns

VARIABLES
  agent,     \* agent[c]: where creator c is in its function
  threadID,  \* threadID[c]: the local variable ThreadID of creator c
  made,      \* made[c]: the registrations creator c has begun
  handler,   \* handler[h]: "none", "running", "removing" or "exited"
  failures,  \* how often pthread_create has failed
  sock       \* what SetUpListener made of its socket

agentVars == <<agent, threadID, made, handler, failures, sock>>
allVars == <<vars, agentVars>>

Creator == {Tester, Server}
AgentGoto(c, label) == agent' = [agent EXCEPT ![c] = label]

-----------------------------------------------------------------------------
(* Creating and registering a handler: the two lines that TestThread and   *)
(* AcceptConnections share.                                                *)

\* pthread_create: the new thread runs at once, and the handle is stored.
CreateThread(c) ==
  /\ agent[c] = "create"
  /\ \E h \in Handler :
       /\ handler[h] = "none"
       /\ handler'  = [handler  EXCEPT ![h] = "running"]
       /\ threadID' = [threadID EXCEPT ![c] = h]
  /\ AgentGoto(c, "register")
  /\ UNCHANGED <<vars, made, failures, sock>>

\* pthread_create fails and leaves ThreadID as it was; nobody looks.
CreateFails(c) ==
  /\ agent[c] = "create"
  /\ failures < MaxFailures
  /\ failures' = failures + 1
  /\ AgentGoto(c, "register")
  /\ UNCHANGED <<vars, threadID, made, handler, sock>>

\* Mutant: the handle is registered again when the first time is over.
RegisterTwice(c) ==
  /\ agent[c] \in {"register", "adding"}
  /\ AddThread(c, threadID[c])
  /\ made' = [made EXCEPT ![c] = @ + 1]
  /\ AgentGoto(c, "adding")
  /\ UNCHANGED <<threadID, handler, failures, sock>>

Register(c) ==
  /\ agent[c] = "register"
  /\ AddThread(c, threadID[c])
  /\ made' = [made EXCEPT ![c] = @ + 1]
  /\ AgentGoto(c, "adding")
  /\ UNCHANGED <<threadID, handler, failures, sock>>

-----------------------------------------------------------------------------
(* TestThread: Rounds times create and register, then dumpList twice. *)

\* Mutant: the loop runs once more than it should.
NextRoundOneMore ==
  /\ agent[Tester] = "adding"
  /\ pc[Tester] = "idle"
  /\ AgentGoto(Tester, IF made[Tester] <= Rounds THEN "create" ELSE "dump")
  /\ UNCHANGED <<vars, threadID, made, handler, failures, sock>>

\* Mutant: the loop does not end.
NextRoundForever ==
  /\ agent[Tester] = "adding"
  /\ pc[Tester] = "idle"
  /\ AgentGoto(Tester, "create")
  /\ UNCHANGED <<vars, threadID, made, handler, failures, sock>>

NextRound ==
  /\ agent[Tester] = "adding"
  /\ pc[Tester] = "idle"
  /\ AgentGoto(Tester, IF made[Tester] < Rounds THEN "create" ELSE "dump")
  /\ UNCHANGED <<vars, threadID, made, handler, failures, sock>>

FirstDump ==
  /\ agent[Tester] = "dump"
  /\ DumpList(Tester)
  /\ AgentGoto(Tester, "dumping")
  /\ UNCHANGED <<threadID, made, handler, failures, sock>>

SecondDump ==
  /\ agent[Tester] = "dumping"
  /\ pc[Tester] = "idle"
  /\ DumpList(Tester)
  /\ AgentGoto(Tester, "dumpingAgain")
  /\ UNCHANGED <<threadID, made, handler, failures, sock>>

TestReturns ==
  /\ agent[Tester] = "dumpingAgain"
  /\ pc[Tester] = "idle"
  /\ AgentGoto(Tester, "returned")
  /\ UNCHANGED <<vars, threadID, made, handler, failures, sock>>

-----------------------------------------------------------------------------
(* DoWinsock, SetUpListener and AcceptConnections. *)

\* WSAStartup fails: DoWinsock returns.
StartupFails ==
  /\ agent[Server] = "startup"
  /\ AgentGoto(Server, "returned")
  /\ UNCHANGED <<vars, threadID, made, handler, failures, sock>>

\* SetUpListener returns INVALID_SOCKET when socket or bind fails (and keeps
\* the socket that could not be bound); the result of listen is not looked at.
SetUpListener ==
  /\ agent[Server] = "startup"
  /\ sock' \in {"none", "unbound", "bound", "listening"}
  /\ AgentGoto(Server, IF sock' \in {"none", "unbound"} THEN "returned" ELSE "accept")
  /\ UNCHANGED <<vars, threadID, made, handler, failures>>

\* accept returns a connection.  Nobody closes its socket again.
Accept ==
  /\ agent[Server] = "accept"
  /\ sock = "listening"
  /\ made[Server] < MaxConns
  /\ AgentGoto(Server, "create")
  /\ UNCHANGED <<vars, threadID, made, handler, failures, sock>>

\* accept fails, as it always does on a socket that does not listen:
\* AcceptConnections returns -2.
AcceptFails ==
  /\ agent[Server] = "accept"
  /\ AgentGoto(Server, "restart")
  /\ UNCHANGED <<vars, threadID, made, handler, failures, sock>>

\* DoWinsock calls AcceptConnections again with the same socket.  Its ThreadID
\* is not initialised: it holds what it held before, or anything else.
RestartListener ==
  /\ agent[Server] = "restart"
  /\ \E id \in {threadID[Server], Garbage, ZeroKey} :
       threadID' = [threadID EXCEPT ![Server] = id]
  /\ AgentGoto(Server, "accept")
  /\ UNCHANGED <<vars, made, handler, failures, sock>>

\* AddThread has returned, whatever it returned: the next accept.
AcceptNext ==
  /\ agent[Server] = "adding"
  /\ pc[Server] = "idle"
  /\ AgentGoto(Server, "accept")
  /\ UNCHANGED <<vars, threadID, made, handler, failures, sock>>

-----------------------------------------------------------------------------
(* ConnHandler. *)

\* Mutant: ThreadID does not hold what pthread_self returns.
ConnHandlerNoSelf(h) ==
  /\ handler[h] = "running"
  /\ RemoveThread(h, ZeroKey)
  /\ handler' = [handler EXCEPT ![h] = "removing"]
  /\ UNCHANGED <<agent, threadID, made, failures, sock>>

\* Mutant: the handler leaves without taking itself off the list.
ConnHandlerNoRemove(h) ==
  /\ handler[h] = "running"
  /\ handler' = [handler EXCEPT ![h] = "removing"]
  /\ UNCHANGED <<vars, agent, threadID, made, failures, sock>>

\* The handler does nothing with its connection but leave the list.
ConnHandler(h) ==
  /\ handler[h] = "running"
  /\ RemoveThread(h, h)
  /\ handler' = [handler EXCEPT ![h] = "removing"]
  /\ UNCHANGED <<agent, threadID, made, failures, sock>>

\* Mutant: the thread's end gives back the mutex it still holds.
HandlerExitsUnlocking(h) ==
  /\ handler[h] = "removing"
  /\ pc[h] = "idle"
  /\ handler' = [handler EXCEPT ![h] = "exited"]
  /\ lock' = IF lock = h THEN Null ELSE lock
  /\ UNCHANGED <<locals, memory, pc, stale, agent, threadID, made, failures, sock>>

HandlerExits(h) ==
  /\ handler[h] = "removing"
  /\ pc[h] = "idle"
  /\ handler' = [handler EXCEPT ![h] = "exited"]
  /\ UNCHANGED <<vars, agent, threadID, made, failures, sock>>

-----------------------------------------------------------------------------
(* The specification. *)

\* ThreadID starts as whatever the stack holds.
AgentInit ==
  /\ Init
  /\ agent = [c \in Creator |-> IF c = Tester THEN "create" ELSE "startup"]
  /\ threadID \in [Creator -> {Garbage, ZeroKey}]
  /\ made = [c \in Creator |-> 0]
  /\ handler = [h \in Handler |-> "none"]
  /\ failures = 0
  /\ sock = "none"

CreatorStep(c) == CreateThread(c) \/ CreateFails(c) \/ Register(c)
TesterStep == NextRound \/ FirstDump \/ SecondDump \/ TestReturns
ServerStep == StartupFails \/ SetUpListener \/ RestartListener \/ AcceptNext
Network == Accept \/ AcceptFails
HandlerStep(h) == ConnHandler(h) \/ HandlerExits(h)
ListStep(t) == Step(t) /\ UNCHANGED agentVars

AgentNext ==
  /\ Running
  /\ \/ \E c \in Creator : CreatorStep(c)
     \/ TesterStep \/ ServerStep \/ Network
     \/ \E h \in Handler : HandlerStep(h)
     \/ \E t \in Thread : ListStep(t)

AgentSpec == AgentInit /\ [][AgentNext]_allVars

\* Every thread is scheduled; the network owes nobody a connection.  A thread
\* that waits for lock1 gets it when it stays free: nothing stronger.
AgentFairness ==
  /\ \A c \in Creator : WF_allVars(Running /\ CreatorStep(c))
  /\ WF_allVars(Running /\ TesterStep)
  /\ WF_allVars(Running /\ ServerStep)
  /\ \A h \in Handler : WF_allVars(Running /\ HandlerStep(h))
  /\ \A t \in Thread : WF_allVars(Running /\ ListStep(t))

AgentFairSpec == AgentSpec /\ AgentFairness

-----------------------------------------------------------------------------
(* Properties. *)

AgentTypeOK ==
  /\ agent \in [Creator -> {"startup", "create", "register", "adding", "dump",
                            "dumping", "dumpingAgain", "accept", "restart", "returned"}]
  /\ threadID \in [Creator -> Key]
  /\ made \in [Creator -> Nat]
  /\ made[Tester] <= Rounds /\ made[Server] <= MaxConns
  /\ handler \in [Handler -> {"none", "running", "removing", "exited"}]
  /\ failures \in 0 .. MaxFailures
  /\ sock \in {"none", "unbound", "bound", "listening"}

Listed(h) == \E n \in Node : place[n] = "thread" /\ key[n] = h

\* The thread list names no thread that has ended, however creators and
\* handlers interleave, as long as the lock was not lost and no
\* pthread_create failed: the handler that is too early to find itself takes
\* the lock with it, so the late registration can never happen.
RegistryExact ==
  failures = 0 /\ ~Leaked =>
    \A h \in Handler : handler[h] = "exited" => ~Listed(h)

\* A handle is registered twice only when a failed pthread_create left the
\* old one in ThreadID.
RegisteredOnce ==
  \A h \in Handler :
    Cardinality({n \in Node : place[n] = "thread" /\ key[n] = h}) <= 1 + failures

\* What the agent server does to the lists is what CCL allows its callers.
AgentImplementsCCL == Spec

\* The server never empties the list: its first node is the constructor's for
\* ever.  So AddThread may read thead before it has the lock.
SentinelStays == head["thread"] = Sentinel["thread"]

\* Who can lose the lock: a handler that ended before its creator registered
\* it, and is not on the list; or a creator whose malloc failed, so that the
\* handler it has started last is not on the list (unless a pthread_create
\* failed, ThreadID being then an old handle).
LostByOvertaking ==
  Leaked => \/ lock \in Handler /\ ~Listed(lock)
            \/ /\ lock \in Creator
               /\ failures = 0 /\ threadID[lock] \in Handler => ~Listed(threadID[lock])

\* TestThread returns, so that wWinMain goes on to StartListener, and every
\* handler exits, unless the lock is lost or the unlocked dumpList reads a
\* node a handler has freed.
TestThreadEnds ==
  \/ <>[](agent[Tester] = "returned" /\ \A h \in Handler : handler[h] \in {"none", "exited"})
  \/ <>Leaked
  \/ <>~Running

\* SetUpListener, AgentServer.cpp: "returning the listening socket if
\* successful; if not, returns INVALID_SOCKET".
ListenerListens == agent[Server] = "accept" => sock = "listening"

\* AcceptConnections, AgentServer.cpp: "For each one that comes in, we create
\* a thread to handle it and go back to waiting for connections." (Said of a
\* process that has not crashed and has not run out of memory.)
BackToWaiting ==
  agent[Server] = "create" ~>
    (agent[Server] = "accept" \/ ~Running \/ (Leaked /\ lock \in Creator))
=============================================================================
