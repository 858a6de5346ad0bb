----------------------------- MODULE RestListener -----------------------------
(***************************************************************************)
(* The local REST listener (BearRestListen.cpp).  One thread starts and    *)
(* stops the listener (wWinMain is the only one); the requests are handled *)
(* on the threads of the http library, any number at a time.  They all     *)
(* meet in client->ListenState, a UINT that nobody locks: |= and &= are a  *)
(* read and a write, and a handler can lose what another one wrote; and in *)
(* client->EventCmd, a std::wstring: two assignments at the same time can  *)
(* free one buffer twice and end the process, as can an exception that     *)
(* leaves StartListener or StopListener.                                   *)
(***************************************************************************)
EXTENDS Integers

CONSTANTS
  Request,    \* the requests that can arrive, each once
  MaxStarts   \* bounds the calls of StartListener

ASSUME RestAssumption == MaxStarts \in Nat

VARIABLES
  listenState,  \* client->ListenState, as the set of its bits; {} is LISTEN_OK
  server,       \* g_http: "none", "new", "open", "closing" or "closed"
  ctl,          \* what the controlling thread does next
  ret,          \* the last result of StartListener, 1 if there is none
  reg,          \* what the controlling thread read of listenState, {} once written
  starts,       \* calls of StartListener so far
  at,           \* at[r]: what the handler of r does next
  method,       \* method[r]: the request; "ping" is GET /Ping
  seen,         \* seen[r]: what the handler of r read of listenState, {} once written
  result,       \* result[r]: "none", "replied", "exception" or "thrown" (to the library)
  eventCmd,     \* client->EventCmd: "whole", or "damaged" by a race
  threw,        \* history: what threw in the last start, "none", "open" or "print"
  early,        \* history: a request came before the last start had stored OK
  overlapped    \* history: requests whose handler ran beside another one or a call

vars == <<listenState, server, ctl, ret, reg, starts, threw,
          at, method, seen, result, eventCmd, early, overlapped>>
control == <<server, ctl, ret, reg, starts, threw>>
handlers == <<at, method, seen, result, eventCmd>>
history == <<early, overlapped>>

Flag == {"OFF", "BIND_FAIL", "BAD_REQ", "RCV_EXP"}
Method == {"ping", "get", "post", "put", "delete"}

Active == {r \in Request : at[r] \notin {"none", "done"}}

-----------------------------------------------------------------------------
(* The http library. *)

\* close "will stop accepting requests and wait for all outstanding handler
\* calls to finish" (http_listener.h).
Drained == Active = {}

\* close on a listener that is not open does nothing.
CloseServer == IF server = "open" THEN "closing" ELSE server

-----------------------------------------------------------------------------
(* StartListener and on_initialize. *)

Control(from, to) ==
  /\ ctl = from
  /\ ctl' = to

\* A call overlaps with every handler that is running.
Touch == overlapped' = overlapped \cup Active

\* Mutant: ListenState keeps what an earlier start left in it.
StartListenerNoReset ==
  /\ Control("idle", "create")
  /\ starts < MaxStarts
  /\ starts' = starts + 1
  /\ threw' = "none" /\ early' = FALSE
  /\ Touch
  /\ UNCHANGED <<listenState, server, ret, reg, handlers>>

StartListener ==
  /\ Control("idle", "create")
  /\ starts < MaxStarts
  /\ starts' = starts + 1
  /\ listenState' = {"OFF"}
  /\ threw' = "none" /\ early' = FALSE
  /\ Touch
  /\ UNCHANGED <<server, ret, reg, handlers>>

\* The new BEARSERVER replaces the old one in g_http; the destructor of the
\* old one closes it first.
CreateServer ==
  /\ Control("create", "replace")
  /\ server' = CloseServer
  /\ UNCHANGED <<listenState, ret, reg, starts, threw, handlers, history>>

\* Mutant: g_http keeps the server it holds.
ReplaceServerKept ==
  /\ Control("replace", "open")
  /\ Drained
  /\ server' = IF server = "none" THEN "new" ELSE server
  /\ UNCHANGED <<listenState, ret, reg, starts, threw, handlers, history>>

ReplaceServer ==
  /\ Control("replace", "open")
  /\ Drained
  /\ server' = "new"
  /\ UNCHANGED <<listenState, ret, reg, starts, threw, handlers, history>>

\* open().wait() succeeds: from here on requests arrive.
OpenServer ==
  /\ Control("open", "opened")
  /\ server' = "open"
  /\ UNCHANGED <<listenState, ret, reg, starts, threw, handlers, history>>

\* Mutant: ListenState stays OFF while the listener is open.
OpenedNoStore ==
  /\ Control("opened", "listening")
  /\ UNCHANGED <<listenState, server, ret, reg, starts, threw, handlers, history>>

\* ListenState is written after the listener is open.
Opened ==
  /\ Control("opened", "listening")
  /\ listenState' = {}
  /\ UNCHANGED <<server, ret, reg, starts, threw, handlers, history>>

\* The last statement of the try block prints.
Announce ==
  /\ Control("listening", "check")
  /\ UNCHANGED <<listenState, server, ret, reg, starts, threw, handlers, history>>

\* open().wait() or the print throws, the listener being open in the second
\* case; the catch block reads ListenState for |= BIND_FAIL.
StartFails ==
  /\ \/ Control("open", "bindFailed") /\ threw' = "open"
     \/ Control("listening", "bindFailed") /\ threw' = "print"
  /\ reg' = listenState
  /\ UNCHANGED <<listenState, server, ret, starts, handlers, history>>

\* Mutant: the failure sets the wrong bit.
BindFailedWrongBit ==
  /\ Control("bindFailed", "check")
  /\ listenState' = reg \cup {"RCV_EXP"}
  /\ reg' = {}
  /\ UNCHANGED <<server, ret, starts, threw, handlers, history>>

BindFailed ==
  /\ Control("bindFailed", "check")
  /\ listenState' = reg \cup {"BIND_FAIL"}
  /\ reg' = {}
  /\ UNCHANGED <<server, ret, starts, threw, handlers, history>>

\* Mutant: StartListener does not look at ListenState.
CheckStateSkipped ==
  /\ Control("check", "store")
  /\ UNCHANGED <<listenState, server, ret, reg, starts, threw, handlers, history>>

\* ListenState # LISTEN_OK: return -1.  A handler can have run by now.
CheckState ==
  /\ Control("check", IF listenState = {} THEN "store" ELSE "idle")
  /\ ret' = IF listenState = {} THEN ret ELSE -1
  /\ UNCHANGED <<listenState, server, reg, starts, threw, handlers, history>>

StoreOK ==
  /\ Control("store", "idle")
  /\ listenState' = {}
  /\ ret' = 0
  /\ UNCHANGED <<server, reg, starts, threw, handlers, history>>

-----------------------------------------------------------------------------
(* StopListener and on_shutdown.  It is called after a StartListener only. *)

StopListener ==
  /\ server # "none"
  /\ "OFF" \notin listenState
  /\ Control("idle", "close")
  /\ server' = CloseServer
  /\ ret' = 1
  /\ Touch
  /\ UNCHANGED <<listenState, reg, starts, threw, handlers, early>>

\* Mutant: close() without wait().
ShutdownNoWait ==
  /\ Control("close", "storeOff")
  /\ server' = IF server = "closing" THEN "closed" ELSE server
  /\ UNCHANGED <<listenState, ret, reg, starts, threw, handlers, history>>

\* close().wait() returns.
Shutdown ==
  /\ Control("close", "storeOff")
  /\ Drained
  /\ server' = IF server = "closing" THEN "closed" ELSE server
  /\ UNCHANGED <<listenState, ret, reg, starts, threw, handlers, history>>

StoreOff ==
  /\ Control("storeOff", "idle")
  /\ listenState' = {"OFF"}
  /\ UNCHANGED <<server, ret, reg, starts, threw, handlers, history>>

\* wWinMain returns without StopListener; g_http is destroyed on the way out.
ExitProgram ==
  /\ server # "none"
  /\ Control("idle", "exit")
  /\ server' = CloseServer
  /\ Touch
  /\ UNCHANGED <<listenState, ret, reg, starts, threw, handlers, early>>

DestroyServer ==
  /\ Control("exit", "exited")
  /\ Drained
  /\ server' = "none"
  /\ UNCHANGED <<listenState, ret, reg, starts, threw, handlers, history>>

-----------------------------------------------------------------------------
(* The handlers. *)

Handler(r, from, to) ==
  /\ ctl # "crashed"
  /\ at[r] = from
  /\ at' = [at EXCEPT ![r] = to]

\* Between the two updates of ListenState a handler assigns EventCmd.  Two
\* assignments at the same time may damage the string.
Assigning == {r \in Request : at[r] \in {"ping", "bad"}}

AssignEventCmd(r) ==
  \/ eventCmd' = eventCmd
  \/ (\E q \in Assigning \ {r} : r \in Assigning) /\ eventCmd' = "damaged"

\* A request arrives while the listener is open.
Arrive(r, m) ==
  /\ server = "open"
  /\ Handler(r, "none", IF m \in {"put", "delete"} THEN "reply" ELSE "clear")
  /\ method' = [method EXCEPT ![r] = m]
  /\ early' = (early \/ ctl = "opened")
  /\ overlapped' = IF Active = {} /\ ctl = "idle" THEN overlapped
                   ELSE overlapped \cup Active \cup {r}
  /\ UNCHANGED <<listenState, control, seen, result, eventCmd>>

\* Mutant: ListenState has a lock, and the calls keep it while they wait.
ReadToClearBetweenCalls(r) ==
  /\ ctl = "idle"
  /\ Handler(r, "clear", "cleared")
  /\ seen' = [seen EXCEPT ![r] = listenState]
  /\ UNCHANGED <<listenState, control, method, result, eventCmd, history>>

\* ListenState &= ~BAD_REQ, read and write.
ReadToClear(r) ==
  /\ Handler(r, "clear", "cleared")
  /\ seen' = [seen EXCEPT ![r] = listenState]
  /\ UNCHANGED <<listenState, control, method, result, eventCmd, history>>

ClearBadReq(r) ==
  /\ Handler(r, "cleared", IF method[r] = "ping" THEN "ping" ELSE "bad")
  /\ listenState' = seen[r] \ {"BAD_REQ"}
  /\ seen' = [seen EXCEPT ![r] = {}]
  /\ UNCHANGED <<control, method, result, eventCmd, history>>

\* Mutant: a ping does not reset the state.
PingNoReset(r) ==
  /\ Handler(r, "ping", "reply")
  /\ AssignEventCmd(r)
  /\ UNCHANGED <<listenState, control, method, seen, result, history>>

\* GET /Ping: ListenState = LISTEN_OK.
Ping(r) ==
  /\ Handler(r, "ping", "reply")
  /\ AssignEventCmd(r)
  /\ listenState' = {}
  /\ UNCHANGED <<control, method, seen, result, history>>

\* Any other GET, and every POST: ListenState |= BAD_REQ, read and write.
ReadToSetBadReq(r) ==
  /\ Handler(r, "bad", "setBad")
  /\ AssignEventCmd(r)
  /\ seen' = [seen EXCEPT ![r] = listenState]
  /\ UNCHANGED <<listenState, control, method, result, history>>

\* Mutant: the GET handler leaves without a reply, as the POST handler does.
SetBadReqNoReply(r) ==
  /\ Handler(r, "setBad", "done")
  /\ listenState' = seen[r] \cup {"BAD_REQ"}
  /\ seen' = [seen EXCEPT ![r] = {}]
  /\ UNCHANGED <<control, method, result, eventCmd, history>>

\* The POST handler has no reply.
SetBadReq(r) ==
  /\ Handler(r, "setBad", IF method[r] = "post" THEN "done" ELSE "reply")
  /\ listenState' = seen[r] \cup {"BAD_REQ"}
  /\ seen' = [seen EXCEPT ![r] = {}]
  /\ UNCHANGED <<control, method, result, eventCmd, history>>

Reply(r) ==
  /\ Handler(r, "reply", "done")
  /\ result' = [result EXCEPT ![r] = "replied"]
  /\ UNCHANGED <<listenState, control, method, seen, eventCmd, history>>

\* A statement of a try block throws.  The GET and POST handlers catch it and
\* read ListenState for |= RCV_EXP.
Throw(r) ==
  /\ method[r] \in {"ping", "get", "post"}
  /\ at[r] \in {"ping", "bad", "reply"}
  /\ Handler(r, at[r], "setException")
  /\ AssignEventCmd(r)
  /\ seen' = [seen EXCEPT ![r] = listenState]
  /\ result' = [result EXCEPT ![r] = "exception"]
  /\ UNCHANGED <<listenState, control, method, history>>

SetException(r) ==
  /\ Handler(r, "setException", "done")
  /\ listenState' = seen[r] \cup {"RCV_EXP"}
  /\ seen' = [seen EXCEPT ![r] = {}]
  /\ UNCHANGED <<control, method, result, eventCmd, history>>

\* Outside a try block: the PUT and DELETE handlers, and the POST handler
\* before it assigns EventCmd.
ThrowToLibrary(r) ==
  /\ method[r] \in {"put", "delete", "post"}
  /\ Handler(r, IF method[r] = "post" THEN "bad" ELSE "reply", "done")
  /\ result' = [result EXCEPT ![r] = "thrown"]
  /\ UNCHANGED <<listenState, control, method, seen, eventCmd, history>>

-----------------------------------------------------------------------------
(* The end of the process. *)

Crash ==
  /\ ctl' = "crashed"
  /\ UNCHANGED <<listenState, server, ret, reg, starts, threw, handlers, history>>

\* Nobody catches what StartListener throws before its try block or in the
\* catch block (the first print included: nothing is changed before it), nor
\* what close().wait() throws.
Uncaught == ctl \in {"create", "open", "listening", "close"} /\ Crash

\* A damaged EventCmd ends the process, if at all, when it is used or freed.
Fault == eventCmd = "damaged" /\ ctl \notin {"exited", "crashed"} /\ Crash

-----------------------------------------------------------------------------
(* The specification. *)

\* Before the first start; the constructor does not set ListenState.
Init ==
  /\ listenState \in {{}, Flag}
  /\ server = "none"
  /\ ctl = "idle"
  /\ ret = 1
  /\ reg = {}
  /\ starts = 0
  /\ at = [r \in Request |-> "none"]
  /\ method = [r \in Request |-> "ping"]
  /\ seen = [r \in Request |-> {}]
  /\ result = [r \in Request |-> "none"]
  /\ eventCmd = "whole"
  /\ threw = "none"
  /\ early = FALSE
  /\ overlapped = {}

Call == StartListener \/ StopListener \/ ExitProgram
CallStep ==
  \/ CreateServer \/ ReplaceServer \/ OpenServer \/ Opened \/ Announce
  \/ StartFails \/ BindFailed \/ CheckState \/ StoreOK \/ Shutdown \/ StoreOff \/ DestroyServer
HandlerStep(r) ==
  \/ ReadToClear(r) \/ ClearBadReq(r) \/ Ping(r) \/ ReadToSetBadReq(r)
  \/ SetBadReq(r) \/ Reply(r) \/ Throw(r) \/ SetException(r) \/ ThrowToLibrary(r)

Next ==
  \/ Call \/ CallStep \/ Uncaught \/ Fault
  \/ \E r \in Request : HandlerStep(r) \/ \E m \in Method : Arrive(r, m)

Spec == Init /\ [][Next]_vars

\* Calls and handlers that have begun go on; nobody has to call or to ask.
FairSpec ==
  /\ Spec
  /\ WF_vars(CallStep)
  /\ \A r \in Request : WF_vars(HandlerStep(r))

-----------------------------------------------------------------------------
(* Properties. *)

TypeOK ==
  /\ listenState \subseteq Flag
  /\ server \in {"none", "new", "open", "closing", "closed"}
  /\ ctl \in {"idle", "create", "replace", "open", "opened", "listening", "bindFailed",
              "check", "store", "close", "storeOff", "exit", "exited", "crashed"}
  /\ ret \in {-1, 0, 1}
  /\ reg \subseteq Flag
  /\ starts \in 0 .. MaxStarts
  /\ at \in [Request -> {"none", "clear", "cleared", "ping", "bad", "setBad",
                         "reply", "setException", "done"}]
  /\ method \in [Request -> Method]
  /\ seen \in [Request -> SUBSET Flag]
  /\ result \in [Request -> {"none", "replied", "exception", "thrown"}]
  /\ eventCmd \in {"whole", "damaged"}
  /\ threw \in {"none", "open", "print"}
  /\ early \in BOOLEAN
  /\ overlapped \subseteq Request
  /\ ctl = "open" => server = "new"

\* A handler is a member function of the BEARSERVER in g_http: none runs when
\* that server is not there or is not open any more.
HandlersHaveServer == Active # {} => server \in {"open", "closing"}

\* After StopListener has closed the server, ListenState is OFF and nothing
\* else until the next start: no late handler brings back what it read.
StoppedIsOff == ctl = "idle" /\ server = "closed" => listenState = {"OFF"}

\* When StartListener returns 0 the listener is open (until it is stopped),
\* however many handlers wrote ListenState between the open and the return.
ZeroMeansOpen == ctl = "idle" /\ ret = 0 => server = "open"

\* An open listener that no request reached before StartListener stored OK can
\* be stopped: StopListener does not take it for one that is OFF, whatever the
\* handlers wrote, and also when the start returned -1 with the listener open.
StopCloses == ctl = "idle" /\ server = "open" /\ ~early => "OFF" \notin listenState

\* After a start that returned -1 because open() failed, BIND_FAIL says so: no
\* handler of an earlier server wipes it out.  After a start in which nothing
\* threw and no request came too early, BIND_FAIL is not there: no handler
\* carries it over from an earlier start.
BindFailExact ==
  /\ ctl = "idle" /\ ret = -1 /\ threw = "open" => "BIND_FAIL" \in listenState
  /\ ctl = "idle" /\ ret # 1 /\ threw = "none" /\ ~early => "BIND_FAIL" \notin listenState

\* A handler that ran alone leaves ListenState as its request deserves: OK
\* after a ping, BAD_REQ after any other GET or a POST, RCV_EXP after an
\* exception it caught, no change after any other.
LoneRequestReported ==
  [][\A r \in Request :
       r \in Active /\ at'[r] = "done" /\ r \notin overlapped =>
         IF method[r] \in {"put", "delete"} \/ result'[r] = "thrown"
           THEN listenState' = listenState
         ELSE IF result'[r] = "exception" THEN "RCV_EXP" \in listenState'
         ELSE IF method[r] = "ping"       THEN listenState' = {}
         ELSE "BAD_REQ" \in listenState']_vars

\* Every GET, PUT and DELETE is replied to, unless the handler throws
\* or the process ends.
RequestsReplied ==
  \A r \in Request :
    r \in Active /\ method[r] # "post" ~> result[r] # "none" \/ ctl = "crashed"

\* StartListener, StopListener and the exit return, unless the process ends:
\* the handlers they wait for never wait for them.
CallsReturn == ctl # "idle" ~> ctl \in {"idle", "exited", "crashed"}

\* http_listener.h: "Call close() before allowing a listener to be destroyed."
ClosedBeforeDestroyed ==
  [][(ctl' = "replace" /\ ctl # "replace") \/ (ctl' = "exit" /\ ctl # "exit")
       => server # "open"]_vars
=============================================================================
