------------------------- MODULE RestListener_proofs -------------------------
(***************************************************************************)
(* Proofs about RestListener for any set of requests and number of starts. *)
(***************************************************************************)
EXTENDS RestListener, TLAPS

-----------------------------------------------------------------------------
(* The inductive invariant. *)

\* The state of the server at each step of the calls.
CallServer ==
  /\ ctl = "idle"       => server \in {"none", "new", "open", "closed"}
  /\ ctl = "create"     => server \in {"none", "new", "open", "closed"}
  /\ ctl = "replace"    => server # "open"
  /\ ctl = "open"       => server = "new"
  /\ ctl = "opened"     => server = "open"
  /\ ctl = "listening"  => server = "open"
  /\ ctl = "bindFailed" => \/ server = "new" /\ threw = "open"
                           \/ server = "open" /\ threw = "print"
  /\ ctl = "check"      => server \in {"new", "open"}
  /\ ctl = "store"      => server = "open"
  /\ ctl = "close"      => server \in {"new", "closing"} /\ ret = 1
  /\ ctl = "storeOff"   => server \in {"new", "closed"} /\ ret = 1
  /\ ctl = "exit"       => server # "open"
  /\ ctl = "exited"     => server = "none"

\* A handler keeps what it read until it writes; before the first request has
\* come to a new server there is no handler.
SeenInUse ==
  /\ \A r \in Request : seen[r] # {} => at[r] \in {"cleared", "setBad", "setException"}
  /\ ctl = "opened" /\ ~early => Active = {}

\* The bit is nowhere from where it can get into ListenState again: not in it,
\* nor in what a handler or the catch block has read.
Gone(bit) ==
  /\ bit \notin listenState
  /\ \A r \in Request : bit \notin seen[r]
  /\ ctl = "bindFailed" => bit \notin reg

\* From the store of OK on, OFF is gone, and BIND_FAIL if nothing threw.
OldBitsGone ==
  server = "open" /\ ~early /\ ctl \in {"listening", "bindFailed", "check", "store", "idle"} =>
    /\ Gone("OFF")
    /\ threw = "none" => Gone("BIND_FAIL")

\* What CheckState and the caller after it learn from ListenState.
BindFailKnown ==
  /\ ctl = "check" =>
       /\ threw = "open" <=> server = "new"
       /\ server = "new" => "BIND_FAIL" \in listenState
  /\ ctl = "idle" /\ ret = -1 =>
       /\ server \in {"new", "open"}
       /\ threw = "open" <=> server = "new"
       /\ server = "new" => "BIND_FAIL" \in listenState
  /\ ctl \in {"create", "replace", "open", "opened", "listening"} => threw = "none"

IInv ==
  /\ TypeOK
  /\ CallServer
  /\ HandlersHaveServer
  /\ SeenInUse
  /\ OldBitsGone
  /\ BindFailKnown
  /\ StoppedIsOff
  /\ ZeroMeansOpen

-----------------------------------------------------------------------------
(* The steps of the controlling thread, and those of a handler. *)

ControlStep == Call \/ CallStep \/ Uncaught \/ Fault

RequestStep(r) == HandlerStep(r) \/ \E m \in Method : Arrive(r, m)

\* A handler leaves the control alone, and only a request that arrives
\* becomes active.
LEMMA RequestShape ==
  ASSUME TypeOK, NEW r \in Request, RequestStep(r)
  PROVE  /\ UNCHANGED control
         /\ Active' \subseteq Active \cup {r}
         /\ r \in Active \/ server = "open"
<1>1. ASSUME NEW m \in Method, Arrive(r, m)
      PROVE  UNCHANGED control /\ Active' \subseteq Active \cup {r} /\ server = "open"
  BY <1>1 DEF TypeOK, Arrive, Handler, Active, control
<1>2. CASE HandlerStep(r)
  BY <1>2 DEF TypeOK, HandlerStep, ReadToClear, ClearBadReq, Ping, ReadToSetBadReq,
     SetBadReq, Reply, Throw, SetException, ThrowToLibrary, Handler, Active, control
<1>3. QED BY <1>1, <1>2 DEF RequestStep

-----------------------------------------------------------------------------
(* Type correctness. *)

LEMMA NextTypeOK ==
  ASSUME TypeOK, [Next]_vars
  PROVE  TypeOK'
<1> USE RestAssumption DEF TypeOK, Flag, Method, Control, CloseServer, Handler, control, handlers, history
<1>1. CASE UNCHANGED vars
  BY <1>1 DEF vars
<1>2. CASE Call
  <2>1. overlapped' \subseteq Request
    BY <1>2 DEF Call, StartListener, StopListener, ExitProgram, Touch, Active
  <2>2. starts' \in 0 .. MaxStarts
    BY <1>2 DEF Call, StartListener, StopListener, ExitProgram
  <2>3. CASE StartListener
    BY <2>1, <2>2, <2>3 DEF StartListener
  <2>4. CASE StopListener
    BY <2>1, <2>2, <2>4 DEF StopListener
  <2>5. CASE ExitProgram
    BY <2>1, <2>2, <2>5 DEF ExitProgram
  <2>6. QED BY <1>2, <2>3, <2>4, <2>5 DEF Call
<1>3. CASE CreateServer \/ ReplaceServer \/ OpenServer \/ Opened \/ Announce \/ StartFails \/ BindFailed
  BY <1>3 DEF CreateServer, ReplaceServer, OpenServer, Opened, Announce, StartFails, BindFailed
<1>4. CASE CheckState \/ StoreOK \/ Shutdown \/ StoreOff \/ DestroyServer
  BY <1>4 DEF CheckState, StoreOK, Shutdown, StoreOff, DestroyServer
<1>5. ASSUME NEW r \in Request, NEW m \in Method, Arrive(r, m)
      PROVE  TypeOK'
  BY <1>5 DEF Arrive, Active
<1>6. ASSUME NEW r \in Request, HandlerStep(r)
      PROVE  TypeOK'
  <2>1. CASE ReadToClear(r)
    BY <2>1 DEF ReadToClear
  <2>2. CASE ClearBadReq(r)
    BY <2>2 DEF ClearBadReq
  <2>3. CASE Ping(r)
    BY <2>3 DEF Ping, AssignEventCmd
  <2>4. CASE ReadToSetBadReq(r)
    BY <2>4 DEF ReadToSetBadReq, AssignEventCmd
  <2>5. CASE SetBadReq(r)
    BY <2>5 DEF SetBadReq
  <2>6. CASE Reply(r)
    BY <2>6 DEF Reply
  <2>7. CASE Throw(r)
    BY <2>7 DEF Throw, AssignEventCmd
  <2>8. CASE SetException(r)
    BY <2>8 DEF SetException
  <2>9. CASE ThrowToLibrary(r)
    BY <2>9 DEF ThrowToLibrary
  <2>10. QED BY <1>6, <2>1, <2>2, <2>3, <2>4, <2>5, <2>6, <2>7, <2>8, <2>9 DEF HandlerStep
<1>7. CASE Uncaught \/ Fault
  BY <1>7 DEF Uncaught, Fault, Crash
<1>8. QED BY <1>1, <1>2, <1>3, <1>4, <1>5, <1>6, <1>7 DEF Next, CallStep

-----------------------------------------------------------------------------
(* The invariant is preserved. *)

LEMMA ControlIInv ==
  ASSUME IInv, ControlStep
  PROVE  IInv'
<1>1. TypeOK /\ TypeOK'
  BY NextTypeOK DEF IInv, Next, ControlStep
<1> SUFFICES /\ CallServer' /\ HandlersHaveServer' /\ SeenInUse'
             /\ OldBitsGone' /\ BindFailKnown' /\ StoppedIsOff' /\ ZeroMeansOpen'
  BY <1>1 DEF IInv
<1> USE <1>1 DEF IInv, TypeOK, CallServer, HandlersHaveServer, SeenInUse, OldBitsGone,
         Gone, BindFailKnown, StoppedIsOff, ZeroMeansOpen, Control, CloseServer, Drained,
         Active, handlers, history
<1>2. CASE StartListener
  BY <1>2 DEF StartListener
<1>3. CASE StopListener
  BY <1>3 DEF StopListener
<1>4. CASE ExitProgram
  BY <1>4 DEF ExitProgram
<1>5. CASE CreateServer
  BY <1>5 DEF CreateServer
<1>6. CASE ReplaceServer
  BY <1>6 DEF ReplaceServer
<1>7. CASE OpenServer
  BY <1>7 DEF OpenServer
<1>8. CASE Opened
  BY <1>8 DEF Opened
<1>9. CASE Announce \/ StartFails
  BY <1>9 DEF Announce, StartFails
<1>10. CASE BindFailed
  BY <1>10 DEF BindFailed
<1>11. CASE CheckState
  BY <1>11 DEF CheckState
<1>12. CASE StoreOK
  BY <1>12 DEF StoreOK
<1>13. CASE Shutdown
  BY <1>13 DEF Shutdown
<1>14. CASE StoreOff
  <2>1. ctl = "storeOff" /\ ctl' = "idle" /\ listenState' = {"OFF"} /\ server' = server
    BY <1>14 DEF StoreOff
  <2>2. ret' = ret /\ at' = at /\ seen' = seen
    BY <1>14 DEF StoreOff
  <2>3. ret = 1
    BY <2>1
  <2>4. QED BY <2>1, <2>2, <2>3
<1>15. CASE DestroyServer
  BY <1>15 DEF DestroyServer
<1>16. CASE Uncaught \/ Fault
  BY <1>16 DEF Uncaught, Fault, Crash
<1>17. QED
  BY <1>2, <1>3, <1>4, <1>5, <1>6, <1>7, <1>8, <1>9, <1>10, <1>11, <1>12, <1>13,
     <1>14, <1>15, <1>16 DEF ControlStep, Call, CallStep

\* What a handler does to ListenState: it runs while the server is there, and
\* brings no OFF and no BIND_FAIL back that is gone.
LEMMA RequestWrites ==
  ASSUME IInv, NEW r \in Request, RequestStep(r)
  PROVE  /\ server \in {"open", "closing"}
         /\ \A bit \in {"OFF", "BIND_FAIL"} : Gone(bit) => Gone(bit)'
         /\ SeenInUse'
         /\ early => early'
<1>1. server \in {"open", "closing"} /\ UNCHANGED control
  BY RequestShape DEF IInv, HandlersHaveServer
<1>2. /\ seen \in [Request -> SUBSET Flag]
      /\ \A q \in Request : q # r => at'[q] = at[q]
  BY DEF IInv, TypeOK, RequestStep, HandlerStep, Arrive, ReadToClear, ClearBadReq, Ping,
     ReadToSetBadReq, SetBadReq, Reply, Throw, SetException, ThrowToLibrary, Handler
<1> DEFINE Holds == at'[r] \in {"cleared", "setBad", "setException"}
           Untouched == listenState' = listenState /\ seen' = seen /\ seen[r] = {}
           Reads == listenState' = listenState /\ seen' = [seen EXCEPT ![r] = listenState] /\ Holds
           Writes == /\ seen' = [seen EXCEPT ![r] = {}]
                     /\ \/ listenState' = {}
                        \/ listenState' = seen[r] \ {"BAD_REQ"}
                        \/ listenState' = seen[r] \cup {"BAD_REQ"}
                        \/ listenState' = seen[r] \cup {"RCV_EXP"}
<1>3. Untouched \/ Reads \/ Writes
  <2> USE DEF IInv, TypeOK, SeenInUse, Handler
  <2>1. CASE \E m \in Method : Arrive(r, m)
    BY <2>1 DEF Arrive
  <2>2. CASE ReadToClear(r) \/ ReadToSetBadReq(r) \/ Throw(r)
    BY <2>2 DEF ReadToClear, ReadToSetBadReq, Throw
  <2>3. CASE ClearBadReq(r) \/ SetBadReq(r) \/ SetException(r)
    BY <2>3 DEF ClearBadReq, SetBadReq, SetException
  <2>4. CASE Ping(r)
    <3>1. seen[r] = {} /\ seen' = seen /\ listenState' = {}
      BY <2>4 DEF Ping
    <3>2. seen' = [seen EXCEPT ![r] = {}]
      BY <3>1
    <3>3. QED BY <3>1, <3>2
  <2>5. CASE Reply(r) \/ ThrowToLibrary(r)
    BY <2>5 DEF Reply, ThrowToLibrary
  <2>6. QED BY <2>1, <2>2, <2>3, <2>4, <2>5 DEF RequestStep, HandlerStep
<1>4. \A bit \in {"OFF", "BIND_FAIL"} : Gone(bit) => Gone(bit)'
  BY <1>1, <1>2, <1>3 DEF Gone, control
<1>5. early => early'
  BY DEF RequestStep, HandlerStep, Arrive, ReadToClear, ClearBadReq, Ping,
     ReadToSetBadReq, SetBadReq, Reply, Throw, SetException, ThrowToLibrary, history
<1>6. \A q \in Request : seen'[q] # {} => at'[q] \in {"cleared", "setBad", "setException"}
  <2>1. ASSUME NEW q \in Request, q # r PROVE seen'[q] = seen[q] /\ at'[q] = at[q]
    <3>1. at'[q] = at[q]
      BY <2>1, <1>2
    <3>2. seen'[q] = seen[q]
      BY <2>1, <1>2, <1>3
    <3>3. QED BY <3>1, <3>2
  <2>2. seen'[r] # {} => at'[r] \in {"cleared", "setBad", "setException"}
    BY <1>2, <1>3
  <2>3. QED BY <2>1, <2>2 DEF IInv, SeenInUse
<1>7. ctl' = "opened" /\ ~early' => Active' = {}
  <2>1. CASE \E m \in Method : Arrive(r, m)
    BY <2>1, <1>1 DEF Arrive, control
  <2>2. CASE HandlerStep(r)
    <3>1. at[r] \notin {"none", "done"}
      BY <2>2 DEF HandlerStep, ReadToClear, ClearBadReq, Ping, ReadToSetBadReq, SetBadReq,
         Reply, Throw, SetException, ThrowToLibrary, Handler
    <3>2. ctl = "opened" => early
      BY <3>1 DEF IInv, SeenInUse, Active
    <3>3. QED BY <3>2, <1>1, <1>5 DEF control
  <2>3. QED BY <2>1, <2>2 DEF RequestStep
<1>8. QED BY <1>1, <1>4, <1>5, <1>6, <1>7 DEF SeenInUse

LEMMA RequestIInv ==
  ASSUME IInv, NEW r \in Request, RequestStep(r)
  PROVE  IInv'
<1>1. TypeOK'
  BY NextTypeOK DEF IInv, Next, RequestStep
<1>2. UNCHANGED control /\ server \in {"open", "closing"}
  BY RequestShape, RequestWrites DEF IInv
<1>3. CallServer' /\ HandlersHaveServer' /\ StoppedIsOff' /\ ZeroMeansOpen'
  BY <1>2 DEF IInv, CallServer, HandlersHaveServer, StoppedIsOff, ZeroMeansOpen, control
<1>4. BindFailKnown'
  BY <1>2 DEF IInv, CallServer, BindFailKnown, control
<1>5. OldBitsGone'
  BY <1>2, RequestWrites DEF IInv, OldBitsGone, control
<1>6. QED BY <1>1, <1>3, <1>4, <1>5, RequestWrites DEF IInv

LEMMA Invariance == Spec => []IInv
<1>1. Init => IInv
  <2> SUFFICES ASSUME Init PROVE IInv
    OBVIOUS
  <2>1. Active = {}
    BY DEF Init, Active
  <2>2. TypeOK
    <3>1. at \in [Request -> {"none"}] /\ method \in [Request -> {"ping"}]
      BY DEF Init
    <3>2. seen \in [Request -> {{}}] /\ result \in [Request -> {"none"}]
      BY DEF Init
    <3>3. listenState \subseteq Flag /\ starts \in 0 .. MaxStarts
      BY RestAssumption DEF Init, Flag
    <3>4. early \in BOOLEAN
      BY DEF Init
    <3>5. QED BY <3>1, <3>2, <3>3, <3>4 DEF Init, TypeOK, Flag, Method
  <2>3. CallServer /\ BindFailKnown /\ StoppedIsOff /\ ZeroMeansOpen /\ OldBitsGone
    BY DEF Init, CallServer, BindFailKnown, StoppedIsOff, ZeroMeansOpen, OldBitsGone
  <2>4. HandlersHaveServer /\ SeenInUse
    BY <2>1 DEF Init, HandlersHaveServer, SeenInUse
  <2>5. QED BY <2>2, <2>3, <2>4 DEF IInv
<1>2. IInv /\ [Next]_vars => IInv'
  <2>1. ASSUME IInv, Next PROVE IInv'
    BY <2>1, ControlIInv, RequestIInv DEF Next, ControlStep, RequestStep
  <2>2. ASSUME IInv, UNCHANGED vars PROVE IInv'
    BY <2>2 DEF IInv, TypeOK, CallServer, HandlersHaveServer, SeenInUse, OldBitsGone, Gone,
       BindFailKnown, StoppedIsOff, ZeroMeansOpen, Active, vars
  <2>3. QED BY <2>1, <2>2
<1>3. QED BY <1>1, <1>2, PTL DEF Spec

-----------------------------------------------------------------------------
(* What a handler that runs alone can rely on. *)

\* The labels a request of each method can be at, and its result so far.
Labelled ==
  \A r \in Active :
    /\ at[r] = "ping" => method[r] = "ping"
    /\ at[r] \in {"bad", "setBad"} => method[r] \in {"get", "post"}
    /\ at[r] = "reply" => method[r] # "post"
    /\ at[r] \in {"clear", "cleared", "setException"} => method[r] \in {"ping", "get", "post"}
    /\ result[r] = IF at[r] = "setException" THEN "exception" ELSE "none"

Unused == \A r \in Request : at[r] = "none" => result[r] = "none"

Alone == \A r \in Active \ overlapped : Active = {r} /\ ctl \in {"idle", "crashed"}

\* Alone, it finds ListenState as it left it before it replies.
Answered ==
  \A r \in Active \ overlapped :
    at[r] = "reply" =>
      /\ method[r] = "ping" => listenState = {}
      /\ method[r] = "get" => "BAD_REQ" \in listenState

LoneInv == Labelled /\ Unused /\ Alone /\ Answered

LEMMA ControlLone ==
  ASSUME TypeOK, LoneInv, ControlStep
  PROVE  LoneInv' /\ \A r \in Request : at'[r] = at[r]
<1>1. CASE CallStep
  <2>1. ctl \notin {"idle", "crashed"} /\ UNCHANGED <<handlers, history>>
    BY <1>1 DEF CallStep, CreateServer, ReplaceServer, OpenServer, Opened, Announce, StartFails,
       BindFailed, CheckState, StoreOK, Shutdown, StoreOff, DestroyServer, Control
  <2>2. Active \subseteq overlapped
    BY <2>1 DEF LoneInv, Alone
  <2>3. Active' = Active
    BY <2>1 DEF handlers, Active
  <2>4. QED
    BY <2>1, <2>2, <2>3 DEF handlers, history, LoneInv, Labelled, Unused, Alone, Answered, Active
<1>2. CASE Call
  <2>1. UNCHANGED handlers /\ overlapped' = overlapped \cup Active
    BY <1>2 DEF Call, StartListener, StopListener, ExitProgram, Touch
  <2>2. Active' = Active
    BY <2>1 DEF Active, handlers
  <2>3. QED BY <2>1, <2>2 DEF handlers, LoneInv, Labelled, Unused, Alone, Answered
<1>3. CASE Uncaught \/ Fault
  <2>1. UNCHANGED <<listenState, handlers, history>> /\ ctl' = "crashed"
    BY <1>3 DEF Uncaught, Fault, Crash
  <2>2. QED BY <2>1 DEF handlers, history, LoneInv, Labelled, Unused, Alone, Answered, Active
<1>4. QED BY <1>1, <1>2, <1>3 DEF ControlStep

LEMMA ArriveLone ==
  ASSUME TypeOK, LoneInv, NEW q \in Request, NEW m \in Method, Arrive(q, m)
  PROVE  LoneInv' /\ \A r \in Active : at'[r] = at[r]
<1>1. /\ at[q] = "none" /\ q \notin Active
      /\ at' = [at EXCEPT ![q] = IF m \in {"put", "delete"} THEN "reply" ELSE "clear"]
      /\ method' = [method EXCEPT ![q] = m]
      /\ UNCHANGED <<listenState, ctl, result>>
  BY DEF Arrive, Handler, Active, control
<1>2. Active' = Active \cup {q}
  BY <1>1 DEF TypeOK, Active
<1>3. \A r \in Request : r # q => at'[r] = at[r] /\ method'[r] = method[r]
  BY <1>1 DEF TypeOK
<1>4. at'[q] = (IF m \in {"put", "delete"} THEN "reply" ELSE "clear") /\ method'[q] = m
  BY <1>1 DEF TypeOK
<1>5. /\ overlapped \subseteq overlapped'
      /\ (Active = {} /\ ctl = "idle") \/ Active \cup {q} \subseteq overlapped'
  BY DEF Arrive
<1>6. Labelled'
  BY <1>1, <1>2, <1>3, <1>4 DEF LoneInv, Labelled, Unused, Method, Active
<1>7. Unused'
  BY <1>1, <1>3, <1>4 DEF LoneInv, Unused
<1>8. Alone'
  BY <1>1, <1>2, <1>5 DEF Alone
<1>9. Answered'
  BY <1>1, <1>2, <1>3, <1>4, <1>5 DEF Answered
<1>10. QED BY <1>3, <1>1, <1>6, <1>7, <1>8, <1>9 DEF LoneInv, Active

\* What a step of q's handler does to q, and that it leaves the others alone.
LEMMA HandlerShape ==
  ASSUME TypeOK, NEW q \in Request, HandlerStep(q)
  PROVE  /\ q \in Active /\ Active' \subseteq Active
         /\ \A r \in Request : r # q => at'[r] = at[r] /\ result'[r] = result[r]
         /\ UNCHANGED <<ctl, method, overlapped>>
  BY DEF TypeOK, HandlerStep, ReadToClear, ClearBadReq, Ping, ReadToSetBadReq,
     SetBadReq, Reply, Throw, SetException, ThrowToLibrary, Handler, Active, control, history

\* A handler that runs alone ends as LoneRequestReported says.
LoneReported(r) ==
  IF method[r] \in {"put", "delete"} \/ result'[r] = "thrown"
    THEN listenState' = listenState
  ELSE IF result'[r] = "exception" THEN "RCV_EXP" \in listenState'
  ELSE IF method[r] = "ping"       THEN listenState' = {}
  ELSE "BAD_REQ" \in listenState'

LEMMA HandlerLone ==
  ASSUME TypeOK, LoneInv, NEW q \in Request, HandlerStep(q)
  PROVE  /\ LoneInv'
         /\ at'[q] = "done" /\ q \notin overlapped => LoneReported(q)
<1>1. /\ q \in Active /\ Active' \subseteq Active
      /\ \A r \in Request : r # q => at'[r] = at[r] /\ result'[r] = result[r]
      /\ UNCHANGED <<ctl, method, overlapped>>
  BY HandlerShape
<1>2. q \notin overlapped => Active = {q}
  BY <1>1 DEF LoneInv, Alone
<1> DEFINE Own ==
      /\ at'[q] = "ping" => method[q] = "ping"
      /\ at'[q] \in {"bad", "setBad"} => method[q] \in {"get", "post"}
      /\ at'[q] = "reply" =>
           /\ method[q] # "post" /\ at[q] # "reply"
           /\ method[q] = "ping" => listenState' = {}
           /\ method[q] = "get" => "BAD_REQ" \in listenState'
      /\ at'[q] \in {"clear", "cleared", "setException"} => method[q] \in {"ping", "get", "post"}
      /\ at'[q] # "none"
      /\ at'[q] # "done" => result'[q] = IF at'[q] = "setException" THEN "exception" ELSE "none"
      /\ at'[q] = "done" => LoneReported(q) \/ q \in overlapped
<1>3. Own
  <2>1. CASE ReadToClear(q)
    <3>1. at'[q] = "cleared" /\ method[q] \in {"ping", "get", "post"} /\ result'[q] = "none"
      BY <1>1, <2>1 DEF ReadToClear, Handler, TypeOK, LoneInv, Labelled
    <3>2. QED BY <3>1
  <2>2. CASE ClearBadReq(q)
    <3>1. /\ at'[q] = (IF method[q] = "ping" THEN "ping" ELSE "bad")
          /\ method[q] \in {"ping", "get", "post"} /\ result'[q] = "none"
      BY <1>1, <2>2 DEF ClearBadReq, Handler, TypeOK, LoneInv, Labelled
    <3>2. QED BY <3>1
  <2>3. CASE Ping(q)
    <3>1. /\ at[q] = "ping" /\ at'[q] = "reply" /\ method[q] = "ping"
          /\ listenState' = {} /\ result'[q] = "none"
      BY <1>1, <2>3 DEF Ping, Handler, TypeOK, LoneInv, Labelled
    <3>2. QED BY <3>1
  <2>4. CASE ReadToSetBadReq(q)
    <3>1. /\ at'[q] = "setBad" /\ method[q] \in {"get", "post"} /\ result'[q] = "none"
      BY <1>1, <2>4 DEF ReadToSetBadReq, Handler, TypeOK, LoneInv, Labelled
    <3>2. QED BY <3>1
  <2>5. CASE SetBadReq(q)
    <3>1. /\ at[q] = "setBad" /\ at'[q] = (IF method[q] = "post" THEN "done" ELSE "reply")
          /\ "BAD_REQ" \in listenState'
          /\ result'[q] = "none" /\ method[q] \in {"get", "post"}
      BY <1>1, <2>5 DEF SetBadReq, Handler, TypeOK, LoneInv, Labelled
    <3>2. QED BY <3>1 DEF LoneReported
  <2>6. CASE Reply(q)
    <3>1. /\ at[q] = "reply" /\ at'[q] = "done" /\ method[q] \in Method \ {"post"}
          /\ result'[q] = "replied" /\ listenState' = listenState
      BY <1>1, <2>6 DEF Reply, Handler, TypeOK, LoneInv, Labelled
    <3>2. q \notin overlapped =>
            /\ method[q] = "ping" => listenState' = {}
            /\ method[q] = "get" => "BAD_REQ" \in listenState'
      BY <1>1, <3>1 DEF LoneInv, Answered
    <3>3. QED BY <3>1, <3>2 DEF LoneReported, Method
  <2>7. CASE Throw(q)
    <3>1. /\ at'[q] = "setException" /\ method[q] \in {"ping", "get", "post"}
          /\ result'[q] = "exception"
      BY <2>7 DEF Throw, Handler, TypeOK
    <3>2. QED BY <3>1
  <2>8. CASE SetException(q)
    <3>1. /\ at'[q] = "done" /\ method[q] \in {"ping", "get", "post"}
          /\ result'[q] = "exception" /\ "RCV_EXP" \in listenState'
      BY <1>1, <2>8 DEF SetException, Handler, TypeOK, LoneInv, Labelled
    <3>2. QED BY <3>1 DEF LoneReported
  <2>9. CASE ThrowToLibrary(q)
    <3>1. at'[q] = "done" /\ result'[q] = "thrown" /\ listenState' = listenState
      BY <2>9 DEF ThrowToLibrary, Handler, TypeOK
    <3>2. QED BY <3>1 DEF LoneReported
  <2>10. QED BY <2>1, <2>2, <2>3, <2>4, <2>5, <2>6, <2>7, <2>8, <2>9 DEF HandlerStep
<1>4. Labelled'
  BY <1>1, <1>3 DEF LoneInv, Labelled, Active
<1>5. Unused'
  BY <1>1, <1>3 DEF LoneInv, Unused
<1>6. Alone'
  BY <1>1, <1>2 DEF LoneInv, Alone
<1>7. Answered'
  BY <1>1, <1>2, <1>3 DEF LoneInv, Alone, Answered
<1>8. QED BY <1>1, <1>3, <1>4, <1>5, <1>6, <1>7 DEF LoneInv

LEMMA LoneInvariance == Spec => []LoneInv /\ LoneRequestReported
<1> DEFINE Reported == \A r \in Request :
             r \in Active /\ at'[r] = "done" /\ r \notin overlapped => LoneReported(r)
<1>1. Init => LoneInv
  BY DEF Init, LoneInv, Labelled, Unused, Alone, Answered, Active
<1>2. TypeOK /\ LoneInv /\ [Next]_vars => LoneInv' /\ Reported
  <2> SUFFICES ASSUME TypeOK, LoneInv, [Next]_vars PROVE LoneInv' /\ Reported
    OBVIOUS
  <2>1. CASE UNCHANGED vars
    BY <2>1 DEF vars, LoneInv, Labelled, Unused, Alone, Answered, Active
  <2>2. CASE ControlStep
    BY <2>2, ControlLone DEF Active
  <2>3. ASSUME NEW q \in Request, NEW m \in Method, Arrive(q, m)
        PROVE  LoneInv' /\ Reported
    BY <2>3, ArriveLone DEF Active
  <2>4. ASSUME NEW q \in Request, HandlerStep(q)
        PROVE  LoneInv' /\ Reported
    BY <2>4, HandlerLone, HandlerShape DEF Active
  <2>5. QED BY <2>1, <2>2, <2>3, <2>4 DEF Next, ControlStep
<1>3. Reported <=> \A r \in Request :
        r \in Active /\ at'[r] = "done" /\ r \notin overlapped =>
          IF method[r] \in {"put", "delete"} \/ result'[r] = "thrown"
            THEN listenState' = listenState
          ELSE IF result'[r] = "exception" THEN "RCV_EXP" \in listenState'
          ELSE IF method[r] = "ping"       THEN listenState' = {}
          ELSE "BAD_REQ" \in listenState'
  BY DEF LoneReported
<1>4. QED
  BY <1>1, <1>2, <1>3, Invariance, PTL DEF Spec, LoneRequestReported, IInv

-----------------------------------------------------------------------------
(* The theorems. *)

\* The types, and that open() is called on a new server only.
THEOREM TypeCorrect == Spec => []TypeOK
  BY Invariance, PTL DEF IInv

\* No handler runs on a server that is closed or replaced.
THEOREM HandlersSafe == Spec => []HandlersHaveServer
  BY Invariance, PTL DEF IInv

\* No late handler changes ListenState after StopListener.
THEOREM StopsForGood == Spec => []StoppedIsOff
  BY Invariance, PTL DEF IInv

\* 0 from StartListener means that the listener is open.
THEOREM StartsTruly == Spec => []ZeroMeansOpen
  BY Invariance, PTL DEF IInv

\* An open listener that no request reached too early can be stopped.
THEOREM StopsWhatIsOpen == Spec => []StopCloses
<1>1. IInv => StopCloses
  BY DEF IInv, OldBitsGone, Gone, StopCloses
<1>2. QED BY Invariance, <1>1, PTL

\* BIND_FAIL is there after an open that failed, and not after a start in which
\* nothing threw and no request came too early.
THEOREM BindFailuresKnown == Spec => []BindFailExact
<1>1. IInv => BindFailExact
  <2> SUFFICES ASSUME IInv, ctl = "idle" PROVE BindFailExact
    BY DEF BindFailExact
  <2>1. ret # 1 => ret = -1 \/ ret = 0
    BY DEF IInv, TypeOK
  <2>2. ret # 1 /\ threw = "none" => server = "open"
    BY <2>1 DEF IInv, BindFailKnown, ZeroMeansOpen
  <2>3. QED BY <2>2 DEF IInv, OldBitsGone, Gone, BindFailKnown, BindFailExact
<1>2. QED BY Invariance, <1>1, PTL

\* A handler that runs alone leaves ListenState as its request deserves.
THEOREM LoneRequestsReported == Spec => LoneRequestReported
  BY LoneInvariance, PTL
=============================================================================
