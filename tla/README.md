# BearLDC: specifications, checks and proofs

This directory holds TLA+ specifications of BearLDC, a Windows agent that keeps
lists of connections, ports and handler threads, accepts agent connections on a
socket, answers local REST requests and exchanges keys with its clients. The
paths below are relative to `src/BearLDC/`.

## The system

| part | state | operations | used by |
|---|---|---|---|
| Connection control list, class `CCL` (`connect.cpp`, `Inc/connect.h`) | three singly linked lists, the counters `ccnt`, `pcnt`, `tcnt`, one mutex `lock1` | `Add*`, `Remove*`, `Find*` for connections, threads and ports | agent server; any thread |
| `BearLDC` object (`bearLDCClass.cpp`, `BearLDC.h`) | the `CCL`, `ListenState`, `EventCmd`, configuration | constructor, `bear_print`, `ExecProc`, `FindProcessId` | everything |
| Agent server (`AgentServer.cpp`) | local `ThreadID`, sockets | `TestThread`, `DoWinsock`, `SetUpListener`, `AcceptConnections`, `ConnHandler`, `dumpList` | `wWinMain` calls `TestThread`; nobody calls `DoWinsock` yet |
| REST listener (`BearRestListen.cpp`) | `g_http`, `client->ListenState` | `StartListener`, `StopListener`, GET/POST/PUT/DELETE handlers | `wWinMain`; the http library calls the handlers |
| Process life (`BearLDC.cpp`) | window, message loop | `wWinMain`, window procedures | the system |
| Key exchange (`keys.cpp`) | the secrets of `SIKE_DH` | `ClientKeysInit`, `LDCkeysM1`, `ClientKeys`, `LDCkeysM2` | nobody yet |
| AES (`aes.cpp`) | tables, CTR offset and stream block | key setup, block cipher, CTR, the `Mangle*` wrappers | nobody yet |
| Random bytes (`random.cpp`) | none | `randombytes` | the key exchange library |
| Old listener (`listen.cpp`), commands (`BearCmd.*`) | none in use | | nobody |
| Vendored: cpprest, pplx, pthreads-win32, P751 | | | |

How they interact: handler threads and their creators meet in the thread list,
behind `lock1`, which also guards the connections and the ports. The threads of
the http library and the thread that starts and stops the listener meet in
`ListenState`, which nothing guards, and in the string `EventCmd`, which nothing
guards either. The AES tables and `aes_init_done` are shared by every thread that
sets a key, without a lock. `wWinMain` runs `TestThread` to its end before it
starts the listener, so a lost `lock1` keeps the listener from coming up at all.

What is hard here: `lock1` is kept by every path of `Add` and `Remove` that
returns early (out of memory, head removed, key not found); `Add` reads the head
of the list before it takes the lock; `Find*` and `dumpList` take no lock; a
handler is registered after it was started, by another thread than the one that
unregisters it; `ListenState` is changed with unprotected `|=` and `&=`; an
exception after the listener is open is reported as a failure to open it;
nothing ties a message of the key exchange to its exchange; a CTR stream is cut
into calls of any length. Each of these is listed with its line under `hazards`
in `PROJECT.json`.

What makes each part correct: the lists stay chains of live nodes, no memory
is lost and every call takes effect at one moment (`CCL`); the thread list names
running handlers, and creators come back (agent server); `ListenState` and the
results of `StartListener` tell the truth about the listener, requests are
answered, and no handler outlives its server (REST listener); both sides end
with the same secret (key exchange); schedules and rounds are those of FIPS-197,
and a stream does not depend on how it is cut (AES).

## Modules

### CCL

`CCL.tla` is class `CCL`. The three families of functions are one piece of code
over three node types; an entry action (`AddThread`, `RemovePort`, `FindIP`, ...)
binds the list, the generic actions are the steps, and `AddCounter`,
`RemoveHeadCounter` and `RemoveCounter` are the places where the families differ.

* `head`, `next`, `key`, `cnt`, `lock` are the fields of the class and of its
  nodes. `place` is the allocator's and the list's view of a node: `"free"`,
  `"heap"` (allocated, in no list) or the list it is in. `ptr`, `prev`, `temp`
  and `op` are the local variables of a call. `stale` is a history variable: the
  readers whose pointer is older than some `free`.
* A step is one access to shared state: reading the head before the lock
  (`BeginAdd`), one iteration of a loop, unlinking, freeing with the counter.
  `Return` unlocks only on the paths of `UnlockingPaths`.
* `malloc` may fail at any time, also while addresses are free
  (`AddMallocFails`).
* One iteration of a walk without the lock (`WalkOn`) reads the key and the `next`
  field of a node in one step, where the code reads one after the other. The key
  of a node does not change between `malloc` and `free`, and the properties excuse
  every reader that a `free` overlaps, so that the merge hides nothing from them.
* `lock1` is a normal pthread mutex: a second lock by its owner blocks. The
  `catch (...)` arms are left out: nothing in the `try` blocks throws a C++
  exception.
* `free` leaves the bytes of the node as they were until `malloc` hands the
  address out again. Reading through such a pointer may also end the process
  (`Fault`), after which nothing runs.
* `FindID` compares 640 bytes, of which `AddConnection` writes only those up to
  the end of the string: it may return at any node (`MayMatch`).

Properties: `TypeOK`; `OnlyHolderInside`, `ListsWellLinked`,
`WritersTouchLiveNodes`, `AddedIsLinked`, `NodesAccountedFor`,
`CountersBalance`, `QuietReaderSafe`, the action properties `FrozenOnceLeaked`
and `KeepsPromise` and, under `FairSpec`, `LockComesBack`. The most telling one is
`WritersTouchLiveNodes`: the unguarded read of the head in `Add` would be a use
after free, were it not that removing a head also loses the lock. Repairing the
second defect alone (the mutant `UnlockingPathsWithHead`) makes the first one
real.

`CountersBalance` says what the counters can be trusted for: `tcnt` is the length
of the PORT list, and only the sum of `ccnt` and `pcnt` means anything (the
lengths of the connection and the thread list together).

### CCLReaders

`CCLReaders.tla` adds one history variable to `CCL`: the searches whose key has
been in the list at every moment since they began (`kept`). `FindMissHonest`
says that such a search returns `NULL` only when a node was freed while it ran:
nodes that are unlinked, linked and allocated around a reader never lead it past
what it looks for. It rests on `RemUnlink` leaving the `next` field of the node it
takes out alone; clearing it (the mutant `RemUnlinkClears`) breaks it. Without
the exception for freed nodes it fails.

### Registry

`Registry.tla` is what the list promises its callers, without nodes, cursors or a
mutex: three lists of keys in which an `Add` or a `Remove` takes effect at one
moment between its request and its return, and which a call loses for everybody
when it finds no memory, no such key, or its key in the first entry. `KeepsPromise`
in `CCL` maps a linked node to an entry, the progress of a call to `kind`
(`Requested` until it links or unlinks) and a lock kept by a returned call to
`lost`. The step that takes effect is `AddLink`, `RemUnlink` or `RemHeadHit`.

### AgentServer

`AgentServer.tla` extends `CCL` with the thread list alone. `Tester` runs
`TestThread`, `Server` runs `DoWinsock`; both call `pthread_create`
(`CreateThread`, `CreateFails`) and then `AddThread` (`Register`). A handler's
whole life is `ConnHandler` (`RemoveThread(pthread_self())`) and `HandlerExits`.
Every step of `CCL` a call makes is a step here (`ListStep`).

* `threadID` is the creator's local variable: stack garbage at first, and left
  alone by a failing `pthread_create`. Each call of `AcceptConnections` has one of
  its own, uninitialised again (`RestartListener`): it holds what the last one
  held or anything else. A handle is never used twice, since
  nobody joins or detaches a thread.
* `TestThread` dumps the list twice at its end (`dumping`, `dumpingAgain`).
* `SetUpListener` has its four outcomes (`sock`): no socket, bind failed (the
  socket leaks), listen failed (returned all the same), listening.
* Accepted sockets are not modelled beyond their number: nobody closes them.

Properties: `AgentTypeOK`, `RegistryExact`, `RegisteredOnce`, `SentinelStays`,
`LostByOvertaking`, the refinement `AgentImplementsCCL` (the agent server is a
caller that `CCL!Spec` allows, so that what is proved of `CCL` holds of its
list) and, under `AgentFairSpec`, `TestThreadEnds`. Two statements
of the comments fail, each in a run of its own: `ListenerListens` and
`BackToWaiting`.

`LostByOvertaking` says what a lost lock means. Either its keeper is a handler
that the list does not name, because it ended before it was registered; or it is a
creator whose `malloc` failed, and then (as long as no `pthread_create` failed) the
list does not name the handler that creator has started last.

### RestListener

`RestListener.tla` is `BearRestListen.cpp`: one controlling thread (`ctl`) that
starts, stops and leaves, and one handler per request (`at`). `ListenState` is
the set of its bits. `|=` and `&=` are two steps, a read into `seen` or `reg`
and a write; a plain assignment is one. `server` is the BEARSERVER in `g_http`.
The http library is external and modelled by what its header promises: requests
arrive while the listener is open, `close` lets none in and ends when the
running handlers have returned, a destructor closes first.

Exceptions come from wherever the code can throw. In the `try` block of
`on_initialize` these are `open` and the print after it (line 44), which builds a
stream: the second is caught like the first and sets `BIND_FAIL` although the
listener is open (`StartFails`, with `threw` remembering which it was). A
statement of a handler's `try` block may throw (`Throw`), and what no handler
catches goes to the library (`ThrowToLibrary`). What leaves `StartListener` or
`StopListener` (the lines before the `try` block, the print in the catch block,
`close().wait()`) is caught by nobody and ends the process: `Uncaught`, to the
label `"crashed"`, at which nothing runs any more.

The string assigned to `EventCmd` is a data race between handlers. A handler
assigns it at the label `ping` or `bad`; two that do so together can leave it
damaged, its buffer freed twice (`AssignEventCmd`), and a damaged string may end
the process at any later time (`Fault`). No property says that this does not
happen, since the repository says nowhere that handlers take turns, and none is
about the text, which nobody reads.

`StopListener` is called after a first `StartListener` only (before that
`ListenState` is not initialised and `g_http` is empty). Three history variables
serve the properties: `threw`, what threw in the last start; `early`, that a
request came before the last start had stored `OK`; and `overlapped`, the requests
whose handler ran beside another one or a call. `seen` and `reg` are cleared once
what they hold is written, since nobody reads it again.

Properties: `TypeOK`, `HandlersHaveServer`, `StoppedIsOff`, `ZeroMeansOpen`,
`BindFailExact`, `StopCloses`, `LoneRequestReported`; under `FairSpec`
`RequestsReplied` and `CallsReturn`, both unless the process ends.
`ClosedBeforeDestroyed` fails: `wWinMain` never stops the listener.

What does not hold, and is therefore not stated:

* That -1 from `StartListener` means a closed listener: a request that arrives
  before the check is enough, and so is a print that throws. `BindFailExact` says
  what is left: `BIND_FAIL` is set after a start that `open` failed, and not set
  after one in which nothing threw and no request came early.
* That `OFF` means a closed listener: a handler that read `OFF` before
  `StartListener` stored `OK` can bring it back, and a `StopListener` then does
  nothing. `StopCloses` says that there is no other way: a listener that no
  request reached before `OK` was stored can be stopped, whatever the start returned.

### KeyExchange

`KeyExchange.tla` has the four functions of `keys.cpp` as its actions. No code
calls them but the disabled `TestKeys` at the end of the file, which gives the
order. The callers and the stream between the two sides are external: each side
handles its messages in order, a message may come twice in a row (`Repeat`; in a
stream that keeps its order it can come twice in no other way), and the
connection may be lost with all that is on its way (`LoseConnection`).

* SIKEp751 is symbolic: a key pair is one value, a ciphertext is the pair of the
  public key and the randomness it was made with, and the secret is the
  ciphertext with the key it was opened with. Opening with the wrong key reports
  no error and gives another secret, as the implicit rejection of SIKE does.
* `drawn` counts the random values, so that no two draws are equal. What
  `malloc` leaves in a `SIKE_DH` is `ClientGarbage` or `LDCGarbage`.

Properties: `TypeOK`, `QuietAgreed` (once nothing is on its way and nothing was
lost since the client began, both secrets are the same) and, under `FairSpec`,
`KeysSettle` (a client that begins, or begins anew after a loss, gets there). A
comment at `keys.cpp:57` calls the key pair of `LDCkeysM1` static; the code
generates and stores one for every M1. Storing the first pair only while sending
every new public key (the mutant `LDCkeysM1Static`) breaks `QuietAgreed`.

### Aes, AesBytes, Fips197

`AesBytes.tla` has bytes as sets of bit numbers, so that exclusive or is a
symmetric difference, `XTIME` and words. `Fips197.tla` is the abstract cipher: a
thread asks for a key, gets at once a schedule that stands to that key in the
relation `KeyExpansion`, word by word as the standard defines it, and a round is
`SubBytes`, `ShiftRows`, `MixColumns` and `AddRoundKey`. `Aes.tla` is `aes.cpp`:
`aes_gen_tables` in the order it fills its tables (`Generate`), the key copied to
the front of the schedule (`LoadKey`), the three loops for 128, 192 and 256 bits
(`ExpandKey`, a step an iteration; `Extension` is their common body), and rounds
that look up four tables (`AES_FROUND`), for several threads that share the tables
and `aes_init_done`. The refinement maps the key asked for to the parameter of
`mbedtls_aes_setkey_enc`, and the schedule to the words of `buf` the rounds use,
once the loop is through.

* Two threads may both find `aes_init_done` zero and generate at once; both
  write the same values. What is checked is that no thread encrypts with a table
  that is not there. Stores are seen in program order: nothing in the code asks
  for it, but the processors it is built for keep it.
* Table entries are computed from their definitions and kept as functions.
  `GeneratorAssumption` says that every byte but 0 is a power of 3 and that the
  255th power is 1 again; it has no parameter, and TLC evaluates it in
  `AesSafety`. That the S-box and the round constants the code computes from
  these powers are those the standard defines by inverses is proved from it.

Properties: `TypeOK` (the 60 words and more of the longest schedule fit the
buffer of 68), `TablesReady` (whoever found `aes_init_done` set, or has a key,
finds every table there), `AesImplementsFips` (the refinement, thread by thread and round
by round), `KnownAnswers` (the ciphertexts of FIPS-197, appendix C, for the three
key lengths) and `ReverseTablesInvert` (`RT0` to `RT3` undo the forward tables;
nobody decrypts a block in this program, so nothing else would show a mistake).

### AesCtr

`AesCtr.tla` is `mbedtls_aes_crypt_ctr`, with the counter, the stream block and
the offset its caller keeps between calls, and the two `Mangle` wrappers, which
start a stream with every call. The block cipher is left to `Aes`: a stream block
is the counter it was made from, and a byte of output is what it was combined
with. `BytesInOrder` says that no byte of the key stream is left out or used
twice however the stream is cut into calls, `KeystreamByPosition` that the k-th
byte is combined with byte `k % 16` of block `k / 16`, counting with carries and
the wrap.

Both are about one stream. Each call of a `Mangle` wrapper begins a new one with
the same counter, `MangleNonce` (`aes.cpp:464-468` and `483-485` copy the same
entry of a table of constants), so all messages under one key are combined with
the same bytes of the key stream. The model shows this in `Mangle`; the
repository says nothing to the contrary, nobody calls the wrappers, and no
property is stated about it. Lengths are 0 to `MaxBytes`: the wrappers hand an `int` to a
`size_t`, and what a negative one would do is not modelled.

## Runs

| run | bounds | question |
|---|---|---|
| `CCLSafety` | 3 threads, 3 nodes, 3 keys, one list | list shape, memory, readers and writers in every interleaving |
| `CCLCounters` | 2 threads, 5 nodes, 2 keys, three lists | the counters across the lists, and the promise of `Registry` |
| `CCLProgress` | 2 threads, 3 nodes, one list, fair | the lock comes back |
| `AgentSafety` | 3 handlers, 3 nodes, 2 rounds, 1 connection, 1 failure | registry and lock; the agent server is a caller of `CCL` |
| `AgentProgress` | 2 handlers, 3 nodes, 2 rounds, 1 failure, fair | `TestThread` and its handlers end |
| `AgentListens`, `AgentBack` | 2 handlers, 1 round, 1 connection | the two comments that fail |
| `RestSafety` | 2 requests, 2 starts, fair | `ListenState`, the results of the calls, what can be stopped, replies and returns |
| `RestDestroy` | 1 request, 1 start | the library's rule that fails |
| `KeySafety` | 12 draws (4 exchanges and their answers at most), 2 losses, 2 repeats, fair | agreement of the secrets, and that it comes |
| `AesSafety` | 2 threads, the keys and the block of FIPS-197, appendix C, and a key of a wrong length, 2 keys set | tables, schedules and rounds against the standard |
| `CtrSafety` | blocks of 3 digits of base 2, 14 bytes, 2 nonces | the key stream under every cut, with carries and the wrap |

Why the bounds are enough. Three threads give a holder of the lock, a waiting
`Add` with an old head, and a reader. Three nodes give a list with a first, a
middle and a last node, and reuse of a freed address. Three keys
give the constructor's, one that is found and one that is not; the number of keys
only multiplies misses. In `AgentSafety` three handlers meet two nodes of heap, so
that a node is used again for another handle. Two starts show what survives
from one to the next; two requests are the pair that races, and what holds of a
pair is proved for any number. Twelve draws let exchanges overlap twice with
repeats in both directions. Two keys set by two threads are the race of the
table generation, and a schedule written over the longer one of a former key. A
stream block of three bits has carries over every digit, and of the five blocks that 14
bytes take the third wraps the counter that begins with 6. `Thread`, `Key` and `Node` (but
for the constructor's) are symmetric sets and are reduced by symmetry in
`CCLSafety`, `CCLCounters` and `AgentSafety`; the other runs use no symmetry.

`CHECK_DEADLOCK` is off where the systems really stop: when the lock is lost,
after a fault, after the program's exit, when every bounded call was made.
`CCLSafety`, `CCLCounters`, `CCLProgress`, `AgentSafety` and the other agent runs,
`RestSafety`, `RestDestroy` and `KeySafety` are such; `AesSafety` and `CtrSafety`
check it.

Bounds that are not in the code: `Node` (heap), `Rounds` (20 in the code, 1 or 2
here), `MaxConns`, `MaxFailures`, `MaxStarts`, that each element of `Request`
arrives once, `MaxDraws`, `MaxLosses`, `MaxRepeats`, `MaxKeys` and `MaxBytes`.

## Fairness

`CCL!FairSpec` asks that the thread inside the lock is scheduled, no more: no
order of waiting threads, and no obligation to call. `AgentFairness` is weak
fairness for every thread, as a preemptive scheduler gives it; a thread waiting
for `lock1` gets it if it stays free, which is enough because the calls are
finite in number. The network owes no connection. `RestListener!FairSpec` is
weak fairness for a call that has begun and for each running handler; nothing is
owed by a process that an exception or the race on `EventCmd` has ended.
`KeyExchange!FairSpec` asks that both sides handle what arrives; neither the
client nor the stream owes anything, and a client whose connection is lost need
not begin anew.

## Proofs

All theorems hold for every value of the constants under the modules' own
assumptions (`CCLAssumption`: the null pointer is no node, and each list has a
first node of its own; `AgentAssumption`; `RestAssumption`; `KeyAssumption`;
`CtrAssumption`: there is a byte in a block, a byte has two values or more, and
the counter of the `Mangle` wrappers is one a stream can start with;
`AesAssumption`: keys and blocks are made of words). `GeneratorAssumption` is
another thing: a closed statement about the 255 powers of 3, which no prover here
can compute and TLC does. The type invariants of `CCL` and `KeyExchange` are inductive as they
stand; none of the other invariants is.

`CCL_proofs.tla`: `TypeCorrect`, `LockGuardsLists`, `ListsStayLinked`,
`WritersSafe`, `AddsAreLinked`, `LeakFreezes`, `QuietReadersSafe`,
`CountersCorrect`. The invariant
`IInv` adds to the type invariant, `OnlyHolderInside` and `ListsWellLinked`:

* `HeadsSettled`: what a waiting `Add` read before it had the lock is still the
  head, and no list is empty, unless the lock is `Doomed` (its holder returned
  with it, or has changed a head and is on its way to do so). This is the
  argument why the early read of the head is harmless.
* `AddCursor`, `RemoveCursors`: where the cursors of the call inside the lock
  are. `prev` and `temp` differ because `prev` was compared with the key and
  missed, so no proof needs to know that a list has no cycle.
* `HeapHeld`: an allocated node outside the lists belongs to the holder of the
  lock. Together with the cursors it gives `QuietReadersSafe`.

`StepShapes` divides the steps into those outside the lock, which change no
memory, and those of the holder, while everybody else is outside; the proofs
that a part of `IInv` is preserved treat one action after the other from there.
`CountersCorrect` counts with the cardinality theorems. The heap may be infinite,
so the invariant says that each list is finite (`ListsFinite`); a node that is
unlinked and not yet freed still counts, because its counter has not been taken
down (`Members`), and every step is a `Recount` of one list with one counter or
leaves all of them alone.

`Registry_proofs.tla`: `NodesAccounted` and `PromiseKept`, the refinement.
Reachability along `next` is said with closed sets (a node is reachable when
every set that holds the head and is closed under `next` holds the node), so
that preserving it needs no induction: a closed set of the new chain becomes one
of the old chain by adding or leaving out the node that moved. `AllReached` says
that every node of a list is reachable from its head, `SearchComplete` that a
`Remove` still has every node with its key before it, so that finding none means
there is none, and `NewNamed` that an `Add` links the key it was called with.

`CCLReaders_proofs.tla`: `MissesAreHonest`. The invariant `ReaderInv` says that as
long as no node was freed under a reader, the node it looks for is in every set
that holds the reader's cursor and is closed under `next` (`KeptAhead`). A node
that is unlinked keeps its `next`, so such a set needs no member of the list to
lead on. What an `Add` links, it links behind the last node; that this node is
ahead of every reader is `EndReached`: from each node of a list, `next` leads to
its last one.

`AgentServer_proofs.tla`: `AgentTypeCorrect`, `AgentImplements` (every step of
the agent server is one of `CCL`), `AgentKeepsPromise` (with it, what is proved of
the list alone holds of the list in the program: the promise of `Registry`,
`WritersTouchLiveNodes`, `CountersBalance`, `FrozenOnceLeaked`),
`SentinelRemains` (no handler has the key of the first node, and nobody else
removes), `RegistryIsExact`, `RegisteredAtMostOnce` and `LostAsStated`.
`RegistryIsExact` follows the claim to
a handle: without failures a handle is at one place only, in the hand of its
creator, in the list, or gone with its handler (`ClaimInv`); it needs
`PromiseKept`'s view of the list. `RegisteredAtMostOnce` holds with failures too,
and counts them: the entries of a handle and the creators about to add it are one
more than the failed `pthread_create` calls at most (`FewClaims`), since each of
these leaves one old handle in a `ThreadID` to be added again. `LostAsStated` rests
on both: the handle whose `malloc` failed was its creator's claim and so not on the
list (`ClaimInv`), and a handle made later is on no list (`FewClaims`).

`RestListener_proofs.tla`: `TypeCorrect`, `HandlersSafe`, `StopsForGood`,
`StartsTruly`, `StopsWhatIsOpen`, `BindFailuresKnown`, `LoneRequestsReported`. The
invariant says what each step of a call knows of the server (`CallServer`), that a
handler holds a value to write back only while it is active (`SeenInUse`), and that
`OFF` and `BIND_FAIL`, when they are gone from `ListenState`, are gone from every such
value too unless a request came early (`OldBitsGone`, with `Gone`): bits of an
earlier start have no way back. `LoneRequestsReported` rests on a handler outside
`overlapped` being the only active one while no call is under way (`Alone`).

`KeyExchange_proofs.tla`: `SecretsAgree`. The invariant follows one secret
through the two streams: the newest reply was made for the private key the LDC
holds now, so that once no hello and no reply is left the client's secret opens
with it (`ClientOpens`), and the newest final carries that ciphertext.
`KeyTypeCorrect` needs the sets of values to grow with what is drawn
(`MessagesGrow`).

`Aes_proofs.tla`: `AesTypeCorrect`, `TablesBeforeUse`, `ReverseTablesUndo` and
`AesImplementsStandard`, the refinement of `Fips197`, for every set of threads,
keys and blocks. The argument about the race of the table generation is
`TablesInOrder`, the inductive form of `TablesReady`: a thread has filled what
comes before its place in the generation, the flag is set last, and no table is
ever taken back. `IterationExpands` shows that an iteration of any of the three loops
makes as many words more as the key has, each the one `KeyExpansion` asks for, so
that a loop keeps `ScheduleSoFar`. The lemmas on the rounds show that four lookups
and their exclusive or are `MixColumns` of `ShiftRows` of `SubBytes`, from the
linearity of `XTIME`, without computing a table entry.

The tables themselves come from one fact about the field: for each byte,
multiplying by it is linear and commutes with multiplying by 3 (`TimesFacts`,
`TimesTriple`). So powers of 3 are multiplied by adding their exponents
(`PowerTimesPower`), a byte times its `255 - log`th power is 1 (`InverseIs`), and
the S-box and the `MUL` macro of the code are the inverse and the product of the
standard (`SboxIsStandard`, `MULIs`). `ReverseTablesUndo` adds that neither the
inverse nor the affine step loses anything (`InverseInjective`,
`AffineInjective`), so that the reverse S-box undoes the S-box, and that the
multiples of 14, 9, 13 and 11 cancel those of 2, 3 and 1 (`ColumnUndone`).

In the refinement, `RoundKeyNext` (the round key
pointer and the loop counter agree) says when the last round is due.

`AesCtr_proofs.tla`: `TypeCorrect`, `CutsLeaveNoTrace` and `BytesPlaced`,
for every block length, byte size and nonce. The invariant says that the counter, the block
and the offset between calls are those of the last byte (`Ready`). `BytesPlaced`
turns that chain of bytes into positions. `IncrementCounts` shows that
`Increment` adds one to the number the counter makes, modulo `Counters`, and
`BytesByPosition` follows it over the bytes. Both are inductions over data; they
are made without an operator parameter by the lemma `UpTo`, which says of a SET
that holds 0 and with `d - 1` also `d` that it holds all up to `N`, and follows from
the well-foundedness of the naturals (`Least`). The digits of a counter are a
recursive function, whose existence is proved in the same way (`PrefixesAre`).

Left to TLC, and why: everything under fairness (`LockComesBack`,
`TestThreadEnds`, `RequestsReplied`, `CallsReturn`, `KeysSettle`), because liveness
and `ENABLED` are outside what the provers handle; and `KnownAnswers`, a
computation on given bytes without a parameter, as `GeneratorAssumption` is. The three statements that fail have a counterexample
each and nothing to prove.

## What is not modelled

* The vendored libraries: cpprest and pplx (`Inc/cpprest`, `Inc/pplx`),
  pthreads-win32 (`Inc/pthread`) and the headers of P751. They are some 36 000 of
  the 40 000 lines in C and C++ files here, and are headers of other projects
  whose implementation is not in the repository; `pplxtasks.h` is not even compiled by
  MSVC, for which pplx uses `<ppltasks.h>`. What the program relies on (the
  mutex, thread creation, opening, closing and destroying a listener, the KEM) is
  modelled as external. For that reason the map covers a small share of all
  lines, and most of the first-party functions that have state.
* `bear_print`, `ExecProc` and `FindProcessId` (`bearLDCClass.cpp`): straight-line
  calls of the system with no state of the program's own; nobody calls the last
  two, and each closes its handles on every path.
* The failure of `malloc` in the constructor: it prints a message and writes
  through the null pointer, which ends the process before anything runs.
* The window procedures and the message loop (`BearLDC.cpp`); addresses, times
  and names; `EventTime`, written by every handler and read by nobody.
* Accepted sockets are counted, not owned: `AgentServer.cpp:88` drops each one,
  and line 52 the socket that could not be bound. Nothing in the repository
  promises to close them, so there is nothing to check.
* The fields of a connection other than its address (see `FindID`).
* `random.cpp`: its two bodies are behind `__WINDOWS__` and `__LINUX__`, which the
  project file does not define; either is one read of the system's generator.
* `listen.cpp` is not compiled; `BearCmd.*` declares types; `AKESIKE.cpp` is a hex
  dump and commented-out code.
* `aes.h` declares a decryption and a self test that no file defines; the macro
  `AES_RROUND` is used by nobody.

## What is left

* The composition of `AgentServer` with `RestListener` in the order of `wWinMain`:
  they share no state, and the one effect of the first on the second, that
  `StartListener` is reached only if `TestThread` returns, is `TestThreadEnds`.
