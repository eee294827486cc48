# A TLA+ model of tarsx

tarsx is a C++ reimplementation of the core of the Tars RPC framework: a client
that makes synchronous and asynchronous calls over one connection, and a server
that handles requests in coroutines. This directory holds TLA+ modules of its
core, TLC configurations that check them on small instances, and proofs that
TLAPS checks for every instance.

Source references are to `src/tarsx/`.

## 1. The system

| part | state | operations | who calls it |
|---|---|---|---|
| `LoopQueue` | ring `p_`, indices `begin_` (producer) and `end_` (consumer), no lock | `push_back` (one, vector), `pop_front`, `get_front` | caller → network thread (requests), network thread → callback thread |
| `TimeoutQueueNew` | `data_`, `time_`, `send_`, with iterators into one another | `push`, `get`, `erase`, `getSend`, `popSend`, three `timeout`s | network thread of the client |
| `ServantProxy` | thread data with one request queue per proxy | `tars_invoke`, `tars_invoke_async`, `invoke` | any thread of the user's |
| `CommunicatorEpoll` | epoll set, `notify_` slots, callback threads | `notify` (from callers), `run`, `handle` | network thread |
| `ObjectProxy`, `Transceiver` | `id_`, `timeoutQueue_`; socket, `sendBuffer_`, `recvBuffer_` | `sendReqMessage`, `finishInvoke`; `connect`, `sendRequest`, `doResponse`, `close` | network thread |
| `AsyncProcThread` | `LoopQueue` of finished messages | `push_back`, `run` | network thread; itself |
| `Monitor`, `Mutex`, `Condition`, `Lock` | a mutex and a condition | `lock`, `unlock`, `wait`, `timedWait`, `notify` | all |
| `NetThread` | `free_`, `connectionUids_`, `sendBuffer_` (a `ThreadDeque`), epoll set | `accept`, `processNet`, `processPipe`, `send`, `close` | network thread; `send`/`close` from business threads |
| `Connection` | socket, `uid_`, `recvBuffer_` | `recv`, `send`, `tcpSend` | network thread |
| `BindAdapter`, `EpollServer` | `receiveBuffer_` (a `ThreadDeque`) | `insertRecvDeque`, `waitForRecvQueue`, `send`, `close` | both threads |
| `ServantHandle` | servants, coroutine scheduler | `run`, `handleRequest` | business thread |
| `CoroutineScheduler` | five intrusive lists, pool counters, wake-up queues, timers | `createCoroutine`, `run`, `tars_run`, `yield`, `sleep`, `put`, `terminate` | business thread; `put` from others |
| `ThreadDeque` | `deque_`, `size_`, a `Monitor` with its counted notifications | `push_back`, `push_front`, `pop_front`, `swap`, `clear`, `notifyT` | both threads of the server |
| `Buffer` | `buffer_` with `readPos_`, `writePos_`, `capacity_` | `pushData`, `peekData`, `popData`, `consume`, `assureSpace`, `shrink`, `clear` | connections of both ends |
| `Application`, `Communicator` | the threads and objects of a process, `terminate_` flags | set-up, `waitForQuit`, `terminate`, destruction | main thread; `terminate` from a servant |
| `ServantHelperManager` | `servantMap_` | `addServant`, `get_funcByName` | main thread; business threads |
| `Registry` | `allServants_` | `addServantAddress`, `delServantAddress`, both on a copy | the servant of the registry program |
| `TarsNodeFHelper` | `nodeProxy_`, `adapterSet_` | `set_nodeInfo`, `keepAlive` | main thread; business threads |

**Interaction.** *Client:* `invoke` pushes a message to the thread's
`LoopQueue`, writes the queue's address into a `notify_` slot and arms the
slot's socket. The network thread reads the address, drains the queue, gives
each message an id, sends it and enters it in `TimeoutQueueNew`. A response is
matched by its id; a synchronous caller is signalled through the message's
monitor, an asynchronous message goes to `AsyncProcThread`. *Server:* requests
travel connection → `BindAdapter`'s deque → coroutine → `NetThread`'s deque →
connection. On the way back a connection is known by its uid only. *Process:*
`Application::main` starts the client side, registers its functions with the
registry, creates the server, and starts one business thread per adapter and
then the network thread; `waitForQuit` waits for `terminate_` and returns
without joining anybody. What follows is `exit()`, which destroys the
singletons, the communicator and the server under the threads that still run.

**What is hard.** Unsynchronised memory in `LoopQueue` and in the notify slot;
the unlocked look at `monitorFin`; who deletes a message; edge-triggered epoll
against concurrent pushes; connections that vanish while their requests are
being handled; partial sends and pending connects; iterators across three
containers; intrusive lists and wake-ups from other threads; allocation that
fails half-way; notifications that are counted first and sent later, and waits
that are not repeated; flags tested outside the lock that guards their
notification; threads that outlive what they use; sizes that double up to the
limit of the machine word; queues, uids and ids at their limit. `PROJECT.json` lists these
under `hazards`, each at its line.

**What makes each part correct.** `LoopQueue`: it is a bounded FIFO.
`TimeoutQueueNew`: its containers agree, and a sweep takes what has expired.
Client: a message has exactly one owner until it is deleted once, a call ends
with its own response if the bytes read start with one, requests go out in order and whole, a call ends at all.
Server: a response reaches the client that asked, once; no request vanishes; a
client that stays is answered. Scheduler: every coroutine is on exactly one
list, counters are exact, no wake-up is lost, nobody starves. `ThreadDeque`:
each call takes effect at one instant, an element reaches one consumer, waits
last about as long as asked, what is pushed is taken. `Buffer`: it is a stream of bytes and its asserts
hold. Process: nothing is used before it exists or, while the program serves,
after it is gone; adapters are reported alive; the process ends when told to.

## 2. Modules

| module | models | built on |
|---|---|---|
| `BoundedFifo` | what a bounded queue promises (abstract specification) | |
| `LoopQueue` | `LoopQueue.hpp`, one shared access per action | refines `BoundedFifo` |
| `LoopQueueProofs` | theorems about `LoopQueue` | `LoopQueue` |
| `Containers` | insertion, removal and search in ordered containers | |
| `TimeoutQueue` | `TimeoutQueueNew.hpp` | `Containers` |
| `TimeoutQueueProofs` | theorems about `TimeoutQueue` | `TimeoutQueue` |
| `CoroutineScheduler` | `CoroutineScheduler.cc/.h` | `Containers` |
| `CoroutineSchedulerProofs` | theorems about `CoroutineScheduler` | `CoroutineScheduler` |
| `ClientCall` | the client's call path, callback thread, the server's end of the connection (external) | `Containers`; uses the queues as atomic FIFOs |
| `ClientCallProofs` | theorems about `ClientCall` | `ClientCall` |
| `NetServer` | the server; the clients (external) | coroutines as a set |
| `NetServerProofs` | theorems about `NetServer` | `NetServer` |
| `ByteStream` | what a buffer promises (abstract specification) | |
| `Buffer` | `Buffer.cc`, with the calls of `Connection` and `Transceiver::doResponse` | refines `ByteStream` |
| `BufferProofs` | theorems about `Buffer` | `Buffer` |
| `SharedDeque` | what a deque shared by threads promises (abstract specification) | |
| `ThreadDeque` | `ThreadDeque.hpp` on `Monitor`, `Lock`, `Mutex`, `Condition` | refines `SharedDeque` |
| `ThreadDequeProofs` | theorems about `ThreadDeque` | `ThreadDeque` |
| `Application` | the life of a process: `Application.cc`, `Communicator.cc`, `AsyncProcThread.cc`, heartbeat, the loops of all threads | the loops of `ClientCall` and `NetServer`, without messages |
| `ApplicationProofs` | theorems about `Application` | `Application` |
| `MCClientCall`, `MCNetServer`, `MCBuffer` | symmetry and values for TLC | |

How state and steps correspond to the code (`PROJECT.json`, `map`, gives lines):

* **LoopQueue.** `begin_`/`end_` are the indices as their owner sees them,
  `beginMem`/`endMem` as the other thread does: the indices are plain
  `uint32_t`, so a store may wait in the processor's store buffer (x86-TSO) and
  reach memory later (`CommitBegin`, `CommitEnd`). A commit right after the
  store is one of the behaviours, so sequentially consistent executions are
  included. `push_back` is check, copy, test, advance, recheck; a pop is check,
  copy, advance. The result `empty` is computed, but no caller reads it. In the
  abstract queue what `push_back` has accepted is first `pending`, in slots the
  consumer does not know of or still to be written, and then `queue`: what comes
  out is what was given to `push_back`.
* **TimeoutQueue.** An iterator is the id (and deadline) of the node it points
  to. This is what it is in the build: an iterator of libstdc++'s
  `unordered_map` is the address of a node, and a rehash (more than
  `reserve(100)` entries) links the nodes anew without moving them. The standard
  promises less (a rehash invalidates iterators), so with another library the
  stored `dataIter`s would be a hazard that this model does not see.
  `timeout()` and `timeout(func)` are loops (`SweepBegin`, `SweepStep`);
  between two iterations of the second, its callback may call the queue again.
  The clock may go back.
* **CoroutineScheduler.** A variable per list, counter and queue; `current` is
  `currentCoro_`, and a context switch an assignment to it. One action for each
  of the three wake-up functions, for each move, each switch, and each way to
  give up the thread. `userThread` says which main loop the thread runs.
  `asked`/`outstanding` are the coroutines that wait for another thread's
  `put()`; the `put()` may come before their `yield(false)`. `put()` takes any
  coroutine that was created, at any time and however often: it is the announced
  result or one too many, and its coroutine may sleep, run, wait for something
  else or be free when the scheduler comes to it. A `put()` on a sleeper ends the
  sleep and leaves the timer behind; `cut` remembers for which coroutines that
  happened, until they have no timer left. A coroutine that is woken by something
  else than its result asks again, as a callback that checks its condition does.
* **ClientCall.** Per caller a program counter through `invoke` and `notify`;
  the network thread's steps through `handle`, `sendReqMessage`, `doResponse`
  and `finishInvoke`; each access to the shared slot, to `monitorFin` and to the
  monitor is a step of its own. `wire` is what the kernel has taken, `inbound`
  what the peer has sent. `doResponse` takes all that it can read for one
  response, and `finishInvoke` takes the number in front of it for the id. So
  what matters of a read is its beginning, a `Piece`: the start of the answer to a
  request of the wire (`Start`), or something else that `atoi` makes a number of
  (`Fragment`). With `MaySplit` an answer may arrive in two pieces; a first piece
  that ends within the id is a fragment with a smaller number, and the rest of an
  answer a fragment with any number. Several answers may be joined in one read. A fatal log, a failed assertion, a null pointer or the
  use of a deleted message sets `crash` and ends the behaviour.
* **NetServer.** A request arrives in two halves. `ready` is what epoll has to
  report, `batch` what the last `epoll_wait` returned. `HandleRequest` gives a
  request a coroutine, or forgets it when there is none (`lost`). `RespondPush`
  and `Wake` are the two halves of `EpollServer::send`. Every error of `accept`
  but `EAGAIN` makes the thread call it again. One that takes a client out of the
  backlog is `AcceptAborted`; one that changes nothing, because all `MaxFds`
  descriptors are in use, is no step: the thread spins for ever, since it is the
  one that would close a connection.
* **Buffer.** A `size_t` is a number below `Word`, and `MaxBufferSize` is half of
  that less one as in the code, so that overflow is met at small sizes. `mem`
  maps addresses to bytes; what was consumed or never written is `Junk`, so a
  byte read from a wrong place shows. `Powers` is the set of values that the
  variable of `roundUp2Power`'s loop can take: the least one that holds 1 and with
  every number its double, as long as that fits in a word. The loop of `assureSpace` is one step per
  iteration (`Grow`, `Settle`), which makes its end something to check. `arg`
  and `ret` are what a call is given and gives; the refinement speaks of them.
  Sums and products are taken modulo `Word`, so the test of `shrink`
  (`Percent` and `HighWater` are its 100 and 50) may let a nearly full buffer
  pass. The assertion of `consume` is a branch of `Consumed`; its callers pass
  what they have compared with `readableSize()`. When `new` throws in
  `assureSpace` (`AllocationFails`), `capacity_` is ahead of the memory and the
  behaviour ends: `CommunicatorEpoll::handle` catches the exception, and what a
  later call does then is undefined.
* **ThreadDeque.** A call is `Lock`, the body, `Unlock`. The body is a step for
  each statement that touches `deque_` or `size_`, and none of these steps asks
  who holds the mutex: that they do not interleave is for the properties to show.
  In the refinement a push acts when it gets the mutex, though its elements
  follow one by one, and `pop_front` when it reads the front (`Settled`,
  `Offered`). A consumer that finds nothing sleeps in between (`TakeNothing`, `WaitEnds`, `Relock`). `notify()`
  only counts in `notify`, and `Unlock` wakes that many sleepers. A wait that
  ends is answered with nothing, without a second look, whatever ended it.
  `Condition::abstime` takes the fraction of its deadline with `& 1000000` for
  `% 1000000`; a second is `Second` ticks here, the time of day at a wait is any
  number below `Period`, after which the result repeats, and `left` and `due`
  count down to the deadline given to the kernel and to the one meant. With
  `Second = 3` the bits of the mask include the whole second, the value that
  `pthread_cond_timedwait` refuses; 1000000 has the same property (`1000000 &
  1000000`).
* **Application.** `main` is where the main thread is, `thread` where the others
  are, `up` which objects exist; `Needs(t)` is what the next step of a thread
  touches. A thread whose needs are not met sets `misuse` instead of a step, and
  the behaviour ends. Whether a heartbeat is due is a Boolean (`due`), and the
  callback queue holds at most one message: the properties do not tell more
  apart. The plain `bool` flags are read afresh each time, which is what a build
  without optimisation does; with it, the loops that spin on them may change.
  The administrator's function is registered as "AdminObj" and looked up as
  "AdminAdapter", so it is empty and its `shutdown` is never obeyed; the
  servants of the program can call `Application::terminate`. `~Application` of the
  program's global object reads the static `epollServer_` of another file;
  `DestroyApp` is the order in which that is destroyed already.

## 3. Runs

| run | bounds | distinct states | shows |
|---|---|---|---|
| `LoopQueue` | 3 slots, 2 values, bulk pushes up to 2 | 236 k | `NoOverrun`, refinement of `BoundedFifo` |
| `TimeoutQueue` | 3 ids, 3 deadlines, clock 0..2 | 36 k | `IndexesAgree`, `SweepExact` |
| `CoroutineScheduler` | pool of 2, chunks of 2, 1 switch per list, clock 0..1, 1 id put and waiting, 2 timers; failures, terminate; both main loops | 361 k | `ListsMatchStatus`, `PoolCounts`, `RunningIsFirst`, `NoLostWakeup`, `SleepsLongEnough`, `RunsAgain` |
| `ClientCall` | 2 callers, 2 calls of either kind, queues of 1; answers in pieces, spurious wake-ups; connection pends, blocks, ends | 378 k | `Owned`, `OwnResponse`, `WireOrder` |
| `ClientCallLive` | 1 caller, 3 sync calls, 2 ids, spurious wake-ups | 5 k | `Returns` |
| `NetServer` | 2 clients, 1 request each, 1 coroutine, 2 descriptors, resets, partial sends, 1 `close` | 884 k | `RightConnection`, `Accounted` |
| `NetServerLive` | 2 clients that stay, 2 requests each, in halves, 2 descriptors | 241 k | `Accounted`, `Answered` |
| `Buffer` | 4-bit word, chunks up to 5 bytes of two kinds, failing allocations | 108 k | `AssertionsHold`, `MemoryProportional`, refinement of `ByteStream`, `GrowthEnds` |
| `ThreadDeque` | 1 producer, 2 consumers, 2 elements, pushes of 1 or 2, limits 0, 2 ticks and none | 268 k | `SizeAgrees`, `WaitsNear`, refinement of `SharedDeque`, `Delivered` |
| `Application` | the administrator's adapter and one more, heartbeat on | 252 k | `SafeUntilExit`, `CallbackThreadDone`, `Terminates`, `HeartbeatsKeepComing`, `CallbacksRun` |

Violations, each a disagreement between the code and what it says of itself:

| run | property | what happens |
|---|---|---|
| `ClientCallQueue` | `QueueServed` | two callers share one slot, and one queue is never drained |
| `ClientCallFlush` | `SendBufferFlushed` | `sendBuffer_` is never flushed, since only `EPOLLIN` is registered |

Other places where the code may fail itself are states of the models, reached in
the passing runs and the end of a behaviour there; what the runs show holds up
to them. `TimeoutQueue`, `aborted`: the assertion of `getSend` is inverted and
fails for every unsent request. `CoroutineScheduler`, `aborted`: a failed
allocation costs an id, and a later growth fails `uniqId_ <= poolSize_`
(`PoolCounts` says that nothing else makes it fail). `ClientCall`, `crash`: the
caller destroys the monitor that the network thread still holds (`"mutex"`),
reads through the pointer it has set to null (`"null"`), or returns spuriously and
frees a message that is used later (`"freed"`); `Owned` is about these states too.
`Buffer`, `pc = "thrown"`: an allocation failed. `Application`, `misuse`: two
business threads race on `servantMap_` at their start, and after `main()` a thread,
or `~Application`, meets an object that is gone.

**Why the bounds are enough.** A ring of 3 wraps, fills, empties and takes a
bulk push that crosses the end; the proofs cover the other sizes. Three ids have
a first, a middle and a last node in every container, with equal and different
deadlines. A pool of 2 with chunks of 2 grows by a full and by a shortened
chunk when the first allocations failed, and an allocation may fail at the
first or at the second stack; two coroutines are what it takes to wake the wrong
one, and two timers for one of them to be left behind. `MaxPut` bounds the ids that wait in
`activeCoroQueue_`; the scheduler takes one away before it moves it, so that
another `put()` of the same coroutine comes while the first is under way. Two
callers are what it takes to overwrite a slot, and two calls for an answer,
or a piece of one, to reach the other; with one-place queues the second call
also finds a full queue. The proofs cover more calls. Two
clients are what it takes to send a response to the wrong one. Requests in
halves cover every split, because the code only asks whether a request is
complete. With a 4-bit word and a default size of 2 a buffer grows from nothing
through every power of two to the size above which it refuses, and is moved,
shrunk and refilled on the way. Two consumers are what it takes for a
notification to wake the wrong one, and two elements for an order. Two adapters
are what it takes for one to send the heartbeat of the other and for a race of
two business threads. No bound on calls, clients or the clock exists in the code, so those
runs end in states without a successor and do not check for deadlock
(`CHECK_DEADLOCK FALSE`); that something *must* happen is checked by the
liveness properties. `LoopQueue` and `TimeoutQueue` are checked for deadlock.

**Fairness.** Always weak, and for whole threads:
`CoroutineScheduler`: the scheduler's thread keeps running, a callback gives up
the thread some time, time passes. No fairness for `put`, `Ask`, allocation or
terminate. `ClientCall`: a thread inside `invoke` and outside a wait goes on,
the network and callback threads are scheduled, and the server answers what it
has received; nobody has to start a call, and no spurious wake-up has to come.
The callback thread's wait is timed (`AsyncProcThread.cc:43`), so it needs no
notify. `NetServer`: network and business threads run; the business thread's
waits are timed (`ServantHandle.cc`), clients owe nothing. `Buffer`: the thread
in the loop of `assureSpace` goes on. `ThreadDeque`: a thread inside a method
goes on, time passes and a wait whose deadline has come ends, and the loops of
`NetThread::run` and `ServantHandle::run` call again; producers need not push,
and waits without a limit need not end. `Application`: main, business and
callback threads go on, their waits are all timed (`waitForQuit` 5 s, callback
thread 1 s), and heartbeats fall due; the registry need not answer, no servant
has to call `terminate`, and the two network threads are owed nothing.

**Where liveness is not claimed.** `Returns` is checked with one caller and a
connection that is ready and stays. With two, `ClientCallQueue` refutes it; with
two calls in flight, one read may hold two answers and the second is dropped
(`Transceiver.cc:136`), and one answer may come in two pieces, of which the
second may end another call or none; after a short send, `ClientCallFlush` refutes it; nothing
calls `TimeoutQueueNew::timeout`, so a lost call never times out. `Answered` is
checked with a kernel that takes whole responses: `Connection.cc:84` marks the
other case "TO BE DONE". It needs a descriptor for each client: with `MaxFds = 1`
and two clients TLC finds the behaviour in which `accept` fails for ever and
nobody is answered (`NetThread.cc:93`). A server whose client leaves before it is answered
uses a null connection (`NetThread.cc:132`, `crash = "null"`); the safety
properties speak of what happens up to then.

## 4. Proofs

Each theorem holds for every value of the constants that satisfies the named
assumptions of the module, which TLC evaluates in the runs. Every component with
a proof has a theorem `TypeCorrect`, `Spec => []TypeOK`, beside those named here.
The last steps are always the same: `Init => IInv`, `IInv /\ [Next]_vars =>
IInv'`, and what is wanted from `IInv`.

* **`LoopQueueProofs`** (`SizeAssumption`: at least one slot;
  `BulkAssumption`, `NoneAssumption`).
  *Overrun*: `Spec => []NoOverrun`. *Refinement*: `Spec => ImplementsFifo`.
  `NoOverrun` is not inductive: the producer decides with a
  stale `end_`. The invariant adds that the four indices keep their order around
  the ring (`RingOrder`), that the room found by the check, counted from the
  index the producer can see, is still there (`RoomLeft`), that slots are
  written before `begin_` passes them (`SlotWritten`, `LiveSlots`), that a call
  leaves nothing behind (`Remaining`), and that what
  the consumer's check saw still holds (`SomethingToTake`, `OpInProgress`,
  `Copied`). Lemmas about `Distance` and `Advanced` carry the modular
  arithmetic. In the refinement a push is accepted at its check and takes effect
  when its store to `begin_` commits, a pop when the consumer advances `end_`;
  `BetweenGrows` and `BetweenShrinks` say what moving an index does to the
  elements between two of them.
* **`TimeoutQueueProofs`** (`MaxTimeAssumption`; nothing of `Ids` and `Msgs`).
  *Consistency*: `Spec => []IndexesAgree`; *Sweeping*: `Spec => SweepExact`, for sweeps with and without a callback. The
  invariant adds that `time_` is sorted, which is what lets a sweep stop at the
  first node that has not expired. Two lemmas, one for the removal of an entry
  and one for an insertion, serve all the actions. Below them, here and in
  `CoroutineSchedulerProofs`, are the facts about `Containers`: what `Erased` and
  `Inserted` leave where, and that `UpperBound` exists in a sorted sequence.
* **`ThreadDequeProofs`** (`SizesAssumption`, `ThreadsAssumption`).
  *SizeCounts*: `Spec => []SizeAgrees`; *SleepsNear*: `Spec => []WaitsNear`;
  *DequeImplemented*: `Spec => ImplementsDeque`. The invariant says that whoever
  is inside a method and not asleep has the mutex (`Holding`), by how much
  `size_` is behind `deque_` between two statements (`Sized`), how many
  notifications a push has counted (`Notifying`), what a producer has still to
  push (`Offering`), and that no element is in two places (`Numbered`, `Apart`),
  from which a pigeonhole argument bounds `size_`. `Deadlines` keeps the kernel's
  deadline less than a second from the one meant, although the mask `& 1000000`
  may move it either way. The refinement rests on `Holding`: at most one thread is
  at work, so what is still to come of its method is well defined (`Settled`); one
  of its steps is that of `SharedDeque` and the others stutter.
* **`ApplicationProofs`** (`AdapterAssumption`; `ThreadAssumption`: an adapter is
  not one of the other threads). *SafeStart*: `Spec => []SafeUntilExit`;
  *CallbackThreadSafe*: `Spec => []CallbackThreadDone`. The invariant follows the
  main thread: which objects exist at each of its places (`Existing`), which
  threads may run (`Started`), that `exit` is set by the callback thread's last
  step only and waited for before the deletion goes on (`Stopped`), and what a
  misuse can be by then (`Misused`).
* **`CoroutineSchedulerProofs`** (`PoolAssumption`, `LoopAssumption`,
  `TimeAssumption`, `ModeAssumption`). *ListsIntact*, *PoolCounted*,
  *RunningFirst*, *WakeupsKept*: `[]` of `ListsMatchStatus`, `PoolCounts`,
  `RunningIsFirst`, `NoLostWakeup`; *SleepsKept*: `Spec => SleepsLongEnough`. Any
  number of queues, timers and `put()`s may name a coroutine; that it is on one
  list only holds because each wake-up function looks at its status when it moves
  it (`Wakes`). `SoleTimer` says that a coroutine no `put()` has woken from a sleep
  has one timer while it sleeps and none otherwise, `Due` who is going to be woken
  and from which side, `Sorted` lets the timers be taken from the front,
  `Numbered` makes a new id new, `Phase` ties `asked` and the batch to the place of
  the scheduler.
* **`NetServerProofs`** (`ClientsAssumption`, `SizesAssumption`,
  `FlagsAssumption`; `NoneAssumption`: no response is the value for none).
  *AnswersAskers*: `Spec => []RightConnection`; *NoneVanishes*:
  `Spec => []Accounted`. The invariant says that no half of a request is read
  twice (`Halves`), that `connectionUids_` and `uid_` agree and no uid is given
  away twice (`Table`), that what travels came from the connection whose uid it
  carries (`Known`), and that the swapped-out deque is empty before the next
  swap (`Idle`). `Accounted` counts: the lemmas `Times...` say how often a
  request is in a deque after an append, a removal or a concatenation, and each
  step is shown to leave the total at one.
* **`ClientCallProofs`** (`CallersAssumption`, `KindsAssumption`,
  `BoundsAssumption`, `IdModAssumption`). *Ownership*: `Spec => []Owned`, in
  every state, those after a crash included; *Ordering*: `Spec => []WireOrder`
  and *OwnAnswers*: `Spec => OwnResponse`, if `MaxCalls < IdMod`: an id that comes
  round (2^32 in the code) may be that of a request still waiting. Spurious
  wake-ups and answers in pieces are allowed in all of them. The invariant says
  where a message can be. Without an id it is in its caller's queue, which is in
  order of age, or with the network thread (`Queued`); with one it is in the
  table, with the network thread or in the callback queue, once (`Served`); none
  of these holds a call that is finished, except the network thread while it
  finishes it (`Unfinished`, `Locks`); and what lives is somewhere (`Kept`). A
  caller returns only from a finished call, or after a spurious wake-up
  (`Patient`); if the network thread still has the mutex then, its destruction
  ends the process. So what is held is alive, or was deleted by a caller that did
  not wait for its end, or is the message whose mutex was destroyed (`Safe`,
  `Alive`). `Ordered` compares the wire with what is not yet on
  it; `Numbered` says that ids count the requests sent and are distinct, `OnWire`
  that position and id are the same until a request is kept back, after which
  nothing follows; `Begins` that a read which starts with an answer starts with
  its id, and `Matched` that no response starts with the answer to another call
  (`Given`). `Still`, `Quiet` and `Passed` say once what most steps leave alone.
* **`BufferProofs`** (`SizesAssumption`; `WordAssumption`: `MaxBufferSize + 1`,
  2^63 in the code, is a power of two; `ChunksAssumption`, `JunkAssumption`).
  *AssertionsKept*: `Spec => []AssertionsHold`; *MemoryBounded*:
  `Spec => []MemoryProportional`; *StreamImplemented*: `Spec => ImplementsStream`;
  *GrowthBounded*: an iteration of `assureSpace`'s loop makes `capacity_` larger
  and leaves it at or below `MaxBufferSize + 1`, which is why the loop ends. That
  the assertions hold is not inductive. The sum in `pushData` is exact only
  because no capacity is above `MaxBufferSize + 1` (`Ordered`), and that holds
  because a power of two below another is at most its half (`PowersApart`); in the
  loop `capacity_` is ahead of the memory, whose size is `oldcap` (`Allocated`);
  the loop knows that its caller has checked the limit and that there was not
  enough room behind the bytes, from which the assertion `readPos_ > 0` follows
  (`Growing`); and what can be read was written (`Live`). A capacity above the
  default is a power of two (`Capacities`), so that `shrink` does not enlarge the
  memory even when its products wrap around. Since `Powers` is a least
  set, an induction over the loop of `roundUp2Power` is one instance of its
  definition (`PowersLeast`); `RoundedUp` says that the result is large enough and
  less than twice too large. In the refinement `Grow` and `Settle` stutter,
  `ReadvFill` takes a part of what is offered, and a shrink of a buffer with bytes
  in it delivers none.

Only model-checked: every liveness property (`RunsAgain`, `Returns`,
`Answered`, `GrowthEnds`, `Delivered`, `Terminates`, `HeartbeatsKeepComing`,
`CallbacksRun`), since fairness and `ENABLED` are beyond the prover. Every
invariant, action property and refinement of the passing runs is proved. No
module uses a `RECURSIVE` operator.

## 5. Not modelled

* `Transceiver::doRequest`, `ObjectProxy::doInvoke` and the server's `EPOLLOUT`
  branch: no socket is ever registered for `EPOLLOUT`, so they are not reached.
* More than one network thread (`clientThreadNum_` is 1), two threads that share
  one proxy (they would be two producers on one `LoopQueue`).
* Wrap-around of ids with several calls in flight: a response to a refused
  request then carries the id of another. Only `ClientCallLive` lets ids wrap.
* `Registry`: both functions work on a copy of the set they mean
  (`auto servant_set = allServants_[name]`), so no call changes more than the
  presence of a key, and nothing of the program reads the table.
* `Buffer::swap` (no caller), `Monitor::tryLock`, `Lock::tryAcquire` and their
  like (no caller), the table of `ObjectProxyFactory` (filled and read by one
  thread), the two maps between adapters and servants (written, never read).
* Frames with a negative length (`Connection.cc:47-57`): the encoders of the
  repository make none.
* What follows a failed allocation in `Buffer::assureSpace`, and the invalidation
  of iterators by a rehash in libraries that do not keep nodes (see section 2).
* What the threads do to each other while `exit()` runs, beyond the first use of
  an object that is gone: this is undefined behaviour.
* `Epoller`, `Socket`, `ClientSocket`, `NetworkUtil`: wrappers of system calls,
  modelled by what the code above them sees.
* Example servants, test programs and the third-party context switch.

## 6. Plan

Done: `LoopQueue`, `TimeoutQueue`, `CoroutineScheduler`, `ClientCall`,
`NetServer`, `Buffer`, `ThreadDeque`, `Application`, with proofs of every safety
property that a passing run checks.

Left, if the code grows into it: `Buffer` with two owners once `swap` has a
caller; the `EPOLLOUT` paths of client and server once a socket is registered
for it, after which `ClientCallFlush` should no longer find a violation; and the
liveness properties, should the provers learn to reason about fairness.
