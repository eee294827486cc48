----------------------------- MODULE Application ----------------------------
(***************************************************************************)
(* The life of a server process: Application's main thread from            *)
(* initializeClient to the destruction of the static objects after main()  *)
(* has returned, and the detached threads that live beside it: one         *)
(* business thread per adapter (ServantHandle::run), the server's and the  *)
(* client's network threads and the callback thread.  Requests, calls and  *)
(* callbacks are reduced to what they touch; the other modules have them   *)
(* in full.                                                                *)
(*                                                                         *)
(* `up' is the set of objects that exist.  A thread that uses one that is  *)
(* not there has undefined behaviour: `misuse' then names the object and   *)
(* the model stops.  The flags that stop the threads are plain bools read  *)
(* without a lock; the one configured build (Debug, x64) does not optimise *)
(* and reads them anew each time.                                          *)
(***************************************************************************)
EXTENDS FiniteSets

CONSTANTS Adapters,  \* the names of the adapters, Admin among them
          Admin,     \* "AdminAdapter"
          Node,      \* whether ServerConfig::node is given
          Named      \* the adapters that Application::initialize registers a function for

\* initializeServer registers the administrator's function as "AdminObj"
ASSUME AdapterAssumption == Admin \in Adapters /\ Named \subseteq Adapters \ {Admin}
                            /\ Node \in BOOLEAN

\* a business thread goes by the name of its adapter, the others by these
ASSUME ThreadAssumption == Adapters \cap {"net", "client", "async"} = {}

VARIABLES main,        \* where the main thread is
          up,          \* the objects that exist
          thread,      \* where each of the others is
          terminate,   \* EpollServer::terminate_
          netStop,     \* NetThread::terminate_
          clientStop,  \* CommunicatorEpoll::terminate_ and AsyncProcThread::terminate_
          exit,        \* AsyncProcThread::exit
          queued,      \* a message is in the callback queue, which the model lets hold one
          servantMap,  \* the adapters' names among the keys of servantMap_
          nodeProxy,   \* nodeProxy_ is set
          due,         \* adapters whose heartBeatTime_ is HEART_BEAT_INTERVAL ago or ahead
          adapterSet,  \* TarsNodeFHelper::adapterSet_
          sending,     \* the names that keepAlive has swapped out and not yet sent
          misuse

flags == <<terminate, netStop, clientStop, exit>>
beats == <<nodeProxy, due, adapterSet, sending>>
vars  == <<main, up, thread, flags, queued, servantMap, beats, misuse>>

Threads == Adapters \cup {"net", "client", "async"}
Objects == {"proxies", "client", "async", "server", "epoll", "helpers"}

StartUp == {"initializeClient", "register", "initializeServer", "bind", "startHandle",
            "createEpoll", "startNet"}
Waiting == {"test", "lock", "wait", "terminateNet", "return"}
Exiting == {"stopClient", "delete", "spin", "deleteServer", "last", "exited"}

Places == {"none", "init", "lookup", "test", "beat", "send", "poll", "stop", "answer",
           "lock", "wait", "handle", "pop", "exit", "ended"}

TypeOK ==
    /\ main \in StartUp \cup Waiting \cup Exiting /\ up \subseteq Objects
    /\ thread \in [Threads -> Places]
    /\ {terminate, netStop, clientStop, exit, queued, nodeProxy} \subseteq BOOLEAN
    /\ {servantMap, due, adapterSet, sending} \subseteq SUBSET Adapters
    /\ misuse \in Objects \cup {"none", "servantMap"}

Init ==
    /\ main = "initializeClient" /\ up = {} /\ thread = [t \in Threads |-> "none"]
    /\ terminate = FALSE /\ netStop = FALSE /\ clientStop = FALSE /\ exit = FALSE
    /\ queued = FALSE /\ servantMap = {} /\ nodeProxy = FALSE
    /\ due = Adapters  \* heartBeatTime_ is 0 at first
    /\ adapterSet = {} /\ sending = {} /\ misuse = "none"

Running == misuse = "none" /\ main # "exited"

Goes(from, to) == main = from /\ main' = to
Steps(t, from, to) == thread[t] = from /\ thread' = [thread EXCEPT ![t] = to]

-----------------------------------------------------------------------------
(* The main thread: start-up *)

\* Communicator::initialize: the constructor of CommunicatorEpoll starts the
\* callback thread, start() the client's network thread
Initialize == /\ up' = up \cup {"proxies", "client", "async"}
              /\ thread' = [thread EXCEPT !["client"] = "test", !["async"] = "test"]

InitializeClient ==
    /\ Goes("initializeClient", "register")
    /\ Initialize
    /\ UNCHANGED <<flags, queued, servantMap, beats, misuse>>

\* get_servantProxy: a synchronous call to the registry for each function;
\* main goes on when the last of them is answered
Registered ==
    /\ Goes("register", "initializeServer")
    /\ UNCHANGED <<up, thread, flags, queued, servantMap, beats, misuse>>

\* set_nodeInfo
SetNodeInfo == nodeProxy' = Node

InitializeServer ==
    /\ Goes("initializeServer", "bind")
    /\ up' = up \cup {"server", "helpers"}
    /\ SetNodeInfo
    /\ UNCHANGED <<thread, flags, queued, servantMap, due, adapterSet, sending, misuse>>

AddServant(names) == servantMap' = servantMap \cup names

\* bindAdapter, initialize and set_handle
Bind ==
    /\ Goes("bind", "startHandle")
    /\ AddServant(Named)
    /\ UNCHANGED <<up, thread, flags, queued, beats, misuse>>

StartHandle ==
    /\ main = "startHandle"
    /\ IF \E a \in Adapters : thread[a] = "none"
         THEN (\E a \in Adapters : Steps(a, "none", "init")) /\ UNCHANGED main
         ELSE main' = "createEpoll" /\ UNCHANGED thread
    /\ UNCHANGED <<up, flags, queued, servantMap, beats, misuse>>

\* mutant: the network thread is started without an epoll
CreateEpollSkipped ==
    /\ Goes("createEpoll", "startNet")
    /\ UNCHANGED <<up, thread, flags, queued, servantMap, beats, misuse>>

CreateEpoll ==
    /\ Goes("createEpoll", "startNet")
    /\ up' = up \cup {"epoll"}
    /\ UNCHANGED <<thread, flags, queued, servantMap, beats, misuse>>

StartNet ==
    /\ Goes("startNet", "test")
    /\ Steps("net", "none", "test")
    /\ UNCHANGED <<up, flags, queued, servantMap, beats, misuse>>

-----------------------------------------------------------------------------
(* The main thread: waitForQuit *)

Test ==
    /\ main = "test"
    /\ main' = IF terminate THEN "terminateNet" ELSE "lock"
    /\ UNCHANGED <<up, thread, flags, queued, servantMap, beats, misuse>>

\* the Lock and timedWait(5000) under it
EnterWait ==
    /\ Goes("lock", "wait")
    /\ UNCHANGED <<up, thread, flags, queued, servantMap, beats, misuse>>

\* mutant: wait() in place of timedWait(5000): only a notification ends it
WaitEndsNever == main = "wait" /\ terminate /\ UNCHANGED vars

\* the deadline passes, or the wait ends spuriously
WaitEnds ==
    /\ Goes("wait", "test")
    /\ UNCHANGED <<up, thread, flags, queued, servantMap, beats, misuse>>

\* the calls of notifyT and epoller_.mod wake nobody whom the time does not
TerminateNet ==
    /\ Goes("terminateNet", "return")
    /\ netStop' = TRUE
    /\ UNCHANGED <<up, thread, terminate, clientStop, exit, queued, servantMap, beats, misuse>>

-----------------------------------------------------------------------------
(* The main thread: after main() *)

\* main() returns; the functions given to atexit destroy the singletons
DestroyHelpers ==
    /\ Goes("return", "stopClient")
    /\ up' = up \ {"helpers"}
    /\ UNCHANGED <<thread, flags, queued, servantMap, beats, misuse>>

\* a notification of the callback thread; it is missed by one that does not wait
NotifyAsync(th) == [th EXCEPT !["async"] = IF @ = "wait" THEN "pop" ELSE @]

\* Communicator::terminate, CommunicatorEpoll::terminate and AsyncProcThread::terminate
StopClient ==
    /\ Goes("stopClient", "delete")
    /\ clientStop' = TRUE
    /\ thread' = NotifyAsync(thread)
    /\ UNCHANGED <<up, terminate, netStop, exit, queued, servantMap, beats, misuse>>

\* delete of the CommunicatorEpoll: the last members go first
DeleteProxies ==
    /\ Goes("delete", "spin")
    /\ up' = up \ {"proxies"}
    /\ UNCHANGED <<thread, flags, queued, servantMap, beats, misuse>>

\* mutant: ~AsyncProcThread does not wait for its thread
SpinNot ==
    /\ Goes("spin", "deleteServer")
    /\ up' = up \ {"async", "client"}
    /\ UNCHANGED <<thread, flags, queued, servantMap, beats, misuse>>

\* ~AsyncProcThread spins until its thread has left run()
Spin ==
    /\ Goes("spin", "deleteServer")
    /\ exit
    /\ up' = up \ {"async", "client"}
    /\ UNCHANGED <<thread, flags, queued, servantMap, beats, misuse>>

\* ~EpollServer; terminate_ is set, so its terminate() does nothing
DeleteServer ==
    /\ Goes("deleteServer", "last")
    /\ up' = {}
    /\ UNCHANGED <<thread, flags, queued, servantMap, beats, misuse>>

\* ~Application of the program's global g_app calls terminate().  It is in
\* another file than epollServer_, so that the build decides which of the two
\* goes first: g_app, which finds terminate_ set and has no effect, or
\* epollServer_, which ~Application then reads after its destruction.
DestroyApp ==
    /\ main = "last"
    /\ misuse' = "server"
    /\ UNCHANGED <<main, up, thread, flags, queued, servantMap, beats>>

\* exit() comes to its end, and with it every thread
Exit ==
    /\ Goes("last", "exited")
    /\ UNCHANGED <<up, thread, flags, queued, servantMap, beats, misuse>>

Main == \/ InitializeClient \/ InitializeServer \/ Bind
        \/ StartHandle \/ CreateEpoll \/ StartNet
        \/ Test \/ EnterWait \/ WaitEnds \/ TerminateNet
        \/ DestroyHelpers \/ StopClient \/ DeleteProxies \/ Spin \/ DeleteServer \/ Exit

-----------------------------------------------------------------------------
(* A business thread: ServantHandle::run and the coroutines it runs *)

Rest == <<main, up, flags, queued>>

\* init(): operator[] of servantMap_ inserts a name that it does not find,
\* without a lock; two lookups at a time, one of which inserts, are a race
BeginLookup(a) == Steps(a, "init", "lookup") /\ UNCHANGED <<Rest, servantMap, beats>>

EndLookup(a) == Steps(a, "lookup", "test") /\ AddServant({a}) /\ UNCHANGED <<Rest, beats>>

RaceLookup(a) == /\ thread[a] = "lookup" /\ a \notin servantMap
                 /\ \E b \in Adapters \ {a} : thread[b] = "lookup"
                 /\ misuse' = "servantMap"
                 /\ UNCHANGED <<Rest, thread, servantMap, beats>>

\* run(): the test of its loop; stopHandle() at the end does nothing
TestHandle(a) == /\ Steps(a, "test", IF terminate THEN "ended" ELSE "beat")
                 /\ UNCHANGED <<Rest, servantMap, beats>>

\* mutant: every adapter returns after it has entered its name
KeepAliveEntered(a) == adapterSet' = adapterSet \cup {a} /\ UNCHANGED sending

\* mutant: the servant's name is entered for the adapter's
KeepAliveServant(a) == adapterSet' = adapterSet \cup {"AdminObj"} /\ UNCHANGED sending

\* TarsNodeFHelper::keepAlive, up to the calls that send
KeepAlive(a) == IF a = Admin THEN sending' = adapterSet \cup {a} /\ adapterSet' = {}
                ELSE adapterSet' = adapterSet \cup {a} /\ UNCHANGED sending

Heartbeat(a) == /\ due' = due \ {a}
                /\ IF a \in due /\ nodeProxy THEN KeepAlive(a) ELSE UNCHANGED <<adapterSet, sending>>
                /\ Steps(a, "beat", IF sending' = sending THEN "poll" ELSE "send")
                /\ UNCHANGED <<Rest, servantMap, nodeProxy>>

\* keepAlive_async for each name, through nodeProxy_ to the client's thread
SendAlive(a) == /\ \E name \in sending : sending' = sending \ {name}
                /\ Steps(a, "send", IF sending' = {} THEN "poll" ELSE "send")
                /\ UNCHANGED <<Rest, servantMap, nodeProxy, due, adapterSet>>

\* the queue is empty; or there is a request that the network thread has put
\* there.  A servant that initialize() did not register is an empty function,
\* and the exception of calling it ends the coroutine; another answers, or
\* calls Application::terminate first, which looks at terminate_ unlocked
Poll(a) == /\ \/ Steps(a, "poll", "test")
              \/ /\ thread["net"] # "none" /\ a \in Named
                 /\ \/ Steps(a, "poll", "answer")
                    \/ ~terminate /\ Steps(a, "poll", "stop")
           /\ UNCHANGED <<Rest, servantMap, beats>>

\* EpollServer::terminate, under its lock: the flag and notifyAll
TerminateServer == /\ terminate' = TRUE
                   /\ main' = IF main = "wait" THEN "test" ELSE main

Terminate(a) == /\ Steps(a, "stop", "answer") /\ TerminateServer
                /\ UNCHANGED <<up, netStop, clientStop, exit, queued, servantMap, beats>>

\* sendToEpollServer and recvNeedToSendFromServer
Answer(a) == Steps(a, "answer", "test") /\ UNCHANGED <<Rest, servantMap, beats>>

Business(a) == \/ BeginLookup(a) \/ EndLookup(a)
               \/ TestHandle(a) \/ Heartbeat(a) \/ SendAlive(a)
               \/ Poll(a) \/ Terminate(a) \/ Answer(a)

\* heartbeats fall due: time passes, or the clock is set far ahead or back
FallsDue(A) == /\ due' = due \cup A
               /\ UNCHANGED <<Rest, thread, servantMap, nodeProxy, adapterSet, sending, misuse>>

-----------------------------------------------------------------------------
(* The network threads and the callback thread *)

\* NetThread::run; epoll_wait returns after two seconds at the latest
NetTest == /\ Steps("net", "test", IF netStop THEN "ended" ELSE "wait")
           /\ UNCHANGED <<Rest, servantMap, beats>>
NetWait == Steps("net", "wait", "test") /\ UNCHANGED <<Rest, servantMap, beats>>

Net == NetTest \/ NetWait

\* CommunicatorEpoll::run; epoll_wait returns after 100 ms at the latest
ClientTest == /\ Steps("client", "test", IF clientStop THEN "ended" ELSE "wait")
              /\ UNCHANGED <<Rest, servantMap, beats>>
ClientWait == Steps("client", "wait", "test") /\ UNCHANGED <<Rest, servantMap, beats>>

\* ... or with the event of a response
ClientEvent == Steps("client", "wait", "handle") /\ UNCHANGED <<Rest, servantMap, beats>>

\* a callback goes to the queue: push_back, then notify() under the lock; what
\* else the event may be is not a matter of this thread
ClientHandle ==
    /\ thread["client"] = "handle"
    /\ thread' = NotifyAsync([thread EXCEPT !["client"] = "test"])
    /\ queued' = TRUE
    /\ UNCHANGED <<main, up, flags, servantMap, beats>>

Client == ClientTest \/ ClientWait \/ ClientEvent \/ ClientHandle

\* AsyncProcThread::run: the queue is looked at outside the lock
AsyncTest == /\ Steps("async", "test", IF clientStop THEN "exit"
                                       ELSE IF queued THEN "pop" ELSE "lock")
             /\ UNCHANGED <<Rest, servantMap, beats>>
AsyncLock == Steps("async", "lock", "wait") /\ UNCHANGED <<Rest, servantMap, beats>>

\* mutant: wait() in place of timedWait(1000)
AsyncWaitEndsNever == thread["async"] = "wait" /\ UNCHANGED <<Rest, thread, servantMap, beats>>

AsyncWaitEnds == Steps("async", "wait", "pop") /\ UNCHANGED <<Rest, servantMap, beats>>

\* pop_front and the callback
AsyncPop == /\ Steps("async", "pop", "test") /\ queued' = FALSE
            /\ UNCHANGED <<main, up, flags, servantMap, beats>>

AsyncExit == /\ Steps("async", "exit", "ended") /\ exit' = TRUE
             /\ UNCHANGED <<main, up, terminate, netStop, clientStop, queued, servantMap, beats>>

Async == AsyncTest \/ AsyncLock \/ AsyncWaitEnds \/ AsyncPop \/ AsyncExit

-----------------------------------------------------------------------------
(***************************************************************************)
(* What the next step of a thread touches.  Admin's keepAlive is inside    *)
(* TarsNodeFHelper while it sends.  An answer is dropped before it comes   *)
(* to the epoll once the network thread is told to stop.                   *)
(***************************************************************************)
BusinessNeeds(a) ==
    {"server"} \cup CASE thread[a] \in {"init", "lookup"}    -> {"helpers"}
                      [] thread[a] = "beat" /\ a \in due    -> {"helpers"}
                      [] thread[a] = "send"                 -> {"helpers", "proxies"}
                      [] thread[a] = "answer" /\ ~netStop   -> {"epoll"}
                      [] OTHER                              -> {}

Needs(t) ==
    IF thread[t] \in {"none", "ended"} THEN {}
    ELSE CASE t = "net"    -> {"server"} \cup IF thread[t] = "wait" THEN {"epoll"} ELSE {}
           [] t = "client" -> {"client"} \cup IF thread[t] = "handle" THEN {"proxies", "async"} ELSE {}
           [] t = "async"  -> {"async"}
           [] t \in Adapters -> BusinessNeeds(t)

ThreadStep(t) == CASE t = "net" -> Net [] t = "client" -> Client [] t = "async" -> Async
                   [] t \in Adapters -> Business(t)

Step(t) == /\ Running
           /\ \/ Needs(t) \subseteq up /\ ThreadStep(t) /\ UNCHANGED misuse
              \/ /\ misuse' \in Needs(t) \ up
                 /\ UNCHANGED <<Rest, thread, servantMap, beats>>

Next == \/ Running /\ (Main \/ Registered \/ DestroyApp)
        \/ Running /\ \E A \in SUBSET (Adapters \ due) \ {{}} : FallsDue(A)
        \/ Running /\ \E a \in Adapters : RaceLookup(a)
        \/ \E t \in Threads : Step(t)

Spec == Init /\ [][Next]_vars

(***************************************************************************)
(* Every thread goes on, every wait except the one for the registry is a   *)
(* timed one, and time passes; of the network threads nothing is needed.   *)
(* Nothing makes the registry answer or a servant terminate the            *)
(* application.                                                            *)
(***************************************************************************)
FairSpec == /\ Spec
            /\ WF_vars(Running /\ Main) /\ \A t \in Adapters \cup {"async"} : WF_vars(Step(t))
            /\ WF_vars(Running /\ FallsDue(Adapters))

-----------------------------------------------------------------------------
(* Properties *)

\* Until main() has returned no thread uses what is not yet there or no
\* longer there, although the business threads start before createEpoll
\* (Application.cc:47) and none of the threads is ever joined.  The race on
\* servantMap_ is the one exception.
SafeUntilExit == misuse \in {"none", "servantMap"} \/ main \in Exiting

\* AsyncProcThread.cc:14: the object that the callback thread works on is
\* destroyed only after the thread has left run(), so that of all threads
\* this one cannot meet a destroyed object, at whatever point of its loop
\* terminate() finds it.
CallbackThreadDone == /\ misuse # "async" \/ thread["async"] = "ended"
                      /\ clientStop /\ "async" \notin up => thread["async"] = "ended"

\* Application.cc:64: once terminate_ is set the process comes to its end,
\* also when the notification falls between the test and the wait, and
\* whatever the callback thread is doing when it is told to stop
\* (AsyncProcThread.cc:41) - if no thread has met a destroyed object first.
Terminates == terminate ~> (main = "exited" \/ misuse # "none")

Serving == main \notin StartUp /\ nodeProxy /\ ~terminate /\ misuse = "none"

\* TarsNodeF.cc:32: only the administrator's business thread sends, yet every
\* adapter is reported alive again and again as long as the server serves.
HeartbeatsKeepComing == \A a \in Adapters : []<>(Serving => a \in sending)

\* AsyncProcThread.cc:41: a callback is run although the notification of its
\* message may fall between the look at the queue and the wait.
CallbacksRun == queued ~> (~queued \/ clientStop \/ misuse # "none")
=============================================================================
