-------------------------- MODULE ApplicationProofs --------------------------
(***************************************************************************)
(* No thread of a server process meets an object that is not there until   *)
(* main() returns, for any set of adapters; and the callback thread never  *)
(* does.                                                                   *)
(***************************************************************************)
EXTENDS Application, TLAPS

-----------------------------------------------------------------------------
(* The inductive invariant: what exists and who runs at each place of the  *)
(* main thread.                                                            *)

ClientSide == {"proxies", "client", "async"}

Existing ==
    /\ main = "initializeClient" => up = {}
    /\ main \notin {"initializeClient"} \cup Exiting => ClientSide \subseteq up
    /\ main \in {"bind", "startHandle", "createEpoll", "startNet"} \cup Waiting =>
          {"server", "helpers"} \subseteq up
    /\ main = "startNet" \/ main \in Waiting => "epoll" \in up
    /\ main \in {"stopClient", "delete", "spin"} => "async" \in up

Started ==
    /\ main = "initializeClient" => thread["client"] = "none" /\ thread["async"] = "none"
    /\ main \in {"initializeClient", "register", "initializeServer", "bind"} =>
          \A a \in Adapters : thread[a] = "none"
    /\ main \in StartUp => thread["net"] = "none"
    /\ \A a \in Adapters : thread[a] \in {"stop", "answer"} => thread["net"] # "none"

Stopped ==
    /\ exit => thread["async"] = "ended"
    /\ main \in {"deleteServer", "last", "exited"} => exit
    /\ clientStop => main \in Exiting

Misused == /\ misuse \in {"none", "servantMap"} \/ main \in Exiting
           /\ misuse = "async" => thread["async"] = "ended"

IInv == TypeOK /\ Existing /\ Started /\ Stopped /\ Misused

LEMMA ThreadNames ==
    /\ Adapters \subseteq Threads /\ {"net", "client", "async"} \subseteq Threads
    /\ \A a \in Adapters : a # "net" /\ a # "client" /\ a # "async"
BY ThreadAssumption DEF Threads

LEMMA InitInv == Init => IInv
<1> SUFFICES ASSUME Init PROVE IInv
  OBVIOUS
<1>1. TypeOK
  BY DEF Init, TypeOK, StartUp, Places
<1>2. Existing /\ Started
  BY ThreadNames DEF Init, Existing, Started, Exiting, Waiting, StartUp
<1>3. Stopped /\ Misused
  BY DEF Init, Stopped, Misused
<1>4. QED
  BY <1>1, <1>2, <1>3 DEF IInv

-----------------------------------------------------------------------------
(* What a thread needs is there until main() has returned.                 *)

LEMMA NeedsMet ==
    ASSUME IInv, main \notin Exiting, NEW t \in Threads
    PROVE  Needs(t) \subseteq up
<1>0. CASE thread[t] \in {"none", "ended"}
  BY <1>0 DEF Needs
<1> DEFINE runs == thread[t] \notin {"none", "ended"}
<1>1. CASE t = "net" /\ runs
  <2>1. main \in Waiting
    BY <1>1 DEF IInv, Started, TypeOK
  <2>2. Needs(t) \subseteq {"server", "epoll"}
    BY <1>1, ThreadNames DEF Needs
  <2>3. QED
    BY <2>1, <2>2 DEF IInv, Existing
<1>2. CASE t = "client" /\ runs
  <2>1. Needs(t) \subseteq ClientSide
    BY <1>2, ThreadNames DEF Needs, ClientSide
  <2>2. QED
    BY <1>2, <2>1 DEF IInv, Started, Existing
<1>3. CASE t = "async" /\ runs
  <2>1. Needs(t) \subseteq ClientSide
    BY <1>3, ThreadNames DEF Needs, ClientSide
  <2>2. QED
    BY <1>3, <2>1 DEF IInv, Started, Existing
<1>4. CASE t \in Adapters /\ runs
  <2>1. Needs(t) = BusinessNeeds(t)
    BY <1>4, ThreadNames DEF Needs
  <2>2. main \in {"startHandle", "createEpoll", "startNet"} \cup Waiting
    BY <1>4 DEF IInv, Started, TypeOK, StartUp
  <2>3. {"server", "helpers", "proxies"} \subseteq up
    BY <2>2 DEF IInv, Existing, ClientSide, Waiting
  <2>4. CASE thread[t] = "answer"
    <3>1. "epoll" \in up
      BY <1>4, <2>2, <2>4 DEF IInv, Started, Existing, StartUp
    <3>2. BusinessNeeds(t) \subseteq {"server", "epoll"}
      BY <2>4 DEF BusinessNeeds
    <3>3. QED
      BY <2>1, <2>3, <3>1, <3>2
  <2>5. CASE thread[t] # "answer"
    <3>1. BusinessNeeds(t) \subseteq {"server", "helpers", "proxies"}
      BY <2>5 DEF BusinessNeeds
    <3>2. QED
      BY <2>1, <2>3, <3>1
  <2>6. QED
    BY <2>4, <2>5
<1>5. QED
  BY <1>0, <1>1, <1>2, <1>3, <1>4 DEF Threads

\* The callback thread's object is destroyed after its thread has ended.
LEMMA CallbackObject ==
    ASSUME IInv, "async" \notin up, main # "initializeClient"
    PROVE  thread["async"] = "ended"
BY DEF IInv, TypeOK, Existing, Stopped, ClientSide, Exiting

-----------------------------------------------------------------------------
(* Steps of the threads other than main. *)

\* Threads neither start nor come back by themselves, the callback thread
\* says so when it ends, and main is only ever woken by them.
ThreadMoves ==
    /\ TypeOK'
    /\ \A u \in Threads : /\ thread'[u] = "none" <=> thread[u] = "none"
                          /\ thread[u] = "ended" => thread'[u] = "ended"
    /\ \A a \in Adapters : thread'[a] \in {"stop", "answer"} => thread["net"] # "none"
    /\ main' = main \/ (main = "wait" /\ main' = "test")
    /\ up' = up /\ clientStop' = clientStop
    /\ (exit => exit') /\ (exit' => exit \/ thread'["async"] = "ended")

LEMMA MovesInv == ASSUME IInv, ThreadMoves, Misused' PROVE IInv'
<1>1. TypeOK'
  BY DEF ThreadMoves
<1>2. Existing'
  BY DEF IInv, ThreadMoves, Existing, Waiting, Exiting
<1>3. Started'
  <2>1. main' # main => main' = "test" /\ main = "wait"
    BY DEF ThreadMoves
  <2>2. QED
    BY <2>1, ThreadNames DEF IInv, ThreadMoves, Started, StartUp
<1>4. Stopped'
  BY ThreadNames DEF IInv, ThreadMoves, Stopped, Exiting
<1>5. QED
  BY <1>1, <1>2, <1>3, <1>4 DEF IInv

\* The part of ThreadMoves that is about `thread', for a step of one thread.
LEMMA OneStep ==
    ASSUME IInv, NEW t \in Threads, NEW from \in Places \ {"none", "ended"},
           NEW to \in Places \ {"none"}, Steps(t, from, to),
           t \in Adapters /\ to \in {"stop", "answer"} => thread["net"] # "none"
    PROVE  /\ thread' \in [Threads -> Places]
           /\ \A u \in Threads : /\ thread'[u] = "none" <=> thread[u] = "none"
                                 /\ thread[u] = "ended" => thread'[u] = "ended"
           /\ \A a \in Adapters : thread'[a] \in {"stop", "answer"} => thread["net"] # "none"
           /\ thread'[t] = to
BY ThreadNames DEF IInv, TypeOK, Steps, Started

LEMMA BusinessMoves ==
    ASSUME IInv, NEW a \in Adapters, Business(a), UNCHANGED misuse
    PROVE  ThreadMoves
<1> USE DEF Places
<1>0. a \in Threads /\ a # "net"
  BY ThreadNames
<1>1. CASE BeginLookup(a) \/ EndLookup(a) \/ TestHandle(a) \/ Answer(a)
  <2>1. \E from \in Places \ {"none", "ended"}, to \in {"lookup", "test", "ended", "beat"} : Steps(a, from, to)
    BY <1>1 DEF BeginLookup, EndLookup, TestHandle, Answer
  <2>2. /\ UNCHANGED <<Rest, beats>>
        /\ servantMap' = servantMap \/ servantMap' = servantMap \cup {a}
    BY <1>1 DEF BeginLookup, EndLookup, TestHandle, Answer, AddServant
  <2>3. QED
    BY <1>0, <2>1, <2>2, OneStep DEF ThreadMoves, IInv, TypeOK, Rest, beats, flags
<1>2. CASE Heartbeat(a)
  <2>1. /\ UNCHANGED <<Rest, servantMap, nodeProxy>> /\ due' = due \ {a}
        /\ sending' = sending \/ sending' = adapterSet \cup {a}
        /\ adapterSet' \in {adapterSet, {}, adapterSet \cup {a}}
    BY <1>2 DEF Heartbeat, KeepAlive
  <2>2. Steps(a, "beat", "poll") \/ Steps(a, "beat", "send")
    BY <1>2 DEF Heartbeat
  <2>3. due' \subseteq Adapters /\ sending' \subseteq Adapters /\ adapterSet' \subseteq Adapters
    BY <2>1 DEF IInv, TypeOK
  <2>4. QED
    BY <1>0, <2>1, <2>2, <2>3, OneStep DEF ThreadMoves, IInv, TypeOK, Rest, flags
<1>3. CASE SendAlive(a)
  <2>1. /\ UNCHANGED <<Rest, servantMap, nodeProxy, due, adapterSet>>
        /\ sending' \subseteq sending
    BY <1>3 DEF SendAlive
  <2>2. Steps(a, "send", "poll") \/ Steps(a, "send", "send")
    BY <1>3 DEF SendAlive
  <2>3. sending' \subseteq Adapters
    BY <2>1 DEF IInv, TypeOK
  <2>4. QED
    BY <1>0, <2>1, <2>2, <2>3, OneStep DEF ThreadMoves, IInv, TypeOK, Rest, flags
<1>4. CASE Poll(a)
  <2>1. PICK to \in {"test", "answer", "stop"} : /\ Steps(a, "poll", to)
                                                 /\ to # "test" => thread["net"] # "none"
    BY <1>4 DEF Poll
  <2>2. UNCHANGED <<Rest, servantMap, beats>>
    BY <1>4 DEF Poll
  <2>3. /\ thread' \in [Threads -> Places]
        /\ \A u \in Threads : /\ thread'[u] = "none" <=> thread[u] = "none"
                              /\ thread[u] = "ended" => thread'[u] = "ended"
        /\ \A b \in Adapters : thread'[b] \in {"stop", "answer"} => thread["net"] # "none"
    BY <1>0, <2>1, OneStep
  <2>4. QED
    BY <2>2, <2>3 DEF ThreadMoves, IInv, TypeOK, Rest, beats, flags
<1>5. CASE Terminate(a)
  <2>1. /\ Steps(a, "stop", "answer") /\ terminate' = TRUE
        /\ main' = IF main = "wait" THEN "test" ELSE main
        /\ UNCHANGED <<up, netStop, clientStop, exit, queued, servantMap, beats>>
    BY <1>5 DEF Terminate, TerminateServer
  <2>2. thread["net"] # "none"
    BY <2>1 DEF Steps, IInv, Started
  <2>3. main' \in StartUp \cup Waiting \cup Exiting
    BY <2>1 DEF IInv, TypeOK, Waiting
  <2>4. QED
    BY <1>0, <2>1, <2>2, <2>3, OneStep DEF ThreadMoves, IInv, TypeOK, beats
<1>6. QED
  BY <1>1, <1>2, <1>3, <1>4, <1>5 DEF Business

LEMMA NetMoves == ASSUME IInv, Net, UNCHANGED misuse PROVE ThreadMoves
<1> USE DEF Places
<1>1. \E from \in {"test", "wait"}, to \in {"ended", "wait", "test"} : Steps("net", from, to)
  BY DEF Net, NetTest, NetWait
<1>2. UNCHANGED <<Rest, servantMap, beats>>
  BY DEF Net, NetTest, NetWait
<1>3. QED
  BY <1>1, <1>2, OneStep, ThreadNames DEF ThreadMoves, IInv, TypeOK, Rest, beats, flags

LEMMA ClientMoves == ASSUME IInv, Client, UNCHANGED misuse PROVE ThreadMoves
<1> USE DEF Places
<1>1. CASE ClientTest \/ ClientWait \/ ClientEvent
  <2>1. \E from \in {"test", "wait"}, to \in {"ended", "wait", "test", "handle"} : Steps("client", from, to)
    BY <1>1 DEF ClientTest, ClientWait, ClientEvent
  <2>2. UNCHANGED <<Rest, servantMap, beats>>
    BY <1>1 DEF ClientTest, ClientWait, ClientEvent
  <2>3. QED
    BY <2>1, <2>2, OneStep, ThreadNames DEF ThreadMoves, IInv, TypeOK, Rest, beats, flags
<1>2. CASE ClientHandle
  <2>1. /\ thread["client"] = "handle"
        /\ thread' = NotifyAsync([thread EXCEPT !["client"] = "test"])
        /\ queued' = TRUE
        /\ UNCHANGED <<main, up, flags, servantMap, beats>>
    BY <1>2 DEF ClientHandle
  <2>2. /\ thread' \in [Threads -> Places]
        /\ \A u \in Threads : u # "client" /\ u # "async" => thread'[u] = thread[u]
        /\ thread'["client"] = "test"
        /\ thread'["async"] = IF thread["async"] = "wait" THEN "pop" ELSE thread["async"]
    BY <2>1, ThreadNames DEF NotifyAsync, IInv, TypeOK
  <2>3. QED
    BY <2>1, <2>2, ThreadNames, ZenonT(30) DEF ThreadMoves, IInv, TypeOK, Started, beats, flags
<1>3. QED
  BY <1>1, <1>2 DEF Client

LEMMA AsyncMoves == ASSUME IInv, Async, UNCHANGED misuse PROVE ThreadMoves
<1> USE DEF Places
<1>1. \E from \in {"test", "lock", "wait", "pop", "exit"}, to \in {"exit", "pop", "lock", "wait", "test", "ended"} :
         Steps("async", from, to) /\ (from = "exit" => to = "ended")
  BY DEF Async, AsyncTest, AsyncLock, AsyncWaitEnds, AsyncPop, AsyncExit
<1>2. /\ UNCHANGED <<main, up, terminate, netStop, clientStop, servantMap, beats>>
      /\ queued' \in {queued, FALSE}
      /\ exit' = exit \/ (exit' = TRUE /\ thread["async"] = "exit")
  BY DEF Async, AsyncTest, AsyncLock, AsyncWaitEnds, AsyncPop, AsyncExit, Rest, flags, Steps
<1>3. thread["async"] = "exit" => thread'["async"] = "ended"
  BY <1>1, ThreadNames DEF Steps, IInv, TypeOK
<1>4. queued' \in BOOLEAN /\ exit' \in BOOLEAN
  BY <1>2 DEF IInv, TypeOK
<1>5. QED
  BY <1>1, <1>2, <1>3, <1>4, OneStep, ThreadNames DEF ThreadMoves, IInv, TypeOK, beats

LEMMA StepOfThreadInv == ASSUME IInv, NEW t \in Threads, Step(t) PROVE IInv'
<1>1. CASE ThreadStep(t) /\ UNCHANGED misuse
  <2>1. ThreadMoves
    <3>1. CASE t = "net"
      BY <1>1, <3>1, NetMoves, ThreadNames DEF ThreadStep
    <3>2. CASE t = "client"
      BY <1>1, <3>2, ClientMoves, ThreadNames DEF ThreadStep
    <3>3. CASE t = "async"
      BY <1>1, <3>3, AsyncMoves, ThreadNames DEF ThreadStep
    <3>4. CASE t \in Adapters
      BY <1>1, <3>4, BusinessMoves, ThreadNames DEF ThreadStep
    <3>5. QED
      BY <3>1, <3>2, <3>3, <3>4 DEF Threads
  <2>2. Misused'
    BY <1>1 DEF Step, Running, Misused
  <2>3. QED
    BY <2>1, <2>2, MovesInv
<1>2. CASE misuse' \in Needs(t) \ up /\ UNCHANGED <<Rest, thread, servantMap, beats>>
  <2>1. main \in Exiting
    BY <1>2, NeedsMet
  <2>2. misuse' = "async" => thread["async"] = "ended"
    BY <1>2, <2>1, CallbackObject DEF Exiting
  <2>3. misuse' \in Objects \cup {"none", "servantMap"}
    <3>1. Needs(t) \subseteq Objects
      <4>1. BusinessNeeds(t) \subseteq Objects
        BY DEF BusinessNeeds, Objects
      <4>2. CASE t \in Adapters
        BY <4>1, <4>2, ThreadNames DEF Needs
      <4>3. CASE t \in {"net", "client", "async"}
        BY <4>3, ThreadNames DEF Needs, Objects
      <4>4. QED
        BY <4>2, <4>3 DEF Threads
    <3>2. QED
      BY <1>2, <3>1
  <2>4. ThreadMoves
    BY <1>2, <2>3 DEF ThreadMoves, IInv, TypeOK, Started, Rest, beats, flags
  <2>5. Misused'
    BY <1>2, <2>1, <2>2 DEF Misused, Rest
  <2>6. QED
    BY <2>4, <2>5, MovesInv
<1>3. QED
  BY <1>1, <1>2 DEF Step

-----------------------------------------------------------------------------
(* Steps of the main thread. *)

LEMMA MainTypes == ASSUME IInv, Main \/ Registered, UNCHANGED misuse PROVE TypeOK'
<1> USE DEF IInv, TypeOK, StartUp, Waiting, Exiting, Places, Goes, flags, beats
<1>1. CASE InitializeClient \/ Registered \/ InitializeServer
  BY <1>1, AdapterAssumption DEF InitializeClient, Initialize, Registered, InitializeServer, SetNodeInfo, Objects
<1>2. CASE Bind
  BY <1>2, AdapterAssumption DEF Bind, AddServant
<1>3. CASE StartHandle
  BY <1>3 DEF StartHandle, Steps
<1>4. CASE CreateEpoll \/ StartNet
  BY <1>4 DEF CreateEpoll, StartNet, Steps, Objects
<1>5. CASE Test \/ EnterWait \/ WaitEnds \/ TerminateNet
  BY <1>5 DEF Test, EnterWait, WaitEnds, TerminateNet
<1>6. CASE StopClient
  BY <1>6 DEF StopClient, NotifyAsync
<1>7. CASE DestroyHelpers \/ DeleteProxies \/ Spin \/ DeleteServer \/ Exit
  BY <1>7 DEF DestroyHelpers, DeleteProxies, Spin, DeleteServer, Exit
<1>8. QED
  BY <1>1, <1>2, <1>3, <1>4, <1>5, <1>6, <1>7 DEF Main

LEMMA MainInv == ASSUME IInv, Running, Main \/ Registered, UNCHANGED misuse PROVE IInv'
<1>1. TypeOK'
  BY MainTypes
<1>2. Misused'
  BY DEF Running, Misused
<1> USE DEF StartUp, Waiting, Exiting, ClientSide, Goes, flags, beats
<1>3. CASE InitializeClient
  <2> USE DEF InitializeClient, Initialize
  <2>1. thread' = [thread EXCEPT !["client"] = "test", !["async"] = "test"] /\ ~exit
    BY <1>3 DEF IInv, Started, Stopped
  <2>2. Started'
    BY <1>3, <2>1, ThreadNames DEF IInv, Started, TypeOK
  <2>3. Existing' /\ Stopped'
    BY <1>3, <2>1 DEF IInv, Existing, Stopped
  <2>4. QED
    BY <1>1, <1>2, <2>2, <2>3 DEF IInv
<1>4. CASE Registered \/ InitializeServer \/ Bind \/ CreateEpoll
  <2> USE DEF Registered, InitializeServer, Bind, CreateEpoll
  <2>1. Existing'
    BY <1>4 DEF IInv, Existing
  <2>2. Started' /\ Stopped'
    BY <1>4 DEF IInv, Started, Stopped
  <2>3. QED
    BY <1>1, <1>2, <2>1, <2>2 DEF IInv
<1>5. CASE StartHandle
  <2>1. /\ main = "startHandle" /\ main' \in {"startHandle", "createEpoll"}
        /\ UNCHANGED <<up, flags>>
        /\ \/ \E a \in Adapters : thread[a] = "none" /\ thread' = [thread EXCEPT ![a] = "init"]
           \/ thread' = thread
    BY <1>5 DEF StartHandle, Steps
  <2>2. \A u \in Threads : thread'[u] = thread[u] \/ (u \in Adapters /\ thread'[u] = "init")
    BY <2>1 DEF IInv, TypeOK
  <2>3. Started'
    BY <2>1, <2>2, ThreadNames DEF IInv, Started
  <2>4. Existing' /\ Stopped'
    BY <2>1, <2>2, ThreadNames DEF IInv, Existing, Stopped
  <2>5. QED
    BY <1>1, <1>2, <2>3, <2>4 DEF IInv
<1>6. CASE StartNet
  <2>1. thread' = [thread EXCEPT !["net"] = "test"] /\ main = "startNet" /\ main' = "test"
        /\ UNCHANGED <<up, flags>>
    BY <1>6 DEF StartNet, Steps
  <2>2. Started'
    BY <2>1, ThreadNames DEF IInv, Started, TypeOK
  <2>3. Existing' /\ Stopped'
    BY <2>1, ThreadNames DEF IInv, Existing, Stopped, TypeOK
  <2>4. QED
    BY <1>1, <1>2, <2>2, <2>3 DEF IInv
<1>7. CASE Test \/ EnterWait \/ WaitEnds \/ TerminateNet
  <2> USE DEF Test, EnterWait, WaitEnds, TerminateNet
  <2>1. Existing' /\ Started'
    BY <1>7 DEF IInv, Existing, Started
  <2>2. Stopped'
    BY <1>7 DEF IInv, Stopped
  <2>3. QED
    BY <1>1, <1>2, <2>1, <2>2 DEF IInv
<1>8. CASE StopClient
  <2>1. /\ main = "stopClient" /\ main' = "delete" /\ UNCHANGED <<up, exit>>
        /\ thread' = [thread EXCEPT !["async"] = IF @ = "wait" THEN "pop" ELSE @]
    BY <1>8 DEF StopClient, NotifyAsync
  <2>2. /\ \A u \in Threads \ {"async"} : thread'[u] = thread[u]
        /\ thread["async"] = "ended" => thread'["async"] = "ended"
    BY <2>1, ThreadNames DEF IInv, TypeOK
  <2>3. Started'
    BY <2>1, <2>2, ThreadNames DEF IInv, Started
  <2>4. Existing' /\ Stopped'
    BY <2>1, <2>2 DEF IInv, Existing, Stopped
  <2>5. QED
    BY <1>1, <1>2, <2>3, <2>4 DEF IInv
<1>9. CASE DestroyHelpers \/ DeleteProxies \/ Spin \/ DeleteServer \/ Exit
  <2> USE DEF DestroyHelpers, DeleteProxies, Spin, DeleteServer, Exit
  <2>1. Existing'
    BY <1>9 DEF IInv, Existing
  <2>2. Started' /\ Stopped'
    BY <1>9 DEF IInv, Started, Stopped
  <2>3. QED
    BY <1>1, <1>2, <2>1, <2>2 DEF IInv
<1>10. QED
  BY <1>3, <1>4, <1>5, <1>6, <1>7, <1>8, <1>9 DEF Main

LEMMA StepInv == IInv /\ [Next]_vars => IInv'
<1> SUFFICES ASSUME IInv, [Next]_vars PROVE IInv'
  OBVIOUS
<1>1. CASE Running /\ (Main \/ Registered)
  <2>1. UNCHANGED misuse
    BY <1>1 DEF Main, InitializeClient, Registered, InitializeServer, Bind, StartHandle, CreateEpoll,
       StartNet, Test, EnterWait, WaitEnds, TerminateNet, DestroyHelpers, StopClient, DeleteProxies,
       Spin, DeleteServer, Exit
  <2>2. QED
    BY <1>1, <2>1, MainInv
<1>2. CASE Running /\ \E A \in SUBSET (Adapters \ due) \ {{}} : FallsDue(A)
  <2>1. due' \subseteq Adapters
    BY <1>2 DEF FallsDue, IInv, TypeOK
  <2>2. UNCHANGED <<Rest, thread, servantMap, nodeProxy, adapterSet, sending, misuse>>
    BY <1>2 DEF FallsDue
  <2>3. ThreadMoves
    BY <2>1, <2>2 DEF ThreadMoves, IInv, TypeOK, Started, Rest, flags
  <2>4. QED
    BY <2>2, <2>3, MovesInv DEF IInv, Misused, Rest
<1>3. CASE Running /\ \E a \in Adapters : RaceLookup(a)
  <2>1. misuse' = "servantMap" /\ UNCHANGED <<Rest, thread, servantMap, beats>>
    BY <1>3 DEF RaceLookup
  <2>2. ThreadMoves
    BY <2>1 DEF ThreadMoves, IInv, TypeOK, Started, Rest, flags, beats
  <2>3. QED
    BY <2>1, <2>2, MovesInv DEF Misused
<1>4. CASE \E t \in Threads : Step(t)
  BY <1>4, StepOfThreadInv
<1>5. CASE UNCHANGED vars
  <2>1. ThreadMoves
    BY <1>5 DEF ThreadMoves, IInv, TypeOK, Started, vars, flags, beats
  <2>2. QED
    BY <1>5, <2>1, MovesInv DEF IInv, Misused, vars
<1>6. CASE Running /\ DestroyApp
  <2>1. /\ main = "last" /\ misuse' = "server"
        /\ UNCHANGED <<main, up, thread, flags, queued, servantMap, beats>>
    BY <1>6 DEF DestroyApp
  <2>2. ThreadMoves
    BY <2>1 DEF ThreadMoves, IInv, TypeOK, Started, Rest, flags, beats, Objects
  <2>3. Misused'
    BY <2>1 DEF Misused, Exiting
  <2>4. QED
    BY <2>2, <2>3, MovesInv
<1>7. QED
  BY <1>1, <1>2, <1>3, <1>4, <1>5, <1>6 DEF Next

-----------------------------------------------------------------------------
(* Theorems *)

\* Every thread is at one of the places of its loop and every set of names
\* holds adapters only, whatever the order in which the threads run
\* (Application.cc, ServantHandle.cc, TarsNodeF.cc).
THEOREM TypeCorrect == Spec => []TypeOK
<1>1. IInv => TypeOK
  BY DEF IInv
<1>2. QED
  BY <1>1, InitInv, StepInv, PTL DEF Spec

\* Application.cc:20-73: start-up creates every object before the first step
\* of a thread that uses it, for any set of adapters, and waitForQuit keeps
\* them all until main() returns.
THEOREM SafeStart == Spec => []SafeUntilExit
<1>1. IInv => SafeUntilExit
  BY DEF IInv, Misused, SafeUntilExit
<1>2. QED
  BY <1>1, InitInv, StepInv, PTL DEF Spec

\* AsyncProcThread.cc:14: ~AsyncProcThread waits until its thread has left
\* run(), so the callback thread never works on a destroyed object.
THEOREM CallbackThreadSafe == Spec => []CallbackThreadDone
<1>1. IInv => CallbackThreadDone
  <2> SUFFICES ASSUME IInv PROVE CallbackThreadDone
    OBVIOUS
  <2>1. clientStop => main # "initializeClient"
    BY DEF IInv, Stopped, Exiting
  <2>2. QED
    BY <2>1, CallbackObject DEF CallbackThreadDone, IInv, Misused
<1>2. QED
  BY <1>1, InitInv, StepInv, PTL DEF Spec
=============================================================================
