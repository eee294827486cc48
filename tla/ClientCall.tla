----------------------------- MODULE ClientCall -----------------------------
(***************************************************************************)
(* A remote call on the client: ServantProxy::invoke in the thread of the  *)
(* caller, CommunicatorEpoll, ObjectProxy and Transceiver in the network   *)
(* thread, AsyncProcThread for the callbacks, and the server at the other  *)
(* end of the connection.                                                  *)
(*                                                                         *)
(* Every calling thread has a ReqInfoQueue of its own (one proxy each),    *)
(* but all of them share notify slot 0 of the CommunicatorEpoll, because   *)
(* netSeq_ stays 0 with one network thread, and one ObjectProxy per        *)
(* address.  The queues are used atomically here: LoopQueue refines        *)
(* BoundedFifo.  Steps of one thread on its own data are merged; those on  *)
(* shared data (the slot, a message's monitor) are not.  A thread that     *)
(* uses a deleted message ends the behaviour with crash = "freed".         *)
(***************************************************************************)
EXTENDS Containers, FiniteSets

CONSTANTS Callers,         \* the calling threads
          Kinds,           \* the calls they make: "sync", "async"
          MaxCalls,        \* bound on the calls of a behaviour
          QueueCap,        \* requests a ReqInfoQueue can hold
          AsyncCap,        \* ... and the queue of the AsyncProcThread
          IdMod,           \* request ids wrap at this (2^32 in the code)
          ConnectMayPend,  \* may a connect still be in progress at the first send?
          SendMayBlock,    \* may the kernel take only part of a request, or none?
          PeerMayClose,    \* may the server end the connection, or refuse it?
          MaySplit,        \* may a response arrive in pieces?
          Spurious,        \* may pthread_cond_wait return without a signal?
          Net, None        \* the network thread; nobody

ASSUME CallersAssumption == IsFiniteSet(Callers) /\ Net \notin Callers /\ None \notin Callers \cup {Net}
ASSUME KindsAssumption   == Kinds \subseteq {"sync", "async"} /\ Kinds # {}
ASSUME BoundsAssumption  == MaxCalls \in Nat /\ QueueCap \in Nat \ {0} /\ AsyncCap \in Nat \ {0}
ASSUME IdModAssumption   == IdMod \in Nat /\ IdMod > 1
ASSUME SplitAssumption   == MaySplit \in BOOLEAN

VARIABLES msg,         \* the ReqMessages
          made,        \* how many have been allocated
          pc, cur,     \* per caller: where invoke is, and its message
          again,       \* per caller: is a second notify due?
          reqQueue,    \* per caller: its ReqInfoQueue
          p, valid,    \* notify_[0].fd_info.p and notify_[0].valid
          added, armed,\* is the slot's socket in the epoll set; has it an event?
          npc, nq, nmsg, \* the network thread: its place, queue and message
          id,          \* ObjectProxy::id_
          pending,     \* timeoutQueue_'s data_: which message has an id
          unsent,      \* timeoutQueue_'s send_, newest first
          conn,        \* "none", "connecting", "open", or "closed" (fd_ = -1, connected_ true)
          sendBuf,     \* the message whose rest is in sendBuffer_
          wire,        \* the requests the kernel has taken, in order
          answered,    \* positions of wire that the server has answered
          partial,     \* is the rest of an answer still to come?
          inbound, eof,\* the first piece that has arrived and we have not read
          readable,    \* has the connection an event?
          asyncQueue,  \* the AsyncProcThread's queue
          crash        \* why the process has died

caller == <<pc, cur, again>>
slot   == <<p, valid, added, armed>>
net    == <<npc, nq, nmsg>>
proxy  == <<id, pending, unsent>>
trans  == <<conn, sendBuf, wire>>
peer   == <<answered, partial, inbound, eof, readable>>
vars   == <<msg, made, caller, reqQueue, slot, net, proxy, trans, peer, asyncQueue, crash>>

Msgs == 1 .. MaxCalls
Ids  == 1 .. IdMod - 1

\* What a read begins with: the start of the answer to request `of' of the
\* wire, or something else (of = 0), and what atoi makes of it.
Piece == [of : Nat, says : 0 .. IdMod - 1]
Start(k)    == [of |-> k, says |-> wire[k].id]
Fragment(i) == [of |-> 0, says |-> i]

ReqMessage == [kind : {"sync", "async"}, by : Callers, life : {"live", "deleted"},
               rid : 0 .. IdMod - 1, fin : BOOLEAN,
               lock : Callers \cup {Net, None}, resp : Seq(Piece)]
Request    == [id : Ids, m : Msgs, part : {"whole", "head"}]

TypeOK == /\ made \in 0 .. MaxCalls
          /\ msg \in Seq(ReqMessage) /\ Len(msg) = made
          /\ pc \in [Callers -> {"idle", "notify", "create", "add", "mod", "check",
                                 "lock", "recheck", "waiting", "woken", "return"}]
          /\ cur \in [Callers -> 0 .. made] /\ again \in [Callers -> BOOLEAN]
          /\ reqQueue \in [Callers -> Seq(1 .. made)] /\ \A c \in Callers : Len(reqQueue[c]) <= QueueCap
          /\ p \in Callers \cup {None}
          /\ valid \in BOOLEAN /\ added \in BOOLEAN /\ armed \in BOOLEAN
          /\ eof \in BOOLEAN /\ readable \in BOOLEAN
          /\ npc \in {"poll", "handle", "drain", "send", "finish", "set", "signal", "unlock"}
          /\ nq \in Callers \cup {None} /\ nmsg \in 0 .. made
          /\ id \in 0 .. IdMod - 1
          /\ pending \in [Ids -> 0 .. made] /\ unsent \in Seq(Ids)
          /\ conn \in {"none", "connecting", "open", "closed"}
          /\ sendBuf \in 0 .. made /\ wire \in Seq(Request)
          /\ answered \subseteq 1 .. Len(wire) /\ partial \in BOOLEAN /\ inbound \in Seq(Piece)
          /\ asyncQueue \in Seq(1 .. made) /\ Len(asyncQueue) <= AsyncCap
          /\ crash \in {"no", "assert", "mutex", "null", "send", "freed"}

Init == /\ msg = <<>> /\ made = 0
        /\ pc = [c \in Callers |-> "idle"] /\ cur = [c \in Callers |-> 0]
        /\ again = [c \in Callers |-> FALSE]
        /\ reqQueue = [c \in Callers |-> <<>>]
        /\ p = None /\ valid = FALSE /\ added = FALSE /\ armed = FALSE
        /\ npc = "poll" /\ nq = None /\ nmsg = 0
        /\ id = 0 /\ pending = [i \in Ids |-> 0] /\ unsent = <<>>
        /\ conn = "none" /\ sendBuf = 0 /\ wire = <<>>
        /\ answered = {} /\ partial = FALSE /\ inbound = <<>> /\ eof = FALSE /\ readable = FALSE
        /\ asyncQueue = <<>>
        /\ crash = "no"

-----------------------------------------------------------------------------
(* The calling thread. *)

\* mutant: the queue takes one element more than it has room for
RoomOneMore(c) == Len(reqQueue[c]) <= QueueCap

\* push_back succeeds (LoopQueue refines BoundedFifo)
Room(c) == Len(reqQueue[c]) < QueueCap

\* tars_invoke and tars_invoke_async up to the push; a message that finds
\* the queue full is deleted and one more notify is made
Invoke(c, kind) ==
    /\ pc[c] = "idle" /\ made < MaxCalls
    /\ LET m    == made + 1
           room == Room(c)
       IN  /\ made' = m
           /\ msg' = Append(msg, [kind |-> kind, by |-> c, life |-> IF room THEN "live" ELSE "deleted",
                                  rid |-> 0, fin |-> FALSE, lock |-> None, resp |-> <<>>])
           /\ reqQueue' = IF room THEN [reqQueue EXCEPT ![c] = Append(@, m)] ELSE reqQueue
           /\ cur' = [cur EXCEPT ![c] = m]
           /\ again' = [again EXCEPT ![c] = ~room]
    /\ pc' = [pc EXCEPT ![c] = "notify"]
    /\ UNCHANGED <<slot, net, proxy, trans, peer, asyncQueue, crash>>

\* CommunicatorEpoll::notify writes the address of the queue ...
NotifySet(c) ==
    /\ pc[c] = "notify"
    /\ p' = c
    /\ pc' = [pc EXCEPT ![c] = IF valid THEN "mod" ELSE "create"]
    /\ UNCHANGED <<msg, made, cur, again, reqQueue, valid, added, armed, net, proxy, trans, peer, asyncQueue, crash>>

\* what follows notify in invoke
AfterNotify(c) ==
    /\ again' = [again EXCEPT ![c] = FALSE]
    /\ pc' = [pc EXCEPT ![c] = CASE again[c] -> "notify"
                                 [] ~again[c] /\ msg[cur[c]].kind = "sync" -> "check"
                                 [] OTHER -> "idle"]
    /\ UNCHANGED <<msg, made, cur, reqQueue, p, net, proxy, trans, peer, asyncQueue>>

\* ... makes the socket fire again and asserts that the address is still there
NotifyMod(c) ==
    /\ pc[c] = "mod"
    /\ armed' = (armed \/ added)
    /\ crash' = IF p # c THEN "assert" ELSE crash
    /\ AfterNotify(c)
    /\ UNCHANGED <<valid, added>>

\* ... or creates the socket, closing (and so unregistering) an older one,
NotifyCreate(c) ==
    /\ pc[c] = "create"
    /\ valid' = TRUE /\ added' = FALSE /\ armed' = FALSE
    /\ pc' = [pc EXCEPT ![c] = "add"]
    /\ UNCHANGED <<msg, made, cur, again, reqQueue, p, net, proxy, trans, peer, asyncQueue, crash>>

\* and registers it, which fails when it is registered already
NotifyAdd(c) ==
    /\ pc[c] = "add"
    /\ added' = TRUE /\ armed' = (armed \/ ~added)
    /\ AfterNotify(c)
    /\ UNCHANGED <<valid, crash>>

\* the first look at monitorFin, without the lock; msg is nullptr if the push failed
Check(c) ==
    /\ pc[c] = "check"
    /\ crash' = IF msg[cur[c]].life = "deleted" THEN "null" ELSE crash
    /\ pc' = [pc EXCEPT ![c] = IF msg[cur[c]].fin THEN "return" ELSE "lock"]
    /\ UNCHANGED <<msg, made, cur, again, reqQueue, slot, net, proxy, trans, peer, asyncQueue>>

Acquire(c) ==
    /\ pc[c] = "lock" /\ msg[cur[c]].lock = None
    /\ msg' = [msg EXCEPT ![cur[c]].lock = c]
    /\ pc' = [pc EXCEPT ![c] = "recheck"]
    /\ UNCHANGED <<made, cur, again, reqQueue, slot, net, proxy, trans, peer, asyncQueue, crash>>

\* mutant: no second look
RecheckSkipped(c) ==
    /\ pc[c] = "recheck"
    /\ msg' = [msg EXCEPT ![cur[c]].lock = None]
    /\ pc' = [pc EXCEPT ![c] = "waiting"]
    /\ UNCHANGED <<made, cur, again, reqQueue, slot, net, proxy, trans, peer, asyncQueue, crash>>

\* the second look: the lock is given up by ~Lock or by Monitor::wait
Recheck(c) ==
    /\ pc[c] = "recheck"
    /\ msg' = [msg EXCEPT ![cur[c]].lock = None]
    /\ pc' = [pc EXCEPT ![c] = IF msg[cur[c]].fin THEN "return" ELSE "waiting"]
    /\ UNCHANGED <<made, cur, again, reqQueue, slot, net, proxy, trans, peer, asyncQueue, crash>>

SpuriousWakeup(c) ==
    /\ Spurious /\ pc[c] = "waiting"
    /\ pc' = [pc EXCEPT ![c] = "woken"]
    /\ UNCHANGED <<msg, made, cur, again, reqQueue, slot, net, proxy, trans, peer, asyncQueue, crash>>

\* wait has the lock again, ~Lock gives it up
Woken(c) ==
    /\ pc[c] = "woken" /\ msg[cur[c]].lock = None
    /\ pc' = [pc EXCEPT ![c] = "return"]
    /\ UNCHANGED <<msg, made, cur, again, reqQueue, slot, net, proxy, trans, peer, asyncQueue, crash>>

\* ~Mutex ends the process if the mutex of message m is locked
MutexDestroyed(m) == IF msg[m].lock # None THEN "mutex" ELSE crash

\* tars_invoke takes the response and deletes the message with its monitor
Return(c) ==
    /\ pc[c] = "return"
    /\ msg' = [msg EXCEPT ![cur[c]].life = "deleted"]
    /\ crash' = MutexDestroyed(cur[c])
    /\ pc' = [pc EXCEPT ![c] = "idle"]
    /\ UNCHANGED <<made, cur, again, reqQueue, slot, net, proxy, trans, peer, asyncQueue>>

Caller(c) == \/ \E kind \in Kinds : Invoke(c, kind)
             \/ NotifySet(c) \/ NotifyMod(c) \/ NotifyCreate(c) \/ NotifyAdd(c)
             \/ Check(c) \/ Acquire(c) \/ Recheck(c) \/ SpuriousWakeup(c) \/ Woken(c) \/ Return(c)

-----------------------------------------------------------------------------
(* The network thread. *)

\* epoll_wait returns the event of the slot
PollNotify ==
    /\ npc = "poll" /\ armed
    /\ armed' = FALSE
    /\ npc' = "handle"
    /\ UNCHANGED <<msg, made, caller, reqQueue, p, valid, added, nq, nmsg, proxy, trans, peer, asyncQueue, crash>>

\* handle reads the address of the queue
Handle ==
    /\ npc = "handle"
    /\ nq' = p
    /\ npc' = "drain"
    /\ UNCHANGED <<msg, made, caller, reqQueue, slot, nmsg, proxy, trans, peer, asyncQueue, crash>>

\* while (infoQueue->pop_front(msg))
Drain ==
    /\ npc = "drain"
    /\ IF reqQueue[nq] = <<>>
         THEN npc' = "poll" /\ nq' = None /\ UNCHANGED <<nmsg, reqQueue>>
         ELSE /\ nmsg' = Head(reqQueue[nq])
              /\ reqQueue' = [reqQueue EXCEPT ![nq] = Tail(@)]
              /\ npc' = "send" /\ UNCHANGED nq
    /\ UNCHANGED <<msg, made, caller, slot, proxy, trans, peer, asyncQueue, crash>>

\* mutant: the id is not incremented
GenerateSameId == 1

\* ObjectProxy::generateId: ++id_, and once more at 0
GenerateId == LET next == (id + 1) % IdMod IN IF next = 0 THEN 1 ELSE next

\* Transceiver::connect; the socket does not block
Connected == IF conn # "none" THEN {conn}
             ELSE {"open"} \cup (IF ConnectMayPend THEN {"connecting"} ELSE {})

\* Transceiver::send on connection c: the kernel takes all, a part or none
\* of the request (EAGAIN counts as none); any other error is "fatal", as
\* LOG_SYSFATAL ends the process
Send(c) ==
    CASE c = "closed" \/ (c = "connecting" /\ eof) -> {"fatal"}
      [] c = "connecting" /\ ~eof -> {"none"}
      [] OTHER -> {"all"} \cup (IF SendMayBlock THEN {"part", "none"} ELSE {})
                          \cup (IF eof THEN {"fatal"} ELSE {})

\* mutant: sendRequest does not look at sendBuffer_
SendRequestEagerly(c) == IF unsent # <<>> THEN {"error"} ELSE Send(c)

\* what `sendListEmpty() && sendRequest(...)' may come to: with older
\* requests unsent, this one is kept back (retError)
SendRequest(c) == IF unsent # <<>> \/ sendBuf # 0 THEN {"error"} ELSE Send(c)

\* TimeoutQueueNew::push refuses the id
Known(i) == pending[i] # 0

\* ObjectProxy::sendReqMessage
SendReqMessage ==
    /\ npc = "send"
    /\ id' = GenerateId
    /\ conn' \in Connected
    /\ msg' = [msg EXCEPT ![nmsg].rid = id']
    /\ \E r \in SendRequest(conn') :
          /\ wire' = CASE r = "all"  -> Append(wire, [id |-> id', m |-> nmsg, part |-> "whole"])
                       [] r = "part" -> Append(wire, [id |-> id', m |-> nmsg, part |-> "head"])
                       [] OTHER -> wire
          /\ sendBuf' = IF r \in {"part", "none"} THEN nmsg ELSE sendBuf
          /\ crash' = CASE msg[nmsg].life = "deleted" -> "freed"
                        [] msg[nmsg].life = "live" /\ r = "fatal" -> "send"
                        [] OTHER -> crash
          /\ IF ~Known(id')
               THEN /\ pending' = [pending EXCEPT ![id'] = nmsg]
                    /\ unsent' = IF r = "error" THEN <<id'>> \o unsent ELSE unsent
                    /\ npc' = "drain" /\ nmsg' = 0
               ELSE npc' = "finish" /\ UNCHANGED <<pending, unsent, nmsg>>
    /\ UNCHANGED <<made, caller, reqQueue, slot, nq, peer, asyncQueue>>

\* Transceiver::close clears both buffers; connected_ stays true
Close == conn' = "closed" /\ sendBuf' = 0 /\ inbound' = <<>>

\* readv meets the end of the stream: what was read before it in the same
\* doResponse is lost with the buffer
ReadClosed ==
    /\ npc = "poll" /\ readable /\ eof
    /\ readable' = FALSE
    /\ Close
    /\ UNCHANGED <<msg, made, caller, reqQueue, slot, net, proxy, wire, answered, partial, eof, asyncQueue, crash>>

\* finishInvoke(response): what atoi makes of its start tells the message
FinishInvoke(response) ==
    LET i == Head(response).says
        m == IF i = 0 THEN 0 ELSE pending[i]
    IN  IF m = 0
          THEN UNCHANGED <<msg, net, pending, unsent, crash>>
          ELSE /\ crash' = IF msg[m].life = "deleted" THEN "freed" ELSE crash
               /\ msg' = [msg EXCEPT ![m].resp = response]
               /\ pending' = [pending EXCEPT ![i] = 0]
               /\ unsent' = IF i \in Elements(unsent) THEN Erased(unsent, Position(unsent, i)) ELSE unsent
               /\ npc' = "finish" /\ nmsg' = m /\ UNCHANGED nq

\* doResponse: everything that can be read, whole answers or not, is one response
ReadResponse ==
    /\ npc = "poll" /\ readable /\ ~eof
    /\ FinishInvoke(inbound)
    /\ readable' = FALSE /\ inbound' = <<>>
    /\ UNCHANGED <<made, caller, reqQueue, slot, id, trans, answered, partial, eof, asyncQueue>>

\* finishInvoke(msg) is done: back to the queue or to epoll_wait
Finished == npc' = (IF nq = None THEN "poll" ELSE "drain") /\ nmsg' = 0 /\ UNCHANGED nq

\* finishInvoke(msg), a synchronous call: Lock, notify and monitorFin, ~Lock
FinishLock ==
    /\ npc = "finish" /\ msg[nmsg].kind = "sync" /\ msg[nmsg].lock = None
    /\ msg' = [msg EXCEPT ![nmsg].lock = Net]
    /\ crash' = IF msg[nmsg].life = "deleted" THEN "freed" ELSE crash
    /\ npc' = "set"
    /\ UNCHANGED <<made, caller, reqQueue, slot, nq, nmsg, proxy, trans, peer, asyncQueue>>

FinishSet ==
    /\ npc = "set"
    /\ msg' = [msg EXCEPT ![nmsg].fin = TRUE]
    /\ npc' = "signal"
    /\ UNCHANGED <<made, caller, reqQueue, slot, nq, nmsg, proxy, trans, peer, asyncQueue, crash>>

\* Monitor::unlock signals the condition, then unlocks
FinishSignal ==
    /\ npc = "signal"
    /\ pc' = [c \in Callers |-> IF pc[c] = "waiting" /\ cur[c] = nmsg THEN "woken" ELSE pc[c]]
    /\ npc' = "unlock"
    /\ UNCHANGED <<msg, made, cur, again, reqQueue, slot, nq, nmsg, proxy, trans, peer, asyncQueue, crash>>

FinishUnlock ==
    /\ npc = "unlock"
    /\ msg' = [msg EXCEPT ![nmsg].lock = None]
    /\ Finished
    /\ UNCHANGED <<made, caller, reqQueue, slot, proxy, trans, peer, asyncQueue, crash>>

\* mutant: a message that finds the queue full is not deleted
FinishAsyncLeaking ==
    /\ npc = "finish" /\ msg[nmsg].kind = "async"
    /\ asyncQueue' = IF Len(asyncQueue) < AsyncCap THEN Append(asyncQueue, nmsg) ELSE asyncQueue
    /\ Finished
    /\ UNCHANGED <<msg, made, caller, reqQueue, slot, proxy, trans, peer, crash>>

\* AsyncProcThread::push_back deletes the message if the queue is full
AsyncPush(m) ==
    IF Len(asyncQueue) < AsyncCap
      THEN asyncQueue' = Append(asyncQueue, m) /\ UNCHANGED msg
      ELSE msg' = [msg EXCEPT ![m].life = "deleted"] /\ UNCHANGED asyncQueue

\* an asynchronous call: pushAsyncThreadQueue, with one AsyncProcThread
FinishAsync ==
    /\ npc = "finish" /\ msg[nmsg].kind = "async"
    /\ AsyncPush(nmsg)
    /\ Finished
    /\ UNCHANGED <<made, caller, reqQueue, slot, proxy, trans, peer, crash>>

NetThread == \/ PollNotify \/ Handle \/ Drain \/ SendReqMessage \/ ReadClosed \/ ReadResponse
             \/ FinishLock \/ FinishSet \/ FinishSignal \/ FinishUnlock \/ FinishAsync

-----------------------------------------------------------------------------
(* AsyncProcThread::run.  Its test of the queue is not protected, so it    *)
(* may miss a notify; but the wait is timed, and what follows it does not  *)
(* depend on the test: an iteration takes the first message, if any.       *)

\* the callback, then delete
AsyncRun ==
    /\ asyncQueue # <<>>
    /\ msg' = [msg EXCEPT ![Head(asyncQueue)].life = "deleted"]
    /\ asyncQueue' = Tail(asyncQueue)
    /\ UNCHANGED <<made, caller, reqQueue, slot, net, proxy, trans, peer, crash>>

-----------------------------------------------------------------------------
(* The other end (external). *)

Established ==
    /\ conn = "connecting" /\ ~eof
    /\ conn' = "open"
    /\ UNCHANGED <<msg, made, caller, reqQueue, slot, net, proxy, sendBuf, wire, peer, asyncQueue, crash>>

\* of what is read at once only the beginning is looked at
Arrives(x) ==
    /\ conn = "open" /\ ~eof
    /\ inbound' = (IF inbound = <<>> THEN <<x>> ELSE inbound) /\ readable' = TRUE
    /\ UNCHANGED <<msg, made, caller, reqQueue, slot, net, proxy, trans, eof, asyncQueue, crash>>

\* complete requests are answered, in any order.  Of an answer only a first
\* piece may have arrived when we read; one that ends within the id in front
\* of it is taken for a smaller number
Answer(k) ==
    /\ k \in 1 .. Len(wire) \ answered /\ wire[k].part = "whole"
    /\ ~partial
    /\ answered' = answered \cup {k}
    /\ \/ Arrives(Start(k)) /\ partial' \in {FALSE, MaySplit}
       \/ MaySplit /\ partial' = TRUE /\ \E i \in 1 .. wire[k].id : Arrives(Fragment(i))

\* the rest of it may begin with any characters
AnswerRest ==
    /\ partial
    /\ partial' = FALSE
    /\ \E i \in 0 .. IdMod - 1 : Arrives(Fragment(i))
    /\ UNCHANGED answered

PeerClose ==
    /\ PeerMayClose /\ conn \in {"connecting", "open"} /\ ~eof
    /\ eof' = TRUE /\ readable' = TRUE
    /\ UNCHANGED <<msg, made, caller, reqQueue, slot, net, proxy, trans, answered, partial, inbound, asyncQueue, crash>>

Server == Established \/ AnswerRest \/ \E k \in 1 .. Len(wire) : Answer(k)

-----------------------------------------------------------------------------
Next == /\ crash = "no"
        /\ (\E c \in Callers : Caller(c)) \/ NetThread \/ AsyncRun \/ Server \/ PeerClose

Spec == Init /\ [][Next]_vars

\* a caller inside a call goes on; starting a call and a spurious wakeup are nobody's duty
Progress(c) == /\ crash = "no"
               /\ \/ NotifySet(c) \/ NotifyMod(c) \/ NotifyCreate(c) \/ NotifyAdd(c)
                  \/ Check(c) \/ Acquire(c) \/ Recheck(c) \/ Woken(c) \/ Return(c)

FairSpec == /\ Spec
            /\ \A c \in Callers : WF_vars(Progress(c))
            /\ WF_vars(crash = "no" /\ NetThread)
            /\ WF_vars(crash = "no" /\ AsyncRun)
            /\ WF_vars(crash = "no" /\ Server)

-----------------------------------------------------------------------------
(* Properties. *)

\* the places outside the calling thread that hold a pointer to message m
Holders(m) ==
    {x \in Callers \X (1 .. QueueCap) : x[2] <= Len(reqQueue[x[1]]) /\ reqQueue[x[1]][x[2]] = m}
      \cup {<<Net, x>> : x \in {nmsg} \cap {m}}
      \cup {<<"pending", i>> : i \in {j \in Ids : pending[j] = m}}
      \cup {<<"async", k>> : k \in {j \in 1 .. Len(asyncQueue) : asyncQueue[j] = m}}

\* A message is freed exactly once, by the one who still has it.  Until a
\* call is finished one queue, table or thread holds its message; a deleted
\* message is held by nobody, so that neither a late response nor a callback
\* touches freed memory (ServantProxy.cc:24,59, ObjectProxy.cc:30-44,75-93,
\* AsyncProcThread.cc:23-35,46-53).  Two things break that and nothing else: a
\* wait that returns spuriously (ServantProxy.cc:71), after which one place
\* still holds the message that the caller deletes, and the caller that sees
\* monitorFin without the lock (67) and destroys the mutex under the network
\* thread, which is the end of the process.
Owned ==
    /\ crash = "freed" => Spurious
    /\ \A m \in 1 .. made :
          LET holders == Cardinality(Holders(m))
          IN  CASE msg[m].life = "live" /\ msg[m].kind = "async" -> holders = 1
                [] msg[m].life = "live" /\ msg[m].kind = "sync" ->
                      /\ cur[msg[m].by] = m /\ pc[msg[m].by] # "idle"
                      /\ IF msg[m].fin THEN Holders(m) \subseteq {<<Net, m>>} ELSE holders = 1
                [] OTHER -> \/ holders = 0
                            \/ Spurious /\ msg[m].kind = "sync" /\ ~msg[m].fin /\ holders = 1
                            \/ crash = "mutex" /\ Holders(m) = {<<Net, m>>}

\* if the response of m begins with the start of an answer, then of that to m
Own(m) ==
    LET r == msg[m].resp IN r # <<>> /\ (Head(r).of # 0 => wire[Head(r).of].m = m)

\* A call that is finished has a response, and one that starts where an answer
\* starts belongs to this very call, whatever the order of the answers and however
\* many of them, and pieces of them, doResponse takes for one
\* (ObjectProxy.cc:18,67-83, Transceiver.cc:108-150).  Only a read that begins
\* in the middle of an answer, or ends within its id, reaches another call.
OwnResponse ==
    [][/\ \A c \in Callers : pc[c] = "return" /\ pc'[c] = "idle" /\ msg[cur[c]].fin => Own(cur[c])
       /\ Len(asyncQueue') < Len(asyncQueue) => Own(Head(asyncQueue))]_vars

\* The requests reach the wire in the order in which they were taken from
\* the queues, without a gap, and nothing follows a request of which only a
\* part was sent (the comment of Transceiver.cc:89, "the order of sending is
\* guaranteed").
WireOrder ==
    \A k \in 1 .. Len(wire) :
        /\ wire[k].id = k
        /\ k < Len(wire) => wire[k].part = "whole"
        /\ \A j \in 1 .. k - 1 : msg[wire[j].m].by = msg[wire[k].m].by => wire[j].m < wire[k].m

\* A call ends: with one caller and a connection that is ready and stays,
\* no wakeup between the unlocked look at monitorFin and the wait is lost
\* (ServantProxy.cc:66-74, ObjectProxy.cc:85-90).
Returns == \A c \in Callers : pc[c] = "notify" ~> (pc[c] = "idle" \/ crash # "no")

\* handle finds the queue that notify stored (CommunicatorEpoll.cc:114-115):
\* a request in a queue is taken from it.
QueueServed == \A c \in Callers : (reqQueue[c] # <<>>) ~> (reqQueue[c] = <<>> \/ crash # "no")

\* What did not go out at once is kept in sendBuffer_, goes out later and is
\* not lost (Transceiver.cc:89-90, 100).
SendBufferFlushed == (sendBuf # 0) ~> (sendBuf = 0 \/ crash # "no")
=============================================================================
