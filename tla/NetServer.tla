----------------------------- MODULE NetServer ------------------------------
(***************************************************************************)
(* A server: NetThread and Connection in the network thread, BindAdapter   *)
(* and its ThreadDeque, and ServantHandle with the coroutines of the       *)
(* business thread.  Requests travel connection -> receive deque ->        *)
(* coroutine -> send deque -> connection; on the way back a connection is  *)
(* known by its uid only.                                                  *)
(*                                                                         *)
(* A request arrives in two halves, so that a read may end inside one.     *)
(* The deques are used atomically (every method holds the lock all along). *)
(* The coroutines of the business thread run one at a time and in any      *)
(* order; CoroutineScheduler models how.  All waits of the business thread *)
(* are timed, so none of its steps depends on a notify.                    *)
(***************************************************************************)
EXTENDS Integers, Sequences, FiniteSets

CONSTANTS Clients,       \* every one connects at most once
          MaxReq,        \* bound on the requests of a client
          UidCount,      \* uids in free_ (2000 in the code)
          MaxFds,        \* descriptors the process has for connections
          Coros,         \* coroutines that handle requests
          ClientsMayEnd, \* how clients may leave: subset of {"fin", "rst"}
          FullReads,     \* may a read fill the 32 KiB buffer exactly?
          SendMayBlock,  \* may the kernel take only part of a response, or none?
          MaxCloses,     \* bound on the application's calls of EpollServer::close
          None

ASSUME ClientsAssumption == IsFiniteSet(Clients) /\ None \notin Clients
ASSUME SizesAssumption   == {MaxReq, UidCount, MaxFds, Coros, MaxCloses} \subseteq Nat
ASSUME FlagsAssumption   == /\ ClientsMayEnd \subseteq {"fin", "rst"}
                            /\ {FullReads, SendMayBlock} \subseteq BOOLEAN

Uids   == 1 .. UidCount
Notify == 0      \* the events of epoll: these two, and the uids
Listen == -1
Events == Uids \cup {Notify, Listen}

VARIABLES state,      \* of a client's connection: "out", "backlog", "open", "gone"
          sent,       \* halves that the client has sent
          arrived,    \* ... that the kernel has for us
          ending,     \* how the client has ended the connection
          uidOf,      \* Connection::uid_
          recvBuf,    \* halves in Connection::recvBuffer_
          parsed,     \* requests that recv has cut out of it
          free,       \* free_
          connOf,     \* connectionUids_
          ready, batch, \* events that epoll has; those of the last wait still to handle
          npc, pipe,  \* the network thread: its place, and the deque it has swapped out
          recvDeque,  \* BindAdapter::receiveBuffer_
          running,    \* requests that have a coroutine
          hand,       \* the request whose response has been pushed but not notified
          closes,     \* calls of EpollServer::close so far
          sendDeque,  \* NetThread::sendBuffer_
          out,        \* responses written to each connection
          lost,       \* requests that got no coroutine, responses the kernel refused
          crash

client == <<state, sent, arrived, ending>>
conn   == <<uidOf, recvBuf, parsed>>
table  == <<free, connOf>>
epoll  == <<ready, batch, npc, pipe>>
biz    == <<running, hand, closes>>
vars   == <<client, conn, table, epoll, recvDeque, biz, sendDeque, out, lost, crash>>

\* a request: whose it is, its number, and the uid it came with
Request  == [c : Clients, k : 1 .. MaxReq, uid : Uids]
RecvData == [closed : BOOLEAN, c : Clients, k : 0 .. MaxReq, uid : Uids]
SendData == [cmd : {"s", "c"}, uid : Uids, c : Clients \cup {None}, k : 0 .. MaxReq]
Response == [c : Clients, k : 1 .. MaxReq, whole : BOOLEAN]

ASSUME NoneAssumption == None \notin SendData

TypeOK == /\ state \in [Clients -> {"out", "backlog", "open", "gone"}]
          /\ sent \in [Clients -> 0 .. 2 * MaxReq] /\ arrived \in [Clients -> 0 .. 2 * MaxReq]
          /\ ending \in [Clients -> {"no", "fin", "rst"}]
          /\ uidOf \in [Clients -> 0 .. UidCount]
          /\ recvBuf \in [Clients -> 0 .. 1] /\ parsed \in [Clients -> 0 .. MaxReq]
          /\ free \in Seq(Uids) /\ connOf \in [Uids -> Clients \cup {None}]
          /\ ready \subseteq Events /\ batch \subseteq Events
          /\ npc \in {"poll", "batch", "accept", "pipe"} /\ pipe \in Seq(SendData)
          /\ recvDeque \in Seq(RecvData) /\ running \subseteq Request
          /\ hand \in SendData \cup {None} /\ closes \in 0 .. MaxCloses
          /\ sendDeque \in Seq(SendData) /\ out \in [Clients -> Seq(Response)]
          /\ lost \subseteq Request
          /\ crash \in {"no", "uid", "null", "sigpipe"}

Init == /\ state = [c \in Clients |-> "out"] /\ sent = [c \in Clients |-> 0]
        /\ arrived = [c \in Clients |-> 0] /\ ending = [c \in Clients |-> "no"]
        /\ uidOf = [c \in Clients |-> 0] /\ recvBuf = [c \in Clients |-> 0]
        /\ parsed = [c \in Clients |-> 0]
        /\ free = [i \in Uids |-> i] /\ connOf = [u \in Uids |-> None]
        /\ ready = {} /\ batch = {} /\ npc = "poll" /\ pipe = <<>>
        /\ recvDeque = <<>> /\ running = {} /\ hand = None /\ closes = 0
        /\ sendDeque = <<>> /\ out = [c \in Clients |-> <<>>] /\ lost = {}
        /\ crash = "no"

-----------------------------------------------------------------------------
(* The clients (external). *)

\* epoll is edge triggered: something new on c's connection
Stir(c) == ready' = IF state[c] = "open" THEN ready \cup {uidOf[c]} ELSE ready

ClientConnect(c) ==
    /\ state[c] = "out"
    /\ state' = [state EXCEPT ![c] = "backlog"]
    /\ ready' = ready \cup {Listen}
    /\ UNCHANGED <<sent, arrived, ending, conn, table, batch, npc, pipe, recvDeque, biz, sendDeque, out, lost, crash>>

ClientSend(c) ==
    /\ state[c] \in {"backlog", "open"} /\ ending[c] = "no" /\ sent[c] < 2 * MaxReq
    /\ sent' = [sent EXCEPT ![c] = @ + 1]
    /\ arrived' = [arrived EXCEPT ![c] = @ + 1]
    /\ Stir(c)
    /\ UNCHANGED <<state, ending, conn, table, batch, npc, pipe, recvDeque, biz, sendDeque, out, lost, crash>>

ClientEnd(c, how) ==
    /\ state[c] \in {"backlog", "open"} /\ ending[c] = "no"
    /\ ending' = [ending EXCEPT ![c] = how]
    /\ Stir(c)
    /\ UNCHANGED <<state, sent, arrived, conn, table, batch, npc, pipe, recvDeque, biz, sendDeque, out, lost, crash>>

-----------------------------------------------------------------------------
(* The network thread. *)

Poll ==
    /\ npc = "poll" /\ ready # {}
    /\ batch' = ready /\ ready' = {}
    /\ npc' = "batch"
    /\ UNCHANGED <<client, conn, table, pipe, recvDeque, biz, sendDeque, out, lost, crash>>

BatchEnd ==
    /\ npc = "batch" /\ batch = {}
    /\ npc' = "poll"
    /\ UNCHANGED <<client, conn, table, ready, batch, pipe, recvDeque, biz, sendDeque, out, lost, crash>>

OnListen ==
    /\ npc = "batch" /\ Listen \in batch
    /\ batch' = batch \ {Listen}
    /\ npc' = "accept"
    /\ UNCHANGED <<client, conn, table, ready, pipe, recvDeque, biz, sendDeque, out, lost, crash>>

\* addTConnection: the connection takes the first free uid, and
\* free_.front() is undefined when there is none
AddTConnection(c) ==
    IF free = <<>> THEN crash' = "uid" /\ UNCHANGED <<uidOf, table, ready>>
    ELSE /\ uidOf' = [uidOf EXCEPT ![c] = Head(free)]
         /\ free' = Tail(free)
         /\ connOf' = [connOf EXCEPT ![Head(free)] = c]
         /\ ready' = IF arrived[c] > 0 \/ ending[c] # "no" THEN ready \cup {Head(free)} ELSE ready
         /\ UNCHANGED crash

\* is there a descriptor for one more connection?
FdLeft == Cardinality({c \in Clients : state[c] = "open"}) < MaxFds

\* Any error of accept but EAGAIN makes run() call it again.  Without a
\* descriptor it fails each time and changes nothing: while a client is in the
\* backlog no step of the network thread is then possible, for ever, since only
\* this thread closes connections.
Accept(c) ==
    /\ npc = "accept" /\ state[c] = "backlog" /\ FdLeft
    /\ state' = [state EXCEPT ![c] = "open"]
    /\ AddTConnection(c)
    /\ UNCHANGED <<sent, arrived, ending, recvBuf, parsed, batch, npc, pipe, recvDeque, biz, sendDeque, out, lost>>

\* an error that takes the client from the backlog: it has reset the connection
AcceptAborted(c) ==
    /\ npc = "accept" /\ state[c] = "backlog" /\ ending[c] = "rst"
    /\ state' = [state EXCEPT ![c] = "gone"]
    /\ UNCHANGED <<sent, arrived, ending, conn, table, epoll, recvDeque, biz, sendDeque, out, lost, crash>>

\* EAGAIN
AcceptEnd ==
    /\ npc = "accept" /\ \A c \in Clients : state[c] # "backlog"
    /\ npc' = "batch"
    /\ UNCHANGED <<client, conn, table, ready, batch, pipe, recvDeque, biz, sendDeque, out, lost, crash>>

\* ThreadDeque::push_back, of one element or of many
PushedBack(deque, items) == deque \o items

\* BindAdapter::insertRecvDeque; its notify only shortens a timed wait
InsertRecvDeque(items) == recvDeque' = PushedBack(recvDeque, items)

\* mutant: the uid returns to free_
DelConnectionReusing(c) ==
    /\ InsertRecvDeque(<<[closed |-> TRUE, c |-> c, k |-> 0, uid |-> uidOf[c]]>>)
    /\ ready' = ready \ {uidOf[c]}
    /\ connOf' = [connOf EXCEPT ![uidOf[c]] = None]
    /\ state' = [state EXCEPT ![c] = "gone"]
    /\ free' = <<uidOf[c]>> \o free

\* delConnection: the servant is told, the socket closed, the uid forgotten;
\* it does not return to free_
DelConnection(c) ==
    /\ InsertRecvDeque(<<[closed |-> TRUE, c |-> c, k |-> 0, uid |-> uidOf[c]]>>)
    /\ ready' = ready \ {uidOf[c]}
    /\ connOf' = [connOf EXCEPT ![uidOf[c]] = None]
    /\ state' = [state EXCEPT ![c] = "gone"]
    /\ UNCHANGED free

\* mutants: what was cut out is not consumed; only the first request is queued
ReceiveKeeping(c) ==
    LET halves == recvBuf[c] + arrived[c]
        n      == halves \div 2
    IN  /\ recvDeque' = recvDeque \o [i \in 1 .. n |-> [closed |-> FALSE, c |-> c,
                                                        k |-> parsed[c] + i, uid |-> uidOf[c]]]
        /\ recvBuf' = [recvBuf EXCEPT ![c] = halves]
        /\ parsed' = [parsed EXCEPT ![c] = @ + n]
        /\ UNCHANGED <<state, ready, table>>

ReceiveFirst(c) ==
    LET halves == recvBuf[c] + arrived[c]
        n      == halves \div 2
    IN  /\ recvDeque' = IF n = 0 THEN recvDeque
                        ELSE Append(recvDeque, [closed |-> FALSE, c |-> c, k |-> parsed[c] + 1, uid |-> uidOf[c]])
        /\ recvBuf' = [recvBuf EXCEPT ![c] = halves % 2]
        /\ parsed' = [parsed EXCEPT ![c] = @ + n]
        /\ UNCHANGED <<state, ready, table>>

\* Connection::recv and insertRecvDeque: what is complete is cut out, the
\* rest stays in recvBuffer_
Receive(c) ==
    LET halves == recvBuf[c] + arrived[c]
        n      == halves \div 2
    IN  /\ InsertRecvDeque([i \in 1 .. n |-> [closed |-> FALSE, c |-> c,
                                              k |-> parsed[c] + i, uid |-> uidOf[c]]])
        /\ recvBuf' = [recvBuf EXCEPT ![c] = halves % 2]
        /\ parsed' = [parsed EXCEPT ![c] = @ + n]
        /\ UNCHANGED <<state, ready, table>>

\* recv returns -1 at the end of the stream, or on an error, before it cuts
\* out anything.  It reads until a read comes up short: an end that follows
\* data is seen only if the read before it filled the buffer.
ReadsEnd(c) == \/ ending[c] = "fin" /\ arrived[c] = 0
               \/ ending[c] = "fin" /\ FullReads

\* processNet
OnNet(u) ==
    /\ npc = "batch" /\ u \in batch \cap Uids
    /\ batch' = batch \ {u}
    /\ LET c == connOf[u] IN
       IF c = None
         THEN /\ crash' = "null"
              /\ UNCHANGED <<state, arrived, recvBuf, parsed, table, ready, recvDeque>>
         ELSE /\ arrived' = [arrived EXCEPT ![c] = 0]
              /\ UNCHANGED crash
              /\ \/ /\ ending[c] = "rst" \/ ReadsEnd(c)
                    /\ DelConnection(c)
                    /\ UNCHANGED <<recvBuf, parsed>>
                 \/ /\ ending[c] = "no" \/ (ending[c] = "fin" /\ arrived[c] > 0)
                    /\ Receive(c)
    /\ UNCHANGED <<sent, ending, uidOf, npc, pipe, biz, sendDeque, out, lost>>

\* mutants: the deque is copied, not swapped; only its first element is taken
OnNotifyCopying ==
    /\ npc = "batch" /\ Notify \in batch
    /\ batch' = batch \ {Notify}
    /\ pipe' = sendDeque
    /\ npc' = "pipe"
    /\ UNCHANGED <<client, conn, table, ready, recvDeque, biz, sendDeque, out, lost, crash>>

OnNotifyOne ==
    /\ npc = "batch" /\ Notify \in batch
    /\ batch' = batch \ {Notify}
    /\ pipe' = SubSeq(sendDeque, 1, 1) /\ sendDeque' = SubSeq(sendDeque, 2, Len(sendDeque))
    /\ npc' = "pipe"
    /\ UNCHANGED <<client, conn, table, ready, recvDeque, biz, out, lost, crash>>

\* ThreadDeque::swap with an empty deque
Swap == pipe' = sendDeque /\ sendDeque' = <<>>

\* processPipe takes all that was pushed
OnNotify ==
    /\ npc = "batch" /\ Notify \in batch
    /\ batch' = batch \ {Notify}
    /\ Swap
    /\ npc' = "pipe"
    /\ UNCHANGED <<client, conn, table, ready, recvDeque, biz, out, lost, crash>>

\* Connection::tcpSend: how much the kernel takes
TcpSend(c) == IF ending[c] = "rst" THEN {"error", "sigpipe"}
              ELSE {"all"} \cup (IF SendMayBlock THEN {"part", "none"} ELSE {})

\* Connection::send: what the kernel does not take of a response is dropped
\* ("TO BE DONE"), and an error is only reported
ConSend(c, r) ==
    \E taken \in TcpSend(c) :
        /\ out' = IF taken \in {"all", "part"}
                    THEN [out EXCEPT ![c] = Append(@, [c |-> r.c, k |-> r.k, whole |-> taken = "all"])]
                    ELSE out
        /\ lost' = IF taken \in {"all", "part"} THEN lost
                    ELSE lost \cup {[c |-> r.c, k |-> r.k, uid |-> r.uid]}
        /\ crash' = IF taken = "sigpipe" THEN "sigpipe" ELSE crash

\* 's': the connection of the uid is used without a look whether there is one
PipeSend ==
    /\ npc = "pipe" /\ pipe # <<>> /\ Head(pipe).cmd = "s"
    /\ LET c == connOf[Head(pipe).uid]
       IN  IF c = None THEN crash' = "null" /\ UNCHANGED <<out, lost>>
           ELSE ConSend(c, Head(pipe))
    /\ pipe' = Tail(pipe)
    /\ UNCHANGED <<client, conn, table, ready, batch, npc, recvDeque, biz, sendDeque>>

\* 'c': nothing is ever kept in Connection::sendBuffer_, so set_close says yes
PipeClose ==
    /\ npc = "pipe" /\ pipe # <<>> /\ Head(pipe).cmd = "c"
    /\ LET c == connOf[Head(pipe).uid]
       IN  IF c = None THEN UNCHANGED <<recvDeque, ready, table, state>>
           ELSE DelConnection(c)
    /\ pipe' = Tail(pipe)
    /\ UNCHANGED <<sent, arrived, ending, conn, batch, npc, biz, sendDeque, out, lost, crash>>

PipeEnd ==
    /\ npc = "pipe" /\ pipe = <<>>
    /\ npc' = "batch"
    /\ UNCHANGED <<client, conn, table, ready, batch, pipe, recvDeque, biz, sendDeque, out, lost, crash>>

NetThread == \/ Poll \/ BatchEnd \/ OnListen \/ AcceptEnd \/ OnNotify \/ PipeSend \/ PipeClose \/ PipeEnd
             \/ \E c \in Clients : Accept(c) \/ AcceptAborted(c)
             \/ \E u \in Uids : OnNet(u)

-----------------------------------------------------------------------------
(* The business thread. *)

\* waitForRecvQueue(0), which is ThreadDeque::pop_front without a wait
PopFront == recvDeque # <<>> /\ recvDeque' = Tail(recvDeque)

\* handleRequest: a close is dropped; a request gets a coroutine, or is
\* forgotten when createCoroutine has none
HandleRequest ==
    /\ hand = None /\ PopFront
    /\ LET d == Head(recvDeque)
           r == [c |-> d.c, k |-> d.k, uid |-> d.uid]
       IN  CASE d.closed -> UNCHANGED <<running, lost>>
             [] ~d.closed /\ Cardinality(running) < Coros ->
                    running' = running \cup {r} /\ UNCHANGED lost
             [] OTHER -> lost' = lost \cup {r} /\ UNCHANGED running
    /\ UNCHANGED <<client, conn, table, epoll, hand, closes, sendDeque, out, crash>>

\* a coroutine: the servant's function, then EpollServer::send pushes the response ...
RespondPush(r) ==
    /\ hand = None /\ r \in running
    /\ hand' = [cmd |-> "s", uid |-> r.uid, c |-> r.c, k |-> r.k]
    /\ sendDeque' = PushedBack(sendDeque, <<hand'>>)
    /\ UNCHANGED <<client, conn, table, epoll, recvDeque, running, closes, out, lost, crash>>

\* EpollServer::close
ClosePush(u) ==
    /\ closes < MaxCloses /\ hand = None /\ connOf[u] # None
    /\ closes' = closes + 1
    /\ hand' = [cmd |-> "c", uid |-> u, c |-> None, k |-> 0]
    /\ sendDeque' = PushedBack(sendDeque, <<hand'>>)
    /\ UNCHANGED <<client, conn, table, epoll, recvDeque, running, out, lost, crash>>

\* ... and wakes the network thread; then the coroutine ends
Wake ==
    /\ hand # None
    /\ ready' = ready \cup {Notify}
    /\ running' = {r \in running : ~(r.c = hand.c /\ r.k = hand.k)}
    /\ hand' = None
    /\ UNCHANGED <<client, conn, table, batch, npc, pipe, recvDeque, closes, sendDeque, out, lost, crash>>

Business == \/ HandleRequest \/ Wake
            \/ \E r \in running : RespondPush(r)

-----------------------------------------------------------------------------
Next == /\ crash = "no"
        /\ \/ \E c \in Clients : ClientConnect(c) \/ ClientSend(c)
           \/ \E c \in Clients : \E how \in ClientsMayEnd : ClientEnd(c, how)
           \/ NetThread \/ Business
           \/ \E u \in Uids : ClosePush(u)

Spec == Init /\ [][Next]_vars

FairSpec == /\ Spec
            /\ WF_vars(crash = "no" /\ NetThread)
            /\ WF_vars(crash = "no" /\ Business)

-----------------------------------------------------------------------------
(* Properties. *)

\* A response is written to the connection whose request it answers, and at
\* most once, although between the two the connection may have been deleted
\* and other clients accepted: only the uid ties them together
\* (NetThread.cc:180-210, 131-138).
RightConnection ==
    \A c \in Clients : /\ \A i \in 1 .. Len(out[c]) : out[c][i].c = c
                       /\ \A i, j \in 1 .. Len(out[c]) : out[c][i].k = out[c][j].k => i = j

\* how often request k of client c occurs in a sequence of records
Times(s, c, k) == Cardinality({i \in 1 .. Len(s) : s[i].c = c /\ s[i].k = k})

\* A request that was received whole is in one place: none is handled twice
\* and none vanishes, except into `lost'  (Connection.cc:43-64,
\* ThreadDeque.hpp:32-126, ServantHandle.cc:84-119).
Accounted ==
    crash = "no" => \A c \in Clients : \A k \in 1 .. parsed[c] :
        Times(recvDeque, c, k) + Times(sendDeque, c, k) + Times(pipe, c, k) + Times(out[c], c, k)
          + Cardinality({r \in running : r.c = c /\ r.k = k /\ ~(hand # None /\ hand.c = c /\ hand.k = k)})
          + Cardinality({r \in lost : r.c = c /\ r.k = k}) = 1

\* A client that stays gets a whole response to each of its requests: no
\* edge of epoll is lost between the swap of the send deque and the next
\* push, nor between a read and the next half (NetThread.cc:124-126,169-178,
\* Connection.cc:18-41).
Answered ==
    \A c \in Clients : \A k \in 1 .. MaxReq :
        (state[c] = "open" /\ sent[c] >= 2 * k)
            ~> \E i \in 1 .. Len(out[c]) : out[c][i].k = k /\ out[c][i].whole
=============================================================================
