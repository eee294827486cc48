---------------------------- MODULE TimeoutQueue ----------------------------
(***************************************************************************)
(* TimeoutQueueNew.hpp: the requests that wait for their response.  Three  *)
(* containers hold iterators into one another:                             *)
(*   data_  id -> message, whether it was sent, its node in time_ and,     *)
(*          if it was not sent, its node in send_;                         *)
(*   time_  the ids ordered by deadline, equal deadlines in push order;    *)
(*   send_  the ids not sent yet, newest in front.                         *)
(* An iterator is modelled by the id (and the deadline) of the node it     *)
(* points to, so an iterator dangles when no such node is left.  A rehash  *)
(* of data_, past the 100 entries that are reserved, invalidates iterators *)
(* in the letter of the standard; in the library of the build they are     *)
(* pointers to nodes, which a rehash relinks and does not move, so that    *)
(* what follows them here still finds the node.  All calls are made by the *)
(* network thread; the callback of timeout(func) may call the queue again. *)
(***************************************************************************)
EXTENDS Containers

CONSTANTS Ids,      \* request ids
          Msgs,     \* messages, all non-null pointers
          MaxTime   \* bound on the clock and on deadlines

ASSUME MaxTimeAssumption == MaxTime \in Nat

VARIABLES data,      \* partial function from Ids
          time,      \* sequence of [at, id]
          send,      \* sequence of ids; the front is the newest
          now,       \* what gettimeofday returns
          sweep,     \* the timeout() call in progress: "no", "all" or "func"
          sweepNow,  \* the time that call has read
          aborted    \* an assertion has stopped the process

vars == <<data, time, send, now, sweep, sweepNow, aborted>>

Times   == 0 .. MaxTime
PtrInfo == [ptr : Msgs, hasSend : BOOLEAN, at : Times]
NodeInfo == [at : Times, id : Ids]

TypeOK == /\ DOMAIN data \subseteq Ids
          /\ \A id \in DOMAIN data : data[id] \in PtrInfo
          /\ time \in Seq(NodeInfo)
          /\ send \in Seq(Ids)
          /\ now \in Times /\ sweepNow \in Times
          /\ sweep \in {"no", "all", "func"}
          /\ aborted \in BOOLEAN

-----------------------------------------------------------------------------
(* What the calls have in common. *)

\* the nodes that the iterators of an entry point to
TimePos(id) == CHOOSE k \in 1 .. Len(time) : time[k].id = id
SendPos(id) == Position(send, id)

Forget(id)    == [i \in DOMAIN data \ {id} |-> data[i]]
Remember(id, info) == [i \in DOMAIN data \cup {id} |-> IF i = id THEN info ELSE data[i]]

\* mutant: send_ is forgotten
RemovedFromTwo(id) ==
    /\ time' = Erased(time, TimePos(id))
    /\ data' = Forget(id)
    /\ UNCHANGED send

\* what get, erase and the timeout calls do to an entry: all three
\* containers give it up, send_ only if it holds it
Removed(id) ==
    /\ time' = Erased(time, TimePos(id))
    /\ send' = IF data[id].hasSend THEN send ELSE Erased(send, SendPos(id))
    /\ data' = Forget(id)

\* a call from the network thread, or from the callback of timeout(func)
Callable == ~aborted /\ sweep # "all"

-----------------------------------------------------------------------------
Init == /\ data = [i \in {} |-> 0]
        /\ time = <<>> /\ send = <<>>
        /\ now = 0 /\ sweep = "no" /\ sweepNow = 0
        /\ aborted = FALSE

\* mutant: the deadline is taken for a delay
PushDelay(m, id, at, hasSend) ==
    /\ Callable
    /\ id \notin DOMAIN data
    /\ data' = Remember(id, [ptr |-> m, hasSend |-> hasSend, at |-> now + at])
    /\ time' = Inserted(time, UpperBound(time, now + at), [at |-> now + at, id |-> id])
    /\ send' = IF hasSend THEN send ELSE Inserted(send, 1, id)
    /\ UNCHANGED <<now, sweep, sweepNow, aborted>>

\* push(ptr, uniqId, timeout, hasSend); a known id is refused
Push(m, id, at, hasSend) ==
    /\ Callable
    /\ id \notin DOMAIN data
    /\ data' = Remember(id, [ptr |-> m, hasSend |-> hasSend, at |-> at])
    /\ time' = Inserted(time, UpperBound(time, at), [at |-> at, id |-> id])
    /\ send' = IF hasSend THEN send ELSE Inserted(send, 1, id)
    /\ UNCHANGED <<now, sweep, sweepNow, aborted>>

\* get(uniqId, t) with erase, and erase(uniqId, t)
Erase(id) ==
    /\ Callable
    /\ id \in DOMAIN data
    /\ Removed(id)
    /\ UNCHANGED <<now, sweep, sweepNow, aborted>>

\* getSend(t): its assertion is `!ptr'; t is not assigned
GetSend ==
    /\ Callable
    /\ send # <<>>
    /\ aborted' = (data[send[Len(send)]].ptr \in Msgs)
    /\ UNCHANGED <<data, time, send, now, sweep, sweepNow>>

\* popSend(): the oldest unsent request counts as sent
PopSend ==
    /\ Callable
    /\ send # <<>>
    /\ LET id == send[Len(send)]
       IN  data' = Remember(id, [data[id] EXCEPT !.hasSend = TRUE])
    /\ send' = Erased(send, Len(send))
    /\ UNCHANGED <<time, now, sweep, sweepNow, aborted>>

\* popSend(true): ... and is forgotten
PopSendDel ==
    /\ Callable
    /\ send # <<>>
    /\ LET id == send[Len(send)]
       IN  /\ time' = Erased(time, TimePos(id))
           /\ data' = Forget(id)
    /\ send' = Erased(send, Len(send))
    /\ UNCHANGED <<now, sweep, sweepNow, aborted>>

\* timeout() and timeout(func) begin.  The first reads the clock once, the
\* second before every entry.
SweepBegin(kind) ==
    /\ Callable /\ sweep = "no"
    /\ sweep' = kind
    /\ sweepNow' = now
    /\ UNCHANGED <<data, time, send, now, aborted>>

\* mutant: a request that expires now is kept
SweepStepLate ==
    /\ ~aborted /\ sweep # "no"
    /\ sweepNow' = IF sweep = "func" THEN now ELSE sweepNow
    /\ IF time = <<>> \/ time[1].at >= sweepNow'
         THEN sweep' = "no" /\ UNCHANGED <<data, time, send>>
         ELSE Removed(time[1].id) /\ UNCHANGED sweep
    /\ UNCHANGED <<now, aborted>>

\* one iteration of their loop
SweepStep ==
    /\ ~aborted /\ sweep # "no"
    /\ sweepNow' = IF sweep = "func" THEN now ELSE sweepNow
    /\ IF time = <<>> \/ time[1].at > sweepNow'
         THEN sweep' = "no" /\ UNCHANGED <<data, time, send>>
         ELSE Removed(time[1].id) /\ UNCHANGED sweep
    /\ UNCHANGED <<now, aborted>>

\* timeout(t): at most one entry
TimeoutOne ==
    /\ Callable
    /\ time # <<>> /\ time[1].at <= now
    /\ Removed(time[1].id)
    /\ UNCHANGED <<now, sweep, sweepNow, aborted>>

\* the wall clock, which may be set back
Clock == /\ now' \in Times
         /\ UNCHANGED <<data, time, send, sweep, sweepNow, aborted>>

Next == \/ \E m \in Msgs, id \in Ids, at \in Times, hasSend \in BOOLEAN :
               Push(m, id, at, hasSend)
        \/ \E id \in Ids : Erase(id)
        \/ GetSend \/ PopSend \/ PopSendDel
        \/ \E kind \in {"all", "func"} : SweepBegin(kind)
        \/ SweepStep \/ TimeoutOne \/ Clock

Spec == Init /\ [][Next]_vars

-----------------------------------------------------------------------------
(* Properties. *)

\* Every entry of data_ has exactly one node in time_, under its deadline.
TimeIndex ==
    /\ \A k \in 1 .. Len(time) : /\ time[k].id \in DOMAIN data
                                 /\ time[k].at = data[time[k].id].at
    /\ \A j, k \in 1 .. Len(time) : time[j].id = time[k].id => j = k
    /\ \A id \in DOMAIN data : \E k \in 1 .. Len(time) : time[k].id = id

\* Every entry with hasSend false, and no other, has exactly one node in send_.
SendIndex ==
    /\ \A k \in 1 .. Len(send) : /\ send[k] \in DOMAIN data
                                 /\ ~data[send[k]].hasSend
    /\ \A j, k \in 1 .. Len(send) : send[j] = send[k] => j = k
    /\ \A id \in DOMAIN data :
            ~data[id].hasSend => \E k \in 1 .. Len(send) : send[k] = id

\* No iterator dangles and no node is left behind: the three containers
\* describe the same requests after every sequence of push, get, erase,
\* popSend and timeout (TimeoutQueueNew.hpp:85-234).
IndexesAgree == TimeIndex /\ SendIndex

\* A timeout() or timeout(func) call ends with every expired request gone, and
\* takes none that has not expired, although it looks at the first node of
\* time_ only, the callback pushes and erases meanwhile and the clock may be set
\* back (TimeoutQueueNew.hpp:149-160, 190-206).
SweepExact ==
    [][/\ sweep # "no" /\ sweep' = "no" => \A id \in DOMAIN data' : data'[id].at > sweepNow'
       /\ SweepStep => \A id \in DOMAIN data \ DOMAIN data' : data[id].at <= sweepNow']_vars
=============================================================================
