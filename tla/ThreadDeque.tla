----------------------------- MODULE ThreadDeque ----------------------------
(***************************************************************************)
(* ThreadDeque.hpp with the Monitor, Lock, Mutex and Condition it is made  *)
(* of: the queues between the network thread and the business threads.     *)
(* Every method constructs a Lock, works, and destroys it; notifications   *)
(* are only counted (notify_) and go out in unlock() or wait(), while the  *)
(* mutex is still held.  A wait that ends, for whatever reason, is         *)
(* answered with nullptr or false without a second look at the deque.      *)
(*                                                                         *)
(* Time is counted in ticks, Second ticks to a second.  Condition::abstime *)
(* computes the fraction of the deadline with `&' instead of `%'; that     *)
(* depends on the time of day modulo Period, which is any at a wait, and a *)
(* wait keeps the ticks it has left.                                       *)
(***************************************************************************)
EXTENDS Integers, FiniteSets, SequencesExt

CONSTANTS Producers, Consumers,
          MaxElements,  \* bound on the elements pushed in all
          Bulk,         \* bound on the elements of push_back(D&) and push_front(D&)
          Second,       \* 10^6 us in the code, here in ticks
          Limits,       \* the millsecond arguments, in ticks: 0, Forever or a limit
          Forever,      \* static_cast<size_t>(-1)
          MaxSignals,   \* bound on the calls of notifyT, clear and size
          None

ASSUME SizesAssumption == /\ {MaxElements, Bulk, MaxSignals} \subseteq Nat
                          /\ Second \in Nat \ {0}
                          /\ Limits \ {Forever} \subseteq Nat
ASSUME ThreadsAssumption == Producers \cap Consumers = {} /\ None \notin Producers \cup Consumers

Threads  == Producers \cup Consumers
Elements == 1 .. MaxElements

\* `a & b' is the largest of the numbers whose bits both have; a number n has
\* no bits beyond the n-th.  Period is that of what abstime computes with it.
HasBit(n, i) == i <= n /\ (n \div 2 ^ (i - 1)) % 2 = 1
BitAnd(a, b) == Max({n \in 0 .. b :
                       \A i \in 1 .. b : HasBit(n, i) => HasBit(a, i) /\ HasBit(b, i)})
Period == Second * 2 ^ Second

VARIABLES deque, size,  \* deque_, size_
          mutex,        \* the thread that holds it
          notify,       \* notify_: -1 is notifyAll
          pc,           \* where each thread is: "body" is a method's first statement,
                        \* "remove" and "count" are before it changes deque_ or size_
          op,           \* the call in progress
          offer, hand,  \* what a thread pushes, what it was handed last
          left,         \* of a timed wait: ticks until the deadline given to the kernel
          due,          \* ... and until the time that the caller meant
          pushed, signals

data == <<deque, size, offer, hand>>
wait == <<left, due>>
vars == <<data, mutex, notify, pc, op, wait, pushed, signals>>

Pushes == {"push_back", "push_front"}
Ops == [name : Pushes \cup {"pop_front", "swap", "notifyT", "clear", "size"},
        limit : Limits \cup {0}]

TypeOK == /\ deque \in Seq(Elements) /\ size \in 0 .. MaxElements
          /\ mutex \in Threads \cup {None} /\ notify \in -1 .. Bulk
          /\ pc \in [Threads -> {"idle", "lock", "body", "remove", "count",
                                 "wait", "relock", "unlock"}]
          /\ op \in [Threads -> Ops]
          /\ offer \in [Threads -> Seq(Elements)] /\ hand \in [Threads -> Seq(Elements)]
          /\ left \in [Threads -> Int \cup {Forever}] /\ due \in [Threads -> Int]
          /\ pushed \in 0 .. MaxElements /\ signals \in 0 .. MaxSignals

NoOp == [name |-> "clear", limit |-> 0]

Init == /\ deque = <<>> /\ size = 0 /\ mutex = None /\ notify = 0
        /\ pc = [t \in Threads |-> "idle"] /\ op = [t \in Threads |-> NoOp]
        /\ offer = [t \in Threads |-> <<>>] /\ hand = [t \in Threads |-> <<>>]
        /\ left = [t \in Threads |-> 0] /\ due = [t \in Threads |-> 0]
        /\ pushed = 0 /\ signals = 0

Goes(t, from, to) == pc[t] = from /\ pc' = [pc EXCEPT ![t] = to]

-----------------------------------------------------------------------------
(* Calls *)

Answer(t, s) == hand' = [hand EXCEPT ![t] = s]

Call(t, name, limit) == /\ Goes(t, "idle", "lock")
                        /\ op' = [op EXCEPT ![t] = [name |-> name, limit |-> limit]]

\* push_back and push_front, of an element or of a deque of them
CallPush(t) ==
    /\ \E n \in 1 .. Bulk : /\ pushed + n <= MaxElements
                            /\ pushed' = pushed + n
                            /\ offer' = [offer EXCEPT ![t] = [i \in 1 .. n |-> pushed + i]]
    /\ \E name \in Pushes : Call(t, name, 0)
    /\ UNCHANGED <<deque, size, hand, mutex, notify, wait, signals>>

CallTake(t) == /\ \E name \in {"pop_front", "swap"}, limit \in Limits : Call(t, name, limit)
               /\ Answer(t, <<>>)
               /\ UNCHANGED <<deque, size, offer, mutex, notify, wait, pushed, signals>>

CallSignal(t) == /\ signals < MaxSignals /\ signals' = signals + 1
                 /\ \E name \in {"notifyT", "clear", "size"} : Call(t, name, 0)
                 /\ UNCHANGED <<data, mutex, notify, wait, pushed>>

-----------------------------------------------------------------------------
(* Monitor *)

\* mutant: the mutex is taken whoever has it
AcquiresAnyway(t) == mutex' = t

Acquires(t) == mutex = None /\ mutex' = t
Releases(t) == mutex = t /\ mutex' = None

\* Lock's constructor
Lock(t) == /\ Goes(t, "lock", "body")
           /\ Acquires(t)
           /\ notify' = 0
           /\ UNCHANGED <<data, op, wait, pushed, signals>>

Sleeping == {t \in Threads : pc[t] = "wait"}
Timed    == {t \in Sleeping : left[t] # Forever}

\* notifyImpl: pthread_cond_signal wakes one of the sleepers, if there is one
Woken == IF notify = -1 THEN {Sleeping}
         ELSE {S \in SUBSET Sleeping : Cardinality(S) = Min({notify, Cardinality(Sleeping)})}

\* mutant: the counted notifications are forgotten when the mutex is released
UnlockSilently(t) ==
    /\ Goes(t, "unlock", "idle")
    /\ Releases(t)
    /\ UNCHANGED <<data, notify, op, wait, pushed, signals>>

\* Lock's destructor
Unlock(t) ==
    /\ pc[t] = "unlock" /\ Releases(t)
    /\ \E S \in Woken : pc' = [u \in Threads |-> IF u = t THEN "idle"
                                                 ELSE IF u \in S THEN "relock" ELSE pc[u]]
    /\ UNCHANGED <<data, notify, op, wait, pushed, signals>>

\* mutant: the seconds are those of now, without those the fraction carries
DeadlineUncarried(now, limit) ==
    [sec |-> now \div Second, frac |-> BitAnd(now + limit, Second)]

\* Condition::abstime
Deadline(now, limit) ==
    [sec |-> (now + limit) \div Second, frac |-> BitAnd(now + limit, Second)]

Sleeps(t, l, d) == /\ Goes(t, "body", "wait")
                   /\ Releases(t)
                   /\ left' = [left EXCEPT ![t] = l] /\ due' = [due EXCEPT ![t] = d]
                   /\ UNCHANGED <<hand, notify>>

\* timedWait: pthread_cond_timedwait refuses a fraction of a whole second
\* (EINVAL, 22) at once, and the wait is answered as one that has timed out
TimedWait(t, limit) ==
    \E now \in 0 .. Period - 1 :
       LET d == Deadline(now, limit)
       IN IF d.frac < Second
            THEN Sleeps(t, d.sec * Second + d.frac - now, limit)
            ELSE /\ Goes(t, "body", "unlock")
                 /\ Answer(t, <<>>) /\ notify' = 0
                 /\ UNCHANGED <<mutex, wait>>

\* the kernel ends the wait: signalled in Unlock, at its deadline, or
\* spuriously; the thread then has to have the mutex again
WaitEnds(t) == /\ Goes(t, "wait", "relock")
               /\ UNCHANGED <<data, mutex, notify, op, wait, pushed, signals>>

\* the rest of wait() and timedWait(), and the return of nullptr or false
Relock(t) == /\ Goes(t, "relock", "unlock")
             /\ Acquires(t)
             /\ notify' = 0
             /\ Answer(t, <<>>)
             /\ left' = [left EXCEPT ![t] = 0] /\ due' = [due EXCEPT ![t] = 0]
             /\ UNCHANGED <<deque, size, offer, op, pushed, signals>>

\* time passes; a wait whose deadline has come is ended first
Tick == /\ Timed # {} /\ \A t \in Timed : left[t] > 0
        /\ LET Less(f) == [t \in Threads |-> IF t \in Timed THEN f[t] - 1 ELSE f[t]]
           IN left' = Less(left) /\ due' = Less(due)
        /\ UNCHANGED <<data, mutex, notify, pc, op, pushed, signals>>

-----------------------------------------------------------------------------
(* The methods, between lock and unlock, a step for each statement that       *)
(* touches deque_ or size_.  None of them looks at who holds the mutex.       *)

Step(t, name, from, to) == op[t].name = name /\ Goes(t, from, to)
Ends(t, from) == Goes(t, from, "unlock") /\ op' = [op EXCEPT ![t] = NoOp]

\* mutant: the count goes the other way
NotifiedDown == notify - 1

\* notify()
Notified == IF notify = -1 THEN -1 ELSE notify + 1

\* the next element is moved into deque_; size_ is still behind
Moves(t) == /\ offer' = [offer EXCEPT ![t] = Tail(@)]
            /\ notify' = Notified
            /\ UNCHANGED <<size, hand, mutex, wait, op>>

PushBack(t)  == /\ Step(t, "push_back", "body", "count")
                /\ deque' = Append(deque, Head(offer[t])) /\ Moves(t)
PushFront(t) == /\ Step(t, "push_front", "body", "count")
                /\ deque' = <<Head(offer[t])>> \o deque /\ Moves(t)

\* ++size_, and the next round of the loop, if there is one
CountPush(t) == /\ op[t].name \in Pushes /\ size' = size + 1
                /\ \/ offer[t] = <<>> /\ Ends(t, "count")
                   \/ offer[t] # <<>> /\ Goes(t, "count", "body") /\ UNCHANGED op
                /\ UNCHANGED <<deque, offer, hand, notify, mutex, wait>>

\* auto front = std::move(deque_.front())
MoveFront(t) == /\ deque # <<>> /\ Step(t, "pop_front", "body", "remove")
                /\ Answer(t, <<Head(deque)>>)
                /\ UNCHANGED <<deque, size, offer, notify, mutex, wait, op>>

\* deque_.pop_front()
PopFront(t) == /\ Step(t, "pop_front", "remove", "count")
               /\ deque' = Tail(deque)
               /\ UNCHANGED <<size, offer, hand, notify, mutex, wait, op>>

\* mutant: size_ is not decremented
CountPopNot(t) == /\ op[t].name = "pop_front" /\ Ends(t, "count")
                  /\ UNCHANGED <<data, notify, mutex, wait>>

CountPop(t) == /\ op[t].name = "pop_front" /\ Ends(t, "count")
               /\ size' = size - 1
               /\ UNCHANGED <<deque, offer, hand, notify, mutex, wait>>

\* the caller's deque is a fresh one
Swap(t) == /\ deque # <<>> /\ Step(t, "swap", "body", "count")
           /\ Answer(t, deque) /\ deque' = <<>>
           /\ UNCHANGED <<size, offer, notify, mutex, wait, op>>

\* pop_front and swap of an empty deque
TakeNothing(t) ==
    /\ pc[t] = "body" /\ deque = <<>> /\ op[t].name \in {"pop_front", "swap"}
    /\ op' = [op EXCEPT ![t] = NoOp]
    /\ LET limit == op[t].limit
       IN \/ /\ limit = 0 /\ Goes(t, "body", "unlock")
             /\ Answer(t, <<>>) /\ UNCHANGED <<mutex, notify, wait>>
          \/ limit = Forever /\ Sleeps(t, Forever, 0)
          \/ limit \notin {0, Forever} /\ TimedWait(t, limit)
    /\ UNCHANGED <<deque, size, offer>>

NotifyT(t) == /\ op[t].name = "notifyT" /\ Ends(t, "body")
              /\ notify' = -1 /\ UNCHANGED <<data, mutex, wait>>

Clear(t) == /\ Step(t, "clear", "body", "count")
            /\ deque' = <<>>
            /\ UNCHANGED <<size, offer, hand, mutex, notify, wait, op>>

\* size_ = deque_.size() in swap, size_ = 0 in clear
CountAnew(t) == /\ op[t].name \in {"swap", "clear"} /\ Ends(t, "count")
                /\ size' = IF op[t].name = "swap" THEN Len(deque) ELSE 0
                /\ UNCHANGED <<deque, offer, hand, notify, mutex, wait>>

\* size() and empty()
Size(t) == op[t].name = "size" /\ Ends(t, "body") /\ UNCHANGED <<data, mutex, notify, wait>>

Body(t) == /\ \/ PushBack(t) \/ PushFront(t) \/ CountPush(t)
              \/ MoveFront(t) \/ PopFront(t) \/ CountPop(t)
              \/ Swap(t) \/ Clear(t) \/ CountAnew(t)
              \/ TakeNothing(t) \/ NotifyT(t) \/ Size(t)
           /\ UNCHANGED <<pushed, signals>>

-----------------------------------------------------------------------------
Inside(t) == Lock(t) \/ Body(t) \/ Unlock(t) \/ Relock(t)

Next == \/ \E t \in Producers : CallPush(t) \/ CallSignal(t)
        \/ \E t \in Consumers : CallTake(t)
        \/ \E t \in Threads : Inside(t) \/ WaitEnds(t)
        \/ Tick

Spec == Init /\ [][Next]_vars

(***************************************************************************)
(* A thread inside a method goes on, time passes, the kernel ends the wait *)
(* whose time has come, and the loops that consume (NetThread::run and     *)
(* ServantHandle::run) call again and again.  Nothing makes a producer     *)
(* push.                                                                   *)
(***************************************************************************)
FairSpec == /\ Spec
            /\ \A t \in Threads : WF_vars(Inside(t))
            /\ \A t \in Consumers : /\ WF_vars(CallTake(t))
                                    /\ WF_vars(t \in Timed /\ left[t] <= 0 /\ WaitEnds(t))
            /\ WF_vars(Tick)

-----------------------------------------------------------------------------
(* Properties *)

\* ThreadDeque.hpp:55, the assertion before size_ is decremented, and what
\* makes it hold: size_ is adjusted in a statement of its own after deque_,
\* and is the length of the deque once the mutex is free.
SizeAgrees == /\ mutex = None => size = Len(deque)
              /\ \A t \in Threads : pc[t] = "count" /\ op[t].name = "pop_front" => size > 0

\* Condition.cc:61: with `&' for `%' a timed wait may be cut short or
\* overrun, but by less than a second on either side of what the caller
\* asked for; no sleeper is overdue by a second.
WaitsNear == \A t \in Timed : due[t] > -Second /\ left[t] > due[t] - Second

(***************************************************************************)
(* The instant at which a call acts: a push when it gets the mutex, though *)
(* its elements follow one by one; pop_front when it reads the front,      *)
(* though the element is removed in the next statement.  If two threads    *)
(* were in a method at once, no choice of the one whose rest is still to   *)
(* come would do.                                                          *)
(***************************************************************************)
Working == {t \in Threads : pc[t] \in {"body", "remove", "count"}}

Finished(t) == CASE op[t].name = "push_back"  -> deque \o offer[t]
                 [] op[t].name = "push_front" -> Reverse(offer[t]) \o deque
                 [] pc[t] = "remove"          -> SubSeq(deque, 2, Len(deque))
                 [] OTHER                     -> deque

Settled == IF Working = {} THEN deque ELSE Finished(CHOOSE t \in Working : TRUE)
Offered == [t \in Threads |-> IF t \in Working THEN <<>> ELSE offer[t]]

Abstract == INSTANCE SharedDeque WITH deque <- Settled, offer <- Offered

\* Every method acts on the deque at one instant, although it takes several
\* statements and a bulk push a statement for each element: no element is
\* lost, duplicated, handed to two consumers or torn out of the batch it was
\* pushed in; what a consumer was handed stays as it was.  It is the mutex
\* (ThreadDeque.hpp:34, 69, 87, 105, 130) that makes it so.
ImplementsDeque == Abstract!Spec

Stored(e) == \E i \in DOMAIN deque : deque[i] = e

\* An element that is in the deque is taken out by some consumer, although
\* the wait that its notification ends is answered with nullptr or false
\* (ThreadDeque.hpp:50, 121) and notifications are only counted until the
\* mutex is released.
Delivered == \A e \in Elements : Stored(e) ~> ~Stored(e)
=============================================================================
