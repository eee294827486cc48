------------------------- MODULE CoroutineScheduler -------------------------
(***************************************************************************)
(* CoroutineScheduler.cc: the coroutines of one business thread.  Each     *)
(* coroutine is on the intrusive list of its status; the main coroutine    *)
(* (tars_run, or run in a thread of the user's own) moves those that were  *)
(* woken to the active and avail lists and switches to the first of a list *)
(* until the list is empty or the loop limit is reached.  A coroutine runs *)
(* until it yields, sleeps or ends.  Other threads wake coroutines with    *)
(* put().                                                                  *)
(***************************************************************************)
EXTENDS Containers, FiniteSets

CONSTANTS PoolSize,      \* poolSize_, the most coroutines there may be
          Chunk,         \* coroutines created at a time (100 in the code)
          LoopMax,       \* switches per list and round (100 in the code)
          MaxTime,       \* bound on the clock
          MaxPut,        \* bound on the ids in activeCoroQueue_
          MaxTimers,     \* bound on timeoutCoroId_
          AllocMayFail,  \* may the allocation of a stack fail?
          MayTerminate   \* may terminate() be called?

ASSUME PoolAssumption == PoolSize \in Nat \ {0} /\ Chunk \in Nat \ {0}
ASSUME LoopAssumption == LoopMax \in Nat \ {0}
ASSUME TimeAssumption == MaxTime \in Nat /\ MaxPut \in Nat /\ MaxTimers \in Nat
ASSUME ModeAssumption == AllocMayFail \in BOOLEAN /\ MayTerminate \in BOOLEAN

Ids    == 1 .. PoolSize
Main   == 0
Lists  == {"free", "active", "avail", "inactive", "timeout"}
Timer  == [at : 0 .. MaxTime, id : Ids]

VARIABLES list,        \* the five intrusive lists
          status,      \* of each id; "none" before the coroutine is created
          current,     \* currentCoro_
          usedSize, currentSize, uniqId,
          needActive,  \* needActiveCoroId_: woken by themselves
          activeQueue, \* activeCoroQueue_: woken by other threads
          timers,      \* timeoutCoroId_, ordered by time
          now,         \* what gettimeofday returns
          terminal,
          pc,          \* where the main coroutine is in its round
          batch, dest, \* the ids a wakeup function still has to move, and where to
          loop,        \* switches left
          userThread,  \* has the thread called run(), or tars_run()?
          outstanding, \* coroutines whose result another thread still has to put()
          asked,       \* coroutines that asked for one and have not yielded yet
          cut,         \* coroutines that put() woke from a sleep and that have had a timer since
          aborted      \* an assertion has stopped the process

pool  == <<usedSize, currentSize, uniqId>>
wakers == <<needActive, activeQueue, timers, outstanding, asked, cut>>
round == <<pc, batch, dest, loop, userThread>>
vars  == <<list, status, current, pool, wakers, now, terminal, round, aborted>>

PCs == {"idle", "timeout", "self", "wake", "move", "active", "avail", "end", "done"}

TypeOK == /\ list \in [Lists -> Seq(Ids)]
          /\ status \in [Ids -> Lists \cup {"none"}]
          /\ current \in Ids \cup {Main}
          /\ usedSize \in 0 .. PoolSize /\ currentSize \in 0 .. PoolSize /\ uniqId \in 0 .. PoolSize
          /\ needActive \in Seq(Ids) /\ activeQueue \in Seq(Ids) /\ timers \in Seq(Timer)
          /\ now \in 0 .. MaxTime
          /\ terminal \in BOOLEAN /\ aborted \in BOOLEAN
          /\ pc \in PCs /\ batch \in Seq(Ids) /\ dest \in {"timeout", "self", "wake"}
          /\ loop \in 0 .. LoopMax /\ userThread \in BOOLEAN
          /\ outstanding \subseteq Ids /\ asked \subseteq Ids /\ cut \subseteq Ids

Sleepers == {timers[i].id : i \in 1 .. Len(timers)}
Created == {c \in Ids : status[c] # "none"}
Least(m, n) == IF m < n THEN m ELSE n

-----------------------------------------------------------------------------
(* The lists. *)

\* coroutineDel and coroutineAddTail
Unlinked(l, c) == Erased(l, Position(l, c))
Linked(l, c)   == Append(l, c)

\* mutant: the status is not set
MovedKeepingStatus(c, to) ==
    /\ list' = [list EXCEPT ![status[c]] = Unlinked(@, c), ![to] = Linked(@, c)]
    /\ UNCHANGED status

\* what all the moveTo functions do: off the list of its status, to the tail
\* of another
Moved(c, to) ==
    /\ list' = [list EXCEPT ![status[c]] = Unlinked(@, c), ![to] = Linked(@, c)]
    /\ status' = [status EXCEPT ![c] = to]

\* moveToActive takes inactive and sleeping coroutines, moveToAvail only
\* inactive ones; any other is left where it is
Wakes(how, c) == IF how = "self" THEN status[c] = "inactive"
                                 ELSE status[c] \in {"inactive", "timeout"}
Target(how)   == IF how = "self" THEN "avail" ELSE "active"

-----------------------------------------------------------------------------
(* init(): a first chunk of free coroutines, fewer if a stack cannot be    *)
(* allocated.                                                              *)

\* of k allocations, how many succeed before the first that fails
Allocated(k) == (IF AllocMayFail THEN 0 ELSE k) .. k

Init ==
    /\ \E n \in Allocated(Least(PoolSize, Chunk)) :
          /\ list = [l \in Lists |-> IF l = "free" THEN [i \in 1 .. n |-> i] ELSE <<>>]
          /\ status = [c \in Ids |-> IF c <= n THEN "free" ELSE "none"]
          /\ currentSize = n /\ uniqId = n
    /\ usedSize = 0
    /\ current = Main
    /\ needActive = <<>> /\ activeQueue = <<>> /\ timers = <<>>
    /\ outstanding = {} /\ asked = {} /\ cut = {}
    /\ now = 0
    /\ terminal = FALSE /\ aborted = FALSE
    /\ pc = "idle" /\ batch = <<>> /\ dest = "timeout" /\ loop = 0
    /\ userThread \in BOOLEAN

(* createCoroutine(), by the thread before its loop or by a coroutine. *)

CanCreate == ~aborted /\ pc # "done" /\ current \notin asked /\ (current # Main \/ pc = "idle")
PoolShort == usedSize >= currentSize \/ list["free"] = <<>>
Increment == Least(Chunk, PoolSize - currentSize)

\* mutants: the coroutine is not counted; it is added at the head of avail
CreateUncounted ==
    /\ CanCreate /\ ~PoolShort
    /\ Moved(Head(list["free"]), "avail")
    /\ UNCHANGED <<current, pool, wakers, now, terminal, round, aborted>>

CreateAtHead ==
    /\ CanCreate /\ ~PoolShort
    /\ usedSize' = usedSize + 1
    /\ LET c == Head(list["free"])
       IN  /\ list' = [list EXCEPT !["free"] = Tail(@), !["avail"] = Inserted(@, 1, c)]
           /\ status' = [status EXCEPT ![c] = "avail"]
    /\ UNCHANGED <<current, currentSize, uniqId, wakers, now, terminal, round, aborted>>

CreateFree ==
    /\ CanCreate /\ ~PoolShort
    /\ usedSize' = usedSize + 1
    /\ Moved(Head(list["free"]), "avail")
    /\ UNCHANGED <<current, currentSize, uniqId, wakers, now, terminal, round, aborted>>

\* increaseCoroPoolSize() creates n coroutines.  An id is taken before the
\* stack is allocated, so a failure costs an id; generateId asserts that no
\* id exceeds poolSize_.  With n = 0 createCoroutine returns 0.
CreateGrowing(n) ==
    /\ CanCreate /\ PoolShort
    /\ Increment > 0
    /\ n \in Allocated(Increment)
    /\ LET ids   == IF n = Increment THEN n ELSE n + 1
           free  == list["free"] \o [i \in 1 .. n |-> uniqId + i]
           first == Head(free)
       IN  IF uniqId + ids > PoolSize
           THEN aborted' = TRUE /\ UNCHANGED <<list, status, pool>>
           ELSE /\ uniqId' = uniqId + ids
                /\ currentSize' = currentSize + n
                /\ IF n = 0 THEN UNCHANGED <<list, status, usedSize>>
                   ELSE /\ usedSize' = usedSize + 1
                        /\ list' = [list EXCEPT !["free"] = Tail(free), !["avail"] = Linked(@, first)]
                        /\ status' = [c \in Ids |-> IF c = first THEN "avail"
                                                    ELSE IF c \in uniqId + 1 .. uniqId + n THEN "free"
                                                    ELSE status[c]]
                /\ UNCHANGED aborted
    /\ UNCHANGED <<current, wakers, now, terminal, round>>

(* The main coroutine. *)

MainRuns == current = Main /\ ~aborted

\* tars_run() begins, or run() its next iteration (after at most a second of
\* waiting when there is nothing to run)
RoundBegin ==
    /\ MainRuns /\ pc = "idle"
    /\ ~terminal
    /\ pc' = "timeout"
    /\ UNCHANGED <<list, status, current, pool, wakers, now, terminal, batch, dest, loop, userThread, aborted>>

\* mutant: timers that are due one tick later are taken too
TakeTimeoutsEarly ==
    /\ MainRuns /\ pc = "timeout"
    /\ LET due == IF terminal THEN 0 ELSE UpperBound(timers, now + 1) - 1
       IN  /\ batch' = [i \in 1 .. due |-> timers[i].id]
           /\ timers' = [i \in 1 .. Len(timers) - due |-> timers[i + due]]
    /\ cut' = cut \cap Sleepers'
    /\ dest' = "timeout" /\ pc' = "move"
    /\ UNCHANGED <<list, status, current, pool, needActive, activeQueue, outstanding, asked,
                   now, terminal, loop, userThread, aborted>>

\* wakeupbytimeout, wakeupbyself and wakeup take what they have to wake up
TakeTimeouts ==
    /\ MainRuns /\ pc = "timeout"
    /\ LET due == IF terminal THEN 0 ELSE UpperBound(timers, now) - 1
       IN  /\ batch' = [i \in 1 .. due |-> timers[i].id]
           /\ timers' = [i \in 1 .. Len(timers) - due |-> timers[i + due]]
    /\ cut' = cut \cap Sleepers'
    /\ dest' = "timeout" /\ pc' = "move"
    /\ UNCHANGED <<list, status, current, pool, needActive, activeQueue, outstanding, asked,
                   now, terminal, loop, userThread, aborted>>

TakeSelf ==
    /\ MainRuns /\ pc = "self"
    /\ batch' = IF terminal THEN <<>> ELSE needActive
    /\ needActive' = IF terminal THEN needActive ELSE <<>>
    /\ dest' = "self" /\ pc' = "move"
    /\ UNCHANGED <<list, status, current, pool, activeQueue, timers, outstanding, asked, cut,
                   now, terminal, loop, userThread, aborted>>

TakePut ==
    /\ MainRuns /\ pc = "wake"
    /\ batch' = IF terminal THEN <<>> ELSE activeQueue
    /\ activeQueue' = IF terminal THEN activeQueue ELSE <<>>
    /\ dest' = "wake" /\ pc' = "move"
    /\ UNCHANGED <<list, status, current, pool, needActive, timers, outstanding, asked, cut,
                   now, terminal, loop, userThread, aborted>>

\* ... and move it, one coroutine at a time
MoveOne ==
    /\ MainRuns /\ pc = "move" /\ batch # <<>>
    /\ IF Wakes(dest, Head(batch)) THEN Moved(Head(batch), Target(dest))
                                   ELSE UNCHANGED <<list, status>>
    /\ cut' = IF dest = "wake" /\ status[Head(batch)] = "timeout" THEN cut \cup {Head(batch)} ELSE cut
    /\ batch' = Tail(batch)
    /\ UNCHANGED <<current, pool, needActive, activeQueue, timers, outstanding, asked,
                   now, terminal, pc, dest, loop, userThread, aborted>>

MoveEnd ==
    /\ MainRuns /\ pc = "move" /\ batch = <<>>
    /\ pc' = CASE dest = "timeout" -> "self" [] dest = "self" -> "wake" [] dest = "wake" -> "active"
    /\ loop' = LoopMax
    /\ UNCHANGED <<list, status, current, pool, wakers, now, terminal, batch, dest, userThread, aborted>>

\* mutant: the loop is not limited
SwitchToUnlimited ==
    /\ MainRuns /\ pc \in {"active", "avail"}
    /\ list[pc] # <<>>
    /\ current' = Head(list[pc])
    /\ loop' = loop - 1
    /\ UNCHANGED <<list, status, pool, wakers, now, terminal, pc, batch, dest, userThread, aborted>>

\* switchCoro to the first coroutine of the list that is being run
SwitchTo ==
    /\ MainRuns /\ pc \in {"active", "avail"}
    /\ loop > 0 /\ list[pc] # <<>>
    /\ current' = Head(list[pc])
    /\ loop' = loop - 1
    /\ UNCHANGED <<list, status, pool, wakers, now, terminal, pc, batch, dest, userThread, aborted>>

\* mutant: the active list is run until it is empty, avail only when it was
ListEndStarving ==
    /\ MainRuns /\ pc \in {"active", "avail"}
    /\ loop = 0 \/ list[pc] = <<>>
    /\ pc' = IF pc = "active" /\ list[pc] = <<>> /\ loop = LoopMax THEN "avail" ELSE "end"
    /\ loop' = IF pc = "active" THEN (IF userThread THEN 1 ELSE LoopMax) ELSE 0
    /\ UNCHANGED <<list, status, current, pool, wakers, now, terminal, batch, dest, userThread, aborted>>

\* run() switches to one avail coroutine per iteration only
ListEnd ==
    /\ MainRuns /\ pc \in {"active", "avail"}
    /\ loop = 0 \/ list[pc] = <<>>
    /\ pc' = IF pc = "active" THEN "avail" ELSE "end"
    /\ loop' = IF pc = "active" THEN (IF userThread THEN 1 ELSE LoopMax) ELSE 0
    /\ UNCHANGED <<list, status, current, pool, wakers, now, terminal, batch, dest, userThread, aborted>>

\* run() ends when no coroutine is in use
RoundEnd ==
    /\ MainRuns /\ pc = "end"
    /\ pc' = IF userThread /\ usedSize = 0 THEN "done" ELSE "idle"
    /\ UNCHANGED <<list, status, current, pool, wakers, now, terminal, batch, dest, loop, userThread, aborted>>

\* the loops of run() and of ServantHandle::run see terminal_; destroy()
\* gives the stacks back
Stop ==
    /\ MainRuns /\ pc = "idle" /\ terminal
    /\ pc' = "done"
    /\ UNCHANGED <<list, status, current, pool, wakers, now, terminal, batch, dest, loop, userThread, aborted>>

(* The running coroutine. *)

CoroRuns == current # Main /\ ~aborted

\* it asks another thread for something that will be announced with put(), or,
\* woken by something else, sees that it has not come yet; its next call is
\* yield(false)
Ask ==
    /\ CoroRuns /\ current \notin asked
    /\ asked' = asked \cup {current}
    /\ outstanding' = outstanding \cup {current}
    /\ UNCHANGED <<list, status, current, pool, needActive, activeQueue, timers, cut, now, terminal, round, aborted>>

\* mutant: putbyself is not called
YieldSilently ==
    /\ CoroRuns /\ current \notin asked
    /\ Moved(current, "inactive")
    /\ current' = Main
    /\ UNCHANGED <<pool, wakers, now, terminal, round, aborted>>

\* yield(true): putbyself does nothing once terminal_ is set
Yield ==
    /\ CoroRuns /\ current \notin asked
    /\ needActive' = IF terminal THEN needActive ELSE Append(needActive, current)
    /\ Moved(current, "inactive")
    /\ current' = Main
    /\ UNCHANGED <<pool, activeQueue, timers, outstanding, asked, cut, now, terminal, round, aborted>>

\* yield(false)
YieldWait ==
    /\ CoroRuns /\ current \in asked
    /\ asked' = asked \ {current}
    /\ Moved(current, "inactive")
    /\ current' = Main
    /\ UNCHANGED <<pool, needActive, activeQueue, timers, outstanding, cut, now, terminal, round, aborted>>

\* sleep(d)
Sleep(d) ==
    /\ CoroRuns /\ current \notin asked
    /\ now + d <= MaxTime /\ Len(timers) < MaxTimers
    /\ timers' = Inserted(timers, UpperBound(timers, now + d), [at |-> now + d, id |-> current])
    /\ Moved(current, "timeout")
    /\ current' = Main
    /\ UNCHANGED <<pool, needActive, activeQueue, outstanding, asked, cut, now, terminal, round, aborted>>

\* the callback returns: corotineProc
Finish ==
    /\ CoroRuns /\ current \notin asked
    /\ usedSize' = usedSize - 1
    /\ Moved(current, "free")
    /\ current' = Main
    /\ UNCHANGED <<currentSize, uniqId, wakers, now, terminal, round, aborted>>

(* The rest of the world, while the thread runs.  Once terminal_ is set the  *)
(* scheduler looks neither at what is put() nor at the time.               *)

Alive == ~aborted /\ ~terminal /\ pc # "done"

\* put() of a coroutine that exists, by another thread and at any time: it
\* announces the result asked for, or it is a put too many, and c sleeps, runs,
\* waits for something else or is free when the scheduler comes to it
Put(c) ==
    /\ Alive
    /\ c \in Created
    /\ Len(activeQueue) < MaxPut
    /\ outstanding' \in {outstanding, outstanding \ {c}}
    /\ activeQueue' = Append(activeQueue, c)
    /\ UNCHANGED <<list, status, current, pool, needActive, timers, asked, cut, now, terminal, round, aborted>>

Terminate ==
    /\ Alive /\ MayTerminate
    /\ terminal' = TRUE
    /\ UNCHANGED <<list, status, current, pool, wakers, now, round, aborted>>

Clock == /\ Alive /\ now < MaxTime
         /\ now' = now + 1
         /\ UNCHANGED <<list, status, current, pool, wakers, terminal, round, aborted>>

Round == \/ RoundBegin \/ TakeTimeouts \/ TakeSelf \/ TakePut \/ MoveOne \/ MoveEnd
         \/ SwitchTo \/ ListEnd \/ RoundEnd \/ Stop
GiveUp == Yield \/ YieldWait \/ Finish \/ \E d \in 0 .. MaxTime : Sleep(d)

Next == \/ CreateFree \/ (\E n \in 0 .. Chunk : CreateGrowing(n))
        \/ Round \/ Ask \/ GiveUp
        \/ (\E c \in Ids : Put(c)) \/ Terminate \/ Clock

Spec == Init /\ [][Next]_vars

\* Fairness: the thread keeps running, a callback does not run for ever
\* without giving up the thread, and time passes.
FairSpec == Spec /\ WF_vars(Round) /\ WF_vars(GiveUp) /\ WF_vars(Clock)

-----------------------------------------------------------------------------
(* Properties. *)

\* The intrusive lists are intact: every coroutine created is on the list of
\* its status, once, and on no other (CoroutineScheduler.cc:489-570).
ListsMatchStatus ==
    /\ \A l \in Lists : NoDuplicates(list[l])
    /\ \A l \in Lists, c \in Ids : c \in Elements(list[l]) <=> status[c] = l

\* usedSize_ and currentSize_ count what the lists hold, so the pool grows
\* exactly when it has to and never beyond poolSize_ (250, 289, 301, 172).
PoolCounts ==
    /\ currentSize = Cardinality(Created)
    /\ usedSize = Cardinality({c \in Created : status[c] # "free"})
    /\ currentSize <= uniqId
    /\ aborted => currentSize < uniqId

\* The coroutine that runs is the first of the list the main coroutine is
\* working through, so taking it off lets the loop reach the next one (329-333, 357-372).
RunningIsFirst ==
    current # Main => /\ pc \in {"active", "avail"}
                      /\ list[pc] # <<>> /\ Head(list[pc]) = current

\* Nobody waits for ever: a coroutine that gave up the thread is due to be
\* woken by the scheduler, by another thread's put() or by its timer (377-465).
NoLostWakeup ==
    ~terminal => \A c \in Ids :
        /\ status[c] = "inactive" =>
              c \in outstanding \cup Elements(activeQueue) \cup Elements(needActive) \cup Elements(batch)
        /\ status[c] = "timeout" =>
              c \in Sleepers \cup Elements(batch)

\* A sleep is cut short by put() alone: "休眠sleeptime(毫秒),然后会被唤醒"
\* (CoroutineScheduler.h:188).  A coroutine leaves the timeout list by a put()
\* or when its timer is gone, and a timer goes only when it is due.  A put() on
\* a sleeper (495-499) leaves its timer behind, which may end later sleeps of
\* that coroutine, and only of that one, until it has no timer.
SleepsLongEnough ==
    [][/\ \A c \in Ids \ cut : status[c] = "timeout" /\ status'[c] # "timeout" =>
              dest = "wake" \/ c \notin Sleepers
       /\ \A i \in 1 .. Len(timers) : timers[i] \notin Elements(timers') => timers[i].at <= now]_vars

\* A coroutine that gives up by itself or sleeps is resumed ("会自动被调度器唤醒",
\* CoroutineScheduler.h:282-288), and so is one whose result was put(): with
\* limited loops (327, 356, 366) no list starves another.
Woken(c) == \/ status[c] = "timeout"
            \/ status[c] = "inactive" /\ c \in Elements(needActive) \cup Elements(activeQueue)
RunsAgain == \A c \in Ids : Woken(c) ~> (current = c \/ terminal \/ aborted)
=============================================================================
