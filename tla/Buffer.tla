------------------------------- MODULE Buffer -------------------------------
(***************************************************************************)
(* Buffer.cc: the growing byte buffer of both ends of a connection, with   *)
(* the calls that Connection and Transceiver make.  A size_t is a number   *)
(* below Word; MaxBufferSize is half of that less one, as in the code, so  *)
(* that a small MaxBufferSize is a small machine word.  The memory is a    *)
(* function from addresses to bytes, Junk outside of what can be read: new *)
(* memory, and bytes that were consumed or moved away.                     *)
(*                                                                         *)
(* The loop of assureSpace is one step per iteration (pc = "grow"), so     *)
(* that its end is a property to check and not an assumption.  One thread  *)
(* uses a buffer, so the steps of two calls never mix.  swap has no caller *)
(* and is left out.                                                        *)
(***************************************************************************)
EXTENDS Integers, Sequences, FiniteSetsExt

CONSTANTS Bytes, Junk,
          MaxBufferSize,  \* 2^63 - 1 in the code
          DefaultSize,    \* 128 in the code
          Reserve,        \* what doResponse asks for: 8 KiB in the code
          Percent,        \* 100 in the code
          HighWater,      \* highWaterPercent_: 50 in the code
          Chunks,         \* what is pushed or read in one call
          MaxPop          \* bound on the size given to popData

Word  == 2 * (MaxBufferSize + 1)
Sizes == 0 .. Word - 1

\* the values that roundUp can take in the loop of roundUp2Power: 1, and the
\* double of each that still fits in a word
Doubling(S) == 1 \in S /\ \A p \in S : 2 * p < Word => 2 * p \in S
Powers == {p \in 1 .. Word - 1 : \A S \in SUBSET (1 .. Word - 1) : Doubling(S) => p \in S}

ASSUME SizesAssumption == /\ {MaxBufferSize, DefaultSize, Reserve} \subseteq Nat \ {0}
                          /\ DefaultSize <= MaxBufferSize /\ Reserve <= MaxBufferSize
                          /\ {Percent, HighWater, MaxPop} \subseteq Nat
ASSUME WordAssumption == MaxBufferSize + 1 \in Powers  \* 2^63 in the code
ASSUME ChunksAssumption == \A d \in Chunks : /\ d \in Seq(Bytes)
                                             /\ Len(d) \in 1 .. MaxBufferSize
ASSUME JunkAssumption == Junk \notin Bytes

VARIABLES readPos, writePos, capacity,
          mem,           \* what buffer_ points to
          pc,            \* where the call in progress is; "failed": an assertion does not hold;
                         \* "thrown": assureSpace was left by std::bad_alloc
          call,          \* of assureSpace in its loop: needsize, oldcap, and what follows it
          arg, ret,      \* the bytes a call was given, those it accepted or delivered last
          peak           \* the most bytes ever stored and asked for together

buf   == <<readPos, writePos, capacity, mem>>
space == <<pc, call, peak>>
vars  == <<buf, space, arg, ret>>

Add(a, b) == (a + b) % Word
Sub(a, b) == (a - b) % Word
Mul(a, b) == (a * b) % Word

readableSize == Sub(writePos, readPos)
writableSize == Sub(capacity, writePos)

\* the bytes that m holds from address `from' on
Read(m, from, n) == [i \in 1 .. n |-> IF from + i - 1 \in DOMAIN m THEN m[from + i - 1] ELSE Junk]
Keep(m, from, to) == [i \in DOMAIN m |-> IF i \in from .. to - 1 THEN m[i] ELSE Junk]
Write(m, to, d)  == [i \in DOMAIN m |-> IF i - to + 1 \in DOMAIN d THEN d[i - to + 1] ELSE m[i]]
Allocate(n)      == [i \in 0 .. n - 1 |-> Junk]

stream == Read(mem, readPos, readableSize)

\* the first of them that is not below size
roundUp2Power(size) == IF size = 0 THEN 0 ELSE Min({p \in Powers : p >= size})

NoCall == [need |-> 0, oldcap |-> 0, then |-> "idle"]

TypeOK == /\ {readPos, writePos, capacity, peak} \subseteq Sizes
          /\ mem \in [DOMAIN mem -> Bytes \cup {Junk}]
          /\ pc \in {"idle", "offered", "grow", "push", "readv", "fill", "failed", "thrown"}
          /\ call \in [need : Sizes, oldcap : Sizes, then : {"idle", "push", "readv"}]
          /\ arg \in Seq(Bytes) /\ ret \in Seq(Bytes)

Init == /\ readPos = 0 /\ writePos = 0 /\ capacity = 0 /\ mem = Allocate(0)
        /\ pc = "idle" /\ call = NoCall /\ peak = 0
        /\ arg = <<>> /\ ret = <<>>

-----------------------------------------------------------------------------
(* assureSpace *)

AssureSpace(n, next) ==
    /\ peak' = Max({peak, Add(readableSize, n)})
    /\ IF writableSize >= n
         THEN pc' = next /\ UNCHANGED call
         ELSE pc' = "grow" /\ call' = [need |-> n, oldcap |-> capacity, then |-> next]

\* mutant: the bytes that are already there are forgotten
RoomForNew == capacity >= call.need

\* the condition that ends the loop: room, once the bytes are moved to the front
RoomAfterMove == Add(writableSize, readPos) >= call.need

\* mutant: a capacity that is a power of two already stays
GrownOnce ==
    IF capacity < DefaultSize THEN DefaultSize ELSE roundUp2Power(capacity)

\* mutant: four times as much
GrownTooFar ==
    IF capacity < DefaultSize THEN DefaultSize ELSE (roundUp2Power(capacity) * 4) % Word

Grown ==
    IF capacity < DefaultSize THEN DefaultSize
    ELSE LET p == roundUp2Power(capacity)
         IN IF capacity < p THEN p ELSE (p * 2) % Word

\* an iteration of the loop; it fails its assertion when no size is left
Grow == /\ pc = "grow" /\ ~RoomAfterMove
        /\ IF capacity < DefaultSize \/ capacity <= MaxBufferSize
             THEN capacity' = Grown /\ UNCHANGED pc
             ELSE pc' = "failed" /\ UNCHANGED capacity
        /\ UNCHANGED <<readPos, writePos, mem, call, peak, arg, ret>>

\* mutant: the bytes are not moved to the front
SettleUnmoved ==
    /\ pc = "grow" /\ RoomAfterMove
    /\ mem' = IF call.oldcap < capacity THEN Write(Allocate(capacity), 0, stream) ELSE mem
    /\ readPos' = 0 /\ writePos' = readableSize
    /\ pc' = call.then /\ call' = NoCall
    /\ UNCHANGED <<capacity, peak, arg, ret>>

\* After the loop the bytes are in front, copied to new memory or moved in the
\* old one.  The two assertions: if there is no new memory there is something to
\* gain by moving, and at the end there is room.
Settle == /\ pc = "grow" /\ RoomAfterMove
          /\ mem' = Write(Allocate(capacity), 0, stream)
          /\ readPos' = 0 /\ writePos' = readableSize
          /\ pc' = IF /\ call.oldcap < capacity \/ readPos > 0
                      /\ call.need <= Sub(capacity, readableSize)
                     THEN call.then ELSE "failed"
          /\ call' = NoCall
          /\ UNCHANGED <<capacity, peak, arg, ret>>

\* `new' of the larger memory throws, and capacity_ is not set back.  The
\* behaviour ends here: the next call would believe in the larger memory.  In
\* shrink `new' comes before any change, so that its failure changes nothing.
AllocationFails ==
    /\ pc = "grow" /\ RoomAfterMove /\ call.oldcap < capacity
    /\ pc' = "thrown"
    /\ UNCHANGED <<buf, call, peak, arg, ret>>

-----------------------------------------------------------------------------
(* The public calls. *)

PushData(d) == /\ pc = "idle" /\ pc' = "offered"
               /\ arg' = d
               /\ UNCHANGED <<buf, call, peak, ret>>

\* pushData refuses the bytes, or makes room for them
PushDecide == /\ pc = "offered"
              /\ IF Add(readableSize, Len(arg)) >= MaxBufferSize
                   THEN /\ pc' = "idle" /\ arg' = <<>> /\ ret' = <<>>
                        /\ UNCHANGED <<call, peak>>
                   ELSE AssureSpace(Len(arg), "push") /\ UNCHANGED <<arg, ret>>
              /\ UNCHANGED buf

\* memcpy and produce
PushCopy == /\ pc = "push" /\ pc' = "idle"
            /\ mem' = Write(mem, writePos, arg)
            /\ writePos' = Add(writePos, Len(arg))
            /\ ret' = arg /\ arg' = <<>>
            /\ UNCHANGED <<readPos, capacity, call, peak>>

\* consume(n), after the caller has read the bytes: its assertion, and an
\* empty buffer starts over
Consumed(n) ==
    /\ ret' = Read(mem, readPos, n)
    /\ IF Add(readPos, n) <= writePos
         THEN /\ IF Add(readPos, n) = writePos
                   THEN readPos' = 0 /\ writePos' = 0
                   ELSE readPos' = Add(readPos, n) /\ UNCHANGED writePos
              /\ mem' = Keep(mem, Add(readPos, n), writePos)
              /\ UNCHANGED pc
         ELSE pc' = "failed" /\ UNCHANGED <<readPos, writePos, mem>>
    /\ UNCHANGED <<capacity, call, peak, arg>>

\* the callers have compared n with readableSize() or got it from peekData
Consume == /\ pc = "idle"
           /\ \E n \in 0 .. readableSize : Consumed(n)

\* mutant: the size is not cut down to what there is
PopDataUncut == /\ pc = "idle"
                /\ \E n \in 1 .. MaxPop : readableSize # 0 /\ Consumed(n)

PopData == /\ pc = "idle"
           /\ \E n \in 1 .. MaxPop : readableSize # 0 /\ Consumed(Min({n, readableSize}))

PeekData == /\ pc = "idle"
            /\ ret' = stream
            /\ UNCHANGED <<buf, space, arg>>

Clear == /\ pc = "idle"
         /\ readPos' = 0 /\ writePos' = 0 /\ mem' = Allocate(capacity)
         /\ ret' = <<>> /\ UNCHANGED <<capacity, space, arg>>

\* an empty buffer gives its memory back
ShrinkEmpty == /\ pc = "idle" /\ readableSize = 0
               /\ readPos' = 0 /\ writePos' = 0 /\ capacity' = 0 /\ mem' = Allocate(0)
               /\ UNCHANGED <<space, arg, ret>>

\* one that is at most half full gives a part of it back; the two products
\* are computed in a word, so that one that is nearly full may qualify
ShrinkFull == /\ pc = "idle" /\ readableSize # 0
              /\ capacity > DefaultSize
              /\ Mul(readableSize, Percent) <= Mul(capacity, HighWater)
              /\ capacity' = roundUp2Power(readableSize)
              /\ mem' = Write(Allocate(capacity'), 0, stream)
              /\ readPos' = 0 /\ writePos' = readableSize
              /\ UNCHANGED <<space, arg, ret>>

-----------------------------------------------------------------------------
(* Transceiver::doResponse: make room, read into it and into the stack. *)

\* a process cannot hold so many bytes that the sum reaches MaxBufferSize
DoResponse == /\ pc = "idle"
              /\ readableSize + Reserve < MaxBufferSize
              /\ AssureSpace(Reserve, "readv")
              /\ UNCHANGED <<buf, arg, ret>>

\* the kernel has d for us ...
Readv(d) == /\ pc = "readv" /\ pc' = "fill"
            /\ arg' = d
            /\ UNCHANGED <<buf, call, peak, ret>>

\* ... which fills what is writable; what is left on the stack goes to pushData
ReadvFill == /\ pc = "fill"
             /\ LET n == Min({Len(arg), writableSize})
                IN /\ mem' = Write(mem, writePos, SubSeq(arg, 1, n))
                   /\ writePos' = Add(writePos, n)
                   /\ ret' = SubSeq(arg, 1, n)
                   /\ arg' = SubSeq(arg, n + 1, Len(arg))
                   /\ pc' = IF n = Len(arg) THEN "idle" ELSE "offered"
             /\ UNCHANGED <<readPos, capacity, call, peak>>

\* nothing to read: the loop of doResponse ends
ReadvNone == /\ pc = "readv" /\ pc' = "idle"
             /\ UNCHANGED <<buf, call, peak, arg, ret>>

-----------------------------------------------------------------------------
Next == \/ \E d \in Chunks : PushData(d) \/ Readv(d)
        \/ PushDecide \/ PushCopy \/ Grow \/ Settle \/ AllocationFails
        \/ DoResponse \/ ReadvFill \/ ReadvNone
        \/ Consume \/ PopData \/ PeekData \/ Clear \/ ShrinkEmpty \/ ShrinkFull

Spec == Init /\ [][Next]_vars

\* the thread that is in the loop of assureSpace goes on
FairSpec == Spec /\ WF_vars(Grow \/ Settle)

-----------------------------------------------------------------------------
(* Properties *)

\* The assertions of assureSpace and consume hold, whatever calls came before:
\* the loop never runs out of sizes, when nothing was allocated there are bytes
\* to gain by moving, at the end there is room, and no more is consumed than
\* there is.  Positions stay in their order and inside the memory that buffer_
\* points to, so no memcpy leaves it; when `new' throws, what can be read is
\* still in the old memory.
AssertionsHold ==
    /\ pc # "failed"
    /\ readPos <= writePos /\ writePos <= capacity
    /\ pc \notin {"grow", "thrown"} => DOMAIN mem = 0 .. capacity - 1
    /\ pc = "thrown" => readPos .. writePos - 1 \subseteq DOMAIN mem
    /\ pc = "push" => Len(arg) <= writableSize
    /\ pc = "readv" => Reserve <= writableSize

\* Neither growing in powers of two nor shrinking takes more than twice the
\* memory that was needed at some time: assureSpace stops at the first size
\* that is large enough.
MemoryProportional ==
    capacity <= DefaultSize \/ capacity < 2 * peak

\* Through growth, compaction and shrinking a buffer remains a
\* stream of bytes: readAddr() .. readableSize() are the bytes pushed and not
\* yet consumed, in order.
Stream == INSTANCE ByteStream
            WITH Limit <- MaxBufferSize

ImplementsStream == Stream!Spec

\* The loop of assureSpace ends, from an empty buffer as well as near the limit.
GrowthEnds == pc = "grow" ~> pc # "grow"
=============================================================================
