---------------------------- MODULE BufferProofs ----------------------------
(***************************************************************************)
(* Buffer for every word size that is a power of two, every default size,  *)
(* every reserve and every set of chunks: its assertions hold, its memory  *)
(* stays in proportion, and it is a stream of bytes.                       *)
(***************************************************************************)
EXTENDS Buffer, SequenceTheorems, WellFoundedInduction, TLAPS

-----------------------------------------------------------------------------
(* The inductive invariant. *)

Limit == MaxBufferSize + 1
Held  == writePos - readPos
Free  == capacity - writePos

\* The sizes that the memory ever has.
Capacities == Powers \cup {0, DefaultSize}

\* The positions are in order.  No capacity is above 2^63: what keeps the sum
\* in pushData from wrapping around.  It is a power of two when it is above the
\* default: what keeps shrink from growing when its products wrap around.
Ordered == /\ readPos <= writePos /\ writePos <= capacity /\ capacity <= Limit
           /\ capacity \in Capacities

\* In the loop of assureSpace capacity_ runs ahead of the memory there is, and
\* it stays there when the larger memory cannot be had.
Allocated == DOMAIN mem = 0 .. (IF pc \in {"grow", "thrown"} THEN call.oldcap ELSE capacity) - 1

\* What can be read was written.
Live == \A i \in readPos .. writePos - 1 : i \in DOMAIN mem /\ mem[i] \in Bytes

\* What the call in progress knows of its bytes and of the room for them.
Offered ==
    /\ pc \in {"idle", "readv"} => arg = <<>>
    /\ pc \in {"offered", "fill", "push"} => Len(arg) \in 1 .. MaxBufferSize
    /\ pc = "push" => Len(arg) <= Free /\ Held + Len(arg) < MaxBufferSize
    /\ pc \in {"readv", "fill"} => Reserve <= Free

\* What assureSpace knows in its loop: its caller has checked the limit, and
\* there was not enough room behind the bytes.
Growing ==
    pc = "grow" =>
        /\ \/ call.then = "push" /\ Len(arg) = call.need
           \/ call.then = "readv" /\ arg = <<>> /\ Reserve = call.need
        /\ call.need > 0 /\ Held + call.need < MaxBufferSize /\ Held + call.need <= peak
        /\ writePos <= call.oldcap /\ call.oldcap <= capacity
        /\ call.oldcap - writePos < call.need

IInv == /\ TypeOK /\ pc # "failed"
        /\ Ordered /\ Allocated /\ Live /\ Offered /\ Growing
        /\ MemoryProportional

-----------------------------------------------------------------------------
(* Sizes: the arithmetic of a word, where it does not wrap around. *)

LEMMA SizeFacts == /\ MaxBufferSize \in Nat /\ MaxBufferSize > 0
                   /\ DefaultSize \in Nat /\ DefaultSize > 0 /\ DefaultSize <= MaxBufferSize
                   /\ Reserve \in Nat /\ Reserve > 0 /\ Reserve <= MaxBufferSize
                   /\ MaxPop \in Nat
                   /\ Word \in Nat /\ Word = 2 * MaxBufferSize + 2
                   /\ Limit \in Nat /\ Limit = MaxBufferSize + 1
BY SizesAssumption DEF Word, Limit

LEMMA ModSmall ==
    ASSUME NEW x \in Nat, NEW n \in Nat, x < n
    PROVE  x % n = x
OBVIOUS

LEMMA AddExact ==
    ASSUME NEW a \in Nat, NEW b \in Nat, a + b < Word
    PROVE  Add(a, b) = a + b
<1>1. a + b \in Nat /\ Word \in Nat
  BY SizeFacts
<1>2. QED
  BY <1>1, ModSmall DEF Add

LEMMA SubExact ==
    ASSUME NEW a \in Nat, NEW b \in Nat, b <= a, a < Word
    PROVE  Sub(a, b) = a - b
<1>1. a - b \in Nat /\ Word \in Nat /\ a - b < Word
  BY SizeFacts
<1>2. QED
  BY <1>1, ModSmall DEF Sub

LEMMA MaxOfTwo ==
    ASSUME NEW a \in Int, NEW b \in Int
    PROVE  /\ Max({a, b}) = IF a >= b THEN a ELSE b
<1>1. \A x \in {a, b} : (\A y \in {a, b} : x >= y) => x = IF a >= b THEN a ELSE b
  OBVIOUS
<1>2. \E x \in {a, b} : \A y \in {a, b} : x >= y
  <2>1. CASE a >= b
    BY <2>1
  <2>2. CASE ~(a >= b)
    BY <2>2
  <2>3. QED
    BY <2>1, <2>2
<1>3. QED
  BY <1>1, <1>2 DEF Max

LEMMA MinOfTwo ==
    ASSUME NEW a \in Int, NEW b \in Int
    PROVE  /\ Min({a, b}) = IF a <= b THEN a ELSE b
<1>1. \A x \in {a, b} : (\A y \in {a, b} : x <= y) => x = IF a <= b THEN a ELSE b
  OBVIOUS
<1>2. \E x \in {a, b} : \A y \in {a, b} : x <= y
  <2>1. CASE a <= b
    BY <2>1
  <2>2. CASE ~(a <= b)
    BY <2>2
  <2>3. QED
    BY <2>1, <2>2
<1>3. QED
  BY <1>1, <1>2 DEF Min

\* A set of naturals that is not empty has a least element.
LEMMA LeastElement ==
    ASSUME NEW T \in SUBSET Nat, T # {}
    PROVE  \E k \in T : \A i \in T : k <= i
<1> DEFINE R == OpToRel(<, Nat)
<1>1. IsWellFoundedOn(R, Nat)
  BY NatLessThanWellFounded
<1>2. \A x, y \in Nat : y < x => <<y, x>> \in R
  BY DEF OpToRel
<1> HIDE DEF R
<1>3. PICK x \in T : \A y \in T : ~(<<y, x>> \in R)
  BY <1>1, WFMin, Zenon
<1>4. ASSUME NEW i \in T PROVE x <= i
  <2>1. i \in Nat /\ x \in Nat
    OBVIOUS
  <2>2. ~(i < x)
    BY <1>2, <1>3, <2>1, Zenon
  <2>3. QED
    BY <2>1, <2>2
<1>5. QED
  BY <1>3, <1>4

-----------------------------------------------------------------------------
(* Powers of two, as the loop of roundUp2Power makes them. *)

LEMMA PowersTyped == \A p \in Powers : p \in Nat /\ p >= 1 /\ p < Word
BY SizeFacts DEF Powers

\* induction over the loop
LEMMA PowersLeast ==
    ASSUME NEW S \in SUBSET (1 .. Word - 1), Doubling(S)
    PROVE  Powers \subseteq S
BY DEF Powers

LEMMA PowersDoubling == Doubling(Powers)
<1>1. 1 \in Powers
  <2>1. 1 \in 1 .. Word - 1
    BY SizeFacts
  <2>2. \A S \in SUBSET (1 .. Word - 1) : Doubling(S) => 1 \in S
    BY DEF Doubling
  <2>3. QED
    BY <2>1, <2>2 DEF Powers
<1>2. ASSUME NEW p \in Powers, 2 * p < Word PROVE 2 * p \in Powers
  <2>1. 2 * p \in 1 .. Word - 1
    BY <1>2, PowersTyped, SizeFacts
  <2>2. ASSUME NEW S \in SUBSET (1 .. Word - 1), Doubling(S) PROVE 2 * p \in S
    <3>1. p \in S
      BY <2>2, PowersLeast
    <3>2. QED
      BY <1>2, <2>2, <3>1 DEF Doubling
  <2>3. QED
    BY <2>1, <2>2 DEF Powers
<1>3. QED
  BY <1>1, <1>2 DEF Doubling

\* Every power but 1 is the double of one.
LEMMA PowersHalf == \A p \in Powers : p = 1 \/ \E q \in Powers : p = 2 * q
<1> DEFINE S == {p \in Powers : p = 1 \/ \E q \in Powers : p = 2 * q}
<1>1. S \in SUBSET (1 .. Word - 1)
  BY DEF Powers
<1>2. 1 \in S
  BY PowersDoubling DEF Doubling
<1>3. \A p \in S : 2 * p < Word => 2 * p \in S
  BY PowersDoubling DEF Doubling
<1>4. Doubling(S)
  BY <1>2, <1>3 DEF Doubling
<1>5. Powers \subseteq S
  <2> HIDE DEF S
  <2> QED
    BY <1>1, <1>4, PowersLeast
<1>6. QED
  BY <1>5

\* There is no power between one and its double.
LEMMA PowersApart == \A p, q \in Powers : p < q => 2 * p <= q
<1> DEFINE S == {q \in Powers : \A p \in Powers : p < q => 2 * p <= q}
<1>1. S \in SUBSET (1 .. Word - 1)
  BY DEF Powers
<1>2. 1 \in S
  BY PowersDoubling, PowersTyped DEF Doubling
<1>3. ASSUME NEW q \in S, 2 * q < Word PROVE 2 * q \in S
  <2>1. q \in Powers /\ q \in Nat /\ q >= 1 /\ 2 * q \in Powers
    BY <1>3, PowersDoubling, PowersTyped DEF Doubling
  <2>2. ASSUME NEW p \in Powers, p < 2 * q PROVE 2 * p <= 2 * q
    <3>1. p \in Nat /\ p >= 1
      BY PowersTyped
    <3>2. CASE p = 1
      BY <2>1, <3>2
    <3>3. CASE p # 1
      <4>1. PICK r \in Powers : p = 2 * r
        BY <3>3, PowersHalf
      <4>2. r \in Nat /\ r >= 1
        BY PowersTyped
      <4>3. r < q
        BY <2>1, <2>2, <4>1, <4>2
      <4>4. 2 * r <= q
        BY <4>1, <4>3
      <4>5. QED
        BY <2>1, <4>1, <4>2, <4>4
    <3>4. QED
      BY <3>2, <3>3
  <2>3. QED
    BY <2>1, <2>2
<1>4. Doubling(S)
  BY <1>2, <1>3 DEF Doubling
<1>5. Powers \subseteq S
  <2> HIDE DEF S
  <2> QED
    BY <1>1, <1>4, PowersLeast
<1>6. QED
  BY <1>5

\* roundUp2Power gives a power that is large enough and less than twice too large.
LEMMA RoundedUp ==
    ASSUME NEW c \in Nat, c > 0, c <= Limit
    PROVE  LET p == roundUp2Power(c)
           IN /\ p \in Powers /\ p \in Nat
              /\ c <= p /\ p <= Limit
              /\ p = 1 \/ p < 2 * c
              /\ \A q \in Powers : c <= q => p <= q
<1> DEFINE T == {q \in Powers : q >= c}
           p == roundUp2Power(c)
<1>1. T \in SUBSET Nat
  BY PowersTyped
<1>2. Limit \in T
  BY WordAssumption, SizeFacts DEF Limit
<1>3. \E k \in T : \A i \in T : k <= i
  <2> HIDE DEF T
  <2> QED
    BY <1>1, <1>2, LeastElement
<1>4. p = Min(T)
  BY SizeFacts DEF roundUp2Power
<1>5. p \in T /\ \A i \in T : p <= i
  <2> HIDE DEF T, p
  <2> QED
    BY <1>3, <1>4 DEF Min
<1> HIDE DEF p
<1>6. p \in Powers /\ p \in Nat /\ c <= p /\ p <= Limit
  BY <1>2, <1>5, PowersTyped, SizeFacts
<1>7. p = 1 \/ p < 2 * c
  <2> SUFFICES ASSUME p # 1 PROVE p < 2 * c
    OBVIOUS
  <2>1. PICK q \in Powers : p = 2 * q
    BY <1>6, PowersHalf
  <2>2. q \in Nat /\ q >= 1
    BY PowersTyped
  <2>3. ~(q >= c)
    <3> SUFFICES ASSUME q >= c PROVE FALSE
      OBVIOUS
    <3>1. q \in T
      OBVIOUS
    <3>2. p <= q
      BY <1>5, <3>1
    <3>3. QED
      BY <2>1, <2>2, <3>2
  <2>4. QED
    BY <2>1, <2>2, <2>3
<1>8. \A q \in Powers : c <= q => p <= q
  <2> SUFFICES ASSUME NEW q \in Powers, c <= q PROVE p <= q
    OBVIOUS
  <2>1. q \in T
    BY PowersTyped
  <2>2. QED
    BY <1>5, <2>1
<1>9. QED
  BY <1>6, <1>7, <1>8 DEF p

-----------------------------------------------------------------------------
(* The memory. *)

Cells == Bytes \cup {Junk}

LEMMA ReadFacts ==
    ASSUME NEW m, NEW from \in Nat, NEW n \in Nat,
           \A i \in from .. from + n - 1 : i \in DOMAIN m /\ m[i] \in Bytes
    PROVE  /\ Read(m, from, n) \in Seq(Bytes) /\ Len(Read(m, from, n)) = n
           /\ \A i \in 1 .. n : Read(m, from, n)[i] = m[from + i - 1]
<1> DEFINE r == Read(m, from, n)
<1>1. \A i \in 1 .. n : from + i - 1 \in from .. from + n - 1
  OBVIOUS
<1>2. \A i \in 1 .. n : r[i] = m[from + i - 1] /\ r[i] \in Bytes
  BY <1>1 DEF Read
<1>3. r = [i \in 1 .. n |-> r[i]]
  BY DEF Read
<1> HIDE DEF r
<1>4. r \in Seq(Bytes) /\ Len(r) = n
  BY <1>2, <1>3
<1>5. QED
  BY <1>2, <1>4 DEF r

LEMMA AllocateFacts ==
    ASSUME NEW n \in Nat
    PROVE  /\ DOMAIN Allocate(n) = 0 .. n - 1
           /\ Allocate(n) \in [0 .. n - 1 -> Cells]
BY DEF Allocate, Cells

LEMMA KeepFacts ==
    ASSUME NEW m, NEW from \in Nat, NEW to \in Nat, m \in [DOMAIN m -> Cells]
    PROVE  /\ DOMAIN Keep(m, from, to) = DOMAIN m
           /\ Keep(m, from, to) \in [DOMAIN m -> Cells]
           /\ \A i \in from .. to - 1 : i \in DOMAIN m => Keep(m, from, to)[i] = m[i]
BY DEF Keep, Cells

LEMMA WriteFacts ==
    ASSUME NEW m, NEW c \in Nat, NEW to \in Nat, NEW d \in Seq(Bytes),
           m \in [0 .. c - 1 -> Cells], to + Len(d) <= c
    PROVE  /\ DOMAIN Write(m, to, d) = 0 .. c - 1
           /\ Write(m, to, d) \in [0 .. c - 1 -> Cells]
           /\ \A i \in 0 .. to - 1 : Write(m, to, d)[i] = m[i]
           /\ \A i \in to .. to + Len(d) - 1 : Write(m, to, d)[i] = d[i - to + 1]
<1> DEFINE W == Write(m, to, d)
<1>1. DOMAIN m = 0 .. c - 1 /\ Len(d) \in Nat /\ DOMAIN d = 1 .. Len(d)
  OBVIOUS
<1>2. \A i \in 1 .. Len(d) : d[i] \in Cells
  BY DEF Cells
<1>3. W = [i \in 0 .. c - 1 |-> IF i - to + 1 \in 1 .. Len(d) THEN d[i - to + 1] ELSE m[i]]
  BY <1>1 DEF Write
<1> HIDE DEF W
<1>4. \A i \in 0 .. c - 1 : W[i] \in Cells
  BY <1>2, <1>3
<1>5. DOMAIN W = 0 .. c - 1 /\ W \in [0 .. c - 1 -> Cells]
  BY <1>3, <1>4
<1>6. \A i \in 0 .. to - 1 : W[i] = m[i]
  <2> SUFFICES ASSUME NEW i \in 0 .. to - 1 PROVE W[i] = m[i]
    OBVIOUS
  <2>1. i \in 0 .. c - 1 /\ ~(i - to + 1 \in 1 .. Len(d))
    BY <1>1
  <2>2. QED
    BY <1>3, <2>1
<1>7. \A i \in to .. to + Len(d) - 1 : W[i] = d[i - to + 1]
  <2> SUFFICES ASSUME NEW i \in to .. to + Len(d) - 1 PROVE W[i] = d[i - to + 1]
    OBVIOUS
  <2>1. i \in 0 .. c - 1 /\ i - to + 1 \in 1 .. Len(d)
    BY <1>1
  <2>2. QED
    BY <1>3, <2>1
<1>8. QED
  BY <1>5, <1>6, <1>7 DEF W

\* Bytes copied to the front of fresh memory can all be read there.
LEMMA FrontFacts ==
    ASSUME NEW c \in Nat, NEW d \in Seq(Bytes), Len(d) <= c
    PROVE  LET W == Write(Allocate(c), 0, d)
           IN /\ DOMAIN W = 0 .. c - 1 /\ W \in [0 .. c - 1 -> Cells]
              /\ \A i \in 0 .. Len(d) - 1 : i \in DOMAIN W /\ W[i] \in Bytes /\ W[i] = d[i + 1]
<1> DEFINE W == Write(Allocate(c), 0, d)
<1>1. Len(d) \in Nat /\ 0 + Len(d) <= c /\ 0 \in Nat
  OBVIOUS
<1>2. Allocate(c) \in [0 .. c - 1 -> Cells]
  BY AllocateFacts
<1>3. /\ DOMAIN W = 0 .. c - 1 /\ W \in [0 .. c - 1 -> Cells]
      /\ \A i \in 0 .. 0 + Len(d) - 1 : W[i] = d[i - 0 + 1]
  BY <1>1, <1>2, WriteFacts
<1> HIDE DEF W
<1>4. \A i \in 0 .. Len(d) - 1 : i \in DOMAIN W /\ W[i] \in Bytes /\ W[i] = d[i + 1]
  <2> SUFFICES ASSUME NEW i \in 0 .. Len(d) - 1
               PROVE  i \in DOMAIN W /\ W[i] \in Bytes /\ W[i] = d[i + 1]
    OBVIOUS
  <2>1. i \in 0 .. 0 + Len(d) - 1 /\ i - 0 + 1 = i + 1 /\ i + 1 \in 1 .. Len(d) /\ i \in 0 .. c - 1
    BY <1>1
  <2>2. QED
    BY <1>3, <2>1
<1>5. QED
  BY <1>3, <1>4 DEF W

\* What the invariant says of the sizes and of the stream in one state.
LEMMA StateFacts ==
    ASSUME IInv
    PROVE  /\ readPos \in Nat /\ writePos \in Nat /\ capacity \in Nat /\ peak \in Nat
           /\ readPos < Word /\ writePos < Word /\ capacity < Word /\ peak < Word
           /\ readPos <= writePos /\ writePos <= capacity /\ capacity <= Limit
           /\ Held \in Nat /\ Held = writePos - readPos /\ readableSize = Held
           /\ Free \in Nat /\ Free = capacity - writePos /\ writableSize = Free
           /\ Len(arg) \in Nat
           /\ mem \in [DOMAIN mem -> Cells]
<1>1. /\ readPos \in Nat /\ writePos \in Nat /\ capacity \in Nat /\ peak \in Nat
      /\ readPos < Word /\ writePos < Word /\ capacity < Word /\ peak < Word
  <2>1. {readPos, writePos, capacity, peak} \subseteq Sizes
    BY DEF IInv, TypeOK
  <2>2. \A x \in Sizes : x \in Nat /\ x < Word
    BY SizeFacts DEF Sizes
  <2>3. QED
    BY <2>1, <2>2
<1>2. readPos <= writePos /\ writePos <= capacity /\ capacity <= Limit
  BY DEF IInv, Ordered
<1>3. Held \in Nat /\ Held = writePos - readPos /\ Free \in Nat /\ Free = capacity - writePos
  BY <1>1, <1>2 DEF Held, Free
<1>4. readableSize = Held /\ writableSize = Free
  BY <1>1, <1>2, <1>3, SubExact DEF readableSize, writableSize
<1>5. Len(arg) \in Nat
  BY DEF IInv, TypeOK
<1>6. mem \in [DOMAIN mem -> Cells]
  BY DEF IInv, TypeOK, Cells
<1>7. QED
  BY <1>1, <1>2, <1>3, <1>4, <1>5, <1>6

LEMMA StreamFacts ==
    ASSUME IInv
    PROVE  /\ stream \in Seq(Bytes) /\ Len(stream) = Held
           /\ \A i \in 1 .. Held : stream[i] = mem[readPos + i - 1]
<1>1. readPos \in Nat /\ Held \in Nat /\ writePos - 1 = readPos + Held - 1 /\ readableSize = Held
  BY StateFacts
<1>2. \A i \in readPos .. readPos + Held - 1 : i \in DOMAIN mem /\ mem[i] \in Bytes
  BY <1>1 DEF IInv, Live
<1>3. stream = Read(mem, readPos, Held)
  BY <1>1 DEF stream
<1>4. QED
  BY <1>1, <1>2, <1>3, ReadFacts

-----------------------------------------------------------------------------
(* The invariant is inductive: assureSpace. *)

LEMMA SizesIn == \A x \in Nat : x < Word <=> x \in Sizes
BY SizeFacts DEF Sizes

LEMMA InitInv == Init => IInv
<1> SUFFICES ASSUME Init PROVE IInv
  OBVIOUS
<1>1. /\ readPos = 0 /\ writePos = 0 /\ capacity = 0 /\ peak = 0 /\ pc = "idle"
      /\ arg = <<>> /\ ret = <<>> /\ call = [need |-> 0, oldcap |-> 0, then |-> "idle"]
      /\ mem = Allocate(0)
  BY DEF Init, NoCall
<1>2. 0 \in Sizes
  BY SizeFacts DEF Sizes
<1>3. DOMAIN mem = 0 .. 0 - 1 /\ mem \in [DOMAIN mem -> Bytes \cup {Junk}]
  BY <1>1, AllocateFacts DEF Cells
<1>4. TypeOK
  BY <1>1, <1>2, <1>3 DEF TypeOK
<1>5. Ordered /\ Allocated /\ Live /\ Offered /\ Growing /\ MemoryProportional
  BY <1>1, <1>3, SizeFacts
     DEF Ordered, Capacities, Allocated, Live, Offered, Growing, MemoryProportional
<1>6. QED
  BY <1>1, <1>4, <1>5 DEF IInv

\* Only the control and the arguments change: the buffer is as it was.
LEMMA BufferKept ==
    ASSUME IInv, UNCHANGED buf, pc \notin {"grow", "thrown"},
           peak' \in Nat, peak <= peak', peak' < Word
    PROVE  /\ Ordered' /\ Live' /\ MemoryProportional'
           /\ (pc' \notin {"grow", "thrown"} => Allocated')
           /\ (pc' = "grow" /\ call'.oldcap = capacity => Allocated')
           /\ {readPos', writePos', capacity', peak'} \subseteq Sizes
           /\ mem' \in [DOMAIN mem' -> Bytes \cup {Junk}]
           /\ Held' = Held /\ Free' = Free
<1>1. readPos' = readPos /\ writePos' = writePos /\ capacity' = capacity /\ mem' = mem
  BY DEF buf
<1>2. Ordered' /\ Live'
  BY <1>1 DEF IInv, Ordered, Live
<1>3. MemoryProportional'
  <2>1. MemoryProportional
    BY DEF IInv
  <2>2. capacity \in Nat /\ peak \in Nat
    BY StateFacts
  <2>3. capacity <= DefaultSize \/ capacity < 2 * peak'
    <3>1. capacity <= DefaultSize \/ capacity < 2 * peak
      BY <2>1 DEF MemoryProportional
    <3>2. \A x, y \in Nat : peak \in Nat /\ peak <= y /\ x < 2 * peak => x < 2 * y
      OBVIOUS
    <3>3. QED
      BY <2>2, <3>1, <3>2, Zenon
  <2>4. QED
    BY <1>1, <2>3 DEF MemoryProportional
<1>4. DOMAIN mem = 0 .. capacity - 1
  BY DEF IInv, Allocated
<1>5. /\ (pc' \notin {"grow", "thrown"} => Allocated')
      /\ (pc' = "grow" /\ call'.oldcap = capacity => Allocated')
  BY <1>1, <1>4 DEF Allocated
<1>6. {readPos', writePos', capacity', peak'} \subseteq Sizes
  BY <1>1, StateFacts, SizesIn
<1>7. mem' \in [DOMAIN mem' -> Bytes \cup {Junk}]
  BY <1>1 DEF IInv, TypeOK
<1>8. Held' = Held /\ Free' = Free
  BY <1>1 DEF Held, Free
<1>9. QED
  BY <1>2, <1>3, <1>5, <1>6, <1>7, <1>8

\* assureSpace up to its loop
LEMMA AssureSpaceInv ==
    ASSUME IInv, pc \notin {"grow", "thrown"}, UNCHANGED <<buf, arg>>, ret' \in Seq(Bytes),
           NEW n \in Nat, NEW next, n > 0, n <= MaxBufferSize, Held + n < MaxBufferSize,
           \/ next = "push" /\ Len(arg) = n
           \/ next = "readv" /\ arg = <<>> /\ Reserve = n,
           AssureSpace(n, next)
    PROVE  IInv'
<1>1. Held \in Nat /\ readableSize = Held /\ writableSize = Free /\ peak \in Nat /\ peak < Word
  BY StateFacts
<1>2. Add(readableSize, n) = Held + n
  BY <1>1, SizeFacts, AddExact
<1>3. peak' = IF peak >= Held + n THEN peak ELSE Held + n
  <2>1. Held + n \in Int /\ peak \in Int
    BY <1>1
  <2>2. peak' = Max({peak, Held + n})
    BY <1>2 DEF AssureSpace
  <2>3. QED
    BY <2>1, <2>2, MaxOfTwo
<1>4. peak' \in Nat /\ peak <= peak' /\ peak' < Word /\ Held + n <= peak'
  BY <1>1, <1>3, SizeFacts
<1>5. UNCHANGED buf /\ arg' = arg
  OBVIOUS
<1>6. /\ Ordered' /\ Live' /\ MemoryProportional'
      /\ (pc' \notin {"grow", "thrown"} => Allocated')
      /\ (pc' = "grow" /\ call'.oldcap = capacity => Allocated')
      /\ {readPos', writePos', capacity', peak'} \subseteq Sizes
      /\ mem' \in [DOMAIN mem' -> Bytes \cup {Junk}]
      /\ Held' = Held /\ Free' = Free
  BY <1>4, <1>5, BufferKept
<1>7. arg' \in Seq(Bytes) /\ call \in [need : Sizes, oldcap : Sizes, then : {"idle", "push", "readv"}]
  BY <1>5 DEF IInv, TypeOK
<1>8. n \in Sizes /\ capacity \in Sizes
  <2>1. n < Word
    BY SizeFacts
  <2>2. capacity \in Nat /\ capacity < Word
    BY StateFacts
  <2>3. QED
    BY <2>1, <2>2, SizesIn
<1>9. CASE writableSize >= n
  <2>1. pc' = next /\ call' = call /\ n <= Free
    BY <1>1, <1>9, StateFacts DEF AssureSpace
  <2>2. TypeOK'
    BY <1>6, <1>7, <2>1 DEF TypeOK
  <2>3. Offered' /\ Growing'
    BY <1>5, <1>6, <2>1, SizeFacts DEF Offered, Growing
  <2>4. QED
    BY <1>6, <2>1, <2>2, <2>3 DEF IInv
<1>10. CASE ~(writableSize >= n)
  <2>1. pc' = "grow" /\ call' = [need |-> n, oldcap |-> capacity, then |-> next] /\ Free < n
    BY <1>1, <1>10, StateFacts DEF AssureSpace
  <2>2. TypeOK'
    BY <1>6, <1>7, <1>8, <2>1 DEF TypeOK
  <2>3. Offered'
    BY <2>1 DEF Offered
  <2>4. writePos' = writePos /\ capacity' = capacity /\ writePos <= capacity /\ capacity - writePos < n
        /\ capacity \in Nat
    BY <1>5, <2>1, StateFacts DEF buf
  <2>5. call'.need = n /\ call'.oldcap = capacity /\ call'.then = next
    BY <2>1
  <2>6. Growing'
    BY <1>4, <1>5, <1>6, <2>4, <2>5 DEF Growing
  <2>7. QED
    BY <1>6, <2>1, <2>2, <2>3, <2>5, <2>6 DEF IInv
<1>11. QED
  BY <1>9, <1>10

\* An iteration doubles a capacity that is too small for what is needed, so it
\* stays at most twice of that and below the limit.
LEMMA GrownFacts ==
    ASSUME IInv, pc = "grow", ~RoomAfterMove
    PROVE  /\ capacity <= MaxBufferSize
           /\ Grown \in Nat /\ capacity < Grown /\ Grown <= Limit
           /\ Grown <= DefaultSize \/ Grown < 2 * peak
           /\ Grown \in Capacities
<1>1. /\ readPos \in Nat /\ writePos \in Nat /\ capacity \in Nat /\ peak \in Nat /\ capacity < Word
      /\ readPos <= writePos /\ writePos <= capacity /\ Free \in Nat /\ Free = capacity - writePos
      /\ writableSize = Free /\ Held \in Nat /\ Held = writePos - readPos
  BY StateFacts
<1>2. call.need \in Nat /\ Held + call.need < MaxBufferSize /\ Held + call.need <= peak
  <2>1. call.need \in Sizes
    BY DEF IInv, TypeOK
  <2>2. QED
    BY <2>1, SizeFacts DEF IInv, Growing, Sizes
<1>3. Add(writableSize, readPos) = capacity - Held
  <2>1. Free + readPos < Word /\ Free + readPos = capacity - Held
    BY <1>1, SizeFacts
  <2>2. QED
    BY <1>1, <2>1, AddExact
<1>4. capacity < Held + call.need
  BY <1>1, <1>2, <1>3 DEF RoomAfterMove
<1>5. capacity < MaxBufferSize /\ capacity < peak
  BY <1>1, <1>2, <1>4, SizeFacts
<1>6. CASE capacity < DefaultSize
  <2>1. Grown = DefaultSize
    BY <1>6 DEF Grown
  <2>2. QED
    BY <1>1, <1>5, <1>6, <2>1, SizeFacts DEF Capacities
<1>7. CASE ~(capacity < DefaultSize)
  <2> DEFINE p == roundUp2Power(capacity)
  <2>1. capacity > 0 /\ capacity <= Limit
    BY <1>1, <1>5, <1>7, SizeFacts
  <2>2. p \in Powers /\ p \in Nat /\ capacity <= p /\ p <= Limit /\ (p = 1 \/ p < 2 * capacity)
    BY <1>1, <2>1, RoundedUp
  <2>3. Grown = IF capacity < p THEN p ELSE (p * 2) % Word
    BY <1>7 DEF Grown
  <2> HIDE DEF p
  <2>4. CASE capacity < p
    <3>1. Grown = p
      BY <2>3, <2>4
    <3>2. p < 2 * peak
      BY <1>1, <1>5, <2>1, <2>2, <2>4
    <3>3. Grown \in Capacities
      BY <2>2, <3>1 DEF Capacities
    <3>4. QED
      BY <1>1, <1>5, <2>2, <2>4, <3>1, <3>2, <3>3, SizeFacts
  <2>5. CASE ~(capacity < p)
    <3>1. p = capacity
      BY <1>1, <2>2, <2>5
    <3>2. p * 2 \in Nat /\ p * 2 < Word /\ p * 2 = 2 * p
      BY <1>5, <2>2, <3>1, SizeFacts
    <3>3. Grown = 2 * p
      BY <2>3, <2>5, <3>2, ModSmall, SizeFacts
    <3>4. 2 * p <= Limit
      <4>1. Limit \in Powers /\ p < Limit
        BY <1>5, <3>1, <1>1, SizeFacts, WordAssumption DEF Limit
      <4>2. QED
        BY <2>2, <4>1, PowersApart
    <3>5. Grown \in Capacities
      <4>1. 2 * p \in Powers
        BY <2>2, <3>2, PowersDoubling DEF Doubling
      <4>2. QED
        BY <3>3, <4>1 DEF Capacities
    <3>6. QED
      BY <1>1, <1>5, <2>2, <3>1, <3>3, <3>4, <3>5, SizeFacts
  <2>6. QED
    BY <2>4, <2>5
<1>8. QED
  BY <1>6, <1>7

LEMMA GrowInv == ASSUME IInv, Grow PROVE IInv'
<1>1. /\ pc = "grow" /\ ~RoomAfterMove
      /\ readPos' = readPos /\ writePos' = writePos /\ mem' = mem /\ call' = call
      /\ peak' = peak /\ arg' = arg /\ ret' = ret
  BY DEF Grow
<1>2. /\ capacity <= MaxBufferSize
      /\ Grown \in Nat /\ capacity < Grown /\ Grown <= Limit
      /\ Grown <= DefaultSize \/ Grown < 2 * peak
      /\ Grown \in Capacities
  BY <1>1, GrownFacts
<1>3. capacity' = Grown /\ pc' = "grow"
  BY <1>1, <1>2 DEF Grow
<1>4. capacity' \in Nat /\ capacity <= capacity' /\ capacity' <= Limit /\ capacity' < Word
  <2>1. capacity \in Nat
    BY StateFacts
  <2>2. QED
    BY <1>2, <1>3, <2>1, SizeFacts
<1>5. /\ readPos \in Nat /\ writePos \in Nat /\ capacity \in Nat
      /\ readPos <= writePos /\ writePos <= capacity
  BY StateFacts
<1>6. {readPos', writePos', capacity', peak'} \subseteq Sizes
  <2>1. capacity' \in Sizes
    BY <1>4, SizesIn
  <2>2. QED
    BY <1>1, <2>1 DEF IInv, TypeOK
<1>7. TypeOK'
  BY <1>1, <1>3, <1>6 DEF IInv, TypeOK
<1>8. Ordered'
  BY <1>1, <1>2, <1>3, <1>4, <1>5, SizeFacts DEF Ordered
<1>9. Allocated' /\ Live' /\ Offered'
  BY <1>1, <1>3 DEF IInv, Allocated, Live, Offered
<1>10. Growing'
  <2>1. Held' = Held
    BY <1>1 DEF Held
  <2>2. call.oldcap \in Nat
    <3>1. call.oldcap \in Sizes
      BY DEF IInv, TypeOK
    <3>2. QED
      BY <3>1, SizeFacts DEF Sizes
  <2>3. Growing
    BY DEF IInv
  <2>4. call.oldcap <= capacity'
    BY <1>1, <1>4, <1>5, <2>2, <2>3 DEF Growing
  <2>5. QED
    BY <1>1, <1>3, <2>1, <2>3, <2>4 DEF Growing
<1>11. MemoryProportional'
  BY <1>1, <1>2, <1>3 DEF MemoryProportional
<1>12. QED
  BY <1>3, <1>7, <1>8, <1>9, <1>10, <1>11 DEF IInv

\* The bytes are in front of fresh memory, or of the old one.
LEMMA InFront ==
    ASSUME IInv, NEW c \in Nat, Held <= c, c <= Limit, c \in Capacities,
           mem' = Write(Allocate(c), 0, stream), readPos' = 0, writePos' = readableSize,
           capacity' = c, peak' = peak, pc' \notin {"grow", "thrown"}
    PROVE  /\ Ordered' /\ Allocated' /\ Live'
           /\ Held' = Held /\ Free' = c - Held
           /\ {readPos', writePos', capacity', peak'} \subseteq Sizes
           /\ mem' \in [DOMAIN mem' -> Bytes \cup {Junk}]
<1>1. Held \in Nat /\ readableSize = Held /\ peak \in Nat /\ peak < Word
  BY StateFacts
<1>2. stream \in Seq(Bytes) /\ Len(stream) = Held
  BY StreamFacts
<1>3. /\ DOMAIN mem' = 0 .. c - 1 /\ mem' \in [0 .. c - 1 -> Cells]
      /\ \A i \in 0 .. Held - 1 : i \in DOMAIN mem' /\ mem'[i] \in Bytes
  <2>1. Len(stream) <= c
    BY <1>2
  <2>2. QED
    BY <1>2, <2>1, FrontFacts
<1>4. Ordered'
  BY <1>1, SizeFacts DEF Ordered
<1>5. Allocated' /\ Live'
  BY <1>1, <1>3 DEF Allocated, Live
<1>6. Held' = Held /\ Free' = c - Held
  <2>1. Held' = Held - 0 /\ Free' = c - Held
    BY <1>1 DEF Held, Free
  <2>2. QED
    BY <1>1, <2>1
<1>7. {readPos', writePos', capacity', peak'} \subseteq Sizes
  <2>1. 0 < Word /\ Held < Word /\ c < Word
    BY <1>1, SizeFacts
  <2>2. 0 \in Sizes /\ Held \in Sizes /\ c \in Sizes /\ peak \in Sizes
    BY <1>1, <2>1, SizesIn
  <2>3. QED
    BY <1>1, <2>2
<1>8. mem' \in [DOMAIN mem' -> Bytes \cup {Junk}]
  BY <1>3 DEF Cells
<1>9. QED
  BY <1>4, <1>5, <1>6, <1>7, <1>8

LEMMA SettleInv == ASSUME IInv, Settle PROVE IInv'
<1>1. /\ pc = "grow" /\ RoomAfterMove
      /\ mem' = Write(Allocate(capacity), 0, stream) /\ readPos' = 0 /\ writePos' = readableSize
      /\ call' = NoCall /\ capacity' = capacity /\ peak' = peak /\ arg' = arg /\ ret' = ret
      /\ pc' = IF /\ call.oldcap < capacity \/ readPos > 0
                  /\ call.need <= Sub(capacity, readableSize)
                 THEN call.then ELSE "failed"
  BY DEF Settle
<1>2. /\ readPos \in Nat /\ writePos \in Nat /\ capacity \in Nat /\ capacity < Word
      /\ readPos <= writePos /\ writePos <= capacity /\ Free \in Nat /\ Free = capacity - writePos
      /\ writableSize = Free /\ readableSize = Held /\ Held \in Nat /\ Held = writePos - readPos
      /\ capacity <= Limit
  BY StateFacts
<1>3. call.need \in Nat /\ call.oldcap \in Nat
  <2>1. call.need \in Sizes /\ call.oldcap \in Sizes
    BY DEF IInv, TypeOK
  <2>2. QED
    BY <2>1, SizeFacts DEF Sizes
<1>4. /\ \/ call.then = "push" /\ Len(arg) = call.need
         \/ call.then = "readv" /\ arg = <<>> /\ Reserve = call.need
      /\ call.need > 0 /\ Held + call.need < MaxBufferSize
      /\ call.oldcap <= capacity /\ call.oldcap - writePos < call.need
  BY <1>1 DEF IInv, Growing
<1>5. capacity - Held >= call.need
  <2>1. Free + readPos < Word /\ Free + readPos = capacity - Held
    BY <1>2, SizeFacts
  <2>2. Add(writableSize, readPos) = capacity - Held
    BY <1>2, <2>1, AddExact
  <2>3. QED
    BY <1>1, <2>2 DEF RoomAfterMove
<1>6. pc' = call.then
  <2>1. call.oldcap < capacity \/ readPos > 0
    BY <1>2, <1>3, <1>4, <1>5
  <2>2. Sub(capacity, readableSize) = capacity - Held
    BY <1>2, SubExact
  <2>3. QED
    BY <1>1, <1>2, <1>3, <1>5, <2>1, <2>2
<1>7. /\ Ordered' /\ Allocated' /\ Live'
      /\ Held' = Held /\ Free' = capacity - Held
      /\ {readPos', writePos', capacity', peak'} \subseteq Sizes
      /\ mem' \in [DOMAIN mem' -> Bytes \cup {Junk}]
  <2>1. Held <= capacity /\ pc' \notin {"grow", "thrown"} /\ capacity \in Capacities
    BY <1>2, <1>4, <1>6 DEF IInv, Ordered
  <2>2. QED
    BY <1>1, <1>2, <2>1, InFront
<1>8. TypeOK'
  <2>1. call' \in [need : Sizes, oldcap : Sizes, then : {"idle", "push", "readv"}]
    BY <1>1, SizesIn, SizeFacts DEF NoCall
  <2>2. pc' \in {"push", "readv"} /\ arg' \in Seq(Bytes) /\ ret' \in Seq(Bytes)
    BY <1>1, <1>4, <1>6 DEF IInv, TypeOK
  <2>3. QED
    BY <1>7, <2>1, <2>2 DEF TypeOK
<1>9. Offered'
  <2>1. Free' >= call.need /\ Held' + call.need < MaxBufferSize /\ arg' = arg
    BY <1>1, <1>4, <1>5, <1>7
  <2>2. call.need <= MaxBufferSize
    BY <1>2, <1>3, <1>4, SizeFacts
  <2>3. CASE call.then = "push" /\ Len(arg) = call.need
    <3>1. Len(arg') = call.need
      BY <2>1, <2>3
    <3>2. call.need \in 1 .. MaxBufferSize /\ call.need <= Free'
      <4>1. Free' \in Int /\ call.need > 0
        BY <1>2, <1>4, <1>7
      <4>2. QED
        BY <1>3, <2>1, <2>2, <4>1, SizeFacts
    <3>3. QED
      BY <1>6, <2>1, <2>3, <3>1, <3>2 DEF Offered
  <2>4. CASE call.then = "readv" /\ arg = <<>> /\ Reserve = call.need
    <3>1. Reserve <= Free'
      BY <1>2, <1>3, <1>7, <2>1, <2>4
    <3>2. QED
      BY <1>6, <2>1, <2>4, <3>1 DEF Offered
  <2>5. QED
    BY <1>4, <2>3, <2>4
<1>10. Growing' /\ MemoryProportional'
  BY <1>1, <1>4, <1>6 DEF IInv, Growing, MemoryProportional
<1>11. QED
  BY <1>4, <1>6, <1>7, <1>8, <1>9, <1>10 DEF IInv

LEMMA AllocationFailsInv == ASSUME IInv, AllocationFails PROVE IInv'
<1>1. /\ pc = "grow" /\ pc' = "thrown"
      /\ readPos' = readPos /\ writePos' = writePos /\ capacity' = capacity /\ mem' = mem
      /\ call' = call /\ peak' = peak /\ arg' = arg /\ ret' = ret
  BY DEF AllocationFails, buf
<1>2. TypeOK' /\ Ordered' /\ Allocated' /\ Live' /\ MemoryProportional'
  BY <1>1 DEF IInv, TypeOK, Ordered, Allocated, Live, MemoryProportional
<1>3. Offered' /\ Growing'
  BY <1>1 DEF Offered, Growing
<1>4. QED
  BY <1>1, <1>2, <1>3 DEF IInv

-----------------------------------------------------------------------------
(* The invariant is inductive: the public calls. *)

LEMMA ControlInv ==
    ASSUME IInv, UNCHANGED <<buf, call, peak>>, pc \notin {"grow", "thrown"},
           pc' \in {"idle", "offered", "fill"}, ret' \in Seq(Bytes), arg' \in Seq(Bytes),
           pc' = "idle" => arg' = <<>>,
           pc' # "idle" => Len(arg') \in 1 .. MaxBufferSize,
           pc' = "fill" => Reserve <= Free
    PROVE  IInv'
<1>1. UNCHANGED buf /\ call' = call /\ peak' = peak
  OBVIOUS
<1>2. peak' \in Nat /\ peak <= peak' /\ peak' < Word
  BY <1>1, StateFacts
<1>3. /\ Ordered' /\ Live' /\ MemoryProportional' /\ Allocated'
      /\ {readPos', writePos', capacity', peak'} \subseteq Sizes
      /\ mem' \in [DOMAIN mem' -> Bytes \cup {Junk}]
      /\ Free' = Free
  BY <1>1, <1>2, BufferKept
<1>4. call' \in [need : Sizes, oldcap : Sizes, then : {"idle", "push", "readv"}]
  BY <1>1 DEF IInv, TypeOK
<1>5. TypeOK'
  BY <1>3, <1>4 DEF TypeOK
<1>6. Offered' /\ Growing'
  BY <1>3 DEF Offered, Growing
<1>7. QED
  BY <1>3, <1>5, <1>6 DEF IInv

LEMMA PushDataInv == ASSUME IInv, NEW d \in Chunks, PushData(d) PROVE IInv'
<1>1. /\ UNCHANGED <<buf, call, peak>> /\ pc = "idle" /\ pc' = "offered" /\ arg' = d /\ ret' = ret
  BY DEF PushData
<1>2. ret' \in Seq(Bytes) /\ arg' \in Seq(Bytes) /\ Len(arg') \in 1 .. MaxBufferSize
  BY <1>1, ChunksAssumption DEF IInv, TypeOK
<1>3. QED
  BY <1>1, <1>2, ControlInv

LEMMA ReadvInv == ASSUME IInv, NEW d \in Chunks, Readv(d) PROVE IInv'
<1>1. /\ UNCHANGED <<buf, call, peak>> /\ pc = "readv" /\ pc' = "fill" /\ arg' = d /\ ret' = ret
  BY DEF Readv
<1>2. ret' \in Seq(Bytes) /\ arg' \in Seq(Bytes) /\ Len(arg') \in 1 .. MaxBufferSize
  BY <1>1, ChunksAssumption DEF IInv, TypeOK
<1>3. Reserve <= Free
  BY <1>1 DEF IInv, Offered
<1>4. QED
  BY <1>1, <1>2, <1>3, ControlInv

LEMMA ReadvNoneInv == ASSUME IInv, ReadvNone PROVE IInv'
<1>1. /\ UNCHANGED <<buf, call, peak>> /\ pc = "readv" /\ pc' = "idle" /\ arg' = arg /\ ret' = ret
  BY DEF ReadvNone
<1>2. ret' \in Seq(Bytes) /\ arg' \in Seq(Bytes) /\ arg' = <<>>
  BY <1>1 DEF IInv, TypeOK, Offered
<1>3. QED
  BY <1>1, <1>2, ControlInv

LEMMA PeekDataInv == ASSUME IInv, PeekData PROVE IInv'
<1>1. UNCHANGED <<buf, call, peak>> /\ pc = "idle" /\ pc' = "idle" /\ arg' = arg /\ ret' = stream
  BY DEF PeekData, space
<1>2. ret' \in Seq(Bytes)
  BY <1>1, StreamFacts
<1>3. arg' \in Seq(Bytes) /\ arg' = <<>>
  BY <1>1 DEF IInv, TypeOK, Offered
<1>4. QED
  BY <1>1, <1>2, <1>3, ControlInv

\* the sum that pushData compares with MaxBufferSize does not wrap around
LEMMA SumExact ==
    ASSUME IInv, pc = "offered"
    PROVE  /\ Add(readableSize, Len(arg)) = Held + Len(arg)
           /\ Len(arg) \in Nat /\ Len(arg) > 0 /\ Len(arg) <= MaxBufferSize
<1>1. Len(arg) \in 1 .. MaxBufferSize
  BY DEF IInv, Offered
<1>2. Len(arg) \in Nat /\ Len(arg) > 0 /\ Len(arg) <= MaxBufferSize
  BY <1>1, SizeFacts
<1>3. Held \in Nat /\ readableSize = Held /\ Held <= Limit
  <2>1. /\ Held \in Nat /\ readableSize = Held /\ Held = writePos - readPos
        /\ readPos \in Nat /\ writePos \in Nat /\ capacity \in Nat
        /\ writePos <= capacity /\ capacity <= Limit
    BY StateFacts
  <2>2. QED
    BY <2>1, SizeFacts
<1>4. Held + Len(arg) < Word
  BY <1>2, <1>3, SizeFacts
<1>5. QED
  BY <1>2, <1>3, <1>4, AddExact

LEMMA PushDecideInv == ASSUME IInv, PushDecide PROVE IInv'
<1>1. pc = "offered" /\ UNCHANGED buf
  BY DEF PushDecide
<1>2. /\ Add(readableSize, Len(arg)) = Held + Len(arg)
      /\ Len(arg) \in Nat /\ Len(arg) > 0 /\ Len(arg) <= MaxBufferSize
  BY <1>1, SumExact
<1>3. CASE Add(readableSize, Len(arg)) >= MaxBufferSize
  <2>1. pc' = "idle" /\ arg' = <<>> /\ ret' = <<>> /\ UNCHANGED <<buf, call, peak>>
    BY <1>1, <1>3 DEF PushDecide
  <2>2. ret' \in Seq(Bytes) /\ arg' \in Seq(Bytes)
    BY <2>1
  <2>3. QED
    BY <1>1, <2>1, <2>2, ControlInv
<1>4. CASE ~(Add(readableSize, Len(arg)) >= MaxBufferSize)
  <2>1. AssureSpace(Len(arg), "push") /\ UNCHANGED <<buf, arg>> /\ ret' = ret
    BY <1>1, <1>4 DEF PushDecide
  <2>2. Held + Len(arg) < MaxBufferSize
    <3>1. Held \in Nat
      BY StateFacts
    <3>2. QED
      BY <1>2, <1>4, <3>1, SizeFacts
  <2>3. ret' \in Seq(Bytes)
    BY <2>1 DEF IInv, TypeOK
  <2>4. QED
    BY <1>1, <1>2, <2>1, <2>2, <2>3, AssureSpaceInv
<1>5. QED
  BY <1>3, <1>4

LEMMA DoResponseInv == ASSUME IInv, DoResponse PROVE IInv'
<1>1. pc = "idle" /\ AssureSpace(Reserve, "readv") /\ UNCHANGED <<buf, arg>> /\ ret' = ret
  BY DEF DoResponse
<1>2. readableSize + Reserve < MaxBufferSize
  BY DEF DoResponse
<1>3. Held + Reserve < MaxBufferSize
  BY <1>2, StateFacts
<1>4. arg = <<>> /\ ret' \in Seq(Bytes)
  BY <1>1 DEF IInv, TypeOK, Offered
<1>5. QED
  BY <1>1, <1>3, <1>4, SizeFacts, AssureSpaceInv

\* memcpy behind the bytes, and produce
LEMMA Produced ==
    ASSUME IInv, pc \notin {"grow", "thrown"}, pc' \notin {"grow", "thrown"}, NEW d \in Seq(Bytes), Len(d) <= Free,
           mem' = Write(mem, writePos, d), writePos' = Add(writePos, Len(d)),
           UNCHANGED <<readPos, capacity, peak>>
    PROVE  /\ Ordered' /\ Allocated' /\ Live' /\ MemoryProportional'
           /\ {readPos', writePos', capacity', peak'} \subseteq Sizes
           /\ mem' \in [DOMAIN mem' -> Bytes \cup {Junk}]
           /\ writePos' = writePos + Len(d)
           /\ \A i \in readPos .. writePos - 1 : mem'[i] = mem[i]
           /\ \A i \in writePos .. writePos + Len(d) - 1 : mem'[i] = d[i - writePos + 1]
<1> DEFINE n == Len(d)
<1>1. /\ readPos \in Nat /\ writePos \in Nat /\ capacity \in Nat /\ capacity < Word
      /\ readPos <= writePos /\ writePos <= capacity /\ Free = capacity - writePos /\ capacity <= Limit
      /\ readPos < Word
  BY StateFacts
<1>2. n \in Nat /\ writePos + n <= capacity /\ writePos + n < Word
  BY <1>1, SizeFacts
<1>3. writePos' = writePos + n /\ readPos' = readPos /\ capacity' = capacity /\ peak' = peak
  BY <1>1, <1>2, AddExact
<1>4. DOMAIN mem = 0 .. capacity - 1 /\ mem \in [0 .. capacity - 1 -> Cells]
  <2>1. DOMAIN mem = 0 .. capacity - 1
    BY DEF IInv, Allocated
  <2>2. QED
    BY <2>1, StateFacts
<1>5. /\ DOMAIN mem' = 0 .. capacity - 1
      /\ mem' \in [0 .. capacity - 1 -> Cells]
      /\ \A i \in 0 .. writePos - 1 : mem'[i] = mem[i]
      /\ \A i \in writePos .. writePos + n - 1 : mem'[i] = d[i - writePos + 1]
  <2> DEFINE W == Write(mem, writePos, d)
  <2>1. /\ writePos \in Nat /\ capacity \in Nat /\ writePos + Len(d) <= capacity
        /\ mem \in [0 .. capacity - 1 -> Cells]
    BY <1>1, <1>2, <1>4
  <2>2. /\ DOMAIN W = 0 .. capacity - 1
        /\ W \in [0 .. capacity - 1 -> Cells]
        /\ \A i \in 0 .. writePos - 1 : W[i] = mem[i]
        /\ \A i \in writePos .. writePos + Len(d) - 1 : W[i] = d[i - writePos + 1]
    <3> HIDE DEF n
    <3> QED
      BY <2>1, WriteFacts
  <2>3. mem' = W
    OBVIOUS
  <2> HIDE DEF W
  <2>4. QED
    BY <2>2, <2>3
<1>6. \A i \in writePos .. writePos + n - 1 : i - writePos + 1 \in 1 .. n
  BY <1>1, <1>2
<1>7. \A i \in readPos .. writePos - 1 : i \in 0 .. writePos - 1
  BY <1>1
<1>8. Ordered'
  BY <1>1, <1>2, <1>3, SizeFacts DEF IInv, Ordered
<1>9. Allocated'
  BY <1>3, <1>5 DEF Allocated
<1>10. Live'
  <2>1. ASSUME NEW i \in readPos .. writePos + n - 1 PROVE i \in DOMAIN mem' /\ mem'[i] \in Bytes
    <3>1. i \in 0 .. capacity - 1
      BY <1>1, <1>2
    <3>2. CASE i \in readPos .. writePos - 1
      <4>1. i \in 0 .. writePos - 1 /\ mem[i] \in Bytes
        BY <1>7, <3>2 DEF IInv, Live
      <4>2. QED
        BY <1>5, <3>1, <4>1
    <3>3. CASE i \in writePos .. writePos + n - 1
      <4>1. d[i - writePos + 1] \in Bytes
        BY <1>6, <3>3
      <4>2. QED
        BY <1>5, <3>1, <3>3, <4>1
    <3>4. QED
      BY <1>1, <1>2, <3>2, <3>3
  <2>2. ASSUME NEW i \in readPos' .. writePos' - 1 PROVE i \in readPos .. writePos + n - 1
    <3> HIDE DEF n
    <3> QED
      BY <1>1, <1>2, <1>3
  <2>3. QED
    BY <2>1, <2>2 DEF Live
<1>11. MemoryProportional'
  BY <1>3 DEF IInv, MemoryProportional
<1>12. {readPos', writePos', capacity', peak'} \subseteq Sizes
  <2>1. writePos' \in Sizes
    BY <1>1, <1>2, <1>3, SizesIn
  <2>2. QED
    BY <1>3, <2>1 DEF IInv, TypeOK
<1>13. mem' \in [DOMAIN mem' -> Bytes \cup {Junk}]
  BY <1>5 DEF Cells
<1>14. QED
  BY <1>3, <1>5, <1>7, <1>8, <1>9, <1>10, <1>11, <1>12, <1>13

LEMMA PushCopyInv == ASSUME IInv, PushCopy PROVE IInv'
<1>1. /\ pc = "push" /\ pc' = "idle" /\ mem' = Write(mem, writePos, arg)
      /\ writePos' = Add(writePos, Len(arg)) /\ ret' = arg /\ arg' = <<>> /\ call' = call
      /\ UNCHANGED <<readPos, capacity, peak>>
  BY DEF PushCopy
<1>2. arg \in Seq(Bytes) /\ Len(arg) <= Free
  BY <1>1 DEF IInv, TypeOK, Offered
<1>3. /\ Ordered' /\ Allocated' /\ Live' /\ MemoryProportional'
      /\ {readPos', writePos', capacity', peak'} \subseteq Sizes
      /\ mem' \in [DOMAIN mem' -> Bytes \cup {Junk}]
  BY <1>1, <1>2, Produced
<1>4. call' \in [need : Sizes, oldcap : Sizes, then : {"idle", "push", "readv"}]
  BY <1>1 DEF IInv, TypeOK
<1>5. TypeOK'
  BY <1>1, <1>2, <1>3, <1>4 DEF TypeOK
<1>6. Offered' /\ Growing'
  BY <1>1 DEF Offered, Growing
<1>7. QED
  BY <1>1, <1>3, <1>5, <1>6 DEF IInv

LEMMA SplitFacts ==
    ASSUME NEW d \in Seq(Bytes), NEW n \in 0 .. Len(d)
    PROVE  /\ SubSeq(d, 1, n) \in Seq(Bytes) /\ Len(SubSeq(d, 1, n)) = n
           /\ \A i \in 1 .. n : SubSeq(d, 1, n)[i] = d[i]
           /\ SubSeq(d, n + 1, Len(d)) \in Seq(Bytes) /\ Len(SubSeq(d, n + 1, Len(d))) = Len(d) - n
           /\ \A i \in 1 .. Len(d) - n : SubSeq(d, n + 1, Len(d))[i] = d[n + i]
<1>1. n \in Int /\ n + 1 \in Int /\ Len(d) \in Int /\ Len(d) \in Nat
  OBVIOUS
<1>2. \A i \in 1 .. n : d[i] \in Bytes
  BY <1>1
<1>3. \A i \in n + 1 .. Len(d) : d[i] \in Bytes
  BY <1>1
<1>4. /\ SubSeq(d, 1, n) \in Seq(Bytes)
      /\ Len(SubSeq(d, 1, n)) = IF 1 <= n THEN n - 1 + 1 ELSE 0
      /\ \A i \in 1 .. n - 1 + 1 : SubSeq(d, 1, n)[i] = d[1 + i - 1]
  BY <1>1, <1>2, SubSeqProperties
<1>5. /\ SubSeq(d, n + 1, Len(d)) \in Seq(Bytes)
      /\ Len(SubSeq(d, n + 1, Len(d))) = IF n + 1 <= Len(d) THEN Len(d) - (n + 1) + 1 ELSE 0
      /\ \A i \in 1 .. Len(d) - (n + 1) + 1 : SubSeq(d, n + 1, Len(d))[i] = d[n + 1 + i - 1]
  BY <1>1, <1>3, SubSeqProperties
<1>6. Len(SubSeq(d, 1, n)) = n /\ Len(SubSeq(d, n + 1, Len(d))) = Len(d) - n
  BY <1>1, <1>4, <1>5
<1>7. ASSUME NEW i \in 1 .. n PROVE SubSeq(d, 1, n)[i] = d[i]
  <2>1. i \in 1 .. n - 1 + 1 /\ 1 + i - 1 = i
    BY <1>1
  <2>2. QED
    BY <1>4, <2>1
<1>8. ASSUME NEW i \in 1 .. Len(d) - n PROVE SubSeq(d, n + 1, Len(d))[i] = d[n + i]
  <2>1. i \in 1 .. Len(d) - (n + 1) + 1 /\ n + 1 + i - 1 = n + i
    BY <1>1
  <2>2. QED
    BY <1>5, <2>1
<1>9. QED
  BY <1>4, <1>5, <1>6, <1>7, <1>8

\* how much of what readv got fits into the buffer
Fits == Min({Len(arg), writableSize})

LEMMA FitsFacts ==
    ASSUME IInv, pc = "fill"
    PROVE  /\ Fits \in Nat /\ Fits >= 1 /\ Fits <= Len(arg) /\ Fits <= Free /\ Fits \in 0 .. Len(arg)
           /\ arg \in Seq(Bytes) /\ Len(arg) \in Nat /\ Len(arg) <= MaxBufferSize
<1>1. arg \in Seq(Bytes) /\ Len(arg) \in 1 .. MaxBufferSize /\ Reserve <= Free
  BY DEF IInv, TypeOK, Offered
<1>2. Len(arg) \in Nat /\ Len(arg) >= 1 /\ Len(arg) <= MaxBufferSize
  BY <1>1, SizeFacts
<1>3. Free \in Nat /\ writableSize = Free
  BY StateFacts
<1>4. Free >= 1
  BY <1>1, <1>3, SizeFacts
<1>5. Fits = IF Len(arg) <= Free THEN Len(arg) ELSE Free
  BY <1>2, <1>3, MinOfTwo DEF Fits
<1>6. QED
  BY <1>1, <1>2, <1>3, <1>4, <1>5

LEMMA ReadvFillInv == ASSUME IInv, ReadvFill PROVE IInv'
<1>1. /\ pc = "fill" /\ mem' = Write(mem, writePos, SubSeq(arg, 1, Fits))
      /\ writePos' = Add(writePos, Fits) /\ ret' = SubSeq(arg, 1, Fits)
      /\ arg' = SubSeq(arg, Fits + 1, Len(arg))
      /\ pc' = IF Fits = Len(arg) THEN "idle" ELSE "offered"
      /\ call' = call /\ UNCHANGED <<readPos, capacity, peak>>
  BY DEF ReadvFill, Fits
<1>2. /\ Fits \in Nat /\ Fits >= 1 /\ Fits <= Len(arg) /\ Fits <= Free /\ Fits \in 0 .. Len(arg)
      /\ arg \in Seq(Bytes) /\ Len(arg) \in Nat /\ Len(arg) <= MaxBufferSize
  BY <1>1, FitsFacts
<1>3. /\ ret' \in Seq(Bytes) /\ Len(ret') = Fits
      /\ arg' \in Seq(Bytes) /\ Len(arg') = Len(arg) - Fits
  BY <1>1, <1>2, SplitFacts
<1>4. mem' = Write(mem, writePos, ret') /\ writePos' = Add(writePos, Len(ret')) /\ Len(ret') <= Free
  BY <1>1, <1>2, <1>3
<1>5. pc \notin {"grow", "thrown"} /\ pc' \notin {"grow", "thrown"} /\ pc' \in {"idle", "offered"}
  BY <1>1
<1>6. /\ Ordered' /\ Allocated' /\ Live' /\ MemoryProportional'
      /\ {readPos', writePos', capacity', peak'} \subseteq Sizes
      /\ mem' \in [DOMAIN mem' -> Bytes \cup {Junk}]
  BY <1>1, <1>3, <1>4, <1>5, Produced
<1>7. call' \in [need : Sizes, oldcap : Sizes, then : {"idle", "push", "readv"}]
  BY <1>1 DEF IInv, TypeOK
<1>8. TypeOK'
  BY <1>3, <1>5, <1>6, <1>7 DEF TypeOK
<1>9. Offered'
  <2>1. pc' = "idle" => arg' = <<>>
    <3> SUFFICES ASSUME pc' = "idle" PROVE arg' = <<>>
      OBVIOUS
    <3>1. Fits = Len(arg)
      BY <1>1
    <3>2. Len(arg') = 0
      BY <1>2, <1>3, <3>1
    <3>3. QED
      BY <1>3, <3>2
  <2>2. pc' = "offered" => Len(arg') \in 1 .. MaxBufferSize
    <3> SUFFICES ASSUME pc' = "offered" PROVE Len(arg') \in 1 .. MaxBufferSize
      OBVIOUS
    <3>1. Fits # Len(arg)
      BY <1>1
    <3>2. QED
      BY <1>2, <1>3, <3>1, SizeFacts
  <2>3. QED
    BY <1>5, <2>1, <2>2 DEF Offered
<1>10. Growing'
  BY <1>5 DEF Growing
<1>11. QED
  BY <1>5, <1>6, <1>8, <1>9, <1>10 DEF IInv

\* consume: the bytes that are left stay where they are, or there are none
LEMMA ConsumedFacts ==
    ASSUME IInv, pc = "idle", NEW n \in Nat, n <= Held, Consumed(n)
    PROVE  /\ readPos' \in Nat /\ writePos' \in Nat /\ readPos' <= writePos' /\ writePos' <= writePos
           /\ Held' = Held - n
           /\ \A i \in readPos' .. writePos' - 1 :
                 /\ i \in DOMAIN mem' /\ mem'[i] \in Bytes /\ mem'[i] = mem[i]
           /\ Held - n > 0 => readPos' = readPos + n /\ writePos' = writePos
           /\ DOMAIN mem' = 0 .. capacity - 1 /\ mem' \in [DOMAIN mem' -> Cells]
           /\ ret' \in Seq(Bytes) /\ Len(ret') = n
           /\ \A i \in 1 .. n : ret'[i] = mem[readPos + i - 1]
           /\ pc' = "idle"
<1>1. /\ readPos \in Nat /\ writePos \in Nat /\ capacity \in Nat /\ writePos < Word
      /\ readPos <= writePos /\ writePos <= capacity /\ Held = writePos - readPos
      /\ mem \in [DOMAIN mem -> Cells]
  BY StateFacts
<1>2. readPos + n \in Nat /\ readPos + n <= writePos /\ readPos + n < Word
  BY <1>1, SizeFacts
<1>3. Add(readPos, n) = readPos + n
  BY <1>1, <1>2, AddExact
<1>4. /\ ret' = Read(mem, readPos, n) /\ mem' = Keep(mem, readPos + n, writePos)
      /\ IF readPos + n = writePos THEN readPos' = 0 /\ writePos' = 0
                                   ELSE readPos' = readPos + n /\ writePos' = writePos
      /\ pc' = "idle"
  BY <1>2, <1>3 DEF Consumed
<1>5. DOMAIN mem = 0 .. capacity - 1
  BY DEF IInv, Allocated
<1>6. \A i \in readPos .. writePos - 1 : i \in DOMAIN mem /\ mem[i] \in Bytes
  BY DEF IInv, Live
<1>7. /\ DOMAIN mem' = DOMAIN mem /\ mem' \in [DOMAIN mem -> Cells]
      /\ \A i \in readPos + n .. writePos - 1 : i \in DOMAIN mem => mem'[i] = mem[i]
  BY <1>1, <1>2, <1>4, KeepFacts
<1>8. ret' \in Seq(Bytes) /\ Len(ret') = n /\ \A i \in 1 .. n : ret'[i] = mem[readPos + i - 1]
  <2>1. \A i \in readPos .. readPos + n - 1 : i \in DOMAIN mem /\ mem[i] \in Bytes
    BY <1>1, <1>2, <1>6
  <2>2. QED
    BY <1>1, <1>4, <2>1, ReadFacts
<1>9. CASE readPos + n = writePos
  <2>1. readPos' = 0 /\ writePos' = 0 /\ Held - n = 0
    BY <1>1, <1>4, <1>9
  <2>2. Held' = 0
    BY <2>1 DEF Held
  <2>3. readPos' .. writePos' - 1 = {}
    BY <2>1
  <2>4. QED
    BY <1>1, <1>4, <1>5, <1>7, <1>8, <2>1, <2>2, <2>3
<1>10. CASE readPos + n # writePos
  <2>1. readPos' = readPos + n /\ writePos' = writePos
    BY <1>4, <1>10
  <2>2. Held' = Held - n
    <3>1. Held' = writePos - (readPos + n)
      BY <2>1 DEF Held
    <3>2. QED
      BY <1>1, <3>1
  <2>3. ASSUME NEW i \in readPos' .. writePos' - 1
        PROVE  i \in DOMAIN mem' /\ mem'[i] \in Bytes /\ mem'[i] = mem[i]
    <3>1. i \in readPos + n .. writePos - 1 /\ i \in readPos .. writePos - 1
      BY <1>1, <2>1
    <3>2. QED
      BY <1>6, <1>7, <3>1
  <2>4. /\ readPos' \in Nat /\ writePos' \in Nat /\ readPos' <= writePos' /\ writePos' <= writePos
        /\ Held - n > 0 => readPos' = readPos + n /\ writePos' = writePos
    BY <1>1, <1>2, <2>1
  <2>5. DOMAIN mem' = 0 .. capacity - 1 /\ mem' \in [DOMAIN mem' -> Cells] /\ pc' = "idle"
    BY <1>4, <1>5, <1>7
  <2>6. QED
    BY <1>8, <2>2, <2>3, <2>4, <2>5
<1>11. QED
  BY <1>9, <1>10

LEMMA ConsumedInv ==
    ASSUME IInv, pc = "idle", NEW n \in Nat, n <= Held, Consumed(n)
    PROVE  IInv'
<1>1. /\ capacity' = capacity /\ pc' = "idle" /\ call' = call /\ peak' = peak /\ arg' = arg
  BY ConsumedFacts DEF Consumed
<1>2. /\ readPos' \in Nat /\ writePos' \in Nat /\ readPos' <= writePos' /\ writePos' <= writePos
      /\ \A i \in readPos' .. writePos' - 1 : i \in DOMAIN mem' /\ mem'[i] \in Bytes
      /\ DOMAIN mem' = 0 .. capacity - 1 /\ mem' \in [DOMAIN mem' -> Cells]
      /\ ret' \in Seq(Bytes)
  BY ConsumedFacts
<1>3. writePos \in Nat /\ writePos < Word /\ writePos <= capacity /\ capacity \in Nat /\ capacity <= Limit
  BY StateFacts
<1>4. readPos' < Word /\ writePos' < Word /\ writePos' <= capacity'
  <2>1. writePos' <= capacity
    BY <1>2, <1>3
  <2>2. capacity < Word
    BY <1>3, SizeFacts
  <2>3. Word \in Nat
    BY SizeFacts
  <2>4. QED
    BY <1>1, <1>2, <1>3, <2>1, <2>2, <2>3
<1>5. {readPos', writePos', capacity', peak'} \subseteq Sizes
  <2>1. readPos' \in Sizes /\ writePos' \in Sizes
    BY <1>2, <1>4, SizesIn
  <2>2. QED
    BY <1>1, <2>1 DEF IInv, TypeOK
<1>6. TypeOK'
  <2>1. /\ call' \in [need : Sizes, oldcap : Sizes, then : {"idle", "push", "readv"}]
        /\ arg' \in Seq(Bytes)
    BY <1>1 DEF IInv, TypeOK
  <2>2. mem' \in [DOMAIN mem' -> Bytes \cup {Junk}]
    BY <1>2 DEF Cells
  <2>3. QED
    BY <1>1, <1>2, <1>5, <2>1, <2>2 DEF TypeOK
<1>7. Ordered'
  BY <1>1, <1>2, <1>3, <1>4 DEF IInv, Ordered
<1>8. Allocated' /\ Live'
  BY <1>1, <1>2 DEF Allocated, Live
<1>9. Offered' /\ Growing' /\ MemoryProportional'
  BY <1>1 DEF IInv, Offered, Growing, MemoryProportional
<1>10. QED
  BY <1>1, <1>6, <1>7, <1>8, <1>9 DEF IInv

\* consume and popData never take more than there is
LEMMA ConsumeIs ==
    ASSUME IInv, Consume \/ PopData
    PROVE  pc = "idle" /\ \E n \in Nat : n <= Held /\ Consumed(n)
<1>1. Held \in Nat /\ readableSize = Held
  BY StateFacts
<1>2. CASE Consume
  BY <1>1, <1>2 DEF Consume
<1>3. CASE PopData
  <2>1. PICK n \in 1 .. MaxPop : Consumed(Min({n, readableSize}))
    BY <1>3 DEF PopData
  <2>2. n \in Nat
    BY SizeFacts
  <2>3. Min({n, readableSize}) = IF n <= Held THEN n ELSE Held
    BY <1>1, <2>2, MinOfTwo
  <2>4. Min({n, readableSize}) \in Nat /\ Min({n, readableSize}) <= Held
    BY <1>1, <2>2, <2>3
  <2>5. pc = "idle"
    BY <1>3 DEF PopData
  <2>6. QED
    BY <2>1, <2>4, <2>5
<1>4. QED
  BY <1>2, <1>3

\* the buffer is empty afterwards
LEMMA EmptiedInv ==
    ASSUME IInv, pc = "idle", UNCHANGED <<space, arg>>, ret' \in Seq(Bytes),
           readPos' = 0, writePos' = 0,
           NEW c \in Nat, c <= capacity, c \in Capacities, capacity' = c, mem' = Allocate(c),
           c <= DefaultSize \/ c < 2 * peak
    PROVE  IInv'
<1>1. pc' = "idle" /\ call' = call /\ peak' = peak /\ arg' = arg
  BY DEF space
<1>2. DOMAIN mem' = 0 .. c - 1 /\ mem' \in [DOMAIN mem' -> Bytes \cup {Junk}]
  BY AllocateFacts DEF Cells
<1>3. c <= Limit /\ c < Word
  <2>1. capacity \in Nat /\ capacity <= Limit
    BY StateFacts
  <2>2. QED
    BY <2>1, SizeFacts
<1>4. {readPos', writePos', capacity', peak'} \subseteq Sizes
  <2>1. 0 \in Sizes /\ c \in Sizes
    BY <1>3, SizesIn, SizeFacts
  <2>2. QED
    BY <1>1, <2>1 DEF IInv, TypeOK
<1>5. TypeOK'
  <2>1. /\ call' \in [need : Sizes, oldcap : Sizes, then : {"idle", "push", "readv"}]
        /\ arg' \in Seq(Bytes) /\ ret' \in Seq(Bytes)
    BY <1>1 DEF IInv, TypeOK
  <2>2. QED
    BY <1>1, <1>2, <1>4, <2>1 DEF TypeOK
<1>6. Ordered'
  BY <1>3, SizeFacts DEF Ordered
<1>7. Allocated' /\ Live'
  BY <1>1, <1>2 DEF Allocated, Live
<1>8. Offered' /\ Growing'
  BY <1>1 DEF IInv, Offered, Growing
<1>9. MemoryProportional'
  BY <1>1 DEF MemoryProportional
<1>10. QED
  BY <1>1, <1>5, <1>6, <1>7, <1>8, <1>9 DEF IInv

LEMMA ClearInv == ASSUME IInv, Clear PROVE IInv'
<1>1. /\ pc = "idle" /\ UNCHANGED <<space, arg>> /\ ret' = <<>> /\ readPos' = 0 /\ writePos' = 0
      /\ capacity' = capacity /\ mem' = Allocate(capacity)
  BY DEF Clear
<1>2. capacity \in Nat /\ capacity <= capacity /\ capacity \in Capacities /\ ret' \in Seq(Bytes)
  BY <1>1, StateFacts DEF IInv, Ordered
<1>3. capacity <= DefaultSize \/ capacity < 2 * peak
  BY DEF IInv, MemoryProportional
<1>4. QED
  BY <1>1, <1>2, <1>3, EmptiedInv

LEMMA ShrinkEmptyInv == ASSUME IInv, ShrinkEmpty PROVE IInv'
<1>1. /\ pc = "idle" /\ UNCHANGED <<space, arg>> /\ ret' = ret /\ readPos' = 0 /\ writePos' = 0
      /\ capacity' = 0 /\ mem' = Allocate(0)
  BY DEF ShrinkEmpty
<1>2. 0 \in Nat /\ 0 <= capacity /\ 0 \in Capacities /\ ret' \in Seq(Bytes)
  BY <1>1, StateFacts DEF Capacities, IInv, TypeOK
<1>3. 0 <= DefaultSize \/ 0 < 2 * peak
  BY SizeFacts
<1>4. QED
  BY <1>1, <1>2, <1>3, EmptiedInv

\* a shrink never takes more memory
LEMMA ShrunkFacts ==
    ASSUME IInv, ShrinkFull
    PROVE  LET c == roundUp2Power(Held)
           IN /\ c \in Nat /\ Held <= c /\ c <= Limit
              /\ c <= DefaultSize \/ c < 2 * peak
              /\ c \in Capacities
<1> DEFINE c == roundUp2Power(Held)
<1>1. /\ Held \in Nat /\ readableSize = Held /\ capacity \in Nat /\ peak \in Nat /\ capacity <= Limit
      /\ Held = writePos - readPos /\ readPos \in Nat /\ writePos \in Nat /\ writePos <= capacity
  BY StateFacts
<1>2. Held > 0 /\ capacity > DefaultSize
  BY <1>1 DEF ShrinkFull
<1>3. Held <= capacity /\ Held <= Limit /\ capacity \in Powers
  <2>1. capacity \in Capacities /\ capacity # 0 /\ capacity # DefaultSize
    BY <1>1, <1>2, SizeFacts DEF IInv, Ordered
  <2>2. QED
    BY <1>1, <1>2, <2>1, SizeFacts DEF Capacities
<1>4. c \in Nat /\ c \in Powers /\ Held <= c /\ c <= Limit /\ c <= capacity
  BY <1>1, <1>2, <1>3, RoundedUp
<1> HIDE DEF c
<1>5. capacity < 2 * peak
  <2>1. capacity <= DefaultSize \/ capacity < 2 * peak
    BY DEF IInv, MemoryProportional
  <2>2. QED
    BY <1>1, <1>2, <2>1, SizeFacts
<1>6. c <= DefaultSize \/ c < 2 * peak
  BY <1>1, <1>4, <1>5, SizeFacts
<1>7. QED
  BY <1>4, <1>6 DEF c, Capacities

LEMMA ShrinkFullInv == ASSUME IInv, ShrinkFull PROVE IInv'
<1> DEFINE c == roundUp2Power(Held)
<1>1. readableSize = Held
  BY StateFacts
<1>2. /\ pc = "idle" /\ UNCHANGED <<space, arg>> /\ ret' = ret /\ capacity' = c
      /\ readPos' = 0 /\ writePos' = readableSize /\ mem' = Write(Allocate(capacity'), 0, stream)
  BY <1>1 DEF ShrinkFull
<1>3. pc' = "idle" /\ call' = call /\ peak' = peak /\ arg' = arg
  BY <1>2 DEF space
<1>4. /\ c \in Nat /\ Held <= c /\ c <= Limit /\ (c <= DefaultSize \/ c < 2 * peak)
      /\ c \in Capacities
  BY ShrunkFacts
<1> HIDE DEF c
<1>5. mem' = Write(Allocate(c), 0, stream) /\ pc' \notin {"grow", "thrown"}
  BY <1>2, <1>3
<1>6. /\ Ordered' /\ Allocated' /\ Live'
      /\ {readPos', writePos', capacity', peak'} \subseteq Sizes
      /\ mem' \in [DOMAIN mem' -> Bytes \cup {Junk}]
  BY <1>2, <1>3, <1>4, <1>5, InFront
<1>7. TypeOK'
  <2>1. /\ call' \in [need : Sizes, oldcap : Sizes, then : {"idle", "push", "readv"}]
        /\ arg' \in Seq(Bytes) /\ ret' \in Seq(Bytes)
    BY <1>2, <1>3 DEF IInv, TypeOK
  <2>2. QED
    BY <1>3, <1>6, <2>1 DEF TypeOK
<1>8. Offered' /\ Growing'
  BY <1>2, <1>3 DEF IInv, Offered, Growing
<1>9. MemoryProportional'
  BY <1>2, <1>3, <1>4 DEF MemoryProportional
<1>10. QED
  BY <1>3, <1>6, <1>7, <1>8, <1>9 DEF IInv

LEMMA StutterInv == ASSUME IInv, UNCHANGED vars PROVE IInv'
<1>1. /\ readPos' = readPos /\ writePos' = writePos /\ capacity' = capacity /\ mem' = mem
      /\ pc' = pc /\ call' = call /\ peak' = peak /\ arg' = arg /\ ret' = ret
  BY DEF vars, buf, space
<1>2. TypeOK' /\ Ordered' /\ Allocated' /\ Live' /\ MemoryProportional'
  BY <1>1 DEF IInv, TypeOK, Ordered, Allocated, Live, MemoryProportional
<1>3. Offered' /\ Growing'
  BY <1>1 DEF IInv, Offered, Growing, Held, Free
<1>4. QED
  BY <1>1, <1>2, <1>3 DEF IInv

LEMMA NextInv == IInv /\ [Next]_vars => IInv'
<1> SUFFICES ASSUME IInv, [Next]_vars PROVE IInv'
  OBVIOUS
<1>1. ASSUME NEW d \in Chunks, PushData(d) PROVE IInv'
  BY <1>1, PushDataInv
<1>2. ASSUME NEW d \in Chunks, Readv(d) PROVE IInv'
  BY <1>2, ReadvInv
<1>3. CASE PushDecide
  BY <1>3, PushDecideInv
<1>4. CASE PushCopy
  BY <1>4, PushCopyInv
<1>5. CASE Grow
  BY <1>5, GrowInv
<1>6. CASE Settle
  BY <1>6, SettleInv
<1>7. CASE DoResponse
  BY <1>7, DoResponseInv
<1>8. CASE ReadvFill
  BY <1>8, ReadvFillInv
<1>9. CASE ReadvNone
  BY <1>9, ReadvNoneInv
<1>10. CASE Consume \/ PopData
  <2>1. PICK n \in Nat : pc = "idle" /\ n <= Held /\ Consumed(n)
    BY <1>10, ConsumeIs
  <2>2. QED
    BY <2>1, ConsumedInv
<1>11. CASE PeekData
  BY <1>11, PeekDataInv
<1>12. CASE Clear
  BY <1>12, ClearInv
<1>13. CASE ShrinkEmpty
  BY <1>13, ShrinkEmptyInv
<1>14. CASE ShrinkFull
  BY <1>14, ShrinkFullInv
<1>15. CASE UNCHANGED vars
  BY <1>15, StutterInv
<1>16. CASE AllocationFails
  BY <1>16, AllocationFailsInv
<1>17. QED
  BY <1>1, <1>2, <1>3, <1>4, <1>5, <1>6, <1>7, <1>8, <1>9, <1>10, <1>11, <1>12, <1>13,
     <1>14, <1>15, <1>16 DEF Next

LEMMA Invariance == Spec => []IInv
BY InitInv, NextInv, PTL DEF Spec

-----------------------------------------------------------------------------
(* The properties of Buffer. *)

\* No size of Buffer.cc leaves the range of size_t, and every byte that a call
\* accepts or delivers is one that was pushed: none is uninitialised memory.
THEOREM TypeCorrect == Spec => []TypeOK
<1>1. IInv => TypeOK
  BY DEF IInv
<1>2. QED
  BY <1>1, Invariance, PTL

\* The assertions of assureSpace and consume never fail, and no memcpy of
\* pushData, popData, shrink or assureSpace leaves the memory of buffer_, for
\* every sequence of calls.
THEOREM AssertionsKept == Spec => []AssertionsHold
<1>1. IInv => AssertionsHold
  <2> SUFFICES ASSUME IInv PROVE AssertionsHold
    OBVIOUS
  <2>1. pc # "failed" /\ readPos <= writePos /\ writePos <= capacity
    BY DEF IInv, Ordered
  <2>2. /\ pc \notin {"grow", "thrown"} => DOMAIN mem = 0 .. capacity - 1
        /\ readPos .. writePos - 1 \subseteq DOMAIN mem
    BY DEF IInv, Allocated, Live
  <2>3. writableSize = Free
    BY StateFacts
  <2>4. /\ pc = "push" => Len(arg) <= writableSize
        /\ pc = "readv" => Reserve <= writableSize
    BY <2>3 DEF IInv, Offered
  <2>5. QED
    BY <2>1, <2>2, <2>4 DEF AssertionsHold
<1>2. QED
  BY <1>1, Invariance, PTL

\* Doubling in assureSpace and rounding up in shrink never take more than twice
\* the memory that was needed at some time.
THEOREM MemoryBounded == Spec => []MemoryProportional
<1>1. IInv => MemoryProportional
  BY DEF IInv
<1>2. QED
  BY <1>1, Invariance, PTL

\* What bounds the loop of assureSpace: an iteration makes capacity_ larger and
\* leaves it at most at MaxBufferSize + 1.
GrowsToLimit == Grow => capacity < capacity' /\ capacity' <= MaxBufferSize + 1

\* So the loop of assureSpace ends after finitely many iterations, whatever
\* the capacity it starts from: it never repeats a size.
THEOREM GrowthBounded == Spec => [][GrowsToLimit]_vars
<1>1. ASSUME IInv, Grow PROVE capacity < capacity' /\ capacity' <= MaxBufferSize + 1
  <2>1. pc = "grow" /\ ~RoomAfterMove
    BY <1>1 DEF Grow
  <2>2. capacity <= MaxBufferSize /\ capacity < Grown /\ Grown <= MaxBufferSize + 1
    BY <1>1, <2>1, GrownFacts DEF Limit
  <2>3. capacity' = Grown
    BY <1>1, <2>2 DEF Grow
  <2>4. QED
    BY <2>2, <2>3
<1>2. IInv /\ [Next]_vars => [GrowsToLimit]_vars
  BY <1>1 DEF GrowsToLimit
<1>3. QED
  BY <1>2, Invariance, PTL DEF Spec

-----------------------------------------------------------------------------
(* Buffer implements ByteStream. *)

StreamIs == /\ stream \in Seq(Bytes) /\ Len(stream) = Held /\ Held \in Nat
            /\ \A i \in 1 .. Held : stream[i] = mem[readPos + i - 1]

LEMMA StreamNow == IInv => StreamIs
BY StreamFacts, StateFacts DEF StreamIs

LEMMA StreamNext == IInv' => StreamIs'
BY StreamNow, PTL

LEMMA StreamKept ==
    ASSUME readPos' = readPos, writePos' = writePos, mem' = mem
    PROVE  stream' = stream
BY DEF stream, readableSize

\* moved to the front, in the old memory or to a new one
LEMMA StreamMoved ==
    ASSUME IInv, IInv', NEW c \in Nat, Held <= c, capacity' = c, readPos' = 0,
           writePos' = readableSize, mem' = Write(Allocate(c), 0, stream)
    PROVE  stream' = stream
<1>1. /\ stream \in Seq(Bytes) /\ Len(stream) = Held /\ Held \in Nat
  BY StreamNow DEF StreamIs
<1>2. readableSize = Held
  BY StateFacts
<1>3. Held' = Held
  <2>1. Held' = Held - 0
    BY <1>2 DEF Held
  <2>2. QED
    BY <1>1, <2>1
<1>4. \A i \in 0 .. Held - 1 : mem'[i] = stream[i + 1]
  <2>1. Len(stream) <= c
    BY <1>1
  <2>2. QED
    BY <1>1, <2>1, FrontFacts
<1>5. /\ stream' \in Seq(Bytes) /\ Len(stream') = Held
      /\ \A i \in 1 .. Held : stream'[i] = mem'[0 + i - 1]
  BY <1>3, StreamNext DEF StreamIs
<1>6. ASSUME NEW i \in 1 .. Held PROVE stream'[i] = stream[i]
  <2>1. 0 + i - 1 \in 0 .. Held - 1 /\ (0 + i - 1) + 1 = i
    BY <1>1
  <2>2. QED
    BY <1>4, <1>5, <2>1
<1>7. QED
  BY <1>1, <1>5, <1>6, SeqEqual

LEMMA StreamExtended ==
    ASSUME IInv, IInv', pc \notin {"grow", "thrown"}, pc' \notin {"grow", "thrown"}, NEW d \in Seq(Bytes), Len(d) <= Free,
           mem' = Write(mem, writePos, d), writePos' = Add(writePos, Len(d)),
           UNCHANGED <<readPos, capacity, peak>>
    PROVE  stream' = stream \o d
<1>1. /\ stream \in Seq(Bytes) /\ Len(stream) = Held /\ Held \in Nat
      /\ \A i \in 1 .. Held : stream[i] = mem[readPos + i - 1]
  BY StreamNow DEF StreamIs
<1>2. /\ readPos \in Nat /\ writePos \in Nat /\ Held = writePos - readPos /\ Len(d) \in Nat
  BY StateFacts
<1>3. /\ writePos' = writePos + Len(d) /\ readPos' = readPos
      /\ \A i \in readPos .. writePos - 1 : mem'[i] = mem[i]
      /\ \A i \in writePos .. writePos + Len(d) - 1 : mem'[i] = d[i - writePos + 1]
  BY Produced
<1>4. Held' = Held + Len(d)
  <2>1. Held' = writePos' - readPos'
    BY DEF Held
  <2>2. Held' = writePos + Len(d) - readPos
    BY <1>2, <1>3, <2>1
  <2>3. QED
    BY <1>2, <2>2
<1>5. /\ stream' \in Seq(Bytes) /\ Len(stream') = Held + Len(d)
      /\ \A i \in 1 .. Held + Len(d) : stream'[i] = mem'[readPos + i - 1]
  BY <1>3, <1>4, StreamNext DEF StreamIs
<1>6. /\ stream \o d \in Seq(Bytes) /\ Len(stream \o d) = Held + Len(d)
      /\ \A i \in 1 .. Held + Len(d) : (stream \o d)[i] = IF i <= Held THEN stream[i] ELSE d[i - Held]
  BY <1>1, ConcatProperties
<1>7. ASSUME NEW i \in 1 .. Held + Len(d) PROVE stream'[i] = (stream \o d)[i]
  <2>1. CASE i <= Held
    <3>1. i \in 1 .. Held /\ readPos + i - 1 \in readPos .. writePos - 1
      BY <1>1, <1>2, <2>1
    <3>2. QED
      BY <1>1, <1>3, <1>5, <1>6, <2>1, <3>1
  <2>2. CASE ~(i <= Held)
    <3>1. /\ readPos + i - 1 \in writePos .. writePos + Len(d) - 1
          /\ (readPos + i - 1) - writePos + 1 = i - Held
      BY <1>1, <1>2, <2>2
    <3>2. stream'[i] = d[(readPos + i - 1) - writePos + 1]
      BY <1>3, <1>5, <3>1
    <3>3. QED
      BY <1>6, <2>2, <3>1, <3>2
  <2>3. QED
    BY <2>1, <2>2
<1>8. QED
  BY <1>5, <1>6, <1>7, SeqEqual

LEMMA StreamDelivered ==
    ASSUME IInv, IInv', pc = "idle", NEW n \in Nat, n <= Held, Consumed(n)
    PROVE  ret' = SubSeq(stream, 1, n) /\ stream' = SubSeq(stream, n + 1, Len(stream))
<1>1. /\ stream \in Seq(Bytes) /\ Len(stream) = Held /\ Held \in Nat
      /\ \A i \in 1 .. Held : stream[i] = mem[readPos + i - 1]
  BY StreamNow DEF StreamIs
<1>2. readPos \in Nat /\ writePos \in Nat /\ Held = writePos - readPos
  BY StateFacts
<1>3. /\ readPos' \in Nat /\ writePos' \in Nat
      /\ Held' = Held - n
      /\ \A i \in readPos' .. writePos' - 1 : mem'[i] = mem[i]
      /\ Held - n > 0 => readPos' = readPos + n /\ writePos' = writePos
      /\ ret' \in Seq(Bytes) /\ Len(ret') = n
      /\ \A i \in 1 .. n : ret'[i] = mem[readPos + i - 1]
  BY ConsumedFacts
<1>4. n \in 0 .. Len(stream) /\ Held - n \in Nat
  BY <1>1
<1>5. /\ SubSeq(stream, 1, n) \in Seq(Bytes) /\ Len(SubSeq(stream, 1, n)) = n
      /\ \A i \in 1 .. n : SubSeq(stream, 1, n)[i] = stream[i]
      /\ SubSeq(stream, n + 1, Len(stream)) \in Seq(Bytes)
      /\ Len(SubSeq(stream, n + 1, Len(stream))) = Len(stream) - n
      /\ \A i \in 1 .. Len(stream) - n : SubSeq(stream, n + 1, Len(stream))[i] = stream[n + i]
  BY <1>1, <1>4, SplitFacts
<1>6. ret' = SubSeq(stream, 1, n)
  <2>1. ASSUME NEW i \in 1 .. n PROVE ret'[i] = SubSeq(stream, 1, n)[i]
    <3>1. i \in 1 .. Held
      BY <1>1
    <3>2. QED
      BY <1>1, <1>3, <1>5, <3>1
  <2>2. QED
    BY <1>3, <1>5, <2>1, SeqEqual
<1>7. /\ stream' \in Seq(Bytes) /\ Len(stream') = Held - n
      /\ \A i \in 1 .. Held - n : stream'[i] = mem'[readPos' + i - 1]
  BY <1>3, StreamNext DEF StreamIs
<1>8. ASSUME NEW i \in 1 .. Held - n PROVE stream'[i] = SubSeq(stream, n + 1, Len(stream))[i]
  <2>1. readPos' = readPos + n
    BY <1>1, <1>3, <1>4
  <2>2. writePos' = writePos
    BY <1>1, <1>3, <1>4
  <2>3. /\ readPos' + i - 1 \in readPos' .. writePos' - 1
        /\ readPos' + i - 1 = readPos + (n + i) - 1 /\ n + i \in 1 .. Held
    BY <1>1, <1>2, <1>4, <2>1, <2>2
  <2>4. stream'[i] = mem[readPos + (n + i) - 1]
    <3>1. stream'[i] = mem'[readPos' + i - 1]
      BY <1>7
    <3>2. mem'[readPos' + i - 1] = mem[readPos' + i - 1]
      BY <1>3, <2>3
    <3>3. QED
      BY <2>3, <3>1, <3>2
  <2>5. stream[n + i] = mem[readPos + (n + i) - 1]
    BY <1>1, <2>3
  <2>6. QED
    BY <1>1, <1>5, <2>4, <2>5
<1>9. stream' = SubSeq(stream, n + 1, Len(stream))
  BY <1>1, <1>5, <1>7, <1>8, SeqEqual
<1>10. QED
  BY <1>6, <1>9

LEMMA StreamEmptied ==
    ASSUME IInv', readPos' = 0, writePos' = 0
    PROVE  stream' = <<>>
<1>1. Held' = 0
  BY DEF Held
<1>2. stream' \in Seq(Bytes) /\ Len(stream') = 0
  BY <1>1, StreamNext DEF StreamIs
<1>3. QED
  BY <1>2

\* Every step of Buffer is one of ByteStream, or leaves it alone: growing,
\* moving and allocating are invisible.
LEMMA StreamStep == IInv /\ IInv' /\ [Next]_vars => [Stream!Next]_(Stream!vars)
<1> SUFFICES ASSUME IInv, IInv', [Next]_vars PROVE [Stream!Next]_(Stream!vars)
  OBVIOUS
<1> DEFINE Same == stream' = stream /\ arg' = arg /\ ret' = ret
<1>0. Same => [Stream!Next]_(Stream!vars)
  BY DEF Stream!vars
<1> HIDE DEF Same
<1>a. stream \in Seq(Bytes) /\ Len(stream) = Held /\ Held \in Nat
  BY StreamNow DEF StreamIs
<1>b. ASSUME UNCHANGED buf PROVE stream' = stream
  BY <1>b, StreamKept DEF buf
<1>1. ASSUME NEW d \in Chunks, PushData(d) \/ Readv(d) PROVE Stream!Next
  <2>1. arg' = d /\ ret' = ret /\ UNCHANGED buf /\ pc \in {"idle", "readv"}
    BY <1>1 DEF PushData, Readv
  <2>2. stream' = stream
    BY <1>b, <2>1
  <2>3. arg = <<>> /\ arg' \in Seq(Bytes)
    BY <2>1, ChunksAssumption DEF IInv, Offered
  <2>4. Stream!Offer
    BY <2>1, <2>2, <2>3 DEF Stream!Offer
  <2>5. QED
    BY <2>4 DEF Stream!Next
<1>2. CASE PushDecide
  <2>1. pc = "offered" /\ UNCHANGED buf
    BY <1>2 DEF PushDecide
  <2>2. Add(readableSize, Len(arg)) = Held + Len(arg)
    BY <2>1, SumExact
  <2>3. stream' = stream
    BY <1>b, <2>1
  <2>4. CASE Add(readableSize, Len(arg)) >= MaxBufferSize
    <3>1. arg' = <<>> /\ ret' = <<>>
      BY <1>2, <2>4 DEF PushDecide
    <3>2. Len(stream) + Len(arg) >= MaxBufferSize
      BY <1>a, <2>2, <2>4
    <3>3. Stream!Refuse
      BY <2>3, <3>1, <3>2 DEF Stream!Refuse
    <3>4. QED
      BY <3>3 DEF Stream!Next
  <2>5. CASE ~(Add(readableSize, Len(arg)) >= MaxBufferSize)
    <3>1. arg' = arg /\ ret' = ret
      BY <1>2, <2>5 DEF PushDecide
    <3>2. QED
      BY <1>0, <2>3, <3>1 DEF Same
  <2>6. QED
    BY <2>4, <2>5
<1>3. CASE PushCopy
  <2>1. /\ pc = "push" /\ pc' = "idle" /\ mem' = Write(mem, writePos, arg)
        /\ writePos' = Add(writePos, Len(arg)) /\ ret' = arg /\ arg' = <<>>
        /\ UNCHANGED <<readPos, capacity, peak>>
    BY <1>3 DEF PushCopy
  <2>2. arg \in Seq(Bytes) /\ Len(arg) <= Free /\ Held + Len(arg) < MaxBufferSize
    BY <2>1 DEF IInv, TypeOK, Offered
  <2>3. stream' = stream \o arg
    BY <2>1, <2>2, StreamExtended
  <2>4. Stream!Accept
    BY <1>a, <2>1, <2>2, <2>3 DEF Stream!Accept
  <2>5. QED
    BY <2>4 DEF Stream!Next
<1>4. CASE Grow
  <2>1. readPos' = readPos /\ writePos' = writePos /\ mem' = mem /\ arg' = arg /\ ret' = ret
    BY <1>4 DEF Grow
  <2>2. stream' = stream
    BY <2>1, StreamKept
  <2>3. QED
    BY <1>0, <2>1, <2>2 DEF Same
<1>5. CASE Settle
  <2>1. /\ mem' = Write(Allocate(capacity), 0, stream) /\ readPos' = 0 /\ writePos' = readableSize
        /\ capacity' = capacity /\ arg' = arg /\ ret' = ret
    BY <1>5 DEF Settle
  <2>2. capacity \in Nat /\ Held <= capacity
    <3>1. /\ Held = writePos - readPos /\ readPos \in Nat /\ writePos \in Nat /\ capacity \in Nat
          /\ writePos <= capacity
      BY StateFacts
    <3>2. QED
      BY <3>1
  <2>3. stream' = stream
    BY <2>1, <2>2, StreamMoved
  <2>4. QED
    BY <1>0, <2>1, <2>3 DEF Same
<1>6. CASE DoResponse \/ AllocationFails
  <2>1. arg' = arg /\ ret' = ret /\ UNCHANGED buf
    BY <1>6 DEF DoResponse, AllocationFails
  <2>2. QED
    BY <1>0, <1>b, <2>1 DEF Same
<1>7. CASE ReadvFill
  <2>1. /\ pc = "fill" /\ mem' = Write(mem, writePos, SubSeq(arg, 1, Fits))
        /\ writePos' = Add(writePos, Fits) /\ ret' = SubSeq(arg, 1, Fits)
        /\ arg' = SubSeq(arg, Fits + 1, Len(arg))
        /\ pc' = IF Fits = Len(arg) THEN "idle" ELSE "offered"
        /\ UNCHANGED <<readPos, capacity, peak>>
    BY <1>7 DEF ReadvFill, Fits
  <2>2. /\ Fits \in Nat /\ Fits >= 1 /\ Fits <= Len(arg) /\ Fits <= Free /\ Fits \in 0 .. Len(arg)
        /\ arg \in Seq(Bytes) /\ Len(arg) \in Nat
    BY <2>1, FitsFacts
  <2>3. ret' \in Seq(Bytes) /\ Len(ret') = Fits
    BY <2>1, <2>2, SplitFacts
  <2>4. /\ mem' = Write(mem, writePos, ret') /\ writePos' = Add(writePos, Len(ret'))
        /\ Len(ret') <= Free /\ pc \notin {"grow", "thrown"} /\ pc' \notin {"grow", "thrown"}
    BY <2>1, <2>2, <2>3
  <2>5. stream' = stream \o ret'
    BY <2>1, <2>3, <2>4, StreamExtended
  <2>6. Fits \in 1 .. Len(arg) /\ stream' = stream \o SubSeq(arg, 1, Fits)
    BY <2>1, <2>2, <2>5
  <2>7. Stream!AcceptPart
    BY <2>1, <2>6 DEF Stream!AcceptPart
  <2>8. QED
    BY <2>7 DEF Stream!Next
<1>8. CASE ReadvNone
  <2>1. arg' = arg /\ ret' = ret /\ UNCHANGED buf
    BY <1>8 DEF ReadvNone
  <2>2. QED
    BY <1>0, <1>b, <2>1 DEF Same
<1>9. CASE Consume \/ PopData
  <2>1. PICK n \in Nat : pc = "idle" /\ n <= Held /\ Consumed(n)
    BY <1>9, ConsumeIs
  <2>2. ret' = SubSeq(stream, 1, n) /\ stream' = SubSeq(stream, n + 1, Len(stream))
    BY <2>1, StreamDelivered
  <2>3. n \in 0 .. Len(stream)
    BY <1>a, <2>1
  <2>4. arg' = arg
    BY <2>1 DEF Consumed
  <2>5. Stream!Deliver
    BY <2>2, <2>3, <2>4 DEF Stream!Deliver
  <2>6. QED
    BY <2>5 DEF Stream!Next
<1>10. CASE PeekData
  <2>1. ret' = stream /\ arg' = arg /\ UNCHANGED buf
    BY <1>10 DEF PeekData
  <2>2. stream' = stream
    BY <1>b, <2>1
  <2>3. Stream!Look
    BY <2>1, <2>2 DEF Stream!Look
  <2>4. QED
    BY <2>3 DEF Stream!Next
<1>11. CASE Clear
  <2>1. readPos' = 0 /\ writePos' = 0 /\ ret' = <<>> /\ arg' = arg
    BY <1>11 DEF Clear
  <2>2. stream' = <<>>
    BY <2>1, StreamEmptied
  <2>3. Stream!Clear
    BY <2>1, <2>2 DEF Stream!Clear
  <2>4. QED
    BY <2>3 DEF Stream!Next
<1>12. CASE ShrinkFull
  <2> DEFINE c == roundUp2Power(Held)
  <2>1. /\ mem' = Write(Allocate(capacity'), 0, stream) /\ readPos' = 0 /\ writePos' = readableSize
        /\ capacity' = c /\ arg' = arg /\ ret' = ret
    BY <1>12, StateFacts DEF ShrinkFull
  <2>2. c \in Nat /\ Held <= c
    BY <1>12, ShrunkFacts
  <2> HIDE DEF c
  <2>3. mem' = Write(Allocate(c), 0, stream)
    BY <2>1
  <2>4. stream' = stream
    BY <2>1, <2>2, <2>3, StreamMoved
  <2>5. QED
    BY <1>0, <2>1, <2>4 DEF Same
<1>d. CASE ShrinkEmpty
  <2>1. readPos' = 0 /\ writePos' = 0 /\ ret' = ret /\ arg' = arg /\ readableSize = 0
    BY <1>d DEF ShrinkEmpty
  <2>2. stream' = <<>>
    BY <2>1, StreamEmptied
  <2>3. stream = <<>>
    BY <1>a, <2>1, StateFacts
  <2>4. QED
    BY <1>0, <2>1, <2>2, <2>3 DEF Same
<1>13. CASE UNCHANGED vars
  <2>1. arg' = arg /\ ret' = ret /\ UNCHANGED buf
    BY <1>13 DEF vars
  <2>2. QED
    BY <1>0, <1>b, <2>1 DEF Same
<1>14. QED
  BY <1>1, <1>2, <1>3, <1>4, <1>5, <1>6, <1>7, <1>8, <1>9, <1>10, <1>11, <1>12, <1>13,
     <1>d DEF Next

\* Buffer is a stream of bytes: readAddr() .. readableSize() are the bytes that
\* were pushed or read from the network and not yet consumed, in order, through
\* every growth, compaction and shrink; a push is taken whole or refused whole.
THEOREM StreamImplemented == Spec => ImplementsStream
<1>1. Init => Stream!Init
  <2> SUFFICES ASSUME Init PROVE Stream!Init
    OBVIOUS
  <2>1. IInv /\ readPos = 0 /\ writePos = 0 /\ arg = <<>> /\ ret = <<>>
    BY InitInv DEF Init
  <2>2. stream \in Seq(Bytes) /\ Len(stream) = 0
    BY <2>1, StreamNow DEF StreamIs, Held
  <2>3. QED
    BY <2>1, <2>2 DEF Stream!Init
<1>2. QED
  BY <1>1, StreamStep, Invariance, PTL DEF Spec, ImplementsStream, Stream!Spec
=============================================================================
