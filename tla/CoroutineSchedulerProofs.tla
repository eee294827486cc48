---------------------- MODULE CoroutineSchedulerProofs ----------------------
(***************************************************************************)
(* The lists, counts and wake-ups of CoroutineScheduler, for every size of *)
(* the pool and of its chunks, every limit of the loops and every range of *)
(* the clock.                                                              *)
(***************************************************************************)
EXTENDS CoroutineScheduler, FiniteSetTheorems, WellFoundedInduction, TLAPS

-----------------------------------------------------------------------------
(* The operations of multimap and list. *)

\* A set of naturals that is not empty has a least element.
LEMMA LeastElement ==
    ASSUME NEW T \in SUBSET Nat, T # {}
    PROVE  \E k \in T : \A i \in T : k <= i
<1> DEFINE R == OpToRel(<, Nat)
<1>1. IsWellFoundedOn(R, Nat)
  BY NatLessThanWellFounded
<1>2. \A x, y \in Nat : y < x => <<y, x>> \in R
  BY DEF OpToRel
<1> HIDE DEF R
<1>3. PICK x \in T : \A y \in T : ~(<<y, x>> \in R)
  BY <1>1, WFMin, Zenon
<1>4. ASSUME NEW i \in T PROVE x <= i
  <2>1. i \in Nat /\ x \in Nat
    OBVIOUS
  <2>2. ~(i < x)
    BY <1>2, <1>3, <2>1, Zenon
  <2>3. QED
    BY <2>1, <2>2
<1>5. QED
  BY <1>3, <1>4

\* Erasing the k-th element keeps the others, in order.
LEMMA ErasedFacts ==
    ASSUME NEW S, NEW s \in Seq(S), NEW k \in 1 .. Len(s)
    PROVE  /\ Erased(s, k) \in Seq(S)
           /\ Len(Erased(s, k)) = Len(s) - 1
           /\ \A i \in 1 .. Len(s) - 1 :
                 Erased(s, k)[i] = IF i < k THEN s[i] ELSE s[i + 1]
<1>1. Len(s) - 1 \in Nat
  OBVIOUS
<1>2. \A i \in 1 .. Len(s) - 1 : (IF i < k THEN s[i] ELSE s[i + 1]) \in S
  OBVIOUS
<1>3. QED
  BY <1>1, <1>2 DEF Erased

\* Inserting at k moves the elements from k on by one.
LEMMA InsertedFacts ==
    ASSUME NEW S, NEW s \in Seq(S), NEW x \in S, NEW k \in 1 .. Len(s) + 1
    PROVE  /\ Inserted(s, k, x) \in Seq(S)
           /\ Len(Inserted(s, k, x)) = Len(s) + 1
           /\ \A i \in 1 .. Len(s) + 1 :
                 Inserted(s, k, x)[i] = IF i < k THEN s[i] ELSE IF i = k THEN x ELSE s[i - 1]
<1>1. Len(s) + 1 \in Nat
  OBVIOUS
<1>2. \A i \in 1 .. Len(s) + 1 :
         (IF i < k THEN s[i] ELSE IF i = k THEN x ELSE s[i - 1]) \in S
  OBVIOUS
<1>3. QED
  BY <1>1, <1>2 DEF Inserted

\* An ordered sequence has a place for every deadline.
LEMMA UpperBoundExists ==
    ASSUME NEW S, NEW s \in Seq(S), NEW at \in Int,
           \A j \in 1 .. Len(s) : s[j].at \in Int,
           \A j, k \in 1 .. Len(s) : j < k => s[j].at <= s[k].at
    PROVE  /\ UpperBound(s, at) \in 1 .. Len(s) + 1
           /\ \A i \in 1 .. Len(s) : i < UpperBound(s, at) => s[i].at <= at
           /\ \A i \in 1 .. Len(s) : i >= UpperBound(s, at) => s[i].at > at
<1> DEFINE Later == {i \in 1 .. Len(s) : s[i].at > at}
           P(k) == /\ \A i \in 1 .. Len(s) : i < k => s[i].at <= at
                   /\ \A i \in 1 .. Len(s) : i >= k => s[i].at > at
<1>1. Len(s) \in Nat
  OBVIOUS
<1>2. \E k \in 1 .. Len(s) + 1 : P(k)
  <2>1. CASE Later = {}
    <3>1. P(Len(s) + 1)
      BY <1>1, <2>1
    <3>2. QED
      BY <1>1, <3>1
  <2>2. CASE Later # {}
    <3>1. PICK k \in Later : \A i \in Later : k <= i
      <4>1. Later \in SUBSET Nat
        BY <1>1
      <4>2. QED
        BY <2>2, <4>1, LeastElement
    <3>2. P(k)
      BY <1>1, <3>1, SMTT(30)
    <3>3. QED
      BY <1>1, <3>1, <3>2, SMTT(30)
  <2>3. QED
    BY <2>1, <2>2
<1>3. UpperBound(s, at) \in 1 .. Len(s) + 1 /\ P(UpperBound(s, at))
  BY <1>2 DEF UpperBound
<1>4. QED
  BY <1>3

-----------------------------------------------------------------------------
(* What a list holds. *)

LEMMA EmptyFacts == Elements(<<>>) = {} /\ NoDuplicates(<<>>)
BY DEF Elements, NoDuplicates

LEMMA HeldFacts ==
    ASSUME NEW S, NEW s \in Seq(S)
    PROVE  /\ Elements(s) \subseteq S
           /\ s # <<>> => Head(s) \in Elements(s)
           /\ s = <<>> <=> Elements(s) = {}
           /\ \A k \in 1 .. Len(s) : s[k] \in Elements(s)
<1>1. s # <<>> => Head(s) = s[1] /\ 1 \in 1 .. Len(s)
  OBVIOUS
<1>2. s = <<>> => Elements(s) = {}
  BY DEF Elements
<1>3. QED
  BY <1>1, <1>2 DEF Elements

\* push_back of an element that the list does not hold
LEMMA AppendFacts ==
    ASSUME NEW S, NEW s \in Seq(S), NEW x \in S
    PROVE  /\ Append(s, x) \in Seq(S) /\ Append(s, x) # <<>>
           /\ Elements(Append(s, x)) = Elements(s) \cup {x}
           /\ NoDuplicates(s) /\ x \notin Elements(s) => NoDuplicates(Append(s, x))
           /\ s # <<>> => Head(Append(s, x)) = Head(s)
<1> DEFINE r == Append(s, x)
<1>1. /\ r \in Seq(S) /\ Len(r) = Len(s) + 1 /\ Len(s) \in Nat
      /\ \A i \in 1 .. Len(s) : r[i] = s[i]
      /\ r[Len(s) + 1] = x
  OBVIOUS
<1> HIDE DEF r
<1>2. \A i \in 1 .. Len(r) : i \in 1 .. Len(s) \/ i = Len(s) + 1
  BY <1>1
<1>3. Len(s) + 1 \in 1 .. Len(r) /\ \A i \in 1 .. Len(s) : i \in 1 .. Len(r)
  BY <1>1
<1>4. Elements(r) = Elements(s) \cup {x}
  BY <1>1, <1>2, <1>3 DEF Elements
<1>5. ASSUME NoDuplicates(s), x \notin Elements(s), NEW i \in 1 .. Len(r), NEW j \in 1 .. Len(r), r[i] = r[j]
      PROVE  i = j
  BY <1>1, <1>2, <1>5 DEF NoDuplicates, Elements
<1>6. NoDuplicates(s) /\ x \notin Elements(s) => NoDuplicates(r)
  BY <1>5 DEF NoDuplicates
<1>7. r # <<>> /\ (s # <<>> => Head(r) = Head(s))
  BY <1>1
<1>8. QED
  BY <1>1, <1>4, <1>6, <1>7 DEF r

\* pop_front
LEMMA TailFacts ==
    ASSUME NEW S, NEW s \in Seq(S), s # <<>>, NoDuplicates(s)
    PROVE  /\ Tail(s) \in Seq(S) /\ NoDuplicates(Tail(s))
           /\ Elements(Tail(s)) = Elements(s) \ {Head(s)}
<1> DEFINE r == Tail(s)
<1>1. /\ r \in Seq(S) /\ Len(s) \in Nat /\ Len(s) > 0 /\ Len(r) = Len(s) - 1
      /\ \A i \in 1 .. Len(r) : r[i] = s[i + 1]
      /\ Head(s) = s[1]
  OBVIOUS
<1> HIDE DEF r
<1>2. \A i \in 1 .. Len(r) : i + 1 \in 1 .. Len(s)
  BY <1>1
<1>3. \A i \in 1 .. Len(s) : i = 1 \/ i - 1 \in 1 .. Len(r)
  BY <1>1
<1>4. NoDuplicates(r)
  <2> SUFFICES ASSUME NEW i \in 1 .. Len(r), NEW j \in 1 .. Len(r), r[i] = r[j] PROVE i = j
    BY DEF NoDuplicates
  <2>1. i + 1 = j + 1
    BY <1>1, <1>2 DEF NoDuplicates
  <2>2. QED
    BY <2>1
<1>5. ASSUME NEW x \in Elements(s), x # Head(s) PROVE x \in Elements(r)
  <2>1. PICK i \in 1 .. Len(s) : s[i] = x
    BY DEF Elements
  <2>2. i - 1 \in 1 .. Len(r) /\ (i - 1) + 1 = i
    BY <1>1, <1>3, <1>5, <2>1
  <2>3. r[i - 1] = x
    BY <1>1, <2>1, <2>2
  <2>4. QED
    BY <2>2, <2>3 DEF Elements
<1>6. ASSUME NEW x \in Elements(r) PROVE x \in Elements(s) /\ x # Head(s)
  <2>1. PICK i \in 1 .. Len(r) : r[i] = x
    BY DEF Elements
  <2>2. i + 1 \in 1 .. Len(s) /\ s[i + 1] = x /\ i + 1 # 1 /\ 1 \in 1 .. Len(s)
    BY <1>1, <1>2, <2>1
  <2>3. QED
    BY <1>1, <2>2 DEF Elements, NoDuplicates
<1>7. QED
  BY <1>1, <1>4, <1>5, <1>6 DEF r

\* pop_front of a list that may hold an element several times
LEMMA TailHeld ==
    ASSUME NEW S, NEW s \in Seq(S), s # <<>>
    PROVE  Tail(s) \in Seq(S) /\ Elements(s) = Elements(Tail(s)) \cup {Head(s)}
<1> DEFINE r == Tail(s)
<1>1. /\ r \in Seq(S) /\ Len(s) \in Nat /\ Len(s) > 0 /\ Len(r) = Len(s) - 1
      /\ \A i \in 1 .. Len(r) : r[i] = s[i + 1]
      /\ Head(s) = s[1]
  OBVIOUS
<1> HIDE DEF r
<1>2. \A i \in 1 .. Len(r) : i + 1 \in 1 .. Len(s)
  BY <1>1
<1>3. ASSUME NEW x \in Elements(s), x # Head(s) PROVE x \in Elements(r)
  <2>1. PICK i \in 1 .. Len(s) : s[i] = x
    BY DEF Elements
  <2>2. i - 1 \in 1 .. Len(r) /\ (i - 1) + 1 = i
    BY <1>1, <1>3, <2>1
  <2>3. r[i - 1] = x
    BY <1>1, <2>1, <2>2
  <2>4. QED
    BY <2>2, <2>3 DEF Elements
<1>4. ASSUME NEW x \in Elements(r) PROVE x \in Elements(s)
  BY <1>1, <1>2 DEF Elements
<1>5. Head(s) \in Elements(s)
  BY HeldFacts
<1>6. QED
  BY <1>1, <1>3, <1>4, <1>5 DEF r

\* erase(iterator)
LEMMA ErasedHeld ==
    ASSUME NEW S, NEW s \in Seq(S), NoDuplicates(s), NEW x \in Elements(s)
    PROVE  LET r == Erased(s, Position(s, x))
           IN r \in Seq(S) /\ NoDuplicates(r) /\ Elements(r) = Elements(s) \ {x}
<1> DEFINE k == Position(s, x)
           r == Erased(s, k)
<1>1. k \in 1 .. Len(s) /\ s[k] = x
  BY DEF Elements, Position
<1> HIDE DEF k
<1>2. /\ r \in Seq(S) /\ Len(r) = Len(s) - 1 /\ Len(s) \in Nat
      /\ \A i \in 1 .. Len(s) - 1 : r[i] = IF i < k THEN s[i] ELSE s[i + 1]
  BY <1>1, ErasedFacts
<1> HIDE DEF r
<1> DEFINE p(i) == IF i < k THEN i ELSE i + 1
<1>3. \A i \in 1 .. Len(r) : p(i) \in 1 .. Len(s) /\ p(i) # k /\ r[i] = s[p(i)]
  BY <1>1, <1>2
<1>4. \A i, j \in 1 .. Len(r) : p(i) = p(j) => i = j
  BY <1>1, <1>2
<1>5. \A j \in 1 .. Len(s) : j # k => \E i \in 1 .. Len(r) : p(i) = j
  <2> SUFFICES ASSUME NEW j \in 1 .. Len(s), j # k PROVE \E i \in 1 .. Len(r) : p(i) = j
    OBVIOUS
  <2>1. CASE j < k
    <3>1. j \in 1 .. Len(r) /\ p(j) = j
      BY <1>1, <1>2, <2>1
    <3>2. QED
      BY <3>1
  <2>2. CASE ~(j < k)
    <3>1. j - 1 \in 1 .. Len(r) /\ p(j - 1) = j
      BY <1>1, <1>2, <2>2
    <3>2. QED
      BY <3>1
  <2>3. QED
    BY <2>1, <2>2
<1> HIDE DEF p
<1>6. NoDuplicates(r)
  BY <1>3, <1>4 DEF NoDuplicates
<1>7. Elements(r) = Elements(s) \ {x}
  <2>1. ASSUME NEW y \in Elements(r) PROVE y \in Elements(s) /\ y # x
    BY <1>1, <1>3 DEF Elements, NoDuplicates
  <2>2. ASSUME NEW y \in Elements(s), y # x PROVE y \in Elements(r)
    <3>1. PICK j \in 1 .. Len(s) : s[j] = y
      BY DEF Elements
    <3>2. PICK n \in 1 .. Len(r) : p(n) = j
      BY <1>1, <1>5, <2>2, <3>1
    <3>3. QED
      BY <1>3, <3>1, <3>2 DEF Elements
  <2>3. QED
    BY <2>1, <2>2
<1>8. QED
  BY <1>2, <1>6, <1>7 DEF r, k

\* elements appended in one go
LEMMA ConcatFacts ==
    ASSUME NEW S, NEW s \in Seq(S), NEW r \in Seq(S), NoDuplicates(s), NoDuplicates(r),
           Elements(s) \cap Elements(r) = {}, Len(r) > 0
    PROVE  /\ s \o r \in Seq(S) /\ s \o r # <<>> /\ NoDuplicates(s \o r)
           /\ Elements(s \o r) = Elements(s) \cup Elements(r)
<1> DEFINE q == s \o r
<1>1. /\ q \in Seq(S) /\ Len(q) = Len(s) + Len(r) /\ Len(s) \in Nat /\ Len(r) \in Nat
      /\ \A i \in 1 .. Len(s) + Len(r) : q[i] = IF i <= Len(s) THEN s[i] ELSE r[i - Len(s)]
  OBVIOUS
<1> HIDE DEF q
<1>2. \A i \in 1 .. Len(q) : i <= Len(s) => i \in 1 .. Len(s) /\ q[i] = s[i]
  BY <1>1
<1>3. \A i \in 1 .. Len(q) : ~(i <= Len(s)) => i - Len(s) \in 1 .. Len(r) /\ q[i] = r[i - Len(s)]
  BY <1>1
<1>4. \A i \in 1 .. Len(s) : i \in 1 .. Len(q) /\ q[i] = s[i]
  BY <1>1
<1>5. \A i \in 1 .. Len(r) : i + Len(s) \in 1 .. Len(q) /\ q[i + Len(s)] = r[i]
  <2> SUFFICES ASSUME NEW i \in 1 .. Len(r) PROVE i + Len(s) \in 1 .. Len(q) /\ q[i + Len(s)] = r[i]
    OBVIOUS
  <2>1. i + Len(s) \in 1 .. Len(q) /\ ~(i + Len(s) <= Len(s)) /\ (i + Len(s)) - Len(s) = i
    BY <1>1
  <2>2. QED
    BY <1>3, <2>1
<1>6. Elements(q) = Elements(s) \cup Elements(r)
  <2>1. \A x \in Elements(q) : x \in Elements(s) \cup Elements(r)
    BY <1>2, <1>3 DEF Elements
  <2>2. \A x \in Elements(s) : x \in Elements(q)
    BY <1>4 DEF Elements
  <2>3. \A x \in Elements(r) : x \in Elements(q)
    BY <1>5 DEF Elements
  <2>4. QED
    BY <2>1, <2>2, <2>3
<1>7. NoDuplicates(q)
  <2> SUFFICES ASSUME NEW i \in 1 .. Len(q), NEW j \in 1 .. Len(q), q[i] = q[j] PROVE i = j
    BY DEF NoDuplicates
  <2>1. CASE i <= Len(s) /\ j <= Len(s)
    BY <1>2, <2>1 DEF NoDuplicates
  <2>2. CASE ~(i <= Len(s)) /\ ~(j <= Len(s))
    <3>1. i - Len(s) = j - Len(s)
      BY <1>3, <2>2 DEF NoDuplicates
    <3>2. QED
      BY <1>1, <3>1
  <2>0. /\ \A k \in 1 .. Len(q) : k <= Len(s) => q[k] \in Elements(s)
        /\ \A k \in 1 .. Len(q) : ~(k <= Len(s)) => q[k] \in Elements(r)
    BY <1>2, <1>3 DEF Elements
  <2>3. CASE i <= Len(s) /\ ~(j <= Len(s))
    BY <2>0, <2>3
  <2>4. CASE ~(i <= Len(s)) /\ j <= Len(s)
    BY <2>0, <2>4
  <2>5. QED
    BY <2>1, <2>2, <2>3, <2>4
<1>8. q # <<>>
  BY <1>1
<1>9. QED
  BY <1>1, <1>6, <1>7, <1>8 DEF q

-----------------------------------------------------------------------------
(* The inductive invariant. *)

\* Ids are given out in order.
Numbered == \A c \in Created : c <= uniqId

\* No more than one timer is set for c.
Sole(c) == \A i, j \in 1 .. Len(timers) : timers[i].id = c /\ timers[j].id = c => i = j

\* A coroutine that put() has not woken from a sleep has a timer only while it
\* sleeps, and only the one of that sleep.
SoleTimer ==
    \A c \in Ids \ cut :
        /\ Sole(c)
        /\ c \in Sleepers => status[c] = "timeout" /\ (dest = "timeout" => c \notin Elements(batch))

\* Who is due to be woken, and from which side.
Due ==
    ~terminal => \A c \in Ids :
        /\ status[c] = "inactive" =>
              c \in outstanding \cup Elements(activeQueue) \cup Elements(needActive) \cup Elements(batch)
        /\ status[c] = "timeout" => c \in Sleepers \/ (dest = "timeout" /\ c \in Elements(batch))

\* timeoutCoroId_ is ordered by time.
Sorted == \A i, j \in 1 .. Len(timers) : i < j => timers[i].at <= timers[j].at

\* Only the running coroutine may have asked without having yielded, its
\* answer is not overlooked, and batch is what the wakeup functions work on.
Phase == /\ asked \subseteq {current}
         /\ ~terminal => asked \subseteq outstanding \cup Elements(activeQueue)
         /\ pc # "move" => batch = <<>>

IInv == /\ TypeOK /\ ListsMatchStatus /\ PoolCounts /\ Numbered /\ RunningIsFirst
        /\ SoleTimer /\ Sorted /\ Phase /\ Due

-----------------------------------------------------------------------------
(* Lemmas *)

LEMMA IdFacts == Main \notin Ids /\ PoolSize \in Nat /\ Ids \subseteq Nat
BY PoolAssumption DEF Main, Ids

\* Coroutines are finitely many.
LEMMA FiniteIds == ASSUME NEW S \in SUBSET Ids PROVE IsFiniteSet(S) /\ Cardinality(S) \in Nat
<1>1. \A a, b \in Int : IsFiniteSet(a .. b)
  BY FS_Interval
<1>2. 1 \in Int /\ PoolSize \in Int
  BY PoolAssumption
<1>3. IsFiniteSet(Ids)
  BY <1>1, <1>2 DEF Ids
<1>4. IsFiniteSet(S)
  BY <1>3, FS_Subset
<1>5. QED
  BY <1>4, FS_CardinalityType

\* What coroutineDel and coroutineAddTail do to the lists.
LEMMA MovedFacts ==
    ASSUME TypeOK, ListsMatchStatus, NEW c \in Ids, status[c] \in Lists,
           NEW to \in Lists, to # status[c], Moved(c, to)
    PROVE  /\ list' \in [Lists -> Seq(Ids)] /\ status' \in [Ids -> Lists \cup {"none"}]
           /\ ListsMatchStatus'
           /\ status'[c] = to /\ \A u \in Ids : u # c => status'[u] = status[u]
           /\ \A l \in Lists : l # status[c] /\ list[l] # <<>> =>
                 list'[l] # <<>> /\ Head(list'[l]) = Head(list[l])
<1> DEFINE from == status[c]
<1>1. /\ list \in [Lists -> Seq(Ids)] /\ status \in [Ids -> Lists \cup {"none"}]
      /\ list' = [list EXCEPT ![from] = Unlinked(@, c), ![to] = Linked(@, c)]
      /\ status' = [status EXCEPT ![c] = to]
  BY DEF TypeOK, Moved
<1>2. c \in Elements(list[from]) /\ c \notin Elements(list[to])
  BY DEF ListsMatchStatus
<1>3. \A l \in Lists : NoDuplicates(list[l])
  BY DEF ListsMatchStatus
<1>4. /\ Unlinked(list[from], c) \in Seq(Ids) /\ NoDuplicates(Unlinked(list[from], c))
      /\ Elements(Unlinked(list[from], c)) = Elements(list[from]) \ {c}
  BY <1>1, <1>2, <1>3, ErasedHeld DEF Unlinked
<1>5. /\ Linked(list[to], c) \in Seq(Ids) /\ NoDuplicates(Linked(list[to], c))
      /\ Elements(Linked(list[to], c)) = Elements(list[to]) \cup {c}
      /\ Linked(list[to], c) # <<>>
      /\ list[to] # <<>> => Head(Linked(list[to], c)) = Head(list[to])
  BY <1>1, <1>2, <1>3, AppendFacts DEF Linked
<1>6. /\ list'[from] = Unlinked(list[from], c) /\ list'[to] = Linked(list[to], c)
      /\ \A l \in Lists : l # from /\ l # to => list'[l] = list[l]
  BY <1>1
<1>7. status'[c] = to /\ \A u \in Ids : u # c => status'[u] = status[u]
  BY <1>1
<1>8. list' \in [Lists -> Seq(Ids)] /\ status' \in [Ids -> Lists \cup {"none"}]
  BY <1>1, <1>4, <1>5
<1> HIDE DEF from
<1>9. ListsMatchStatus'
  <2>1. \A l \in Lists : NoDuplicates(list'[l])
    BY <1>3, <1>4, <1>5, <1>6
  <2>2. ASSUME NEW l \in Lists, NEW u \in Ids PROVE u \in Elements(list'[l]) <=> status'[u] = l
    <3>1. u \in Elements(list[l]) <=> status[u] = l
      BY DEF ListsMatchStatus
    <3>2. CASE l = from
      BY <1>4, <1>6, <1>7, <3>1, <3>2 DEF from
    <3>3. CASE l = to
      BY <1>5, <1>6, <1>7, <3>1, <3>3 DEF from
    <3>4. CASE l # from /\ l # to
      BY <1>6, <1>7, <3>1, <3>4 DEF from
    <3>5. QED
      BY <3>2, <3>3, <3>4
  <2>3. QED
    BY <2>1, <2>2 DEF ListsMatchStatus
<1>10. QED
  BY <1>5, <1>6, <1>7, <1>8, <1>9 DEF from

\* The counts do not change when no coroutine is created, used or freed.
LEMMA PoolFrame ==
    ASSUME TypeOK, PoolCounts, Numbered, UNCHANGED <<pool, aborted>>,
           \A c \in Ids : /\ status'[c] = "none" <=> status[c] = "none"
                          /\ status'[c] = "free" <=> status[c] = "free"
    PROVE  PoolCounts' /\ Numbered'
<1>1. Created' = Created
  BY DEF Created
<1>2. {c \in Created : status[c] # "free"}' = {c \in Created : status[c] # "free"}
  BY DEF Created
<1>3. QED
  BY <1>1, <1>2 DEF PoolCounts, Numbered, pool

\* Nobody is put to sleep or woken up.
LEMMA WakersFrame ==
    ASSUME SoleTimer, Sorted, Due, UNCHANGED <<wakers, batch, dest>>, terminal => terminal',
           TypeOK,
           \A c \in Ids : \/ status'[c] = status[c]
                          \/ /\ status'[c] \notin {"inactive", "timeout"}
                             /\ status[c] \notin {"inactive", "timeout"}
    PROVE  SoleTimer' /\ Sorted' /\ Due'
<1>1. /\ Elements(needActive) \subseteq Ids /\ Elements(activeQueue) \subseteq Ids
      /\ Elements(batch) \subseteq Ids /\ outstanding \subseteq Ids
  BY HeldFacts DEF TypeOK
<1>2. Sleepers \subseteq Ids
  <2>1. \A i \in 1 .. Len(timers) : timers[i] \in Timer
    BY DEF TypeOK
  <2>2. QED
    BY <2>1 DEF Sleepers, Timer
<1>3. /\ UNCHANGED <<needActive, activeQueue, timers, outstanding, asked, cut, batch, dest>> /\ Sleepers' = Sleepers
      /\ \A u \in Ids : Sole(u)' <=> Sole(u)
  BY DEF wakers, Sleepers, Sole
<1>4. SoleTimer'
  BY <1>1, <1>2, <1>3 DEF SoleTimer
<1>5. Sorted'
  BY <1>3 DEF Sorted
<1>6. Due'
  BY <1>3 DEF Due
<1>7. QED
  BY <1>4, <1>5, <1>6

-----------------------------------------------------------------------------
(* Every step preserves the invariant. *)

\* The steps of the main coroutine that only say where it is, and the clock.
LEMMA QuietInv ==
    ASSUME IInv, TypeOK', RunningIsFirst', Phase', terminal => terminal',
           UNCHANGED <<list, status, pool, wakers, batch, dest, aborted>>
    PROVE  IInv'
<1>1. ListsMatchStatus'
  BY DEF IInv, ListsMatchStatus
<1>2. PoolCounts' /\ Numbered'
  BY PoolFrame DEF IInv
<1>3. SoleTimer' /\ Sorted' /\ Due'
  BY WakersFrame DEF IInv
<1>4. QED
  BY <1>1, <1>2, <1>3 DEF IInv

LEMMA ControlInv ==
    ASSUME IInv, RoundBegin \/ MoveEnd \/ SwitchTo \/ ListEnd \/ RoundEnd \/ Stop \/ Terminate \/ Clock
    PROVE  IInv'
<1> USE LoopAssumption
<1>1. CASE RoundBegin \/ RoundEnd \/ Stop
  <2> USE DEF RoundBegin, RoundEnd, Stop, MainRuns
  <2>1. TypeOK'
    BY <1>1 DEF IInv, TypeOK, pool, wakers, PCs
  <2>2. RunningIsFirst' /\ Phase'
    BY <1>1 DEF IInv, RunningIsFirst, Phase, wakers
  <2>3. QED
    BY <1>1, <2>1, <2>2, QuietInv
<1>2. CASE MoveEnd
  <2> USE DEF MoveEnd, MainRuns
  <2>1. pc' \in PCs
    BY <1>2 DEF IInv, TypeOK, PCs
  <2>2. TypeOK'
    BY <1>2, <2>1 DEF IInv, TypeOK, pool, wakers
  <2>3. RunningIsFirst' /\ Phase'
    BY <1>2 DEF IInv, RunningIsFirst, Phase, wakers
  <2>4. QED
    BY <1>2, <2>2, <2>3, QuietInv
<1>3. CASE SwitchTo
  <2> USE DEF SwitchTo, MainRuns
  <2>1. pc \in Lists /\ list[pc] \in Seq(Ids) /\ list[pc] # <<>>
    BY <1>3 DEF IInv, TypeOK, Lists
  <2>2. Head(list[pc]) \in Ids /\ loop - 1 \in 0 .. LoopMax
    BY <1>3, <2>1 DEF IInv, TypeOK
  <2>3. TypeOK'
    BY <1>3, <2>2 DEF IInv, TypeOK, pool, wakers
  <2>4. RunningIsFirst' /\ Phase'
    BY <1>3, IdFacts DEF IInv, TypeOK, RunningIsFirst, Phase, wakers
  <2>5. QED
    BY <1>3, <2>3, <2>4, QuietInv
<1>4. CASE ListEnd
  <2> USE DEF ListEnd, MainRuns
  <2>1. pc' \in PCs /\ loop' \in 0 .. LoopMax
    BY <1>4 DEF PCs
  <2>2. TypeOK'
    BY <1>4, <2>1 DEF IInv, TypeOK, pool, wakers
  <2>3. RunningIsFirst' /\ Phase'
    BY <1>4 DEF IInv, RunningIsFirst, Phase, wakers
  <2>4. QED
    BY <1>4, <2>2, <2>3, QuietInv
<1>5. CASE Terminate \/ Clock
  <2> USE DEF Terminate, Clock
  <2>0. now' \in 0 .. MaxTime /\ terminal' \in BOOLEAN
    <3>1. now \in 0 .. MaxTime /\ terminal \in BOOLEAN
      BY DEF IInv, TypeOK
    <3>2. CASE Terminate
      BY <3>1, <3>2
    <3>3. CASE Clock
      BY <3>1, <3>3, TimeAssumption
    <3>4. QED
      BY <1>5, <3>2, <3>3
  <2>1. TypeOK'
    <3>1. UNCHANGED <<list, status, current, pool, wakers, round, aborted>>
      BY <1>5
    <3>2. QED
      BY <2>0, <3>1 DEF IInv, TypeOK, pool, wakers, round
  <2>2. RunningIsFirst' /\ Phase'
    BY <1>5 DEF IInv, RunningIsFirst, Phase, wakers, round
  <2>3. QED
    BY <1>5, <2>1, <2>2, QuietInv DEF round
<1>6. QED
  BY <1>1, <1>2, <1>3, <1>4, <1>5

\* What a step needs that leaves the lists and the counts alone and passes on
\* who is due to be woken up.
LEMMA WakingInv ==
    ASSUME IInv, TypeOK', SoleTimer', Sorted', Due', Phase',
           current = Main \/ pc' = pc, current' = current,
           UNCHANGED <<list, status, pool, aborted>>
    PROVE  IInv'
<1>1. ListsMatchStatus'
  BY DEF IInv, ListsMatchStatus
<1>2. PoolCounts' /\ Numbered'
  BY PoolFrame DEF IInv
<1>3. RunningIsFirst'
  BY DEF IInv, RunningIsFirst
<1>4. QED
  BY <1>1, <1>2, <1>3 DEF IInv

LEMMA TakeSelfInv == ASSUME IInv, TakeSelf PROVE IInv'
<1> USE EmptyFacts DEF TakeSelf, MainRuns
<1>0. asked = {} /\ batch = <<>>
  BY IdFacts DEF IInv, TypeOK, Phase
<1>1. TypeOK'
  BY DEF IInv, TypeOK, pool, PCs
<1>2. Sleepers' = Sleepers /\ \A u \in Ids : Sole(u)' <=> Sole(u)
  BY DEF Sleepers, Sole
<1>3. SoleTimer'
  BY <1>2 DEF IInv, SoleTimer
<1>4. Sorted'
  BY DEF IInv, Sorted
<1>5. Due'
  BY <1>0, <1>2 DEF IInv, Due
<1>6. Phase'
  BY DEF IInv, Phase
<1>7. QED
  BY <1>1, <1>3, <1>4, <1>5, <1>6, WakingInv

LEMMA TakePutInv == ASSUME IInv, TakePut PROVE IInv'
<1> USE EmptyFacts DEF TakePut, MainRuns
<1>0. asked = {} /\ batch = <<>>
  BY IdFacts DEF IInv, TypeOK, Phase
<1>1. TypeOK'
  BY DEF IInv, TypeOK, pool, PCs
<1>2. Sleepers' = Sleepers /\ \A u \in Ids : Sole(u)' <=> Sole(u)
  BY DEF Sleepers, Sole
<1>3. SoleTimer'
  BY <1>2 DEF IInv, SoleTimer
<1>4. Sorted'
  BY DEF IInv, Sorted
<1>5. Due'
  BY <1>0, <1>2 DEF IInv, Due
<1>6. Phase'
  BY <1>0 DEF IInv, Phase
<1>7. QED
  BY <1>1, <1>3, <1>4, <1>5, <1>6, WakingInv

\* The expired timers are a prefix of timeoutCoroId_.
LEMMA TimerPrefix ==
    ASSUME IInv
    PROVE  LET due == UpperBound(timers, now) - 1
           IN  /\ due \in 0 .. Len(timers)
               /\ \A i \in 1 .. due : timers[i].at <= now
<1> DEFINE u == UpperBound(timers, now)
<1>1. timers \in Seq(Timer) /\ now \in Int
  BY DEF IInv, TypeOK
<1>2. \A i \in 1 .. Len(timers) : timers[i].at \in Int
  <2>1. \A i \in 1 .. Len(timers) : timers[i] \in Timer
    BY <1>1
  <2>2. QED
    BY <2>1 DEF Timer
<1>3. /\ u \in 1 .. Len(timers) + 1
      /\ \A i \in 1 .. Len(timers) : i < u => timers[i].at <= now
  BY <1>1, <1>2, UpperBoundExists DEF IInv, Sorted
<1> HIDE DEF u
<1>4. u - 1 \in 0 .. Len(timers) /\ \A i \in 1 .. u - 1 : timers[i].at <= now
  BY <1>1, <1>3
<1>5. QED
  BY <1>4 DEF u

LEMMA TakeTimeoutsInv == ASSUME IInv, TakeTimeouts PROVE IInv'
<1> DEFINE n == IF terminal THEN 0 ELSE UpperBound(timers, now) - 1
<1>0. asked = {} /\ batch = <<>> /\ timers \in Seq(Timer) /\ Len(timers) \in Nat
  BY IdFacts DEF IInv, TypeOK, Phase, TakeTimeouts, MainRuns
<1>1. n \in 0 .. Len(timers)
  BY <1>0, TimerPrefix
<1>2. /\ batch' = [i \in 1 .. n |-> timers[i].id]
      /\ timers' = [i \in 1 .. Len(timers) - n |-> timers[i + n]]
      /\ dest' = "timeout" /\ pc' = "move" /\ current = Main /\ cut' = cut \cap Sleepers'
      /\ UNCHANGED <<list, status, current, pool, needActive, activeQueue, outstanding, asked,
                     now, terminal, loop, userThread, aborted>>
  BY DEF TakeTimeouts, MainRuns
<1> HIDE DEF n
<1>3. \A i \in 1 .. Len(timers) : timers[i] \in Timer /\ timers[i].id \in Ids
  <2>1. \A i \in 1 .. Len(timers) : timers[i] \in Timer
    BY <1>0
  <2>2. QED
    BY <2>1 DEF Timer
<1>4. /\ batch' \in Seq(Ids) /\ Len(batch') = n
      /\ \A i \in 1 .. n : i \in 1 .. Len(timers) /\ batch'[i] = timers[i].id
  BY <1>1, <1>2, <1>3
<1>5. /\ timers' \in Seq(Timer) /\ Len(timers') = Len(timers) - n
      /\ \A i \in 1 .. Len(timers') : i + n \in 1 .. Len(timers) /\ timers'[i] = timers[i + n]
  BY <1>0, <1>1, <1>2, <1>3
<1>7. Sleepers' \subseteq Sleepers /\ Elements(batch') \subseteq Sleepers
  <2>1. \A i \in 1 .. Len(timers') : timers'[i].id \in Sleepers
    BY <1>5 DEF Sleepers
  <2>2. \A i \in 1 .. Len(batch') : batch'[i] \in Sleepers
    BY <1>4 DEF Sleepers
  <2>3. QED
    BY <2>1, <2>2 DEF Sleepers, Elements
<1>8. Sleepers \subseteq Sleepers' \cup Elements(batch')
  <2> SUFFICES ASSUME NEW i \in 1 .. Len(timers)
               PROVE  timers[i].id \in Sleepers' \cup Elements(batch')
    BY DEF Sleepers
  <2>1. CASE i <= n
    <3>1. i \in 1 .. n
      BY <2>1, <1>1
    <3>2. QED
      BY <1>4, <3>1 DEF Elements
  <2>2. CASE ~(i <= n)
    <3>1. i - n \in 1 .. Len(timers') /\ (i - n) + n = i
      BY <1>0, <1>1, <1>5, <2>2
    <3>2. timers'[i - n] = timers[i]
      BY <1>5, <3>1
    <3>3. QED
      BY <3>1, <3>2 DEF Sleepers
  <2>3. QED
    BY <2>1, <2>2
<1>9. ASSUME NEW c \in Ids, Sole(c), c \in Sleepers' PROVE c \notin Elements(batch')
  <2> SUFFICES ASSUME NEW i \in 1 .. Len(timers'), NEW j \in 1 .. n, timers'[i].id = c, batch'[j] = c PROVE FALSE
    BY <1>4, <1>9 DEF Sleepers, Elements
  <2>1. i + n = j
    BY <1>4, <1>5, <1>9 DEF Sole
  <2>2. QED
    BY <1>0, <1>1, <1>5, <2>1
<1>10. ASSUME NEW c \in Ids, Sole(c) PROVE Sole(c)'
  <2> SUFFICES ASSUME NEW i \in 1 .. Len(timers'), NEW j \in 1 .. Len(timers'), timers'[i].id = c, timers'[j].id = c
               PROVE  i = j
    BY DEF Sole
  <2>1. i + n = j + n
    BY <1>5, <1>10 DEF Sole
  <2>2. QED
    BY <1>1, <2>1
<1>11. ASSUME NEW c \in Ids, c \notin Sleepers' PROVE Sole(c)'
  BY <1>11 DEF Sole, Sleepers
<1>12. TypeOK'
  BY <1>2, <1>4, <1>5 DEF IInv, TypeOK, pool, PCs
<1>13. SoleTimer'
  <2> SUFFICES ASSUME NEW c \in Ids, c \notin cut'
               PROVE  /\ Sole(c)'
                      /\ c \in Sleepers' => status'[c] = "timeout" /\ c \notin Elements(batch')
    BY DEF SoleTimer
  <2>1. CASE c \notin Sleepers'
    BY <1>11, <2>1
  <2>2. CASE c \in Sleepers'
    <3>1. c \notin cut /\ c \in Sleepers
      BY <1>2, <1>7, <2>2
    <3>2. Sole(c) /\ status[c] = "timeout"
      BY <3>1 DEF IInv, SoleTimer
    <3>3. QED
      BY <1>2, <1>9, <1>10, <2>2, <3>2
  <2>3. QED
    BY <2>1, <2>2
<1>14. Sorted'
  BY <1>1, <1>5, SMTT(30) DEF IInv, Sorted
<1>15. Due'
  BY <1>0, <1>2, <1>8, EmptyFacts DEF IInv, Due
<1>16. Phase'
  BY <1>2 DEF IInv, Phase
<1>17. QED
  BY <1>2, <1>12, <1>13, <1>14, <1>15, <1>16, WakingInv

LEMMA MoveOneInv == ASSUME IInv, MoveOne PROVE IInv'
<1> DEFINE c == Head(batch)
           to == Target(dest)
<1>0. /\ batch \in Seq(Ids) /\ batch # <<>> /\ batch' = Tail(batch)
      /\ current = Main /\ pc = "move" /\ dest \in {"timeout", "self", "wake"}
      /\ cut' = IF dest = "wake" /\ status[c] = "timeout" THEN cut \cup {c} ELSE cut
      /\ UNCHANGED <<current, pool, needActive, activeQueue, timers, outstanding, asked,
                     now, terminal, pc, dest, loop, userThread, aborted>>
  BY DEF IInv, TypeOK, MoveOne, MainRuns
<1>1. c \in Elements(batch) /\ c \in Ids
  BY <1>0, HeldFacts
<1>2. to \in {"active", "avail"} /\ to \in Lists
  BY <1>0 DEF Target, Lists
<1>3. Wakes(dest, c) => status[c] \in {"inactive", "timeout"} /\ status[c] \in Lists /\ to # status[c]
  BY <1>2 DEF Wakes, Lists
<1>4. IF Wakes(dest, c) THEN Moved(c, to) ELSE UNCHANGED <<list, status>>
  BY DEF MoveOne
<1>5. Tail(batch) \in Seq(Ids) /\ Elements(batch) = Elements(batch') \cup {c}
  BY <1>0, TailHeld
<1>6. /\ status[c] = "inactive" => Wakes(dest, c)
      /\ status[c] = "timeout" => (Wakes(dest, c) <=> dest # "self")
  BY <1>0 DEF Wakes
<1> HIDE DEF c, to
<1>7. /\ list' \in [Lists -> Seq(Ids)] /\ status' \in [Ids -> Lists \cup {"none"}]
      /\ ListsMatchStatus'
      /\ Wakes(dest, c) => status'[c] = to
      /\ ~Wakes(dest, c) => status'[c] = status[c]
      /\ \A u \in Ids : u # c => status'[u] = status[u]
  <2>1. CASE Wakes(dest, c)
    <3>1. /\ TypeOK /\ ListsMatchStatus /\ Moved(c, to)
          /\ status[c] \in Lists /\ to # status[c]
      BY <1>3, <1>4, <2>1 DEF IInv
    <3>2. QED
      BY <1>1, <1>2, <2>1, <3>1, MovedFacts
  <2>2. CASE ~Wakes(dest, c)
    BY <1>4, <2>2 DEF IInv, TypeOK, ListsMatchStatus
  <2>3. QED
    BY <2>1, <2>2
<1>8. TypeOK'
  <2>1. cut' \subseteq Ids
    BY <1>0, <1>1 DEF IInv, TypeOK
  <2>2. QED
    BY <1>0, <1>5, <1>7, <2>1 DEF IInv, TypeOK, pool
<1>9. PoolCounts' /\ Numbered'
  <2>1. \A u \in Ids : /\ status'[u] = "none" <=> status[u] = "none"
                       /\ status'[u] = "free" <=> status[u] = "free"
    BY <1>2, <1>3, <1>7
  <2>2. QED
    BY <1>0, <2>1, PoolFrame DEF IInv
<1>10. Sleepers' = Sleepers /\ Sorted' /\ \A u \in Ids : Sole(u)' <=> Sole(u)
  BY <1>0 DEF IInv, Sleepers, Sorted, Sole
<1>11. SoleTimer'
  <2> SUFFICES ASSUME NEW u \in Ids, u \notin cut'
               PROVE  /\ Sole(u)'
                      /\ u \in Sleepers' => /\ status'[u] = "timeout"
                                            /\ dest' = "timeout" => u \notin Elements(batch')
    BY DEF SoleTimer
  <2>1. u \notin cut
    BY <1>0
  <2>2. Sole(u) /\ (u \in Sleepers => status[u] = "timeout" /\ (dest = "timeout" => u \notin Elements(batch)))
    BY <2>1 DEF IInv, SoleTimer
  <2>3. ASSUME u \in Sleepers, u = c PROVE dest = "self"
    BY <1>0, <1>1, <2>2, <2>3
  <2>4. u \in Sleepers => status'[u] = "timeout"
    BY <1>6, <1>7, <2>2, <2>3
  <2>5. QED
    BY <1>0, <1>5, <1>10, <2>2, <2>4
<1>12. Due'
  <2> SUFFICES ASSUME ~terminal, NEW u \in Ids
               PROVE  /\ status'[u] = "inactive" =>
                            u \in outstanding \cup Elements(activeQueue) \cup Elements(needActive) \cup Elements(batch')
                      /\ status'[u] = "timeout" => u \in Sleepers \/ (dest = "timeout" /\ u \in Elements(batch'))
    BY <1>0, <1>10 DEF Due
  <2>1. /\ status[u] = "inactive" =>
              u \in outstanding \cup Elements(activeQueue) \cup Elements(needActive) \cup Elements(batch)
        /\ status[u] = "timeout" => u \in Sleepers \/ (dest = "timeout" /\ u \in Elements(batch))
    BY DEF IInv, Due
  <2>2. CASE u # c
    BY <1>5, <1>7, <2>1, <2>2
  <2>3. CASE u = c
    BY <1>2, <1>6, <1>7, <2>1, <2>3
  <2>4. QED
    BY <2>2, <2>3
<1>13. Phase' /\ RunningIsFirst'
  BY <1>0 DEF IInv, Phase, RunningIsFirst
<1>14. QED
  BY <1>7, <1>8, <1>9, <1>10, <1>11, <1>12, <1>13 DEF IInv

\* The coroutine that runs.
LEMMA RunningFacts ==
    ASSUME IInv, CoroRuns
    PROVE  /\ current \in Ids /\ status[current] = pc /\ pc \in {"active", "avail"} /\ batch = <<>>
           /\ current \in Sleepers => current \in cut
<1>1. current \in Ids /\ pc \in {"active", "avail"} /\ list[pc] # <<>> /\ Head(list[pc]) = current
  BY DEF IInv, TypeOK, CoroRuns, RunningIsFirst
<1>2. pc \in Lists /\ list[pc] \in Seq(Ids)
  BY <1>1 DEF IInv, TypeOK, Lists
<1>3. current \in Elements(list[pc])
  BY <1>1, <1>2, HeldFacts
<1>4. status[current] = pc
  BY <1>1, <1>2, <1>3 DEF IInv, ListsMatchStatus
<1>5. batch = <<>>
  BY <1>1 DEF IInv, Phase
<1>6. QED
  BY <1>1, <1>4, <1>5 DEF IInv, SoleTimer

LEMMA AskInv == ASSUME IInv, Ask PROVE IInv'
<1>0. current \in Ids
  BY RunningFacts DEF Ask
<1>1. /\ asked' = asked \cup {current} /\ outstanding' = outstanding \cup {current}
      /\ UNCHANGED <<list, status, current, pool, needActive, activeQueue, timers, cut, now, terminal, round, aborted>>
  BY DEF Ask
<1>2. TypeOK'
  BY <1>0, <1>1 DEF IInv, TypeOK, pool, round
<1>3. Sleepers' = Sleepers /\ UNCHANGED <<batch, dest, pc>> /\ \A u \in Ids : Sole(u)' <=> Sole(u)
  BY <1>1 DEF Sleepers, round, Sole
<1>4. SoleTimer'
  BY <1>1, <1>3 DEF IInv, SoleTimer
<1>5. Sorted' /\ Phase'
  BY <1>1, <1>3 DEF IInv, Sorted, Phase
<1>6. Due'
  BY <1>1, <1>3 DEF IInv, Due
<1>7. QED
  BY <1>1, <1>2, <1>3, <1>4, <1>5, <1>6, WakingInv

LEMMA PutInv == ASSUME IInv, NEW c \in Ids, Put(c) PROVE IInv'
<1>1. /\ outstanding' \in {outstanding, outstanding \ {c}} /\ activeQueue' = Append(activeQueue, c)
      /\ UNCHANGED <<list, status, current, pool, needActive, timers, asked, cut, now, terminal, round, aborted>>
  BY DEF Put
<1>2. activeQueue \in Seq(Ids)
  BY DEF IInv, TypeOK
<1>3. activeQueue' \in Seq(Ids) /\ Elements(activeQueue') = Elements(activeQueue) \cup {c}
  BY <1>1, <1>2, AppendFacts
<1>4. TypeOK'
  BY <1>1, <1>3 DEF IInv, TypeOK, pool, round
<1>5. Sleepers' = Sleepers /\ UNCHANGED <<batch, dest, pc>> /\ \A u \in Ids : Sole(u)' <=> Sole(u)
  BY <1>1 DEF Sleepers, round, Sole
<1>6. SoleTimer'
  BY <1>1, <1>5 DEF IInv, SoleTimer
<1>7. Sorted' /\ Phase'
  BY <1>1, <1>3, <1>5 DEF IInv, Sorted, Phase
<1>8. Due'
  BY <1>1, <1>3, <1>5 DEF IInv, Due
<1>9. QED
  BY <1>1, <1>4, <1>5, <1>6, <1>7, <1>8, WakingInv

\* What the ways to give up the thread have in common.
LEMMA GivesUp ==
    ASSUME IInv, CoroRuns, NEW to \in {"inactive", "timeout", "free"}, Moved(current, to), current' = Main,
           asked' \subseteq asked \ {current}, UNCHANGED <<now, terminal, round, aborted>>
    PROVE  /\ list' \in [Lists -> Seq(Ids)] /\ status' \in [Ids -> Lists \cup {"none"}]
           /\ ListsMatchStatus' /\ RunningIsFirst' /\ Phase'
           /\ status'[current] = to /\ \A u \in Ids : u # current => status'[u] = status[u]
           /\ UNCHANGED <<batch, dest, pc>> /\ batch = <<>>
<1>1. /\ current \in Ids /\ status[current] = pc /\ pc \in {"active", "avail"} /\ batch = <<>>
  BY RunningFacts
<1>2. status[current] \in Lists /\ to \in Lists /\ to # status[current]
  BY <1>1 DEF Lists
<1>3. /\ list' \in [Lists -> Seq(Ids)] /\ status' \in [Ids -> Lists \cup {"none"}]
      /\ ListsMatchStatus'
      /\ status'[current] = to /\ \A u \in Ids : u # current => status'[u] = status[u]
  BY <1>1, <1>2, MovedFacts DEF IInv
<1>4. UNCHANGED <<batch, dest, pc>>
  BY DEF round
<1>5. RunningIsFirst' /\ Phase'
  BY <1>1, <1>4 DEF IInv, RunningIsFirst, Phase
<1>6. QED
  BY <1>1, <1>3, <1>4, <1>5

LEMMA YieldInv == ASSUME IInv, Yield \/ YieldWait PROVE IInv'
<1>0. CoroRuns
  BY DEF Yield, YieldWait
<1>1. /\ current \in Ids /\ status[current] \in {"active", "avail"} /\ batch = <<>>
      /\ current \in Sleepers => current \in cut
  BY <1>0, RunningFacts
<1>2. /\ Moved(current, "inactive") /\ current' = Main /\ asked' \subseteq asked \ {current}
      /\ UNCHANGED <<pool, activeQueue, timers, outstanding, cut, now, terminal, round, aborted>>
  BY DEF Yield, YieldWait
<1>3. /\ list' \in [Lists -> Seq(Ids)] /\ status' \in [Ids -> Lists \cup {"none"}]
      /\ ListsMatchStatus' /\ RunningIsFirst' /\ Phase'
      /\ status'[current] = "inactive" /\ \A u \in Ids : u # current => status'[u] = status[u]
      /\ UNCHANGED <<batch, dest, pc>>
  BY <1>0, <1>2, GivesUp
<1>4. asked' = {} /\ asked \subseteq {current}
  BY <1>2 DEF IInv, Phase
<1>5. needActive \in Seq(Ids)
  BY DEF IInv, TypeOK
<1>6. PoolCounts' /\ Numbered'
  <2>1. \A u \in Ids : /\ status'[u] = "none" <=> status[u] = "none"
                       /\ status'[u] = "free" <=> status[u] = "free"
    BY <1>1, <1>3
  <2>2. QED
    BY <1>2, <2>1, PoolFrame DEF IInv
<1>7. Sleepers' = Sleepers /\ Sorted' /\ \A u \in Ids : Sole(u)' <=> Sole(u)
  BY <1>2 DEF IInv, Sleepers, Sorted, Sole
<1>71. SoleTimer'
  BY <1>1, <1>2, <1>3, <1>7 DEF IInv, SoleTimer
<1>8. CASE Yield
  <2>1. current \notin asked /\ needActive' = IF terminal THEN needActive ELSE Append(needActive, current)
    BY <1>8 DEF Yield
  <2>2. /\ needActive' \in Seq(Ids)
        /\ Elements(needActive') = IF terminal THEN Elements(needActive) ELSE Elements(needActive) \cup {current}
    BY <1>1, <1>5, <2>1, AppendFacts, ZenonT(30)
  <2>3. TypeOK'
    BY <1>2, <1>3, <1>4, <2>2 DEF IInv, TypeOK, pool, round
  <2>5. Due'
    BY <1>1, <1>2, <1>3, <1>7, <2>2 DEF IInv, Due
  <2>6. QED
    BY <1>3, <1>6, <1>7, <1>71, <2>3, <2>5 DEF IInv
<1>9. CASE YieldWait
  <2>1. current \in asked /\ needActive' = needActive
    BY <1>9 DEF YieldWait
  <2>2. ~terminal => current \in outstanding \cup Elements(activeQueue)
    BY <2>1 DEF IInv, Phase
  <2>3. TypeOK'
    BY <1>2, <1>3, <1>4, <2>1 DEF IInv, TypeOK, pool, round
  <2>5. Due'
    BY <1>1, <1>2, <1>3, <1>7, <2>1, <2>2 DEF IInv, Due
  <2>6. QED
    BY <1>3, <1>6, <1>7, <1>71, <2>3, <2>5 DEF IInv
<1>10. QED
  BY <1>8, <1>9

\* A timer is inserted where its time belongs, and the others stay.
LEMMA TimerInserted ==
    ASSUME IInv, NEW x \in Timer,
           timers' = Inserted(timers, UpperBound(timers, x.at), x)
    PROVE  /\ timers' \in Seq(Timer) /\ Sleepers' = Sleepers \cup {x.id} /\ Sorted'
           /\ \A u \in Ids : Sole(u) /\ (u = x.id => u \notin Sleepers) => Sole(u)'
           /\ Elements(timers) \subseteq Elements(timers')
<1> DEFINE k == UpperBound(timers, x.at)
<1>0. timers \in Seq(Timer) /\ Len(timers) \in Nat /\ x.at \in Int
  BY DEF IInv, TypeOK, Timer
<1>1. \A i \in 1 .. Len(timers) : timers[i].at \in Int
  <2>1. \A i \in 1 .. Len(timers) : timers[i] \in Timer
    BY <1>0
  <2>2. QED
    BY <2>1 DEF Timer
<1>2. /\ k \in 1 .. Len(timers) + 1
      /\ \A i \in 1 .. Len(timers) : i < k => timers[i].at <= x.at
      /\ \A i \in 1 .. Len(timers) : i >= k => timers[i].at > x.at
  BY <1>0, <1>1, UpperBoundExists DEF IInv, Sorted
<1> HIDE DEF k
<1>3. /\ timers' \in Seq(Timer) /\ Len(timers') = Len(timers) + 1
      /\ \A i \in 1 .. Len(timers) + 1 :
            timers'[i] = IF i < k THEN timers[i] ELSE IF i = k THEN x ELSE timers[i - 1]
  <2>1. timers' = Inserted(timers, k, x)
    BY DEF k
  <2>2. /\ Inserted(timers, k, x) \in Seq(Timer)
        /\ Len(Inserted(timers, k, x)) = Len(timers) + 1
        /\ \A i \in 1 .. Len(timers) + 1 :
              Inserted(timers, k, x)[i] = IF i < k THEN timers[i] ELSE IF i = k THEN x ELSE timers[i - 1]
    <3>1. timers \in Seq(Timer) /\ k \in 1 .. Len(timers) + 1
      BY <1>0, <1>2
    <3>2. QED
      BY <3>1, InsertedFacts
  <2>3. QED
    BY <2>1, <2>2, Zenon
<1>4. \A i \in 1 .. Len(timers') : /\ i < k => i \in 1 .. Len(timers) /\ timers'[i] = timers[i]
                                   /\ i = k => timers'[i] = x
                                   /\ i > k => i - 1 \in 1 .. Len(timers) /\ timers'[i] = timers[i - 1]
  BY <1>0, <1>2, <1>3
<1>5. \A i \in 1 .. Len(timers) : \E j \in 1 .. Len(timers') : timers'[j] = timers[i]
  <2> SUFFICES ASSUME NEW i \in 1 .. Len(timers) PROVE \E j \in 1 .. Len(timers') : timers'[j] = timers[i]
    OBVIOUS
  <2>1. CASE i < k
    <3>1. i \in 1 .. Len(timers')
      BY <1>0, <1>3
    <3>2. QED
      BY <1>4, <2>1, <3>1
  <2>2. CASE ~(i < k)
    <3>1. i + 1 \in 1 .. Len(timers') /\ i + 1 > k /\ (i + 1) - 1 = i
      BY <1>0, <1>2, <1>3, <2>2
    <3>2. QED
      BY <1>4, <3>1
  <2>3. QED
    BY <2>1, <2>2
<1>6. k \in 1 .. Len(timers') /\ timers'[k] = x
  BY <1>0, <1>2, <1>3, <1>4
<1>7. Sleepers' = Sleepers \cup {x.id}
  <2>1. \A i \in 1 .. Len(timers') : timers'[i].id \in Sleepers \cup {x.id}
    <3> SUFFICES ASSUME NEW i \in 1 .. Len(timers') PROVE timers'[i].id \in Sleepers \cup {x.id}
      OBVIOUS
    <3>1. i < k \/ i = k \/ i > k
      BY <1>2
    <3>2. \A j \in 1 .. Len(timers) : timers[j].id \in Sleepers
      BY DEF Sleepers
    <3>3. QED
      BY <1>4, <3>1, <3>2
  <2>2. \A i \in 1 .. Len(timers) : timers[i].id \in Sleepers'
    BY <1>5 DEF Sleepers
  <2>3. x.id \in Sleepers'
    BY <1>6 DEF Sleepers
  <2>4. QED
    BY <2>1, <2>2, <2>3, SMTT(30) DEF Sleepers
<1>8. Sorted'
  <2> SUFFICES ASSUME NEW i \in 1 .. Len(timers'), NEW j \in 1 .. Len(timers'), i < j
               PROVE  timers'[i].at <= timers'[j].at
    BY DEF Sorted
  <2>1. CASE j < k \/ i > k \/ (i < k /\ j > k)
    <3>1. PICK a \in 1 .. Len(timers), b \in 1 .. Len(timers) :
             a <= b /\ timers'[i] = timers[a] /\ timers'[j] = timers[b]
      <4>1. CASE j < k
        BY <1>2, <1>4, <4>1
      <4>2. CASE i > k
        <5>1. i - 1 \in 1 .. Len(timers) /\ j - 1 \in 1 .. Len(timers) /\ i - 1 <= j - 1
          BY <1>2, <1>4, <4>2
        <5>2. timers'[i] = timers[i - 1] /\ timers'[j] = timers[j - 1]
          BY <1>2, <1>4, <4>2
        <5>3. QED
          BY <5>1, <5>2
      <4>3. CASE i < k /\ j > k
        <5>1. i \in 1 .. Len(timers) /\ j - 1 \in 1 .. Len(timers) /\ i <= j - 1
          BY <1>2, <1>4, <4>3
        <5>2. timers'[i] = timers[i] /\ timers'[j] = timers[j - 1]
          BY <1>2, <1>4, <4>3
        <5>3. QED
          BY <5>1, <5>2
      <4>4. QED
        BY <2>1, <4>1, <4>2, <4>3
    <3>2. a < b \/ a = b
      BY <3>1
    <3>3. timers[a].at <= timers[b].at
      BY <1>1, <3>1, <3>2 DEF IInv, Sorted
    <3>4. QED
      BY <3>1, <3>3
  <2>2. CASE i = k
    <3>1. j - 1 \in 1 .. Len(timers) /\ j - 1 >= k /\ timers'[j] = timers[j - 1] /\ timers'[i] = x
      BY <1>2, <1>4, <2>2
    <3>2. QED
      BY <1>0, <1>1, <1>2, <3>1
  <2>3. CASE j = k
    BY <1>2, <1>4, <2>3
  <2>4. QED
    BY <1>2, <2>1, <2>2, <2>3
<1>9. ASSUME NEW u \in Ids, Sole(u), u = x.id => u \notin Sleepers PROVE Sole(u)'
  <2> SUFFICES ASSUME NEW i \in 1 .. Len(timers'), NEW j \in 1 .. Len(timers'), timers'[i].id = u, timers'[j].id = u
               PROVE  i = j
    BY DEF Sole
  <2>0. \A a, b \in 1 .. Len(timers) : timers[a].id = u /\ timers[b].id = u => a = b
    BY <1>9 DEF Sole
  <2>1. u = x.id => \A a \in 1 .. Len(timers) : timers[a].id # u
    BY <1>9 DEF Sleepers
  <2>2. CASE i = k \/ j = k
    <3>1. i < k \/ i = k \/ i > k
      BY <1>2
    <3>2. j < k \/ j = k \/ j > k
      BY <1>2
    <3>3. u = x.id
      BY <1>4, <2>2
    <3>4. \A a \in 1 .. Len(timers') : a < k \/ a > k => timers'[a].id # u
      BY <1>4, <2>1, <3>3, SMTT(30)
    <3>5. QED
      BY <2>2, <3>1, <3>2, <3>4
  <2>3. CASE i # k /\ j # k
    <3>1. (i < k \/ i > k) /\ (j < k \/ j > k)
      BY <1>2, <2>3
    <3>2. CASE i < k /\ j < k
      BY <1>4, <2>0, <3>2
    <3>3. CASE i > k /\ j > k
      <4>1. i - 1 = j - 1
        BY <1>4, <2>0, <3>3, SMTT(30)
      <4>2. QED
        BY <4>1
    <3>4. CASE i < k /\ j > k
      <4>1. i = j - 1
        BY <1>4, <2>0, <3>4
      <4>2. QED
        BY <1>2, <3>4, <4>1
    <3>5. CASE i > k /\ j < k
      <4>1. i - 1 = j
        BY <1>4, <2>0, <3>5, SMTT(30)
      <4>2. QED
        BY <1>2, <3>5, <4>1
    <3>6. QED
      BY <3>1, <3>2, <3>3, <3>4, <3>5
  <2>4. QED
    BY <2>2, <2>3
<1>10. Elements(timers) \subseteq Elements(timers')
  BY <1>5 DEF Elements
<1>11. QED
  BY <1>3, <1>7, <1>8, <1>9, <1>10

LEMMA SleepInv == ASSUME IInv, NEW d \in 0 .. MaxTime, Sleep(d) PROVE IInv'
<1> DEFINE x == [at |-> now + d, id |-> current]
<1>0. CoroRuns /\ current \notin asked
  BY DEF Sleep
<1>1. /\ current \in Ids /\ status[current] \in {"active", "avail"} /\ batch = <<>>
      /\ current \in Sleepers => current \in cut
  BY <1>0, RunningFacts
<1>2. /\ Moved(current, "timeout") /\ current' = Main
      /\ UNCHANGED <<pool, needActive, activeQueue, outstanding, asked, cut, now, terminal, round, aborted>>
      /\ timers' = Inserted(timers, UpperBound(timers, x.at), x)
  BY DEF Sleep
<1>3. x \in Timer /\ x.id = current
  BY <1>1, TimeAssumption DEF IInv, TypeOK, Sleep, Timer
<1> HIDE DEF x
<1>4. asked = {}
  BY <1>0 DEF IInv, Phase
<1>5. /\ list' \in [Lists -> Seq(Ids)] /\ status' \in [Ids -> Lists \cup {"none"}]
      /\ ListsMatchStatus' /\ RunningIsFirst' /\ Phase'
      /\ status'[current] = "timeout" /\ \A u \in Ids : u # current => status'[u] = status[u]
      /\ UNCHANGED <<batch, dest, pc>>
  BY <1>0, <1>2, <1>4, GivesUp
<1>6. /\ timers' \in Seq(Timer) /\ Sleepers' = Sleepers \cup {current} /\ Sorted'
      /\ \A u \in Ids : Sole(u) /\ (u = current => u \notin Sleepers) => Sole(u)'
  BY <1>1, <1>2, <1>3, TimerInserted
<1>7. TypeOK'
  BY <1>2, <1>5, <1>6 DEF IInv, TypeOK, pool, round
<1>8. PoolCounts' /\ Numbered'
  <2>1. \A u \in Ids : /\ status'[u] = "none" <=> status[u] = "none"
                       /\ status'[u] = "free" <=> status[u] = "free"
    BY <1>1, <1>5
  <2>2. QED
    BY <1>2, <2>1, PoolFrame DEF IInv
<1>9. SoleTimer'
  <2>1. Elements(batch') = {} /\ cut' = cut
    BY <1>1, <1>2, <1>5, EmptyFacts
  <2>2. \A u \in Ids \ cut : Sole(u) /\ (u \in Sleepers => status[u] = "timeout")
    BY DEF IInv, SoleTimer
  <2>3. QED
    BY <1>1, <1>5, <1>6, <2>1, <2>2 DEF SoleTimer
<1>10. Due'
  BY <1>1, <1>2, <1>5, <1>6 DEF IInv, Due
<1>11. QED
  BY <1>5, <1>6, <1>7, <1>8, <1>9, <1>10 DEF IInv

Used == {c \in Created : status[c] # "free"}

\* One coroutine more, or one less, is in use.
LEMMA UsedFacts ==
    ASSUME TypeOK, status' \in [Ids -> Lists \cup {"none"}], NEW c \in Ids,
           \A u \in Ids : u # c => status'[u] = status[u],
           status[c] # "none", status'[c] # "none"
    PROVE  /\ Created' = Created
           /\ status[c] = "free" /\ status'[c] # "free" => Cardinality(Used') = Cardinality(Used) + 1
           /\ status[c] # "free" /\ status'[c] = "free" => Cardinality(Used') = Cardinality(Used) - 1
           /\ Cardinality(Used) \in Nat /\ Cardinality(Used') \in Nat
<1>1. Created' = Created
  BY DEF Created
<1>2. Used \in SUBSET Ids /\ Used' \in SUBSET Ids
  BY DEF Used, Created
<1>3. /\ IsFiniteSet(Used) /\ Cardinality(Used) \in Nat
      /\ IsFiniteSet(Used') /\ Cardinality(Used') \in Nat
  BY <1>2, FiniteIds
<1>4. ASSUME status[c] = "free", status'[c] # "free" PROVE Cardinality(Used') = Cardinality(Used) + 1
  <2>1. Used' = Used \cup {c} /\ c \notin Used
    BY <1>4 DEF Used, Created
  <2>2. QED
    BY <1>3, <2>1, FS_AddElement
<1>5. ASSUME status[c] # "free", status'[c] = "free" PROVE Cardinality(Used') = Cardinality(Used) - 1
  <2>1. Used' = Used \ {c} /\ c \in Used
    BY <1>5 DEF Used, Created
  <2>2. QED
    BY <1>3, <2>1, FS_RemoveElement
<1>6. QED
  BY <1>1, <1>3, <1>4, <1>5

LEMMA FinishInv == ASSUME IInv, Finish PROVE IInv'
<1>0. CoroRuns /\ current \notin asked
  BY DEF Finish
<1>1. /\ current \in Ids /\ status[current] \in {"active", "avail"} /\ batch = <<>>
      /\ current \in Sleepers => current \in cut
  BY <1>0, RunningFacts
<1>2. /\ Moved(current, "free") /\ current' = Main /\ usedSize' = usedSize - 1
      /\ UNCHANGED <<currentSize, uniqId, wakers, now, terminal, round, aborted>>
  BY DEF Finish
<1>3. asked = {}
  BY <1>0 DEF IInv, Phase
<1>4. /\ list' \in [Lists -> Seq(Ids)] /\ status' \in [Ids -> Lists \cup {"none"}]
      /\ ListsMatchStatus' /\ RunningIsFirst' /\ Phase'
      /\ status'[current] = "free" /\ \A u \in Ids : u # current => status'[u] = status[u]
      /\ UNCHANGED <<batch, dest, pc>>
  BY <1>0, <1>2, <1>3, GivesUp DEF wakers
<1>5. /\ Created' = Created /\ Cardinality(Used') = Cardinality(Used) - 1
      /\ Cardinality(Used) \in Nat /\ Cardinality(Used') \in Nat
  <2>1. TypeOK /\ status[current] # "none" /\ status[current] # "free"
    BY <1>1 DEF IInv
  <2>2. QED
    BY <1>1, <1>4, <2>1, UsedFacts
<1>6. usedSize = Cardinality(Used) /\ usedSize' = Cardinality(Used')
  BY <1>2, <1>5 DEF IInv, PoolCounts, Used
<1>7. usedSize' \in 0 .. PoolSize
  BY <1>2, <1>5, <1>6, PoolAssumption DEF IInv, TypeOK
<1>8. TypeOK'
  BY <1>2, <1>4, <1>7, IdFacts DEF IInv, TypeOK, wakers, round
<1>9. PoolCounts' /\ Numbered'
  BY <1>2, <1>5, <1>6 DEF IInv, PoolCounts, Numbered, Used
<1>10. SoleTimer' /\ Sorted' /\ Due'
  <2>1. \A c \in Ids : \/ status'[c] = status[c]
                       \/ /\ status'[c] \notin {"inactive", "timeout"}
                          /\ status[c] \notin {"inactive", "timeout"}
    BY <1>1, <1>4
  <2>2. QED
    BY <1>2, <1>4, <2>1, WakersFrame DEF IInv
<1>11. QED
  BY <1>4, <1>8, <1>9, <1>10 DEF IInv

\* Creating coroutines leaves the one that runs where it is.
LEMMA StillFirst ==
    ASSUME IInv, UNCHANGED <<current, pc>>,
           \A l \in {"active", "avail"} :
              list[l] # <<>> => list'[l] # <<>> /\ Head(list'[l]) = Head(list[l])
    PROVE  RunningIsFirst'
BY DEF IInv, RunningIsFirst

LEMMA CreateFreeInv == ASSUME IInv, CreateFree PROVE IInv'
<1> DEFINE c == Head(list["free"])
<1>1. /\ usedSize' = usedSize + 1 /\ usedSize < currentSize /\ list["free"] # <<>>
      /\ Moved(c, "avail")
      /\ UNCHANGED <<current, currentSize, uniqId, wakers, now, terminal, round, aborted>>
  BY DEF CreateFree, PoolShort, IInv, TypeOK
<1>2. "free" \in Lists /\ "avail" \in Lists /\ "active" \in Lists
  BY DEF Lists
<1>3. list["free"] \in Seq(Ids)
  BY <1>2 DEF IInv, TypeOK
<1>4. c \in Elements(list["free"]) /\ c \in Ids
  BY <1>1, <1>3, HeldFacts
<1>5. status[c] = "free"
  BY <1>2, <1>4 DEF IInv, ListsMatchStatus
<1> HIDE DEF c
<1>6. /\ list' \in [Lists -> Seq(Ids)] /\ status' \in [Ids -> Lists \cup {"none"}]
      /\ ListsMatchStatus'
      /\ status'[c] = "avail" /\ \A u \in Ids : u # c => status'[u] = status[u]
      /\ \A l \in Lists : l # "free" /\ list[l] # <<>> =>
            list'[l] # <<>> /\ Head(list'[l]) = Head(list[l])
  BY <1>1, <1>2, <1>4, <1>5, MovedFacts DEF IInv
<1>7. /\ Created' = Created /\ Cardinality(Used') = Cardinality(Used) + 1
  <2>1. TypeOK /\ status[c] # "none" /\ status'[c] # "none" /\ status'[c] # "free"
    BY <1>5, <1>6 DEF IInv
  <2>2. QED
    BY <1>4, <1>5, <1>6, <2>1, UsedFacts
<1>8. PoolCounts' /\ Numbered'
  BY <1>1, <1>7 DEF IInv, PoolCounts, Numbered, Used
<1>9. usedSize' \in 0 .. PoolSize
  BY <1>1, PoolAssumption DEF IInv, TypeOK
<1>10. TypeOK'
  BY <1>1, <1>6, <1>9 DEF IInv, TypeOK, wakers, round
<1>11. RunningIsFirst'
  BY <1>1, <1>2, <1>6, StillFirst DEF round
<1>12. SoleTimer' /\ Sorted' /\ Due'
  <2>1. \A u \in Ids : \/ status'[u] = status[u]
                       \/ /\ status'[u] \notin {"inactive", "timeout"}
                          /\ status[u] \notin {"inactive", "timeout"}
    BY <1>5, <1>6
  <2>2. QED
    BY <1>1, <2>1, WakersFrame DEF IInv, round
<1>13. Phase'
  BY <1>1 DEF IInv, Phase, wakers, round
<1>14. QED
  BY <1>6, <1>8, <1>10, <1>11, <1>12, <1>13 DEF IInv

\* n new coroutines, of which or of the free ones the first is used.
LEMMA Grown ==
    ASSUME IInv, NEW n \in Nat, n > 0, uniqId + n <= PoolSize,
           LET free  == list["free"] \o [i \in 1 .. n |-> uniqId + i]
               first == Head(free)
           IN  /\ list' = [list EXCEPT !["free"] = Tail(free), !["avail"] = Linked(@, first)]
               /\ status' = [c \in Ids |-> IF c = first THEN "avail"
                                          ELSE IF c \in uniqId + 1 .. uniqId + n THEN "free"
                                          ELSE status[c]]
    PROVE  /\ list' \in [Lists -> Seq(Ids)] /\ status' \in [Ids -> Lists \cup {"none"}]
           /\ ListsMatchStatus'
           /\ \A l \in {"active", "avail"} :
                 list[l] # <<>> => list'[l] # <<>> /\ Head(list'[l]) = Head(list[l])
           /\ Created' = Created \cup (uniqId + 1 .. uniqId + n)
           /\ \E c \in Ids \ Used : Used' = Used \cup {c}
           /\ \A u \in Ids : \/ status'[u] = status[u]
                             \/ /\ status'[u] \notin {"inactive", "timeout"}
                                /\ status[u] \notin {"inactive", "timeout"}
<1> DEFINE new  == [i \in 1 .. n |-> uniqId + i]
           old  == list["free"]
           free == old \o new
           c    == Head(free)
           N    == uniqId + 1 .. uniqId + n
<1>0. /\ uniqId \in Nat /\ list \in [Lists -> Seq(Ids)] /\ status \in [Ids -> Lists \cup {"none"}]
      /\ "free" \in Lists /\ "avail" \in Lists /\ "active" \in Lists
  BY DEF IInv, TypeOK, Lists
<1>1. N \subseteq Ids /\ \A u \in N : status[u] = "none"
  <2>1. N \subseteq Ids
    BY <1>0, PoolAssumption DEF Ids
  <2>2. \A u \in N : u \notin Created
    BY <1>0 DEF IInv, Numbered
  <2>3. QED
    BY <2>1, <2>2 DEF Created
<1>2. new \in Seq(Ids) /\ Len(new) = n /\ NoDuplicates(new) /\ Elements(new) = N
  <2>1. new \in Seq(Ids) /\ Len(new) = n /\ \A i \in 1 .. n : new[i] = uniqId + i
    BY <1>0, PoolAssumption DEF Ids
  <2> HIDE DEF new
  <2>2. NoDuplicates(new)
    BY <1>0, <2>1 DEF NoDuplicates
  <2>3. \A u \in N : u - uniqId \in 1 .. n /\ u = uniqId + (u - uniqId)
    BY <1>0
  <2>4. \A i \in 1 .. n : uniqId + i \in N
    BY <1>0
  <2>5. Elements(new) = N
    <3>1. \A u \in N : u \in Elements(new)
      BY <2>1, <2>3 DEF Elements
    <3>2. \A u \in Elements(new) : u \in N
      BY <2>1, <2>4 DEF Elements
    <3>3. QED
      BY <3>1, <3>2
  <2>6. QED
    BY <2>1, <2>2, <2>5
<1>3. old \in Seq(Ids) /\ NoDuplicates(old) /\ \A u \in Ids : u \in Elements(old) <=> status[u] = "free"
  BY <1>0 DEF IInv, ListsMatchStatus
<1> HIDE DEF new, old
<1>4. Elements(old) \cap N = {} /\ Elements(old) \subseteq Ids
  BY <1>1, <1>3, HeldFacts
<1>5. /\ free \in Seq(Ids) /\ free # <<>> /\ NoDuplicates(free)
      /\ Elements(free) = Elements(old) \cup N
  <2>1. /\ old \in Seq(Ids) /\ new \in Seq(Ids) /\ NoDuplicates(old) /\ NoDuplicates(new)
        /\ Elements(old) \cap Elements(new) = {} /\ Len(new) > 0
    BY <1>2, <1>3, <1>4
  <2>2. /\ old \o new \in Seq(Ids) /\ old \o new # <<>> /\ NoDuplicates(old \o new)
        /\ Elements(old \o new) = Elements(old) \cup Elements(new)
    BY <2>1, ConcatFacts
  <2>3. QED
    BY <1>2, <2>2
<1> HIDE DEF free
<1>6. c \in Elements(free) /\ c \in Ids
  BY <1>5, HeldFacts
<1>7. /\ Tail(free) \in Seq(Ids) /\ NoDuplicates(Tail(free))
      /\ Elements(Tail(free)) = Elements(free) \ {c}
  BY <1>5, TailFacts
<1>8. status[c] \in {"free", "none"}
  BY <1>1, <1>3, <1>4, <1>5, <1>6
<1>9. /\ list["avail"] \in Seq(Ids) /\ NoDuplicates(list["avail"])
      /\ c \notin Elements(list["avail"])
  BY <1>0, <1>6, <1>8 DEF IInv, ListsMatchStatus
<1>10. /\ Linked(list["avail"], c) \in Seq(Ids) /\ NoDuplicates(Linked(list["avail"], c))
       /\ Elements(Linked(list["avail"], c)) = Elements(list["avail"]) \cup {c}
       /\ Linked(list["avail"], c) # <<>>
       /\ list["avail"] # <<>> => Head(Linked(list["avail"], c)) = Head(list["avail"])
  BY <1>6, <1>9, AppendFacts DEF Linked
<1>11. /\ list' = [list EXCEPT !["free"] = Tail(free), !["avail"] = Linked(@, c)]
       /\ status' = [u \in Ids |-> IF u = c THEN "avail" ELSE IF u \in N THEN "free" ELSE status[u]]
  BY DEF free, new, old
<1> HIDE DEF c, N
<1>12. /\ list' \in [Lists -> Seq(Ids)]
       /\ list'["free"] = Tail(free) /\ list'["avail"] = Linked(list["avail"], c)
       /\ \A l \in Lists : l # "free" /\ l # "avail" => list'[l] = list[l]
  <2> DEFINE tail == Tail(free)
             linked == Linked(list["avail"], c)
  <2>1. tail \in Seq(Ids) /\ linked \in Seq(Ids) /\ list \in [Lists -> Seq(Ids)]
    BY <1>0, <1>7, <1>10
  <2>2. list' = [list EXCEPT !["free"] = tail, !["avail"] = linked]
    BY <1>0, <1>11
  <2> HIDE DEF tail, linked
  <2>3. list' \in [Lists -> Seq(Ids)]
    BY <2>1, <2>2
  <2>4. /\ list'["free"] = tail /\ list'["avail"] = linked
        /\ \A l \in Lists : l # "free" /\ l # "avail" => list'[l] = list[l]
    BY <1>0, <2>1, <2>2
  <2>5. QED
    BY <2>3, <2>4 DEF tail, linked
<1>13. /\ status' \in [Ids -> Lists \cup {"none"}]
       /\ status'[c] = "avail"
       /\ \A u \in Ids : u # c => status'[u] = IF u \in N THEN "free" ELSE status[u]
  BY <1>0, <1>6, <1>11
<1>14. ListsMatchStatus'
  <2>1. \A l \in Lists : NoDuplicates(list'[l])
    BY <1>7, <1>10, <1>12 DEF IInv, ListsMatchStatus
  <2>2. ASSUME NEW l \in Lists, NEW u \in Ids PROVE u \in Elements(list'[l]) <=> status'[u] = l
    <3>1. u \in Elements(list[l]) <=> status[u] = l
      BY DEF IInv, ListsMatchStatus
    <3>2. CASE l = "free"
      BY <1>3, <1>5, <1>7, <1>12, <1>13, <3>2
    <3>3. CASE l = "avail"
      BY <1>1, <1>10, <1>12, <1>13, <3>1, <3>3, SMTT(30)
    <3>4. CASE l # "free" /\ l # "avail"
      BY <1>1, <1>8, <1>12, <1>13, <3>1, <3>4 DEF Lists
    <3>5. QED
      BY <3>2, <3>3, <3>4
  <2>3. QED
    BY <2>1, <2>2 DEF ListsMatchStatus
<1>15. Created' = Created \cup N
  BY <1>1, <1>5, <1>6, <1>8, <1>3, <1>13 DEF Created
<1>16. c \notin Used /\ Used' = Used \cup {c}
  BY <1>1, <1>6, <1>8, <1>13 DEF Used, Created
<1>17. \A u \in Ids : \/ status'[u] = status[u]
                     \/ /\ status'[u] \notin {"inactive", "timeout"}
                        /\ status[u] \notin {"inactive", "timeout"}
  BY <1>1, <1>8, <1>13
<1>18. \A l \in {"active", "avail"} :
          list[l] # <<>> => list'[l] # <<>> /\ Head(list'[l]) = Head(list[l])
  BY <1>0, <1>10, <1>12
<1>19. QED
  BY <1>6, <1>12, <1>13, <1>14, <1>15, <1>16, <1>17, <1>18 DEF N

\* How many an interval of ids are.
LEMMA IntervalSize ==
    ASSUME NEW a \in Nat, NEW n \in Nat
    PROVE  IsFiniteSet(a + 1 .. a + n) /\ Cardinality(a + 1 .. a + n) = n
<1>1. \A i, j \in Int : /\ IsFiniteSet(i .. j)
                        /\ Cardinality(i .. j) = IF i > j THEN 0 ELSE j - i + 1
  BY FS_Interval
<1>2. a + 1 \in Int /\ a + n \in Int
  OBVIOUS
<1>3. /\ IsFiniteSet(a + 1 .. a + n)
      /\ Cardinality(a + 1 .. a + n) = IF a + 1 > a + n THEN 0 ELSE (a + n) - (a + 1) + 1
  BY <1>1, <1>2, Zenon
<1>4. QED
  BY <1>3

LEMMA CreateGrowingInv == ASSUME IInv, NEW n \in 0 .. Chunk, CreateGrowing(n) PROVE IInv'
<1> DEFINE ids == IF n = Increment THEN n ELSE n + 1
<1>0. /\ currentSize \in Nat /\ uniqId \in Nat /\ usedSize \in Nat /\ PoolSize \in Nat /\ Chunk \in Nat
      /\ currentSize <= PoolSize /\ uniqId <= PoolSize /\ currentSize <= uniqId
  BY PoolAssumption DEF IInv, TypeOK, PoolCounts
<1>1. Increment \in Nat /\ Increment <= PoolSize - currentSize
  BY <1>0 DEF Increment, Least
<1>2. n \in Nat /\ n <= Increment
  BY <1>1 DEF CreateGrowing, Allocated
<1>3. ids \in Nat /\ n <= ids /\ ids <= Increment
  BY <1>1, <1>2
<1>4. UNCHANGED <<current, wakers, now, terminal, round>> /\ ~aborted
  BY DEF CreateGrowing, CanCreate
<1>5. IF uniqId + ids > PoolSize
      THEN aborted' = TRUE /\ UNCHANGED <<list, status, pool>>
      ELSE /\ uniqId' = uniqId + ids
           /\ currentSize' = currentSize + n
           /\ IF n = 0 THEN UNCHANGED <<list, status, usedSize>>
              ELSE /\ usedSize' = usedSize + 1
                   /\ LET free  == list["free"] \o [i \in 1 .. n |-> uniqId + i]
                          first == Head(free)
                      IN  /\ list' = [list EXCEPT !["free"] = Tail(free), !["avail"] = Linked(@, first)]
                          /\ status' = [c \in Ids |-> IF c = first THEN "avail"
                                                     ELSE IF c \in uniqId + 1 .. uniqId + n THEN "free"
                                                     ELSE status[c]]
           /\ UNCHANGED aborted
  BY DEF CreateGrowing
<1> HIDE DEF ids
<1>6. Phase'
  BY <1>4 DEF IInv, Phase, wakers, round
<1>7. UNCHANGED <<needActive, activeQueue, timers, outstanding, asked, cut, pc, batch, dest, loop, userThread>>
  BY <1>4 DEF wakers, round
<1>8. CASE uniqId + ids > PoolSize
  <2>1. aborted' = TRUE /\ UNCHANGED <<list, status, usedSize, currentSize, uniqId>>
    BY <1>5, <1>8 DEF pool
  <2>2. currentSize < uniqId
    BY <1>0, <1>1, <1>3, <1>8
  <2>3. TypeOK'
    BY <1>4, <1>7, <2>1 DEF IInv, TypeOK
  <2>4. Created' = Created
    BY <2>1 DEF Created
  <2>5. PoolCounts' /\ Numbered'
    BY <2>1, <2>2, <2>4 DEF IInv, PoolCounts, Numbered
  <2>6. ListsMatchStatus' /\ RunningIsFirst'
    BY <1>4, <1>7, <2>1 DEF IInv, ListsMatchStatus, RunningIsFirst
  <2>7. SoleTimer' /\ Sorted' /\ Due'
    BY <1>4, <1>7, <2>1, WakersFrame DEF IInv
  <2>8. QED
    BY <1>6, <2>3, <2>5, <2>6, <2>7 DEF IInv
<1>9. CASE ~(uniqId + ids > PoolSize) /\ n = 0
  <2>1. /\ uniqId' = uniqId + ids /\ currentSize' = currentSize
        /\ UNCHANGED <<list, status, usedSize, aborted>>
    BY <1>0, <1>5, <1>9
  <2>2. uniqId' \in 0 .. PoolSize
    BY <1>0, <1>3, <1>9, <2>1
  <2>3. TypeOK'
    BY <1>4, <1>7, <2>1, <2>2 DEF IInv, TypeOK
  <2>4. Created' = Created /\ Created \subseteq Ids
    BY <2>1 DEF Created
  <2>5. Numbered'
    BY <1>0, <1>3, <2>1, <2>4, IdFacts DEF IInv, Numbered
  <2>6. PoolCounts'
    BY <1>0, <1>3, <1>4, <2>1, <2>4 DEF IInv, PoolCounts
  <2>7. ListsMatchStatus' /\ RunningIsFirst'
    BY <1>4, <1>7, <2>1 DEF IInv, ListsMatchStatus, RunningIsFirst
  <2>8. SoleTimer' /\ Sorted' /\ Due'
    BY <1>4, <1>7, <2>1, WakersFrame DEF IInv
  <2>9. QED
    BY <1>6, <2>3, <2>5, <2>6, <2>7, <2>8 DEF IInv
<1>10. CASE ~(uniqId + ids > PoolSize) /\ n # 0
  <2>0. n > 0 /\ uniqId + n <= PoolSize
    BY <1>0, <1>2, <1>3, <1>10
  <2>1. /\ uniqId' = uniqId + ids /\ currentSize' = currentSize + n /\ usedSize' = usedSize + 1
        /\ aborted' = aborted
    BY <1>5, <1>10
  <2>2. /\ list' \in [Lists -> Seq(Ids)] /\ status' \in [Ids -> Lists \cup {"none"}]
        /\ ListsMatchStatus'
        /\ \A l \in {"active", "avail"} :
              list[l] # <<>> => list'[l] # <<>> /\ Head(list'[l]) = Head(list[l])
        /\ Created' = Created \cup (uniqId + 1 .. uniqId + n)
        /\ \E c \in Ids \ Used : Used' = Used \cup {c}
        /\ \A u \in Ids : \/ status'[u] = status[u]
                          \/ /\ status'[u] \notin {"inactive", "timeout"}
                             /\ status[u] \notin {"inactive", "timeout"}
    BY <1>2, <1>5, <1>10, <2>0, Grown
  <2>3. Created \in SUBSET Ids /\ Used \in SUBSET Ids /\ Used' \in SUBSET Ids
    BY DEF Created, Used
  <2>4. /\ IsFiniteSet(Created) /\ Cardinality(Created) \in Nat
        /\ IsFiniteSet(Used) /\ Cardinality(Used) \in Nat
    BY <2>3, FiniteIds
  <2>5. Cardinality(Created') = Cardinality(Created) + n
    <3> DEFINE N == uniqId + 1 .. uniqId + n
    <3>1. IsFiniteSet(N) /\ Cardinality(N) = n
      BY <1>0, <1>2, IntervalSize
    <3>2. Created \cap N = {}
      BY <1>0 DEF IInv, Numbered
    <3>3. Cardinality({}) = 0
      BY FS_EmptySet
    <3>4. Created' = Created \cup N
      BY <2>2
    <3> HIDE DEF N
    <3>5. Cardinality(Created \cup N) = Cardinality(Created) + Cardinality(N) - Cardinality(Created \cap N)
      BY <2>4, <3>1, FS_Union
    <3>6. Cardinality(Created \cap N) = 0
      BY <3>2, <3>3
    <3>7. Cardinality(Created \cup N) = Cardinality(Created) + n
      BY <1>2, <2>4, <3>1, <3>5, <3>6
    <3>8. QED
      BY <3>4, <3>7
  <2>6. Cardinality(Used') = Cardinality(Used) + 1
    BY <2>2, <2>4, FS_AddElement
  <2>7. Cardinality(Used') <= PoolSize
    <3>1. IsFiniteSet(Ids) /\ Cardinality(Ids) = PoolSize
      <4>1. IsFiniteSet(0 + 1 .. 0 + PoolSize) /\ Cardinality(0 + 1 .. 0 + PoolSize) = PoolSize
        BY <1>0, IntervalSize
      <4>2. 0 + 1 .. 0 + PoolSize = Ids
        BY <1>0 DEF Ids
      <4>3. QED
        BY <4>1, <4>2
    <3>2. QED
      BY <2>3, <3>1, FS_Subset
  <2>8. PoolCounts'
    BY <1>0, <1>2, <1>3, <1>4, <2>1, <2>5, <2>6 DEF IInv, PoolCounts, Used
  <2>9. Numbered'
    <3>1. \A c \in Created : c \in Nat /\ c <= uniqId
      BY <2>3, IdFacts DEF IInv, Numbered
    <3>2. QED
      BY <1>0, <1>2, <1>3, <2>1, <2>2, <3>1 DEF Numbered
  <2>10. usedSize' \in 0 .. PoolSize /\ currentSize' \in 0 .. PoolSize /\ uniqId' \in 0 .. PoolSize
    <3>1. usedSize' = Cardinality(Used')
      BY <2>8 DEF PoolCounts, Used
    <3>2. QED
      BY <1>0, <1>1, <1>2, <1>3, <1>10, <2>1, <2>7, <3>1
  <2>11. TypeOK'
    BY <1>4, <1>7, <2>1, <2>2, <2>10 DEF IInv, TypeOK
  <2>12. RunningIsFirst'
    BY <1>4, <1>7, <2>2, StillFirst
  <2>13. SoleTimer' /\ Sorted' /\ Due'
    BY <1>4, <1>7, <2>2, WakersFrame DEF IInv
  <2>14. QED
    BY <1>6, <2>2, <2>8, <2>9, <2>11, <2>12, <2>13 DEF IInv
<1>11. QED
  BY <1>8, <1>9, <1>10

LEMMA InitInv == Init => IInv
<1> SUFFICES ASSUME Init PROVE IInv
  OBVIOUS
<1>1. PICK n \in Allocated(Least(PoolSize, Chunk)) :
         /\ list = [l \in Lists |-> IF l = "free" THEN [i \in 1 .. n |-> i] ELSE <<>>]
         /\ status = [c \in Ids |-> IF c <= n THEN "free" ELSE "none"]
         /\ currentSize = n /\ uniqId = n
  BY DEF Init
<1>2. n \in Nat /\ n <= PoolSize /\ PoolSize \in Nat
  BY PoolAssumption DEF Allocated, Least
<1> DEFINE first == [i \in 1 .. n |-> i]
<1>3. first \in Seq(Ids) /\ NoDuplicates(first) /\ Elements(first) = 1 .. n
  <2>1. first \in Seq(Ids) /\ Len(first) = n /\ \A i \in 1 .. n : first[i] = i
    BY <1>2 DEF Ids
  <2> HIDE DEF first
  <2>2. QED
    BY <2>1 DEF NoDuplicates, Elements
<1>4. /\ "free" \in Lists /\ list["free"] = first
      /\ \A l \in Lists : l # "free" => list[l] = <<>>
  BY <1>1 DEF Lists
<1> HIDE DEF first
<1>5. TypeOK
  <2>1. list \in [Lists -> Seq(Ids)]
    <3>1. list = [l \in Lists |-> IF l = "free" THEN first ELSE <<>>]
      BY <1>1 DEF first
    <3>2. QED
      BY <1>3, <3>1
  <2>2. status \in [Ids -> Lists \cup {"none"}]
    BY <1>1 DEF Lists
  <2>3. QED
    <3>1. /\ usedSize \in 0 .. PoolSize /\ currentSize \in 0 .. PoolSize /\ uniqId \in 0 .. PoolSize
          /\ now \in 0 .. MaxTime /\ loop \in 0 .. LoopMax
      BY <1>1, <1>2, TimeAssumption, LoopAssumption DEF Init
    <3>2. /\ needActive \in Seq(Ids) /\ activeQueue \in Seq(Ids) /\ timers \in Seq(Timer) /\ batch \in Seq(Ids)
          /\ current \in Ids \cup {Main} /\ outstanding \subseteq Ids /\ asked \subseteq Ids /\ cut \subseteq Ids
          /\ pc \in PCs /\ dest \in {"timeout", "self", "wake"}
      BY DEF Init, PCs
    <3>3. terminal \in BOOLEAN /\ aborted \in BOOLEAN /\ userThread \in BOOLEAN
      BY DEF Init
    <3>4. QED
      BY <2>1, <2>2, <3>1, <3>2, <3>3 DEF TypeOK
<1>6. \A c \in Ids : (c <= n <=> c \in 1 .. n) /\ status[c] = IF c <= n THEN "free" ELSE "none"
  BY <1>1, <1>2 DEF Ids
<1>7. ListsMatchStatus
  BY <1>3, <1>4, <1>6, EmptyFacts DEF ListsMatchStatus, Lists
<1>8. Created = 1 .. n /\ Used = {}
  BY <1>2, <1>6 DEF Created, Used, Ids
<1>9. PoolCounts /\ Numbered
  <2>1. Cardinality(1 .. n) = n
    <3>1. Cardinality(0 + 1 .. 0 + n) = n
      BY <1>2, IntervalSize
    <3>2. 0 + 1 .. 0 + n = 1 .. n
      BY <1>2
    <3>3. QED
      BY <3>1, <3>2
  <2>2. Cardinality({}) = 0
    BY FS_EmptySet
  <2>3. Cardinality(Created) = n /\ Cardinality(Used) = 0
    BY <1>8, <2>1, <2>2
  <2>4. usedSize = 0 /\ aborted = FALSE /\ currentSize = n /\ uniqId = n
    BY <1>1 DEF Init
  <2>5. Numbered
    BY <1>2, <1>8, <2>4 DEF Numbered
  <2>6. PoolCounts
    BY <1>2, <2>3, <2>4 DEF PoolCounts, Used
  <2>7. QED
    BY <2>5, <2>6
<1>10. SoleTimer /\ Sorted /\ Phase /\ RunningIsFirst
  BY EmptyFacts DEF Init, SoleTimer, Sole, Sorted, Phase, RunningIsFirst, Sleepers
<1>11. Due
  BY <1>6 DEF Due
<1>12. QED
  BY <1>5, <1>7, <1>9, <1>10, <1>11 DEF IInv

LEMMA StepInv == IInv /\ [Next]_vars => IInv'
<1> SUFFICES ASSUME IInv, [Next]_vars PROVE IInv'
  OBVIOUS
<1>1. CASE CreateFree \/ \E n \in 0 .. Chunk : CreateGrowing(n)
  BY <1>1, CreateFreeInv, CreateGrowingInv
<1>2. CASE Round
  BY <1>2, ControlInv, TakeTimeoutsInv, TakeSelfInv, TakePutInv, MoveOneInv DEF Round
<1>3. CASE GiveUp
  BY <1>3, YieldInv, FinishInv, SleepInv DEF GiveUp
<1>4. CASE Ask \/ (\E c \in Ids : Put(c)) \/ Terminate \/ Clock
  BY <1>4, AskInv, PutInv, ControlInv
<1>5. CASE UNCHANGED vars
  <2>1. UNCHANGED <<list, status, current, pool, wakers, now, terminal, pc, batch, dest, loop, userThread, aborted>>
    BY <1>5 DEF vars, round
  <2>2. TypeOK'
    BY <2>1 DEF IInv, TypeOK, pool, wakers
  <2>3. RunningIsFirst' /\ Phase'
    BY <2>1 DEF IInv, RunningIsFirst, Phase, wakers
  <2>4. QED
    BY <2>1, <2>2, <2>3, QuietInv
<1>6. QED
  BY <1>1, <1>2, <1>3, <1>4, <1>5 DEF Next

-----------------------------------------------------------------------------
(* Theorems *)

\* Every list, queue and count of the scheduler keeps its type; in particular
\* no count leaves 0 .. poolSize_, whatever allocations fail
\* (CoroutineScheduler.cc:194-310).
THEOREM TypeCorrect == Spec => []TypeOK
<1>1. IInv => TypeOK
  BY DEF IInv
<1>2. QED
  BY <1>1, InitInv, StepInv, PTL DEF Spec

\* The intrusive lists stay intact for every size of the pool, through every
\* sequence of moves (CoroutineScheduler.cc:489-570).
THEOREM ListsIntact == Spec => []ListsMatchStatus
<1>1. IInv => ListsMatchStatus
  BY DEF IInv
<1>2. QED
  BY <1>1, InitInv, StepInv, PTL DEF Spec

\* usedSize_ and currentSize_ are the numbers of coroutines used and created,
\* and the assertion of generateId fails only after a stack could not be
\* allocated (CoroutineScheduler.cc:194-310, 478-482).
THEOREM PoolCounted == Spec => []PoolCounts
<1>1. IInv => PoolCounts
  BY DEF IInv
<1>2. QED
  BY <1>1, InitInv, StepInv, PTL DEF Spec

\* The coroutine that runs heads the list that the main coroutine works
\* through (CoroutineScheduler.cc:311-375), although it may create others.
THEOREM RunningFirst == Spec => []RunningIsFirst
<1>1. IInv => RunningIsFirst
  BY DEF IInv
<1>2. QED
  BY <1>1, InitInv, StepInv, PTL DEF Spec

\* No wake-up is lost, also when put() comes before the coroutine that asked
\* has yielded (CoroutineScheduler.cc:377-465).
THEOREM WakeupsKept == Spec => []NoLostWakeup
<1>1. IInv => NoLostWakeup
  BY DEF IInv, Due, NoLostWakeup
<1>2. QED
  BY <1>1, InitInv, StepInv, PTL DEF Spec

\* A timer that is gone after a step was due.
LEMMA TimersGo ==
    ASSUME IInv, Next, NEW i \in 1 .. Len(timers), timers[i] \notin Elements(timers')
    PROVE  timers[i].at <= now
<1>1. timers \in Seq(Timer) /\ timers[i] \in Elements(timers) /\ Len(timers) \in Nat
  BY HeldFacts DEF IInv, TypeOK
<1>2. CASE timers' = timers
  BY <1>1, <1>2
<1>3. ASSUME NEW d \in 0 .. MaxTime, Sleep(d) PROVE FALSE
  <2> DEFINE x == [at |-> now + d, id |-> current]
  <2>1. current \in Ids
    BY <1>3, RunningFacts DEF Sleep
  <2>2. x \in Timer /\ x.id = current /\ timers' = Inserted(timers, UpperBound(timers, x.at), x)
    BY <1>3, <2>1, TimeAssumption DEF IInv, TypeOK, Sleep, Timer
  <2> HIDE DEF x
  <2>3. Elements(timers) \subseteq Elements(timers')
    BY <2>1, <2>2, TimerInserted
  <2>4. QED
    BY <1>1, <2>3
<1>4. CASE TakeTimeouts
  <2> DEFINE n == IF terminal THEN 0 ELSE UpperBound(timers, now) - 1
  <2>1. n \in 0 .. Len(timers) /\ \A k \in 1 .. n : timers[k].at <= now
    BY <1>1, TimerPrefix
  <2>2. timers' = [k \in 1 .. Len(timers) - n |-> timers[k + n]]
    BY <1>4 DEF TakeTimeouts
  <2> HIDE DEF n
  <2>3. CASE i <= n
    BY <2>1, <2>3
  <2>4. CASE ~(i <= n)
    <3>1. i - n \in 1 .. Len(timers) - n /\ (i - n) + n = i /\ Len(timers) - n \in Nat
      BY <1>1, <2>1, <2>4
    <3>2. Len(timers') = Len(timers) - n /\ timers'[i - n] = timers[i]
      BY <2>2, <3>1
    <3>3. QED
      BY <3>1, <3>2 DEF Elements
  <2>5. QED
    BY <2>3, <2>4
<1>5. timers' = timers \/ TakeTimeouts \/ \E d \in 0 .. MaxTime : Sleep(d)
  BY DEF Next, CreateFree, CreateGrowing, Round, RoundBegin, TakeSelf, TakePut, MoveOne, MoveEnd,
     SwitchTo, ListEnd, RoundEnd, Stop, Ask, GiveUp, Yield, YieldWait, Finish, Put, Terminate, Clock, wakers
<1>6. QED
  BY <1>2, <1>3, <1>4, <1>5

\* A coroutine that a step wakes from its sleep was woken by put() or has no
\* timer left.
LEMMA SleeperWakes ==
    ASSUME IInv, Next, NEW c \in Ids \ cut, status[c] = "timeout", status'[c] # "timeout"
    PROVE  dest = "wake" \/ c \notin Sleepers
<1>1. CASE MoveOne
  <2>1. batch \in Seq(Ids) /\ batch # <<>>
    BY <1>1 DEF MoveOne, IInv, TypeOK
  <2>2. Head(batch) \in Elements(batch)
    BY <2>1, HeldFacts
  <2>3. c = Head(batch)
    BY <1>1 DEF MoveOne, Moved, IInv, TypeOK
  <2>4. dest \in {"timeout", "wake"}
    BY <1>1, <2>3 DEF MoveOne, Wakes, IInv, TypeOK
  <2>5. QED
    BY <2>2, <2>3, <2>4 DEF IInv, SoleTimer
<1>2. CASE GiveUp
  <2>1. CoroRuns /\ \E to \in Lists : Moved(current, to)
    BY <1>2 DEF GiveUp, Yield, YieldWait, Finish, Sleep, Lists
  <2>2. current = c
    BY <2>1 DEF Moved, IInv, TypeOK
  <2>3. QED
    BY <2>1, <2>2, RunningFacts
<1>3. CASE CreateFree \/ \E n \in 0 .. Chunk : CreateGrowing(n)
  <2>1. CASE CreateFree
    <3>1. Moved(Head(list["free"]), "avail") /\ list["free"] \in Seq(Ids) /\ list["free"] # <<>> /\ "free" \in Lists
      BY <2>1 DEF CreateFree, PoolShort, IInv, TypeOK, Lists
    <3>2. Head(list["free"]) \in Elements(list["free"]) /\ Head(list["free"]) \in Ids
      BY <3>1, HeldFacts
    <3>3. status[Head(list["free"])] = "free"
      BY <3>1, <3>2 DEF IInv, ListsMatchStatus
    <3>4. QED
      BY <3>1, <3>3 DEF Moved, IInv, TypeOK
  <2>2. ASSUME NEW n \in 0 .. Chunk, CreateGrowing(n) PROVE FALSE
    <3>1. status' # status
      OBVIOUS
    <3>2. /\ n \in Nat /\ n > 0 /\ uniqId + n <= PoolSize
      BY <2>2, <3>1, PoolAssumption DEF CreateGrowing, IInv, TypeOK
    <3>3. \A u \in Ids : \/ status'[u] = status[u]
                         \/ /\ status'[u] \notin {"inactive", "timeout"}
                            /\ status[u] \notin {"inactive", "timeout"}
      BY <2>2, <3>1, <3>2, Grown DEF CreateGrowing
    <3>4. QED
      BY <3>3
  <2>3. QED
    BY <1>3, <2>1, <2>2
<1>4. status' = status \/ MoveOne \/ GiveUp \/ CreateFree \/ \E n \in 0 .. Chunk : CreateGrowing(n)
  BY DEF Next, Round, RoundBegin, TakeTimeouts, TakeSelf, TakePut, MoveEnd,
     SwitchTo, ListEnd, RoundEnd, Stop, Ask, Put, Terminate, Clock
<1>5. QED
  BY <1>1, <1>2, <1>3, <1>4

\* A sleep is cut short by a put() on the sleeper, or by the timer that such a
\* put() left behind, and by nothing else, however the timers, put() and the
\* other wake-ups interleave (CoroutineScheduler.cc:386-465, 489-499).
THEOREM SleepsKept == Spec => SleepsLongEnough
<1> DEFINE A == /\ \A c \in Ids \ cut : status[c] = "timeout" /\ status'[c] # "timeout" =>
                      dest = "wake" \/ c \notin Sleepers
                /\ \A i \in 1 .. Len(timers) : timers[i] \notin Elements(timers') => timers[i].at <= now
<1>1. IInv /\ [Next]_vars => [A]_vars
  <2> SUFFICES ASSUME IInv, Next PROVE A
    BY Zenon
  <2>1. \A c \in Ids \ cut : status[c] = "timeout" /\ status'[c] # "timeout" => dest = "wake" \/ c \notin Sleepers
    BY SleeperWakes
  <2>2. \A i \in 1 .. Len(timers) : timers[i] \notin Elements(timers') => timers[i].at <= now
    BY TimersGo
  <2>3. QED
    BY <2>1, <2>2
<1>2. QED
  BY <1>1, InitInv, StepInv, PTL DEF Spec, SleepsLongEnough
=============================================================================
