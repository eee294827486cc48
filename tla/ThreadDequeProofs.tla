------------------------- MODULE ThreadDequeProofs --------------------------
(***************************************************************************)
(* ThreadDeque is a deque that threads share, for any number of producers  *)
(* and consumers, any bulk and any length of the waits.                    *)
(***************************************************************************)
EXTENDS ThreadDeque, FiniteSetTheorems, SequenceTheorems, TLAPS

-----------------------------------------------------------------------------
(* The inductive invariant. *)

\* Whoever is between Lock's constructor and its destructor, and is not
\* waiting, has the mutex.
AtWork  == {"body", "remove", "count"}
Holding == \A t \in Threads : pc[t] \in AtWork \cup {"unlock"} <=> mutex = t

\* A push counts a notification for each element that it has moved.
Notifying == \A t \in Threads :
    pc[t] \in {"body", "count"} /\ op[t].name \in Pushes
        => notify >= 0 /\ notify + Len(offer[t]) <= Bulk

\* What a thread has still to push is there until it is moved.
Offering == \A t \in Threads :
    /\ Len(offer[t]) <= Bulk
    /\ offer[t] # <<>> => pc[t] \in {"lock", "body", "count"} /\ op[t].name \in Pushes
    /\ pc[t] \in {"lock", "body"} /\ op[t].name \in Pushes => offer[t] # <<>>

\* size_ is off by what the thread inside has done to deque_ in the statement
\* before.
Sized == /\ size \in 0 .. MaxElements
         /\ (\A t \in Threads : pc[t] # "count") => size = Len(deque)
         /\ \A t \in Threads : pc[t] = "remove" => op[t].name = "pop_front" /\ deque # <<>>
         /\ \A t \in Threads : pc[t] = "count" =>
               \/ op[t].name \in Pushes /\ Len(deque) = size + 1
               \/ op[t].name = "pop_front" /\ size = Len(deque) + 1
               \/ op[t].name \in {"swap", "clear"} /\ deque = <<>>

\* No element is in two places, so no more than MaxElements are anywhere.
Numbered == /\ \A i \in 1 .. Len(deque) : deque[i] <= pushed
            /\ \A t \in Threads : \A i \in 1 .. Len(offer[t]) : offer[t][i] <= pushed
Distinct(s) == \A i, j \in 1 .. Len(s) : s[i] = s[j] => i = j
Disjoint(s, r) == \A i \in 1 .. Len(s), j \in 1 .. Len(r) : s[i] # r[j]
Apart == /\ Distinct(deque)
         /\ \A t \in Threads : Distinct(offer[t]) /\ Disjoint(offer[t], deque)
         /\ \A t, u \in Threads : t # u => Disjoint(offer[t], offer[u])

\* The kernel's deadline and the caller's are less than a second apart.
Deadlines == \A t \in Timed : /\ left[t] - due[t] < Second /\ due[t] - left[t] < Second
                              /\ due[t] > -Second

Content == /\ deque \in Seq(Elements) /\ Len(deque) <= MaxElements
           /\ offer \in [Threads -> Seq(Elements)] /\ pushed \in 0 .. MaxElements
           /\ Numbered /\ Apart

Waits == /\ left \in [Threads -> Int \cup {Forever}] /\ due \in [Threads -> Int]
         /\ Deadlines

Control == /\ mutex \in Threads \cup {None} /\ notify \in -1 .. Bulk
           /\ pc \in [Threads -> AtWork \cup {"idle", "lock", "wait", "relock", "unlock"}]
           /\ op \in [Threads -> Ops] /\ hand \in [Threads -> Seq(Elements)]
           /\ signals \in 0 .. MaxSignals
           /\ Holding /\ Notifying /\ Offering

IInv == Content /\ Sized /\ Waits /\ Control

-----------------------------------------------------------------------------
(* Lemmas *)

\* Distinct numbers up to n are at most n.
LEMMA Pigeonhole ==
    ASSUME NEW n \in Nat, NEW s \in Seq(1 .. n),
           Distinct(s)
    PROVE  Len(s) <= n
<1>1. s \in Injection(1 .. Len(s), 1 .. n)
  BY SMTT(30) DEF Injection, IsInjective, Distinct
<1>2. /\ IsFiniteSet(1 .. n) /\ Cardinality(1 .. n) = n
      /\ Len(s) \in Nat /\ Cardinality(1 .. Len(s)) = Len(s)
  <2>1. \A a, b \in Int : /\ IsFiniteSet(a .. b)
                          /\ Cardinality(a .. b) = IF a > b THEN 0 ELSE b - a + 1
    BY FS_Interval
  <2>2. 1 \in Int /\ n \in Int /\ Len(s) \in Int /\ Len(s) >= 0
    OBVIOUS
  <2>3. \A m \in Int : /\ IsFiniteSet(1 .. m)
                       /\ Cardinality(1 .. m) = IF 1 > m THEN 0 ELSE m - 1 + 1
    BY <2>1, <2>2, Zenon
  <2>4. \A m \in Nat : IsFiniteSet(1 .. m) /\ Cardinality(1 .. m) = m
    BY <2>3
  <2>5. QED
    BY <2>2, <2>4
<1>3. Cardinality(1 .. Len(s)) <= Cardinality(1 .. n)
  BY <1>1, <1>2, FS_Injection
<1>4. QED
  BY <1>2, <1>3

\* A set of naturals with a bound has a largest member, and Max is it.
LEMMA MaxBounded ==
    ASSUME NEW b \in Nat, NEW S \in SUBSET (0 .. b), S # {}
    PROVE  Max(S) \in S
<1> DEFINE T == {k \in Nat : b - k \in S}
           R == OpToRel(<, Nat)
<1>1. T \subseteq Nat /\ T # {}
  <2>1. PICK m \in S : TRUE
    OBVIOUS
  <2>2. m \in 0 .. b /\ b - (b - m) = m
    OBVIOUS
  <2>3. b - m \in T
    BY <2>2
  <2>4. QED
    BY <2>3
<1>2. IsWellFoundedOn(R, Nat)
  BY NatLessThanWellFounded
<1>3. \A x, y \in Nat : y < x => <<y, x>> \in R
  BY DEF OpToRel
<1> HIDE DEF R
<1>4. PICK x \in T : \A y \in T : ~(<<y, x>> \in R)
  BY <1>1, <1>2, WFMin, Zenon
<1>5. b - x \in S
  OBVIOUS
<1>6. ASSUME NEW n \in S PROVE b - x >= n
  <2>1. n \in 0 .. b /\ b - (b - n) = n /\ b - n \in Nat /\ x \in Nat
    OBVIOUS
  <2>2. b - n \in T
    BY <2>1
  <2>3. ~(b - n < x)
    BY <1>3, <1>4, <2>1, <2>2
  <2>4. QED
    BY <2>1, <2>3
<1>7. QED
  BY <1>5, <1>6 DEF Max

\* What the code computes for a fraction is a number up to a whole second.
LEMMA BitAndType ==
    ASSUME NEW a \in Nat, NEW b \in Nat
    PROVE  BitAnd(a, b) \in 0 .. b
<1> DEFINE S == {n \in 0 .. b : \A i \in 1 .. b : HasBit(n, i) => HasBit(a, i) /\ HasBit(b, i)}
<1>1. \A i \in 1 .. b : ~HasBit(0, i)
  BY DEF HasBit
<1>2. 0 \in S
  BY <1>1
<1>3. Max(S) \in S
  BY <1>2, MaxBounded
<1>4. QED
  BY <1>3 DEF BitAnd

LEMMA NoOpType == NoOp \in Ops /\ NoOp.name = "clear" /\ NoOp.name \notin Pushes
BY DEF NoOp, Ops, Pushes

-----------------------------------------------------------------------------
(* Every step preserves the invariant. *)

\* Elements are numbers.
LEMMA ElementNumber ==
    ASSUME NEW s \in Seq(Elements), NEW i \in 1 .. Len(s)
    PROVE  s[i] \in Int
<1>1. s[i] \in Elements
  OBVIOUS
<1>2. QED
  BY <1>1 DEF Elements

LEMMA InvType == IInv => TypeOK
BY SizesAssumption DEF IInv, TypeOK, Content, Sized, Waits, Control, AtWork

LEMMA InitInv == Init => IInv
<1> SUFFICES ASSUME Init PROVE IInv
  OBVIOUS
<1>1. Content
  BY SizesAssumption DEF Init, Content, Numbered, Apart, Distinct, Disjoint
<1>2. Waits
  BY SizesAssumption DEF Init, Waits, Deadlines, Timed, Sleeping
<1>3. Control
  BY SizesAssumption, ThreadsAssumption, NoOpType
     DEF Init, Control, Holding, AtWork, Notifying, Offering, Threads
<1>4. Sized
  BY SizesAssumption DEF Init, Sized
<1>5. QED
  BY <1>1, <1>2, <1>3, <1>4 DEF IInv

\* Steps that leave the elements where they are.
LEMMA ContentFrame ==
    ASSUME Content, UNCHANGED <<deque, offer, pushed>>
    PROVE  Content'
BY DEF Content, Numbered, Apart

\* Steps of threads that are not in the middle of a method.
LEMMA SizedFrame ==
    ASSUME Sized, UNCHANGED <<deque, size>>,
           \A t \in Threads : pc[t] \in {"remove", "count"} \/ pc'[t] \in {"remove", "count"}
                                => pc'[t] = pc[t] /\ op'[t] = op[t]
    PROVE  Sized'
BY DEF Sized

\* Steps that put nobody to sleep.
LEMMA WaitsFrame ==
    ASSUME Waits, UNCHANGED <<left, due>>,
           \A t \in Threads : pc'[t] = "wait" => pc[t] = "wait"
    PROVE  Waits'
BY DEF Waits, Deadlines, Timed, Sleeping

\* An element that is new to a sequence of distinct ones, at either end.
LEMMA OneMore ==
    ASSUME NEW S, NEW d \in Seq(S), NEW e \in S, NEW r,
           Distinct(d), \A i \in 1 .. Len(d) : d[i] # e,
           r = Append(d, e) \/ r = <<e>> \o d
    PROVE  /\ r \in Seq(S) /\ Len(r) = Len(d) + 1 /\ Distinct(r)
           /\ \A i \in 1 .. Len(r) : r[i] = e \/ \E j \in 1 .. Len(d) : r[i] = d[j]
<1>1. Len(d) \in Nat
  OBVIOUS
<1>2. CASE r = Append(d, e)
  <2>1. /\ r \in Seq(S) /\ Len(r) = Len(d) + 1
        /\ \A i \in 1 .. Len(d) + 1 : r[i] = IF i <= Len(d) THEN d[i] ELSE e
    BY <1>2
  <2>2. \A i \in 1 .. Len(d) + 1 : i <= Len(d) => i \in 1 .. Len(d)
    BY <1>1
  <2>3. \A i, j \in 1 .. Len(d) + 1 : ~(i <= Len(d)) /\ ~(j <= Len(d)) => i = j
    BY <1>1
  <2>4. Distinct(r)
    BY <2>1, <2>2, <2>3 DEF Distinct
  <2>5. QED
    BY <2>1, <2>2, <2>4
<1>3. CASE r = <<e>> \o d
  <2>1. <<e>> \in Seq(S) /\ Len(<<e>>) = 1 /\ <<e>>[1] = e
    OBVIOUS
  <2>2. /\ <<e>> \o d \in Seq(S) /\ Len(<<e>> \o d) = Len(<<e>>) + Len(d)
        /\ \A i \in 1 .. Len(<<e>>) + Len(d) :
              (<<e>> \o d)[i] = IF i <= Len(<<e>>) THEN <<e>>[i] ELSE d[i - Len(<<e>>)]
    BY <2>1, ConcatProperties
  <2>3. r \in Seq(S) /\ Len(r) = Len(d) + 1
    BY <1>1, <1>3, <2>1, <2>2
  <2>4. ASSUME NEW i \in 1 .. Len(d) + 1
        PROVE  /\ i = 1 => r[i] = e
               /\ i # 1 => r[i] = d[i - 1] /\ i - 1 \in 1 .. Len(d)
    BY <1>1, <1>3, <2>1, <2>2
  <2>5. Distinct(r)
    <3> SUFFICES ASSUME NEW i \in 1 .. Len(r), NEW j \in 1 .. Len(r), r[i] = r[j]
                 PROVE  i = j
      BY DEF Distinct
    <3>1. i \in 1 .. Len(d) + 1 /\ j \in 1 .. Len(d) + 1
      BY <2>3
    <3>2. CASE i # 1 /\ j # 1
      <4>1. i - 1 = j - 1
        BY <2>4, <3>1, <3>2, SMTT(30) DEF Distinct
      <4>2. QED
        BY <3>1, <4>1
    <3>3. CASE i = 1 \/ j = 1
      BY <2>4, <3>1, <3>3
    <3>4. QED
      BY <3>2, <3>3
  <2>6. QED
    BY <2>3, <2>4, <2>5
<1>4. QED
  BY <1>2, <1>3

\* What is left of a sequence without its first element.
LEMMA OneLess ==
    ASSUME NEW S, NEW s \in Seq(S), s # <<>>
    PROVE  /\ Head(s) \in S /\ Head(s) = s[1] /\ 1 \in 1 .. Len(s)
           /\ Tail(s) \in Seq(S) /\ Len(Tail(s)) = Len(s) - 1 /\ Len(s) \in Nat /\ Len(s) > 0
           /\ \A i \in 1 .. Len(Tail(s)) : i + 1 \in 1 .. Len(s) /\ Tail(s)[i] = s[i + 1]
           /\ Distinct(s) => Distinct(Tail(s)) /\ \A i \in 1 .. Len(Tail(s)) : Tail(s)[i] # Head(s)
<1>1. Len(s) \in Nat /\ Len(s) > 0 /\ 1 \in 1 .. Len(s) /\ Head(s) = s[1] /\ Head(s) \in S
  OBVIOUS
<1>2. /\ Tail(s) \in Seq(S) /\ Len(Tail(s)) = Len(s) - 1
      /\ \A i \in 1 .. Len(Tail(s)) : Tail(s)[i] = s[i + 1]
  BY HeadTailProperties
<1>3. \A i \in 1 .. Len(Tail(s)) : i \in Int /\ i + 1 \in 1 .. Len(s) /\ i + 1 # 1
  BY <1>1, <1>2
<1>4. ASSUME Distinct(s)
      PROVE  Distinct(Tail(s)) /\ \A i \in 1 .. Len(Tail(s)) : Tail(s)[i] # Head(s)
  <2>1. ASSUME NEW i \in 1 .. Len(Tail(s)), NEW j \in 1 .. Len(Tail(s)), Tail(s)[i] = Tail(s)[j]
        PROVE  i = j
    <3>1. i + 1 = j + 1
      BY <1>2, <1>3, <1>4, <2>1 DEF Distinct
    <3>2. QED
      BY <1>3, <3>1
  <2>2. Distinct(Tail(s))
    BY <2>1 DEF Distinct
  <2>3. QED
    BY <1>1, <1>2, <1>3, <1>4, <2>2 DEF Distinct
<1>5. QED
  BY <1>1, <1>2, <1>3, <1>4

\* A push moves its next element to one end of the deque.
LEMMA MoveContent ==
    ASSUME Content, NEW t \in Threads, offer[t] # <<>>,
           deque' = Append(deque, Head(offer[t])) \/ deque' = <<Head(offer[t])>> \o deque,
           offer' = [offer EXCEPT ![t] = Tail(offer[t])], pushed' = pushed
    PROVE  Content' /\ Len(deque') = Len(deque) + 1
<1> DEFINE s == offer[t]
           e == Head(s)
           r == Tail(s)
           d == deque'
<1>1. /\ deque \in Seq(Elements) /\ s \in Seq(Elements) /\ s # <<>> /\ Distinct(deque)
      /\ Distinct(s) /\ Disjoint(s, deque) /\ Numbered /\ Apart
      /\ offer \in [Threads -> Seq(Elements)] /\ pushed \in 0 .. MaxElements
  BY DEF Content, Apart
<1>2. offer' \in [Threads -> Seq(Elements)] /\ r \in Seq(Elements)
  BY <1>1, OneLess
<1>3. offer'[t] = r /\ \A u \in Threads : u # t => offer'[u] = offer[u]
  BY <1>1
<1>4. /\ e \in Elements /\ e = s[1] /\ 1 \in 1 .. Len(s)
      /\ \A i \in 1 .. Len(r) : i + 1 \in 1 .. Len(s) /\ r[i] = s[i + 1]
      /\ Distinct(r) /\ \A i \in 1 .. Len(r) : r[i] # e
  BY <1>1, OneLess
<1>5. d = Append(deque, e) \/ d = <<e>> \o deque
  OBVIOUS
<1> HIDE DEF s, e, r, d
<1>6. \A i \in 1 .. Len(deque) : deque[i] # e
  BY <1>1, <1>4 DEF Disjoint
<1>7. /\ d \in Seq(Elements) /\ Len(d) = Len(deque) + 1 /\ Distinct(d)
      /\ \A i \in 1 .. Len(d) : d[i] = e \/ \E j \in 1 .. Len(deque) : d[i] = deque[j]
  <2>1. deque \in Seq(Elements) /\ e \in Elements /\ Distinct(deque)
    BY <1>1, <1>4
  <2>2. \A r0 : r0 = Append(deque, e) \/ r0 = <<e>> \o deque =>
            /\ r0 \in Seq(Elements) /\ Len(r0) = Len(deque) + 1 /\ Distinct(r0)
            /\ \A i \in 1 .. Len(r0) : r0[i] = e \/ \E j \in 1 .. Len(deque) : r0[i] = deque[j]
    BY <1>6, <2>1, OneMore, SMTT(30)
  <2>3. QED
    BY <1>5, <2>2
<1>8. Len(d) <= MaxElements
  BY <1>7, Pigeonhole, SizesAssumption DEF Elements
<1>9. Numbered'
  <2>1. \A i \in 1 .. Len(s) : s[i] <= pushed
    BY <1>1 DEF Numbered, s
  <2>2. \A i \in 1 .. Len(d) : d[i] <= pushed
    BY <1>1, <1>4, <1>7, <2>1 DEF Numbered
  <2>3. \A i \in 1 .. Len(r) : r[i] <= pushed
    BY <1>4, <2>1
  <2>4. \A u \in Threads : \A i \in 1 .. Len(offer'[u]) : offer'[u][i] <= pushed
    BY <1>1, <1>3, <2>3 DEF Numbered
  <2>5. QED
    BY <2>2, <2>4 DEF Numbered, d
<1>10. Apart'
  <2>1. Disjoint(r, d)
    BY <1>1, <1>4, <1>7, SMTT(30) DEF Disjoint
  <2>2. \A u \in Threads : u # t => Disjoint(offer[u], deque) /\ Disjoint(offer[u], s) /\ Disjoint(s, offer[u])
    BY <1>1 DEF Apart, s
  <2>3. ASSUME NEW u \in Threads, u # t PROVE Disjoint(offer[u], d)
    <3>1. Disjoint(offer[u], deque) /\ Disjoint(offer[u], s)
      BY <2>2, <2>3
    <3>2. \A i \in 1 .. Len(d) : \/ \E k \in 1 .. Len(s) : d[i] = s[k]
                                 \/ \E j \in 1 .. Len(deque) : d[i] = deque[j]
      BY <1>4, <1>7
    <3>3. QED
      BY <3>1, <3>2 DEF Disjoint
  <2>4. ASSUME NEW u \in Threads, u # t PROVE Disjoint(offer[u], r) /\ Disjoint(r, offer[u])
    <3>1. Disjoint(offer[u], s) /\ Disjoint(s, offer[u])
      BY <2>2, <2>4
    <3>2. \A i \in 1 .. Len(r) : \E k \in 1 .. Len(s) : r[i] = s[k]
      BY <1>4
    <3>3. QED
      BY <3>1, <3>2 DEF Disjoint
  <2>5. Apart
    BY <1>1
  <2>6. QED
    BY <1>3, <1>4, <1>7, <2>1, <2>3, <2>4, <2>5 DEF Apart, d
<1>11. QED
  BY <1>1, <1>2, <1>7, <1>8, <1>9, <1>10 DEF Content, d

\* A step that takes elements out leaves no more than a suffix.
LEMMA TakeContent ==
    ASSUME Content, offer' = offer, pushed' = pushed,
           \/ deque # <<>> /\ deque' = Tail(deque)
           \/ deque' = <<>>
    PROVE  Content'
<1>1. CASE deque # <<>> /\ deque' = Tail(deque)
  <2>1. deque \in Seq(Elements) /\ Distinct(deque) /\ Len(deque) <= MaxElements
    BY DEF Content, Apart
  <2>2. /\ Tail(deque) \in Seq(Elements) /\ Len(Tail(deque)) = Len(deque) - 1
        /\ Len(deque) \in Nat /\ Distinct(Tail(deque))
        /\ \A i \in 1 .. Len(Tail(deque)) : i + 1 \in 1 .. Len(deque) /\ Tail(deque)[i] = deque[i + 1]
    BY <1>1, <2>1, OneLess
  <2>3. \A t \in Threads : Disjoint(offer[t], Tail(deque))
    BY <2>2 DEF Content, Apart, Disjoint
  <2>4. Numbered'
    BY <1>1, <2>2 DEF Content, Numbered
  <2>5. Apart'
    BY <1>1, <2>2, <2>3 DEF Content, Apart
  <2>6. Len(Tail(deque)) <= MaxElements
    BY <2>1, <2>2, SizesAssumption
  <2>7. QED
    BY <1>1, <2>2, <2>4, <2>5, <2>6 DEF Content
<1>2. CASE deque' = <<>>
  BY <1>2, SizesAssumption DEF Content, Numbered, Apart, Distinct, Disjoint
<1>3. QED
  BY <1>1, <1>2

LEMMA CallPushInv == ASSUME IInv, NEW t \in Producers, CallPush(t) PROVE IInv'
<1>0. t \in Threads
  BY DEF Threads
<1>1. PICK n \in 1 .. Bulk, name \in Pushes :
         /\ pushed + n <= MaxElements /\ pushed' = pushed + n
         /\ offer' = [offer EXCEPT ![t] = [i \in 1 .. n |-> pushed + i]]
         /\ Call(t, name, 0)
         /\ UNCHANGED <<deque, size, hand, mutex, notify, wait, signals>>
  BY DEF CallPush
<1> DEFINE new == [i \in 1 .. n |-> pushed + i]
<1>2. /\ new \in Seq(Elements) /\ Len(new) = n
      /\ \A i \in 1 .. n : new[i] = pushed + i
  BY <1>1, SizesAssumption DEF Elements, IInv, Content
<1>3. offer' = [offer EXCEPT ![t] = new]
  BY <1>1
<1> HIDE DEF new
<1>4. Content'
  <2>0. Content /\ n \in Int /\ n > 0 /\ pushed \in Int
    BY DEF IInv, Content
  <2>1. deque' = deque /\ size' = size /\ pushed' = pushed + n /\ pushed' \in 0 .. MaxElements
    BY <1>1, SizesAssumption DEF IInv, Content
  <2>2. offer' \in [Threads -> Seq(Elements)]
    BY <1>2, <1>3 DEF IInv, Content
  <2>3. offer'[t] = new /\ \A u \in Threads : u # t => offer'[u] = offer[u]
    BY <1>0, <1>3 DEF IInv, Content
  <2>4. \A u \in Threads : \A i \in 1 .. Len(offer[u]) : offer[u][i] \in Int /\ offer[u][i] <= pushed
    BY ElementNumber DEF IInv, Content, Numbered
  <2>5. \A i \in 1 .. Len(deque) : deque[i] \in Int /\ deque[i] <= pushed
    BY ElementNumber DEF IInv, Content, Numbered
  <2>6. Numbered'
    <3>1. ASSUME NEW u \in Threads, NEW i \in 1 .. Len(offer'[u]) PROVE offer'[u][i] <= pushed'
      <4>1. CASE u = t
        BY <1>2, <2>0, <2>1, <2>3, <4>1
      <4>2. CASE u # t
        BY <2>0, <2>1, <2>3, <2>4, <4>2
      <4>3. QED
        BY <4>1, <4>2
    <3>2. \A i \in 1 .. Len(deque') : deque'[i] <= pushed'
      BY <2>0, <2>1, <2>5
    <3>3. QED
      BY <3>1, <3>2 DEF Numbered
  <2>7. Apart'
    <3>1. Distinct(new)
      BY <1>2, <2>0 DEF Distinct
    <3>2. Disjoint(new, deque)
      BY <1>2, <2>0, <2>5 DEF Disjoint
    <3>3. \A u \in Threads : Disjoint(new, offer[u]) /\ Disjoint(offer[u], new)
      BY <1>2, <2>0, <2>4, SMTT(30) DEF Disjoint
    <3>4. Apart
      BY <2>0 DEF Content
    <3>5. QED
      BY <1>0, <2>1, <2>3, <3>1, <3>2, <3>3, <3>4 DEF Apart
  <2>8. QED
    BY <2>0, <2>1, <2>2, <2>6, <2>7 DEF Content
<1>5. Waits'
  BY <1>0, <1>1, WaitsFrame DEF IInv, Control, Call, Goes, wait
<1>6. Control'
  <2> USE DEF IInv, Control
  <2>1. [name |-> name, limit |-> 0] \in Ops
    BY DEF Ops
  <2>2. /\ pc[t] = "idle" /\ pc' = [pc EXCEPT ![t] = "lock"]
        /\ op' = [op EXCEPT ![t] = [name |-> name, limit |-> 0]]
        /\ UNCHANGED <<hand, mutex, notify, signals>>
    BY <1>1 DEF Call, Goes
  <2>3. Holding' /\ Notifying'
    <3>1. pc \in [Threads -> AtWork \cup {"idle", "lock", "wait", "relock", "unlock"}]
      OBVIOUS
    <3>2. /\ pc'[t] = "lock" /\ \A u \in Threads : u # t => /\ pc'[u] = pc[u] /\ op'[u] = op[u]
                                                           /\ offer'[u] = offer[u]
      BY <1>0, <1>3, <2>2, <3>1 DEF Content
    <3>3. Holding'
      BY <1>0, <2>2, <3>2 DEF Holding, AtWork
    <3>4. Notifying'
      BY <2>2, <3>2 DEF Notifying
    <3>5. QED
      BY <3>3, <3>4
  <2>4. Offering'
    <3>1. offer'[t] = new /\ new # <<>> /\ \A u \in Threads : u # t => offer'[u] = offer[u]
      BY <1>0, <1>2, <1>3 DEF Content
    <3>2. op'[t].name = name /\ \A u \in Threads : u # t => op'[u] = op[u] /\ pc'[u] = pc[u]
      BY <1>0, <2>2
    <3>3. pc'[t] = "lock" /\ Len(new) <= Bulk
      BY <1>0, <1>2, <2>2, SizesAssumption
    <3>4. ASSUME NEW u \in Threads
          PROVE  /\ Len(offer'[u]) <= Bulk
                 /\ offer'[u] # <<>> => pc'[u] \in {"lock", "body", "count"} /\ op'[u].name \in Pushes
                 /\ pc'[u] \in {"lock", "body"} /\ op'[u].name \in Pushes => offer'[u] # <<>>
      <4>1. CASE u = t
        BY <3>1, <3>2, <3>3, <4>1
      <4>2. CASE u # t
        BY <3>1, <3>2, <4>2 DEF Offering
      <4>3. QED
        BY <4>1, <4>2
    <3>5. QED
      BY <3>4 DEF Offering
  <2>5. QED
    BY <2>1, <2>2, <2>3, <2>4
<1>7. Sized'
  BY <1>0, <1>1, SizedFrame DEF IInv, Control, Call, Goes
<1>8. QED
  BY <1>4, <1>5, <1>6, <1>7 DEF IInv

\* Calls of the other methods, by whichever thread.
LEMMA CallInv ==
    ASSUME IInv, NEW t \in Threads, NEW o \in Ops, o.name \notin Pushes, NEW h \in Seq(Elements),
           pc[t] = "idle" /\ pc' = [pc EXCEPT ![t] = "lock"],
           op' = [op EXCEPT ![t] = o], hand' = [hand EXCEPT ![t] = h] \/ hand' = hand,
           signals' \in 0 .. MaxSignals,
           UNCHANGED <<deque, size, offer, mutex, notify, wait, pushed>>
    PROVE  IInv'
<1>1. Content'
  BY ContentFrame DEF IInv
<1>2. Waits'
  BY WaitsFrame DEF IInv, Control, wait
<1>3. Control'
  <2> USE DEF IInv, Control
  <2>1. hand' \in [Threads -> Seq(Elements)] /\ op' \in [Threads -> Ops]
    OBVIOUS
  <2>2. Holding' /\ Notifying'
    BY DEF Holding, AtWork, Notifying
  <2>3. Offering'
    <3>1. offer[t] = <<>>
      BY DEF Offering
    <3>2. QED
      BY <3>1 DEF Offering
  <2>4. QED
    BY <2>1, <2>2, <2>3
<1>4. Sized'
  BY SizedFrame DEF IInv, Control
<1>5. QED
  BY <1>1, <1>2, <1>3, <1>4 DEF IInv

LEMMA CallTakeInv == ASSUME IInv, NEW t \in Consumers, CallTake(t) PROVE IInv'
<1>1. PICK name \in {"pop_front", "swap"}, limit \in Limits : Call(t, name, limit)
  BY DEF CallTake
<1>2. [name |-> name, limit |-> limit] \in Ops /\ name \notin Pushes /\ t \in Threads
  BY DEF Ops, Threads, Pushes
<1>3. <<>> \in Seq(Elements) /\ signals' \in 0 .. MaxSignals
  BY DEF CallTake, IInv, Control
<1>4. QED
  BY <1>1, <1>2, <1>3, CallInv DEF CallTake, Call, Goes, Answer

LEMMA CallSignalInv == ASSUME IInv, NEW t \in Producers, CallSignal(t) PROVE IInv'
<1>1. PICK name \in {"notifyT", "clear", "size"} : Call(t, name, 0)
  BY DEF CallSignal
<1>2. [name |-> name, limit |-> 0] \in Ops /\ name \notin Pushes /\ t \in Threads
  BY DEF Ops, Threads, Pushes
<1>3. <<>> \in Seq(Elements) /\ signals' \in 0 .. MaxSignals
  BY SizesAssumption DEF CallSignal, IInv, Control
<1>4. QED
  BY <1>1, <1>2, <1>3, CallInv DEF CallSignal, Call, Goes, data

LEMMA LockInv == ASSUME IInv, NEW t \in Threads, Lock(t) PROVE IInv'
<1>1. Content'
  BY ContentFrame DEF IInv, Lock, data
<1>2. Waits'
  BY WaitsFrame DEF IInv, Control, wait, Lock, Goes
<1>3. Control'
  <2>1. /\ pc[t] = "lock" /\ pc' = [pc EXCEPT ![t] = "body"] /\ mutex = None /\ mutex' = t
        /\ notify' = 0 /\ UNCHANGED <<hand, offer, op, signals>>
    BY DEF Lock, Goes, Acquires, data
  <2>2. /\ pc \in [Threads -> AtWork \cup {"idle", "lock", "wait", "relock", "unlock"}]
        /\ Holding /\ Offering /\ signals \in 0 .. MaxSignals
        /\ op \in [Threads -> Ops] /\ hand \in [Threads -> Seq(Elements)]
    BY DEF IInv, Control
  <2>3. /\ pc' \in [Threads -> AtWork \cup {"idle", "lock", "wait", "relock", "unlock"}]
        /\ pc'[t] = "body" /\ \A u \in Threads : u # t => pc'[u] = pc[u]
    BY <2>1, <2>2 DEF AtWork
  <2>4. \A u \in Threads : pc[u] \notin AtWork \cup {"unlock"}
    BY <2>1, <2>2, ThreadsAssumption DEF Holding, Threads
  <2>5. Holding'
    BY <2>1, <2>3, <2>4 DEF Holding, AtWork
  <2>6. Notifying'
    <3>1. \A u \in Threads : u # t => pc'[u] \notin {"body", "count"}
      BY <2>3, <2>4 DEF AtWork
    <3>2. Len(offer[t]) <= Bulk /\ Len(offer[t]) \in Nat
      BY <2>2 DEF Offering, IInv, Content
    <3>3. QED
      BY <2>1, <3>1, <3>2 DEF Notifying
  <2>7. Offering'
    BY <2>1, <2>2, <2>3 DEF Offering
  <2>8. QED
    BY <2>1, <2>2, <2>3, <2>5, <2>6, <2>7, SizesAssumption DEF Control
<1>4. Sized'
  BY SizedFrame DEF IInv, Control, Lock, Goes, data
<1>5. QED
  BY <1>1, <1>2, <1>3, <1>4 DEF IInv

LEMMA UnlockInv == ASSUME IInv, NEW t \in Threads, Unlock(t) PROVE IInv'
<1>1. PICK S \in Woken : pc' = [u \in Threads |-> IF u = t THEN "idle"
                                                  ELSE IF u \in S THEN "relock" ELSE pc[u]]
  BY DEF Unlock
<1>2. \A u \in S : u \in Threads /\ pc[u] = "wait"
  BY DEF Woken, Sleeping
<1>3. Content'
  BY ContentFrame DEF IInv, Unlock, data
<1>4. Waits'
  BY <1>1, WaitsFrame DEF IInv, wait, Unlock
<1>5. Control'
  <2> USE DEF IInv, Control, Unlock, Releases, data
  <2>1. Holding' /\ Notifying'
    BY <1>1, <1>2, ThreadsAssumption DEF Holding, AtWork, Notifying, Threads
  <2>2. Offering'
    BY <1>1, <1>2 DEF Offering
  <2>3. pc' \in [Threads -> AtWork \cup {"idle", "lock", "wait", "relock", "unlock"}]
    BY <1>1
  <2>4. QED
    BY <2>1, <2>2, <2>3
<1>6. Sized'
  BY <1>1, <1>2, SizedFrame DEF IInv, Unlock, data
<1>7. QED
  BY <1>3, <1>4, <1>5, <1>6 DEF IInv

LEMMA RelockInv == ASSUME IInv, NEW t \in Threads, Relock(t) PROVE IInv'
<1>1. Content'
  BY ContentFrame DEF IInv, Relock
<1>2. Waits'
  BY DEF IInv, Control, Waits, Deadlines, Timed, Sleeping, Relock, Goes
<1>3. Control'
  <2> USE DEF IInv, Control, Relock, Goes, Acquires, Answer
  <2>1. Holding' /\ Notifying'
    BY ThreadsAssumption DEF Holding, AtWork, Notifying, Threads
  <2>2. Offering'
    BY DEF Offering
  <2>3. QED
    BY <2>1, <2>2, SizesAssumption
<1>4. Sized'
  BY SizedFrame DEF IInv, Control, Relock, Goes
<1>5. QED
  BY <1>1, <1>2, <1>3, <1>4 DEF IInv

LEMMA WaitEndsInv == ASSUME IInv, NEW t \in Threads, WaitEnds(t) PROVE IInv'
<1>1. Content'
  BY ContentFrame DEF IInv, WaitEnds, data
<1>2. Waits'
  BY WaitsFrame DEF IInv, Control, wait, WaitEnds, Goes
<1>3. Control'
  <2> USE DEF IInv, Control, WaitEnds, Goes, data
  <2>1. Holding' /\ Notifying'
    BY DEF Holding, AtWork, Notifying
  <2>2. Offering'
    BY DEF Offering
  <2>3. QED
    BY <2>1, <2>2
<1>4. Sized'
  BY SizedFrame DEF IInv, Control, WaitEnds, Goes, data
<1>5. QED
  BY <1>1, <1>2, <1>3, <1>4 DEF IInv

LEMMA TickInv == ASSUME IInv, Tick PROVE IInv'
<1>1. Content'
  BY ContentFrame DEF IInv, Tick, data
<1>2. Waits'
  <2>1. /\ left' = [t \in Threads |-> IF t \in Timed THEN left[t] - 1 ELSE left[t]]
        /\ due' = [t \in Threads |-> IF t \in Timed THEN due[t] - 1 ELSE due[t]]
        /\ \A t \in Timed : left[t] > 0
        /\ pc' = pc
    BY DEF Tick
  <2>2. \A t \in Timed : t \in Threads /\ left[t] \in Int /\ due[t] \in Int
    BY DEF IInv, Waits, Timed, Sleeping
  <2>3. left' \in [Threads -> Int \cup {Forever}] /\ due' \in [Threads -> Int]
    BY <2>1, <2>2 DEF IInv, Waits
  <2>4. Timed' \subseteq Timed
    BY <2>1 DEF Timed, Sleeping
  <2>5. Deadlines'
    BY <2>1, <2>2, <2>4, SizesAssumption DEF IInv, Waits, Deadlines
  <2>6. QED
    BY <2>3, <2>5 DEF Waits
<1>3. Control'
  BY DEF IInv, Control, Holding, Notifying, Offering, Tick, data
<1>4. Sized'
  BY SizedFrame DEF IInv, Tick, data
<1>5. QED
  BY <1>1, <1>2, <1>3, <1>4 DEF IInv

\* A statement of a method, under the mutex.
LEMMA WorkControl ==
    ASSUME IInv, NEW t \in Threads, NEW to \in AtWork \cup {"unlock"},
           pc[t] \in AtWork, pc' = [pc EXCEPT ![t] = to], mutex' = mutex,
           op' \in [Threads -> Ops], \A u \in Threads : u # t => op'[u] = op[u],
           notify' \in -1 .. Bulk, hand' \in [Threads -> Seq(Elements)], signals' = signals,
           \A u \in Threads : u # t => offer'[u] = offer[u],
           Len(offer'[t]) <= Bulk,
           offer'[t] # <<>> => to \in {"body", "count"} /\ op'[t].name \in Pushes,
           op'[t].name \in Pushes /\ to = "body" => offer'[t] # <<>>,
           op'[t].name \in Pushes /\ to \in {"body", "count"}
               => notify' >= 0 /\ notify' + Len(offer'[t]) <= Bulk
    PROVE  Control'
<1>1. /\ pc \in [Threads -> AtWork \cup {"idle", "lock", "wait", "relock", "unlock"}]
      /\ Holding /\ Notifying /\ Offering /\ mutex \in Threads \cup {None}
      /\ signals \in 0 .. MaxSignals
  BY DEF IInv, Control
<1>2. /\ pc' \in [Threads -> AtWork \cup {"idle", "lock", "wait", "relock", "unlock"}]
      /\ pc'[t] = to /\ \A u \in Threads : u # t => pc'[u] = pc[u]
  BY <1>1
<1>3. mutex = t /\ \A u \in Threads : u # t => pc[u] \notin AtWork
  BY <1>1 DEF Holding
<1>4. Holding'
  BY <1>1, <1>2, <1>3 DEF Holding
<1>5. Notifying'
  BY <1>2, <1>3 DEF Notifying, AtWork
<1>6. Offering'
  <2>1. ASSUME NEW u \in Threads, u # t
        PROVE  /\ Len(offer'[u]) <= Bulk
               /\ offer'[u] # <<>> => pc'[u] \in {"lock", "body", "count"} /\ op'[u].name \in Pushes
               /\ pc'[u] \in {"lock", "body"} /\ op'[u].name \in Pushes => offer'[u] # <<>>
    BY <1>1, <1>2, <2>1 DEF Offering
  <2>2. to # "lock"
    BY DEF AtWork
  <2>3. QED
    BY <1>2, <2>1, <2>2 DEF Offering
<1>7. QED
  BY <1>1, <1>2, <1>4, <1>5, <1>6 DEF Control

\* ... its last one.
LEMMA EndControl ==
    ASSUME IInv, NEW t \in Threads, pc[t] \in AtWork, Ends(t, pc[t]), mutex' = mutex,
           notify' \in -1 .. Bulk, hand' \in [Threads -> Seq(Elements)], signals' = signals,
           offer' = offer, offer[t] = <<>>
    PROVE  Control'
<1>1. /\ pc' = [pc EXCEPT ![t] = "unlock"] /\ op' = [op EXCEPT ![t] = NoOp]
      /\ op \in [Threads -> Ops]
  BY DEF Ends, Goes, IInv, Control
<1>2. /\ op' \in [Threads -> Ops] /\ op'[t].name \notin Pushes
      /\ \A u \in Threads : u # t => op'[u] = op[u]
  BY <1>1, NoOpType
<1>3. Len(offer'[t]) <= Bulk /\ offer'[t] = <<>> /\ \A u \in Threads : u # t => offer'[u] = offer[u]
  BY SizesAssumption
<1>4. QED
  BY <1>1, <1>2, <1>3, WorkControl

LEMMA WorkWaits ==
    ASSUME IInv, NEW t \in Threads, NEW to \in AtWork \cup {"unlock"},
           pc' = [pc EXCEPT ![t] = to], UNCHANGED wait
    PROVE  Waits'
BY WaitsFrame DEF IInv, Control, wait, AtWork

\* Only push_back and push_front find elements on offer.
LEMMA NothingOffered ==
    ASSUME IInv, NEW t \in Threads, op[t].name \notin Pushes
    PROVE  offer[t] = <<>>
BY DEF IInv, Control, Offering

\* Nobody else is in a method, and what size_ is depends on t alone.
LEMMA Alone ==
    ASSUME IInv, NEW t \in Threads, pc[t] \in AtWork
    PROVE  /\ mutex = t /\ \A u \in Threads : u # t => pc[u] \notin AtWork \cup {"unlock"}
           /\ pc[t] # "count" => size = Len(deque)
           /\ deque \in Seq(Elements) /\ Len(deque) \in Nat /\ size \in Nat /\ size <= MaxElements
           /\ Len(deque) <= MaxElements
<1>1. mutex = t /\ \A u \in Threads : u # t => pc[u] \notin AtWork \cup {"unlock"}
  BY DEF IInv, Control, Holding
<1>2. pc[t] # "count" => size = Len(deque)
  BY <1>1 DEF IInv, Sized, AtWork
<1>3. deque \in Seq(Elements) /\ Len(deque) <= MaxElements /\ size \in 0 .. MaxElements
  BY DEF IInv, Content, Sized
<1>4. QED
  BY <1>1, <1>2, <1>3

LEMMA WorkSized ==
    ASSUME IInv, NEW t \in Threads, pc[t] \in AtWork, NEW to \in AtWork \cup {"unlock"},
           pc' = [pc EXCEPT ![t] = to], size' \in 0 .. MaxElements,
           to # "count" => size' = Len(deque'),
           to = "remove" => op'[t].name = "pop_front" /\ deque' # <<>>,
           to = "count" => \/ op'[t].name \in Pushes /\ Len(deque') = size' + 1
                           \/ op'[t].name = "pop_front" /\ size' = Len(deque') + 1
                           \/ op'[t].name \in {"swap", "clear"} /\ deque' = <<>>
    PROVE  Sized'
<1>1. pc'[t] = to /\ \A u \in Threads : u # t => pc'[u] \notin {"remove", "count"}
  BY Alone DEF IInv, Control, AtWork
<1>2. QED
  BY <1>1 DEF Sized

LEMMA MoveInv ==
    ASSUME IInv, NEW t \in Threads, PushBack(t) \/ PushFront(t), UNCHANGED <<pushed, signals>>
    PROVE  IInv'
<1>1. /\ pc[t] = "body" /\ pc' = [pc EXCEPT ![t] = "count"] /\ op[t].name \in Pushes
      /\ deque' = Append(deque, Head(offer[t])) \/ deque' = <<Head(offer[t])>> \o deque
      /\ offer' = [offer EXCEPT ![t] = Tail(offer[t])] /\ notify' = Notified
      /\ UNCHANGED <<size, hand, mutex, wait, op>>
  BY DEF PushBack, PushFront, Step, Goes, Moves, Pushes
<1>2. /\ Content /\ offer[t] # <<>> /\ offer \in [Threads -> Seq(Elements)]
      /\ notify >= 0 /\ notify + Len(offer[t]) <= Bulk /\ notify \in -1 .. Bulk
      /\ pc[t] \in AtWork /\ "count" \in AtWork
  BY <1>1 DEF IInv, Content, Control, Offering, Notifying, AtWork
<1>3. Content' /\ Len(deque') = Len(deque) + 1
  BY <1>1, <1>2, MoveContent
<1>4. Sized'
  <2>1. size = Len(deque) /\ size \in 0 .. MaxElements
    BY <1>1, <1>2, Alone
  <2>2. size' \in 0 .. MaxElements /\ op'[t].name \in Pushes /\ Len(deque') = size' + 1
    BY <1>1, <1>3, <2>1
  <2>3. QED
    BY <1>1, <1>2, <2>2, WorkSized
<1>5. Waits'
  BY <1>1, <1>2, WorkWaits
<1>6. Control'
  <2>1. offer'[t] = Tail(offer[t]) /\ \A u \in Threads : u # t => offer'[u] = offer[u]
    BY <1>1, <1>2
  <2>2. Len(offer'[t]) = Len(offer[t]) - 1 /\ Len(offer[t]) \in Nat
    BY <1>2, <2>1, OneLess
  <2>3. notify' = notify + 1 /\ Bulk \in Nat
    BY <1>1, <1>2, SizesAssumption DEF Notified
  <2>4. /\ notify' \in -1 .. Bulk /\ notify' >= 0 /\ notify' + Len(offer'[t]) <= Bulk
        /\ Len(offer'[t]) <= Bulk
    BY <1>2, <2>2, <2>3
  <2>5. hand' \in [Threads -> Seq(Elements)] /\ op' \in [Threads -> Ops] /\ op' = op
    BY <1>1 DEF IInv, Control
  <2>6. QED
    BY <1>1, <1>2, <2>1, <2>4, <2>5, WorkControl
<1>7. QED
  BY <1>3, <1>4, <1>5, <1>6 DEF IInv

LEMMA CountPushInv ==
    ASSUME IInv, NEW t \in Threads, CountPush(t), UNCHANGED <<pushed, signals>>
    PROVE  IInv'
<1>1. /\ pc[t] = "count" /\ op[t].name \in Pushes /\ size' = size + 1
      /\ UNCHANGED <<deque, offer, hand, notify, mutex, wait>>
  BY DEF CountPush, Ends, Goes
<1>2. pc[t] \in AtWork /\ {"body", "unlock"} \subseteq AtWork \cup {"unlock"}
  BY <1>1 DEF AtWork
<1>3. Len(deque) = size + 1 /\ size' \in 0 .. MaxElements
  <2>1. op[t].name \in {"push_back", "push_front"}
    BY <1>1 DEF Pushes
  <2>2. Len(deque) = size + 1
    BY <1>1, <2>1 DEF IInv, Sized
  <2>3. QED
    BY <1>1, <1>2, <2>2, Alone
<1>4. Content'
  BY <1>1, ContentFrame DEF IInv
<1>5. /\ notify' \in -1 .. Bulk /\ hand' \in [Threads -> Seq(Elements)]
      /\ op \in [Threads -> Ops] /\ Len(offer[t]) <= Bulk
      /\ notify >= 0 /\ notify + Len(offer[t]) <= Bulk
  BY <1>1 DEF IInv, Control, Offering, Notifying
<1>6. CASE offer[t] = <<>> /\ Ends(t, "count")
  <2>1. pc' = [pc EXCEPT ![t] = "unlock"]
    BY <1>6 DEF Ends, Goes
  <2>2. Sized'
    BY <1>1, <1>2, <1>3, <2>1, WorkSized
  <2>3. Waits'
    BY <1>1, <1>2, <2>1, WorkWaits
  <2>4. Control'
    BY <1>1, <1>2, <1>5, <1>6, EndControl
  <2>5. QED
    BY <1>4, <2>2, <2>3, <2>4 DEF IInv
<1>7. CASE offer[t] # <<>> /\ Goes(t, "count", "body") /\ UNCHANGED op
  <2>1. pc' = [pc EXCEPT ![t] = "body"]
    BY <1>7 DEF Goes
  <2>2. Sized'
    BY <1>1, <1>2, <1>3, <2>1, WorkSized
  <2>3. Waits'
    BY <1>1, <1>2, <2>1, WorkWaits
  <2>4. Control'
    BY <1>1, <1>2, <1>5, <1>7, <2>1, WorkControl
  <2>5. QED
    BY <1>4, <2>2, <2>3, <2>4 DEF IInv
<1>8. QED
  BY <1>6, <1>7 DEF CountPush

\* The statements of pop_front, swap and clear that move elements.
LEMMA TakeInv ==
    ASSUME IInv, NEW t \in Threads, MoveFront(t) \/ PopFront(t) \/ Swap(t) \/ Clear(t),
           UNCHANGED <<pushed, signals>>
    PROVE  IInv'
<1>1. PICK to \in {"remove", "count"} :
        /\ pc[t] \in {"body", "remove"} /\ pc' = [pc EXCEPT ![t] = to]
        /\ op[t].name \in {"pop_front", "swap", "clear"}
        /\ UNCHANGED <<size, offer, notify, mutex, wait, op>>
  BY DEF MoveFront, PopFront, Swap, Clear, Step, Goes
<1>2. pc[t] \in AtWork /\ to \in AtWork \cup {"unlock"} /\ op[t].name \notin Pushes
  BY <1>1 DEF AtWork, Pushes
<1>3. /\ size = Len(deque) /\ size \in Nat /\ size <= MaxElements /\ deque \in Seq(Elements)
      /\ pc[t] = "remove" => deque # <<>> /\ op[t].name = "pop_front"
  BY <1>1, <1>2, Alone DEF IInv, Sized
<1>4. /\ \/ deque' = deque
         \/ deque # <<>> /\ deque' = Tail(deque)
         \/ deque' = <<>>
      /\ to = "remove" => op[t].name = "pop_front" /\ deque' # <<>>
      /\ to = "count" => \/ op[t].name = "pop_front" /\ deque # <<>> /\ deque' = Tail(deque)
                         \/ op[t].name \in {"swap", "clear"} /\ deque' = <<>>
      /\ hand' \in [Threads -> Seq(Elements)]
  <2>0. hand \in [Threads -> Seq(Elements)] /\ pc \in [Threads -> AtWork \cup {"idle", "lock", "wait", "relock", "unlock"}]
    BY DEF IInv, Control
  <2>1. CASE MoveFront(t)
    <3>1. to = "remove" /\ deque' = deque /\ deque # <<>> /\ op[t].name = "pop_front"
      BY <1>1, <2>0, <2>1 DEF MoveFront, Step, Goes
    <3>2. Head(deque) \in Elements
      BY <1>3, <3>1, OneLess
    <3>3. QED
      BY <2>0, <2>1, <3>1, <3>2 DEF MoveFront, Answer
  <2>2. CASE PopFront(t)
    <3>1. to = "count" /\ deque' = Tail(deque) /\ deque # <<>> /\ op[t].name = "pop_front"
      BY <1>1, <1>3, <2>0, <2>2 DEF PopFront, Step, Goes
    <3>2. QED
      BY <2>0, <2>2, <3>1 DEF PopFront
  <2>3. CASE Swap(t)
    <3>1. to = "count" /\ deque' = <<>> /\ op[t].name = "swap"
      BY <1>1, <2>0, <2>3 DEF Swap, Step, Goes
    <3>2. QED
      BY <1>3, <2>0, <2>3, <3>1 DEF Swap, Answer
  <2>4. CASE Clear(t)
    <3>1. to = "count" /\ deque' = <<>> /\ op[t].name = "clear"
      BY <1>1, <2>0, <2>4 DEF Clear, Step, Goes
    <3>2. QED
      BY <2>0, <2>4, <3>1 DEF Clear
  <2>5. QED
    BY <2>1, <2>2, <2>3, <2>4
<1>5. Content'
  <2>1. Content /\ offer' = offer
    BY <1>1 DEF IInv
  <2>2. QED
    BY <1>4, <2>1, TakeContent, ContentFrame
<1>6. Sized'
  <2>1. size' \in 0 .. MaxElements /\ op' = op /\ size' = size
    BY <1>1, <1>3
  <2>2. to # "count" => size' = Len(deque')
    <3>1. MoveFront(t) \/ to = "count"
      BY <1>1 DEF MoveFront, PopFront, Swap, Clear, Step, Goes, IInv, Control
    <3>2. QED
      BY <1>3, <2>1, <3>1 DEF MoveFront
  <2>3. deque # <<>> => Len(Tail(deque)) = Len(deque) - 1
    BY <1>3, OneLess
  <2>4. to = "count" => \/ op'[t].name = "pop_front" /\ size' = Len(deque') + 1
                        \/ op'[t].name \in {"swap", "clear"} /\ deque' = <<>>
    BY <1>3, <1>4, <2>1, <2>3
  <2>5. QED
    BY <1>1, <1>2, <1>4, <2>1, <2>2, <2>4, WorkSized
<1>7. Waits'
  BY <1>1, <1>2, WorkWaits
<1>8. Control'
  <2>1. offer'[t] = <<>> /\ Len(offer'[t]) <= Bulk /\ \A u \in Threads : offer'[u] = offer[u]
    BY <1>1, <1>2, NothingOffered, SizesAssumption
  <2>2. notify' \in -1 .. Bulk /\ op' \in [Threads -> Ops] /\ op' = op
    BY <1>1 DEF IInv, Control
  <2>3. QED
    BY <1>1, <1>2, <1>4, <2>1, <2>2, WorkControl
<1>9. QED
  BY <1>5, <1>6, <1>7, <1>8 DEF IInv

\* The last statements of the methods other than the pushes.
LEMMA EndInv ==
    ASSUME IInv, NEW t \in Threads, CountPop(t) \/ CountAnew(t) \/ NotifyT(t) \/ Size(t),
           UNCHANGED <<pushed, signals>>
    PROVE  IInv'
<1>1. /\ pc[t] \in {"body", "count"} /\ Ends(t, pc[t]) /\ pc' = [pc EXCEPT ![t] = "unlock"]
      /\ op[t].name \in {"pop_front", "swap", "clear", "notifyT", "size"}
      /\ UNCHANGED <<deque, offer, hand, mutex, wait>>
  BY DEF CountPop, CountAnew, NotifyT, Size, Ends, Goes, data
<1>2. pc[t] \in AtWork /\ op[t].name \notin Pushes /\ "unlock" \in AtWork \cup {"unlock"}
  BY <1>1 DEF AtWork, Pushes
<1>3. size' = Len(deque') /\ size' \in 0 .. MaxElements
  <2>1. /\ deque \in Seq(Elements) /\ Len(deque) \in Nat /\ Len(deque) <= MaxElements
        /\ size \in Nat
        /\ pc[t] # "count" => size = Len(deque)
    BY <1>2, Alone
  <2>2. CASE CountPop(t)
    <3>1. pc[t] = "count" /\ op[t].name = "pop_front" /\ size' = size - 1
      BY <2>2 DEF CountPop, Ends, Goes
    <3>2. size = Len(deque) + 1
      BY <1>2, <3>1 DEF IInv, Sized
    <3>3. QED
      BY <1>1, <2>1, <3>1, <3>2
  <2>3. CASE CountAnew(t)
    <3>1. /\ pc[t] = "count" /\ op[t].name \in {"swap", "clear"}
          /\ size' = IF op[t].name = "swap" THEN Len(deque) ELSE 0
      BY <2>3 DEF CountAnew, Ends, Goes
    <3>2. deque = <<>>
      BY <1>2, <3>1 DEF IInv, Sized
    <3>3. QED
      BY <1>1, <2>1, <3>1, <3>2, SizesAssumption
  <2>4. CASE NotifyT(t) \/ Size(t)
    <3>1. pc[t] = "body" /\ size' = size
      BY <2>4 DEF NotifyT, Size, Ends, Goes, data
    <3>2. QED
      BY <1>1, <2>1, <3>1
  <2>5. QED
    BY <2>2, <2>3, <2>4
<1>4. Content'
  BY <1>1, ContentFrame DEF IInv
<1>5. Sized'
  BY <1>1, <1>2, <1>3, WorkSized
<1>6. Waits'
  BY <1>1, <1>2, WorkWaits
<1>7. Control'
  <2>1. offer[t] = <<>>
    BY <1>2, NothingOffered
  <2>2. notify' \in -1 .. Bulk /\ hand' \in [Threads -> Seq(Elements)]
    BY <1>1, SizesAssumption DEF CountPop, CountAnew, NotifyT, Size, IInv, Control
  <2>3. QED
    BY <1>1, <1>2, <2>1, <2>2, EndControl
<1>8. QED
  BY <1>4, <1>5, <1>6, <1>7 DEF IInv

\* Going to sleep with a deadline, or for good.
LEMMA SleepsInv ==
    ASSUME IInv, NEW t \in Threads, NEW l \in Int \cup {Forever}, NEW d \in Int,
           op[t].name \notin Pushes,
           l # Forever => l - d < Second /\ d - l < Second /\ d > -Second,
           Sleeps(t, l, d), op' = [op EXCEPT ![t] = NoOp],
           UNCHANGED <<deque, size, offer, pushed, signals>>
    PROVE  IInv'
<1>1. Content'
  BY ContentFrame DEF IInv
<1>2. Waits'
  <2>1. /\ left' = [left EXCEPT ![t] = l] /\ due' = [due EXCEPT ![t] = d]
        /\ pc' = [pc EXCEPT ![t] = "wait"]
    BY DEF Sleeps, Goes
  <2>2. left' \in [Threads -> Int \cup {Forever}] /\ due' \in [Threads -> Int]
    BY <2>1 DEF IInv, Waits
  <2>3. /\ left'[t] = l /\ due'[t] = d
        /\ \A u \in Threads : u # t => left'[u] = left[u] /\ due'[u] = due[u] /\ pc'[u] = pc[u]
    BY <2>1 DEF IInv, Waits, Control
  <2>4. ASSUME NEW u \in Timed'
        PROVE  left'[u] - due'[u] < Second /\ due'[u] - left'[u] < Second /\ due'[u] > -Second
    <3>0. u \in Threads /\ left'[u] # Forever /\ pc'[u] = "wait"
      BY DEF Timed, Sleeping
    <3>1. CASE u = t
      BY <2>3, <3>0, <3>1
    <3>2. CASE u # t
      <4>1. u \in Timed
        BY <2>3, <3>0, <3>2 DEF Timed, Sleeping
      <4>2. QED
        BY <2>3, <3>0, <3>2, <4>1 DEF IInv, Waits, Deadlines
    <3>3. QED
      BY <3>1, <3>2
  <2>5. QED
    BY <2>2, <2>4 DEF Waits, Deadlines
<1>3. Control'
  <2> USE DEF IInv, Control, Sleeps, Goes, Releases
  <2>1. Holding' /\ Notifying'
    BY ThreadsAssumption DEF Holding, AtWork, Notifying, Threads
  <2>2. Offering'
    BY NothingOffered DEF Offering
  <2>3. QED
    BY <2>1, <2>2, NoOpType
<1>4. Sized'
  BY SizedFrame DEF IInv, Control, Sleeps, Goes
<1>5. QED
  BY <1>1, <1>2, <1>3, <1>4 DEF IInv

\* Condition::abstime: the deadline is less than a second off, to either side.
LEMMA DeadlineNear ==
    ASSUME NEW now \in Nat, NEW limit \in Nat, Deadline(now, limit).frac < Second
    PROVE  LET l == Deadline(now, limit).sec * Second + Deadline(now, limit).frac - now
           IN l \in Int /\ l - limit < Second /\ limit - l < Second
<1> DEFINE n == now + limit
           f == BitAnd(n, Second)
           q == n \div Second
<1>1. n \in Nat /\ Second \in Nat /\ Second > 0
  BY SizesAssumption
<1>2. f \in 0 .. Second
  BY <1>1, BitAndType
<1>3. Deadline(now, limit).sec = q /\ Deadline(now, limit).frac = f
  BY DEF Deadline
<1>4. q \in Int /\ q * Second <= n /\ n < q * Second + Second
  <2>1. \A m \in Nat, k \in Nat \ {0} : /\ m \div k \in Int
                                        /\ m = k * (m \div k) + (m % k) /\ m % k \in 0 .. k - 1
    OBVIOUS
  <2>2. q \in Int /\ n = Second * q + (n % Second) /\ n % Second \in 0 .. Second - 1
    BY <1>1, <2>1
  <2>3. q * Second = Second * q
    BY <1>1, <2>2
  <2>4. QED
    BY <1>1, <2>2, <2>3
<1>5. n = now + limit
  OBVIOUS
<1>6. f < Second
  BY <1>3
<1> HIDE DEF n, f, q
<1> DEFINE p == q * Second
<1>7. p \in Int /\ p <= n /\ n < p + Second
  BY <1>1, <1>4
<1> HIDE DEF p
<1>8. p + f - now \in Int /\ (p + f - now) - limit < Second /\ limit - (p + f - now) < Second
  BY <1>1, <1>2, <1>5, <1>6, <1>7
<1>9. QED
  BY <1>3, <1>8 DEF p

LEMMA TakeNothingInv ==
    ASSUME IInv, NEW t \in Threads, TakeNothing(t), UNCHANGED <<pushed, signals>>
    PROVE  IInv'
<1> DEFINE limit == op[t].limit
<1>1. /\ UNCHANGED <<deque, size, offer, pushed, signals>>
      /\ op[t].name \notin Pushes /\ op' = [op EXCEPT ![t] = NoOp]
      /\ pc[t] \in AtWork /\ "unlock" \in AtWork \cup {"unlock"}
  BY DEF TakeNothing, Pushes, AtWork
<1>2. limit \in Limits \cup {0}
  <2>1. op[t] \in Ops
    BY DEF IInv, Control
  <2>2. QED
    BY <2>1 DEF Ops
<1>3. ASSUME Goes(t, "body", "unlock"), Answer(t, <<>>),
             notify' \in -1 .. Bulk, UNCHANGED <<mutex, wait>>
      PROVE  IInv'
  <2>1. Content'
    BY <1>1, ContentFrame DEF IInv
  <2>2. Waits'
    BY <1>1, <1>3, WorkWaits DEF Goes
  <2>3. hand' \in [Threads -> Seq(Elements)]
    BY <1>3 DEF Answer, IInv, Control
  <2>4. offer[t] = <<>>
    BY <1>1, NothingOffered
  <2>5. Control'
    <3>1. Ends(t, pc[t])
      BY <1>1, <1>3 DEF Ends, Goes
    <3>2. QED
      BY <1>1, <1>3, <2>3, <2>4, <3>1, EndControl
  <2>6. Sized'
    BY <1>3, SizedFrame, <1>1 DEF Goes, IInv, Control
  <2>7. QED
    BY <2>1, <2>2, <2>5, <2>6 DEF IInv
<1>4. CASE limit = 0 /\ Goes(t, "body", "unlock") /\ Answer(t, <<>>) /\ UNCHANGED <<mutex, notify, wait>>
  <2>1. notify' \in -1 .. Bulk
    BY <1>4 DEF IInv, Control
  <2>2. QED
    BY <1>3, <1>4, <2>1
<1>5. CASE limit = Forever /\ Sleeps(t, Forever, 0)
  <2>1. /\ Forever \in Int \cup {Forever} /\ 0 \in Int
        /\ op[t].name \notin Pushes
    BY <1>1
  <2>2. Forever # Forever => Forever - 0 < Second /\ 0 - Forever < Second /\ 0 > -Second
    OBVIOUS
  <2>3. QED
    BY <1>1, <1>5, <2>1, <2>2, SleepsInv
<1>6. CASE limit \notin {0, Forever} /\ TimedWait(t, limit)
  <2>1. limit \in Nat
    BY <1>2, <1>6, SizesAssumption
  <2>2. PICK now \in 0 .. Period - 1 :
           LET d == Deadline(now, limit)
           IN IF d.frac < Second
                THEN Sleeps(t, d.sec * Second + d.frac - now, limit)
                ELSE /\ Goes(t, "body", "unlock")
                     /\ Answer(t, <<>>) /\ notify' = 0
                     /\ UNCHANGED <<mutex, wait>>
    BY <1>6 DEF TimedWait
  <2>3. now \in Nat
    OBVIOUS
  <2> DEFINE d == Deadline(now, limit)
             l == d.sec * Second + d.frac - now
  <2>4. CASE d.frac < Second
    <3>1. l \in Int /\ l - limit < Second /\ limit - l < Second
      BY <2>1, <2>3, <2>4, DeadlineNear
    <3>2. Sleeps(t, l, limit)
      BY <2>2, <2>4
    <3>3. limit \in Int /\ limit > -Second
      BY <2>1, SizesAssumption
    <3> HIDE DEF l, limit
    <3>4. QED
      BY <1>1, <3>1, <3>2, <3>3, SleepsInv
  <2>5. CASE ~(d.frac < Second)
    BY <1>3, <2>2, <2>5, SizesAssumption
  <2>6. QED
    BY <2>4, <2>5
<1>7. QED
  BY <1>4, <1>5, <1>6 DEF TakeNothing

LEMMA StepInv == IInv /\ [Next]_vars => IInv'
<1> SUFFICES ASSUME IInv, [Next]_vars PROVE IInv'
  OBVIOUS
<1>1. CASE \E t \in Producers : CallPush(t) \/ CallSignal(t)
  BY <1>1, CallPushInv, CallSignalInv
<1>2. CASE \E t \in Consumers : CallTake(t)
  BY <1>2, CallTakeInv
<1>3. ASSUME NEW t \in Threads, Body(t) PROVE IInv'
  <2>1. UNCHANGED <<pushed, signals>>
    BY <1>3 DEF Body
  <2>2. CASE PushBack(t) \/ PushFront(t)
    BY <2>1, <2>2, MoveInv
  <2>3. CASE CountPush(t)
    BY <2>1, <2>3, CountPushInv
  <2>4. CASE MoveFront(t) \/ PopFront(t) \/ Swap(t) \/ Clear(t)
    BY <2>1, <2>4, TakeInv
  <2>5. CASE TakeNothing(t)
    BY <2>1, <2>5, TakeNothingInv
  <2>6. CASE CountPop(t) \/ CountAnew(t) \/ NotifyT(t) \/ Size(t)
    BY <2>1, <2>6, EndInv
  <2>7. QED
    BY <1>3, <2>2, <2>3, <2>4, <2>5, <2>6 DEF Body
<1>4. CASE \E t \in Threads : Inside(t) \/ WaitEnds(t)
  BY <1>3, <1>4, LockInv, UnlockInv, RelockInv, WaitEndsInv DEF Inside
<1>5. CASE Tick
  BY <1>5, TickInv
<1>6. CASE UNCHANGED vars
  <2>1. Content'
    BY <1>6, ContentFrame DEF vars, data, IInv
  <2>2. Waits'
    BY <1>6, WaitsFrame DEF vars, wait, IInv
  <2>3. Control'
    BY <1>6 DEF vars, data, IInv, Control, Holding, Notifying, Offering
  <2>4. Sized'
    BY <1>6, SizedFrame DEF vars, data, IInv
  <2>5. QED
    BY <2>1, <2>2, <2>3, <2>4 DEF IInv
<1>7. QED
  BY <1>1, <1>2, <1>4, <1>5, <1>6 DEF Next

-----------------------------------------------------------------------------
(* Theorems *)

\* ThreadDeque.hpp and Monitor.hpp: whatever threads call, every variable keeps
\* its type; notify_ starts at zero in every method, so that it never counts
\* more than the elements of one push, and is -1 or a count.
THEOREM TypeCorrect == Spec => []TypeOK
BY InitInv, StepInv, InvType, PTL DEF Spec

\* ThreadDeque.hpp:55: however the calls interleave, size_, which the methods
\* adjust by hand, is the length of deque_ whenever the mutex is free; so the
\* assertion before pop_front decrements it never fails.
THEOREM SizeCounts == Spec => []SizeAgrees
<1>1. IInv => SizeAgrees
  <2> SUFFICES ASSUME IInv PROVE SizeAgrees
    OBVIOUS
  <2>1. ASSUME mutex = None PROVE size = Len(deque)
    <3>1. \A t \in Threads : pc[t] # "count"
      BY <2>1, ThreadsAssumption DEF IInv, Control, Holding, AtWork, Threads
    <3>2. QED
      BY <3>1 DEF IInv, Sized
  <2>2. ASSUME NEW t \in Threads, pc[t] = "count", op[t].name = "pop_front" PROVE size > 0
    <3>1. size = Len(deque) + 1 /\ deque \in Seq(Elements)
      BY <2>2 DEF IInv, Sized, Content, Pushes
    <3>2. QED
      BY <3>1
  <2>3. QED
    BY <2>1, <2>2 DEF SizeAgrees
<1>2. QED
  BY <1>1, InitInv, StepInv, PTL DEF Spec

\* Condition.cc:61: whatever the time of day and the length of the wait, the
\* deadline that abstime computes with `&' is less than a second from the one
\* the caller meant, and no sleeper is overdue by a second.
THEOREM SleepsNear == Spec => []WaitsNear
<1>1. IInv => WaitsNear
  <2> SUFFICES ASSUME IInv, NEW t \in Timed PROVE due[t] > -Second /\ left[t] > due[t] - Second
    BY DEF WaitsNear
  <2>1. left[t] \in Int /\ due[t] \in Int
    BY DEF IInv, Waits, Timed, Sleeping
  <2>2. due[t] - left[t] < Second /\ due[t] > -Second
    BY DEF IInv, Waits, Deadlines
  <2>3. QED
    BY <2>1, <2>2, SizesAssumption
<1>2. QED
  BY <1>1, InitInv, StepInv, PTL DEF Spec

-----------------------------------------------------------------------------
(* The refinement *)

\* An element moved from the front of a batch to the end of the deque, or to
\* its front, where the batch ends up reversed.
LEMMA MovedBack ==
    ASSUME NEW S, NEW d \in Seq(S), NEW s \in Seq(S), s # <<>>
    PROVE  Append(d, Head(s)) \o Tail(s) = d \o s
<1>1. Head(s) \in S /\ Tail(s) \in Seq(S) /\ <<Head(s)>> \in Seq(S)
  BY OneLess
<1>2. <<Head(s)>> \o Tail(s) = s
  OBVIOUS
<1>3. Append(d, Head(s)) = d \o <<Head(s)>>
  BY <1>1, AppendIsConcat
<1>4. (d \o <<Head(s)>>) \o Tail(s) = d \o (<<Head(s)>> \o Tail(s))
  BY <1>1, ConcatAssociative
<1>5. QED
  BY <1>2, <1>3, <1>4

LEMMA MovedFront ==
    ASSUME NEW S, NEW d \in Seq(S), NEW s \in Seq(S), s # <<>>
    PROVE  Reverse(Tail(s)) \o (<<Head(s)>> \o d) = Reverse(s) \o d
<1> DEFINE h == Head(s)
           r == Tail(s)
<1>1. /\ h \in S /\ h = s[1] /\ r \in Seq(S) /\ Len(r) = Len(s) - 1 /\ Len(s) \in Nat /\ Len(s) > 0
      /\ \A i \in 1 .. Len(r) : r[i] = s[i + 1]
  BY OneLess
<1> HIDE DEF h, r
<1>2. \A i \in 1 .. Len(s) : (Len(s) - i) + 1 \in 1 .. Len(s)
  BY <1>1
<1>3. \A i \in 1 .. Len(r) : (Len(r) - i) + 1 \in 1 .. Len(r)
  BY <1>1
<1>4. /\ Reverse(s) \in Seq(S) /\ Len(Reverse(s)) = Len(s)
      /\ \A i \in 1 .. Len(s) : Reverse(s)[i] = s[(Len(s) - i) + 1]
  BY <1>1, <1>2 DEF Reverse
<1>5. /\ Reverse(r) \in Seq(S) /\ Len(Reverse(r)) = Len(r)
      /\ \A i \in 1 .. Len(r) : Reverse(r)[i] = r[(Len(r) - i) + 1]
  BY <1>1, <1>3 DEF Reverse
<1> DEFINE q == Append(Reverse(r), h)
<1>6. /\ q \in Seq(S) /\ Len(q) = Len(s)
      /\ \A i \in 1 .. Len(s) : q[i] = IF i <= Len(r) THEN Reverse(r)[i] ELSE h
  BY <1>1, <1>5
<1> HIDE DEF q
<1>7. ASSUME NEW i \in 1 .. Len(s) PROVE q[i] = Reverse(s)[i]
  <2>1. CASE i <= Len(r)
    <3>1. i \in 1 .. Len(r) /\ ((Len(r) - i) + 1) + 1 = (Len(s) - i) + 1
      BY <1>1, <2>1
    <3>2. q[i] = r[(Len(r) - i) + 1]
      BY <1>5, <1>6, <2>1, <3>1
    <3>3. r[(Len(r) - i) + 1] = s[((Len(r) - i) + 1) + 1]
      BY <1>1, <1>3, <3>1
    <3>4. QED
      BY <1>4, <3>1, <3>2, <3>3
  <2>2. CASE ~(i <= Len(r))
    <3>1. (Len(s) - i) + 1 = 1
      BY <1>1, <2>2
    <3>2. QED
      BY <1>1, <1>4, <1>6, <2>2, <3>1
  <2>3. QED
    BY <2>1, <2>2
<1>8. q = Reverse(s)
  BY <1>4, <1>6, <1>7, SeqEqual
<1>9. q = Reverse(r) \o <<h>> /\ <<h>> \in Seq(S)
  BY <1>1, <1>5, AppendIsConcat DEF q
<1>10. (Reverse(r) \o <<h>>) \o d = Reverse(r) \o (<<h>> \o d)
  BY <1>5, <1>9, ConcatAssociative, SMTT(30)
<1>11. QED
  BY <1>8, <1>9, <1>10 DEF h, r

\* An empty batch.
LEMMA NothingMoved ==
    ASSUME NEW S, NEW d \in Seq(S)
    PROVE  d \o <<>> = d /\ Reverse(<<>>) \o d = d
<1>1. Reverse(<<>>) = <<>>
  BY DEF Reverse
<1>2. QED
  BY <1>1, ConcatEmptySeq

\* What the shared deque is, in terms of the one thread in a method.
Seen ==
    /\ \A t \in Threads : pc[t] \in AtWork =>
          /\ Working = {t}
          /\ Offered = [offer EXCEPT ![t] = <<>>]
          /\ op[t].name = "push_back" => Settled = deque \o offer[t]
          /\ op[t].name = "push_front" => Settled = Reverse(offer[t]) \o deque
          /\ op[t].name \notin Pushes =>
                /\ pc[t] = "remove" => Settled = Tail(deque)
                /\ pc[t] # "remove" => Settled = deque
    /\ (\A t \in Threads : pc[t] \notin AtWork) => Working = {} /\ Settled = deque /\ Offered = offer

LEMMA SeenNow == IInv => Seen
<1> SUFFICES ASSUME IInv PROVE Seen
  OBVIOUS
<1>1. ASSUME NEW t \in Threads, pc[t] \in AtWork
      PROVE  /\ Working = {t}
             /\ Offered = [offer EXCEPT ![t] = <<>>]
             /\ op[t].name = "push_back" => Settled = deque \o offer[t]
             /\ op[t].name = "push_front" => Settled = Reverse(offer[t]) \o deque
             /\ op[t].name \notin Pushes =>
                   /\ pc[t] = "remove" => Settled = Tail(deque)
                   /\ pc[t] # "remove" => Settled = deque
  <2>1. Working = {t}
    BY <1>1, Alone DEF Working, AtWork
  <2>2. Offered = [offer EXCEPT ![t] = <<>>]
    BY <2>1 DEF Offered, IInv, Content
  <2>3. (CHOOSE u \in {t} : TRUE) = t
    OBVIOUS
  <2>4. Settled = Finished(t)
    BY <2>1, <2>3 DEF Settled
  <2>5. ASSUME pc[t] = "remove" PROVE SubSeq(deque, 2, Len(deque)) = Tail(deque)
    <3>1. deque \in Seq(Elements) /\ deque # <<>>
      BY <2>5 DEF IInv, Content, Sized
    <3>2. QED
      BY <3>1, TailIsSubSeq
  <2>0. pc[t] = "remove" => op[t].name = "pop_front"
    BY DEF IInv, Sized
  <2>6. op[t].name = "push_back" => Settled = deque \o offer[t]
    BY <2>0, <2>4 DEF Finished
  <2>7. op[t].name = "push_front" => Settled = Reverse(offer[t]) \o deque
    BY <2>0, <2>4 DEF Finished
  <2>8. ASSUME op[t].name \notin Pushes
        PROVE  /\ pc[t] = "remove" => Settled = Tail(deque)
               /\ pc[t] # "remove" => Settled = deque
    <3>1. op[t].name # "push_back" /\ op[t].name # "push_front"
      BY <2>8 DEF Pushes
    <3>2. QED
      BY <2>4, <2>5, <3>1 DEF Finished
  <2>9. QED
    BY <2>1, <2>2, <2>6, <2>7, <2>8
<1>2. ASSUME \A t \in Threads : pc[t] \notin AtWork
      PROVE  Working = {} /\ Settled = deque /\ Offered = offer
  <2>1. Working = {}
    BY <1>2 DEF Working, AtWork
  <2>2. QED
    BY <2>1 DEF Settled, Offered, IInv, Content
<1>3. QED
  BY <1>1, <1>2 DEF Seen

LEMMA SeenNext == IInv' => Seen'
BY SeenNow, PTL

\* Steps outside the methods leave what a thread inside has done and will do.
LEMMA Bystanders ==
    ASSUME Seen, Seen', deque' = deque,
           \A u \in Threads : pc[u] \in AtWork \/ pc'[u] \in AtWork
               => pc'[u] = pc[u] /\ op'[u] = op[u] /\ offer'[u] = offer[u]
    PROVE  Settled' = Settled /\ Working' = Working
<1>1. CASE \E u \in Threads : pc[u] \in AtWork
  <2>1. PICK u \in Threads : pc[u] \in AtWork
    BY <1>1
  <2>2. pc'[u] = pc[u] /\ op'[u] = op[u] /\ offer'[u] = offer[u] /\ pc'[u] \in AtWork
    BY <2>1
  <2>3. op[u].name \in Pushes => op[u].name = "push_back" \/ op[u].name = "push_front"
    BY DEF Pushes
  <2>4. Working = {u} /\ Working' = {u}
    BY <2>1, <2>2 DEF Seen
  <2>5. CASE op[u].name = "push_back"
    <3>1. Settled = deque \o offer[u] /\ Settled' = deque' \o offer'[u]
      BY <2>1, <2>2, <2>5 DEF Seen
    <3>2. QED
      BY <2>2, <2>4, <3>1
  <2>6. CASE op[u].name = "push_front"
    <3>1. Settled = Reverse(offer[u]) \o deque /\ Settled' = Reverse(offer'[u]) \o deque'
      BY <2>1, <2>2, <2>6 DEF Seen
    <3>2. QED
      BY <2>2, <2>4, <3>1
  <2>7. CASE op[u].name \notin Pushes
    <3>1. /\ Settled = IF pc[u] = "remove" THEN Tail(deque) ELSE deque
          /\ Settled' = IF pc'[u] = "remove" THEN Tail(deque') ELSE deque'
      BY <2>1, <2>2, <2>7 DEF Seen
    <3>2. QED
      BY <2>2, <2>4, <3>1
  <2>8. QED
    BY <2>3, <2>5, <2>6, <2>7
<1>2. CASE \A u \in Threads : pc[u] \notin AtWork
  BY <1>2 DEF Seen
<1>3. QED
  BY <1>1, <1>2

\* The last step of a method that has nothing on offer.
LEMMA Leaves ==
    ASSUME IInv, Seen, Seen', NEW t \in Threads, pc[t] \in AtWork, pc[t] # "remove",
           op[t].name \notin Pushes,
           NEW to, to \notin AtWork, pc' = [pc EXCEPT ![t] = to], UNCHANGED <<deque, offer>>
    PROVE  Settled' = Settled /\ Offered' = Offered
<1>1. \A u \in Threads : pc'[u] \notin AtWork
  BY Alone DEF IInv, Control
<1>2. Settled' = deque /\ Offered' = offer
  BY <1>1 DEF Seen
<1>3. Settled = deque /\ Offered = [offer EXCEPT ![t] = <<>>]
  BY DEF Seen
<1>4. offer[t] = <<>> /\ offer \in [Threads -> Seq(Elements)]
  BY NothingOffered DEF IInv, Content
<1>5. [offer EXCEPT ![t] = <<>>] = offer
  BY <1>4
<1>6. QED
  BY <1>2, <1>3, <1>5

\* A step of ThreadDeque is one step of the shared deque or none: with the
\* lock for a push, with the read of the front for pop_front.
LEMMA StepRefines == IInv /\ IInv' /\ [Next]_vars => [Abstract!Next]_(Abstract!vars)
<1> SUFFICES ASSUME IInv, IInv', [Next]_vars PROVE [Abstract!Next]_(Abstract!vars)
  OBVIOUS
<1>0. /\ Seen /\ Seen'
      /\ pc \in [Threads -> AtWork \cup {"idle", "lock", "wait", "relock", "unlock"}]
      /\ offer \in [Threads -> Seq(Elements)]
      /\ offer' \in [Threads -> Seq(Elements)] /\ deque \in Seq(Elements)
  <2>1. Seen /\ Seen'
    BY SeenNow, SeenNext
  <2>2. Control /\ Content /\ Content'
    BY DEF IInv
  <2>3. QED
    BY <2>1, <2>2 DEF Content, Control
<1>1. ASSUME Settled' = Settled, Offered' = Offered, hand' = hand
      PROVE  [Abstract!Next]_(Abstract!vars)
  BY <1>1 DEF Abstract!vars
<1>2. ASSUME NEW t \in Threads, Answer(t, <<>>), Settled' = Settled, Offered' = Offered
      PROVE  Abstract!Next
  BY <1>2 DEF Abstract!Next, Abstract!Nothing, Abstract!Handed, Answer
<1>3. ASSUME deque' = deque, offer' = offer,
             \A u \in Threads : pc[u] \in AtWork \/ pc'[u] \in AtWork
                 => pc'[u] = pc[u] /\ op'[u] = op[u]
      PROVE  Settled' = Settled /\ Offered' = Offered
  <2>1. Settled' = Settled /\ Working' = Working
    BY <1>0, <1>3, Bystanders
  <2>2. QED
    BY <1>3, <2>1 DEF Offered
<1>4. ASSUME NEW t \in Producers, CallPush(t) PROVE Abstract!Next
  <2>1. t \in Threads
    BY DEF Threads
  <2>2. /\ pc[t] = "idle" /\ pc' = [pc EXCEPT ![t] = "lock"]
        /\ offer' = [offer EXCEPT ![t] = offer'[t]] /\ deque' = deque /\ hand' = hand
        /\ \A u \in Threads : u # t => op'[u] = op[u]
    <3>1. PICK n \in 1 .. Bulk : offer' = [offer EXCEPT ![t] = [i \in 1 .. n |-> pushed + i]]
      BY <1>4 DEF CallPush
    <3>2. offer' = [offer EXCEPT ![t] = offer'[t]]
      BY <1>0, <2>1, <3>1
    <3>3. op \in [Threads -> Ops]
      BY DEF IInv, Control
    <3>4. QED
      BY <1>4, <3>2, <3>3 DEF CallPush, Call, Goes
  <2>3. pc[t] \notin AtWork /\ pc'[t] \notin AtWork /\ \A u \in Threads : u # t => pc'[u] = pc[u]
    BY <1>0, <2>1, <2>2 DEF AtWork
  <2>4. \A u \in Threads : u # t => offer'[u] = offer[u]
    BY <1>0, <2>2
  <2>5. Settled' = Settled /\ Working' = Working
    BY <1>0, <2>2, <2>3, <2>4, Bystanders
  <2>6. offer[t] = <<>> /\ t \notin Working
    BY <2>1, <2>2, <2>3 DEF IInv, Control, Offering, Working, AtWork
  <2>7. Offered[t] = <<>> /\ Offered'[t] = offer'[t] /\ Offered'[t] \in Seq(Elements)
    BY <1>0, <2>1, <2>5, <2>6 DEF Offered
  <2>8. Offered' = [Offered EXCEPT ![t] = Offered'[t]]
    BY <2>1, <2>4, <2>5, <2>6, <2>7 DEF Offered
  <2>9. Abstract!Offer(t)
    BY <2>2, <2>5, <2>7, <2>8 DEF Abstract!Offer
  <2>10. QED
    BY <2>1, <2>9 DEF Abstract!Next
<1>5. ASSUME NEW t \in Threads, pc[t] \notin AtWork, NEW to, to \notin AtWork,
             pc' = [pc EXCEPT ![t] = to], deque' = deque, offer' = offer,
             \A u \in Threads : u # t => op'[u] = op[u]
      PROVE  Settled' = Settled /\ Offered' = Offered
  BY <1>0, <1>3, <1>5
<1>6. ASSUME NEW t \in Threads, CallSignal(t) \/ CallTake(t) \/ WaitEnds(t) \/ Relock(t)
      PROVE  [Abstract!Next]_(Abstract!vars)
  <2>1. PICK to \in {"lock", "relock", "unlock"} :
          /\ pc[t] \in {"idle", "wait", "relock"} /\ pc' = [pc EXCEPT ![t] = to]
          /\ deque' = deque /\ offer' = offer
          /\ Answer(t, <<>>) \/ hand' = hand
          /\ \A u \in Threads : u # t => op'[u] = op[u]
    BY <1>6 DEF CallSignal, CallTake, WaitEnds, Relock, Call, Goes, data, IInv, Control
  <2>2. Settled' = Settled /\ Offered' = Offered
    BY <1>5, <2>1 DEF AtWork
  <2>3. QED
    BY <1>1, <1>2, <2>1, <2>2
<1>7. ASSUME NEW t \in Threads, Unlock(t) PROVE [Abstract!Next]_(Abstract!vars)
  <2>1. PICK S \in Woken : pc' = [u \in Threads |-> IF u = t THEN "idle"
                                                    ELSE IF u \in S THEN "relock" ELSE pc[u]]
    BY <1>7 DEF Unlock
  <2>2. \A u \in S : pc[u] = "wait"
    BY DEF Woken, Sleeping
  <2>3. pc[t] = "unlock" /\ UNCHANGED <<deque, offer, hand, op>>
    BY <1>7 DEF Unlock, data
  <2>4. QED
    BY <1>1, <1>3, <2>1, <2>2, <2>3 DEF AtWork
<1>8. ASSUME NEW t \in Threads, Lock(t) PROVE [Abstract!Next]_(Abstract!vars)
  <2>1. /\ pc[t] = "lock" /\ pc' = [pc EXCEPT ![t] = "body"] /\ mutex = None
        /\ UNCHANGED <<deque, offer, hand, op>>
    BY <1>8 DEF Lock, Goes, Acquires, data
  <2>2. \A u \in Threads : pc[u] \notin AtWork
    BY <2>1, ThreadsAssumption DEF IInv, Control, Holding, Threads
  <2>3. Settled = deque /\ Offered = offer
    BY <1>0, <2>2 DEF Seen
  <2>4. pc'[t] \in AtWork /\ pc'[t] # "remove"
    BY <1>0, <2>1 DEF AtWork
  <2>5. Offered' = [offer EXCEPT ![t] = <<>>]
    BY <1>0, <2>1, <2>4 DEF Seen
  <2>6. CASE op[t].name \in Pushes
    <3>1. Settled' = deque \o offer[t] \/ Settled' = Reverse(offer[t]) \o deque
      BY <1>0, <2>1, <2>4, <2>6 DEF Seen, Pushes
    <3>2. Reverse(offer[t]) = Abstract!Reverse(offer[t])
      BY DEF Reverse, Abstract!Reverse
    <3>3. Abstract!Push(t)
      BY <2>1, <2>3, <2>5, <3>1, <3>2, Zenon DEF Abstract!Push
    <3>4. QED
      BY <3>3 DEF Abstract!Next
  <2>7. CASE op[t].name \notin Pushes
    <3>1. offer[t] = <<>>
      BY <2>7, NothingOffered
    <3>2. [offer EXCEPT ![t] = <<>>] = offer
      BY <1>0, <3>1
    <3>3. Settled' = deque
      BY <1>0, <2>1, <2>4, <2>7 DEF Seen
    <3>4. QED
      BY <1>1, <2>1, <2>3, <2>5, <3>2, <3>3
  <2>8. QED
    BY <2>6, <2>7
<1>9. ASSUME NEW t \in Threads, PushBack(t) \/ PushFront(t) PROVE [Abstract!Next]_(Abstract!vars)
  <2>1. /\ pc[t] = "body" /\ pc' = [pc EXCEPT ![t] = "count"]
        /\ offer' = [offer EXCEPT ![t] = Tail(offer[t])] /\ UNCHANGED <<hand, op>>
        /\ \/ op[t].name = "push_back" /\ deque' = Append(deque, Head(offer[t]))
           \/ op[t].name = "push_front" /\ deque' = <<Head(offer[t])>> \o deque
    BY <1>9 DEF PushBack, PushFront, Step, Goes, Moves
  <2>2. pc[t] \in AtWork /\ pc'[t] \in AtWork /\ offer[t] # <<>> /\ offer'[t] = Tail(offer[t])
    BY <1>0, <2>1 DEF AtWork, IInv, Control, Offering, Pushes
  <2>3. Offered' = Offered
    <3>1. Offered = [offer EXCEPT ![t] = <<>>] /\ Offered' = [offer' EXCEPT ![t] = <<>>]
      BY <1>0, <2>2 DEF Seen
    <3>2. QED
      BY <1>0, <2>1, <3>1
  <2>4. Settled' = Settled
    <3> DEFINE s == offer[t]
    <3>1. s \in Seq(Elements) /\ s # <<>>
      BY <1>0, <2>2
    <3>2. CASE op[t].name = "push_back" /\ deque' = Append(deque, Head(s))
      <4>1. Settled = deque \o s /\ Settled' = deque' \o Tail(s)
        BY <1>0, <2>1, <2>2, <3>2 DEF Seen
      <4>2. Append(deque, Head(s)) \o Tail(s) = deque \o s
        BY <1>0, <3>1, MovedBack
      <4>3. QED
        BY <3>2, <4>1, <4>2
    <3>3. CASE op[t].name = "push_front" /\ deque' = <<Head(s)>> \o deque
      <4>1. Settled = Reverse(s) \o deque /\ Settled' = Reverse(Tail(s)) \o deque'
        BY <1>0, <2>1, <2>2, <3>3 DEF Seen
      <4>2. Reverse(Tail(s)) \o (<<Head(s)>> \o deque) = Reverse(s) \o deque
        BY <1>0, <3>1, MovedFront
      <4>3. QED
        BY <3>3, <4>1, <4>2
    <3>4. QED
      BY <2>1, <3>2, <3>3
  <2>5. QED
    BY <1>1, <2>1, <2>3, <2>4
<1>10. ASSUME NEW t \in Threads, CountPush(t) PROVE [Abstract!Next]_(Abstract!vars)
  <2>1. /\ pc[t] = "count" /\ op[t].name \in Pushes /\ UNCHANGED <<deque, offer, hand>>
        /\ \/ offer[t] = <<>> /\ pc' = [pc EXCEPT ![t] = "unlock"]
           \/ pc' = [pc EXCEPT ![t] = "body"] /\ op' = op
    BY <1>10 DEF CountPush, Ends, Goes
  <2>2. pc[t] \in AtWork /\ Offered = [offer EXCEPT ![t] = <<>>]
    BY <1>0, <2>1 DEF AtWork, Seen
  <2>3. CASE offer[t] = <<>> /\ pc' = [pc EXCEPT ![t] = "unlock"]
    <3>1. \A u \in Threads : pc'[u] \notin AtWork
      BY <1>0, <2>2, <2>3, Alone DEF AtWork
    <3>2. Settled' = deque /\ Offered' = offer
      BY <1>0, <2>1, <3>1 DEF Seen
    <3>3. [offer EXCEPT ![t] = <<>>] = offer
      BY <1>0, <2>3
    <3>4. deque \o <<>> = deque /\ Reverse(<<>>) \o deque = deque
      BY <1>0, NothingMoved
    <3>5. Settled = deque \o <<>> \/ Settled = Reverse(<<>>) \o deque
      BY <1>0, <2>1, <2>2, <2>3 DEF Seen, Pushes
    <3>6. QED
      BY <1>1, <2>1, <2>2, <3>2, <3>3, <3>4, <3>5
  <2>4. CASE pc' = [pc EXCEPT ![t] = "body"] /\ op' = op
    <3>1. pc'[t] \in AtWork /\ op'[t].name = op[t].name /\ offer' = offer /\ deque' = deque
      BY <1>0, <2>1, <2>4 DEF AtWork
    <3>2. Offered' = Offered /\ Settled' = Settled
      BY <1>0, <2>1, <2>2, <3>1 DEF Seen, Pushes
    <3>3. QED
      BY <1>1, <2>1, <3>2
  <2>5. QED
    BY <2>1, <2>3, <2>4
<1>11. ASSUME NEW t \in Threads, MoveFront(t) \/ PopFront(t) \/ Swap(t) \/ Clear(t)
       PROVE  [Abstract!Next]_(Abstract!vars)
  <2>1. /\ pc[t] \in {"body", "remove"} /\ op[t].name \in {"pop_front", "swap", "clear"}
        /\ offer' = offer /\ op' = op
        /\ \E to \in {"remove", "count"} : pc' = [pc EXCEPT ![t] = to]
    BY <1>11 DEF MoveFront, PopFront, Swap, Clear, Step, Goes
  <2>2. pc[t] \in AtWork /\ pc'[t] \in AtWork /\ op[t].name \notin Pushes /\ op'[t].name \notin Pushes
    BY <1>0, <2>1 DEF AtWork, Pushes
  <2>3. Offered' = Offered
    BY <1>0, <2>1, <2>2 DEF Seen
  <2>4. /\ Settled = IF pc[t] = "remove" THEN Tail(deque) ELSE deque
        /\ Settled' = IF pc'[t] = "remove" THEN Tail(deque') ELSE deque'
    BY <1>0, <2>2 DEF Seen
  <2>5. CASE MoveFront(t)
    <3>1. /\ pc[t] = "body" /\ pc'[t] = "remove" /\ deque' = deque /\ deque # <<>>
          /\ hand' = [hand EXCEPT ![t] = <<Head(deque)>>]
      BY <1>0, <2>5 DEF MoveFront, Step, Goes, Answer
    <3>2. Abstract!PopFront(t)
      BY <2>3, <2>4, <3>1 DEF Abstract!PopFront, Abstract!Handed
    <3>3. QED
      BY <3>2 DEF Abstract!Next
  <2>6. CASE PopFront(t)
    <3>1. pc[t] = "remove" /\ pc'[t] = "count" /\ deque' = Tail(deque) /\ hand' = hand
      BY <1>0, <2>6 DEF PopFront, Step, Goes
    <3>2. QED
      BY <1>1, <2>3, <2>4, <3>1
  <2>7. CASE Swap(t)
    <3>1. /\ pc[t] = "body" /\ pc'[t] = "count" /\ deque' = <<>>
          /\ hand' = [hand EXCEPT ![t] = deque]
      BY <1>0, <2>7 DEF Swap, Step, Goes, Answer
    <3>2. Abstract!TakeAll(t)
      BY <2>3, <2>4, <3>1 DEF Abstract!TakeAll, Abstract!Handed
    <3>3. QED
      BY <3>2 DEF Abstract!Next
  <2>8. CASE Clear(t)
    <3>1. pc[t] = "body" /\ pc'[t] = "count" /\ deque' = <<>> /\ hand' = hand
      BY <1>0, <2>8 DEF Clear, Step, Goes
    <3>2. Abstract!Clear
      BY <2>3, <2>4, <3>1 DEF Abstract!Clear
    <3>3. QED
      BY <3>2 DEF Abstract!Next
  <2>9. QED
    BY <1>11, <2>5, <2>6, <2>7, <2>8
<1>12. ASSUME NEW t \in Threads, CountPop(t) \/ CountAnew(t) \/ TakeNothing(t) \/ NotifyT(t) \/ Size(t)
       PROVE  [Abstract!Next]_(Abstract!vars)
  <2>1. /\ pc[t] \in {"body", "count"} /\ deque' = deque /\ offer' = offer
        /\ op[t].name \in {"pop_front", "swap", "clear", "notifyT", "size"}
        /\ \E to \in {"unlock", "wait"} : pc' = [pc EXCEPT ![t] = to]
        /\ Answer(t, <<>>) \/ hand' = hand
    BY <1>12 DEF CountPop, CountAnew, TakeNothing, NotifyT, Size, Ends, Goes, Sleeps, TimedWait, data
  <2>2. /\ pc[t] \in AtWork /\ pc[t] # "remove" /\ op[t].name \notin Pushes
        /\ "unlock" \notin AtWork /\ "wait" \notin AtWork
    BY <2>1 DEF AtWork, Pushes
  <2>3. Settled' = Settled /\ Offered' = Offered
    BY <1>0, <2>1, <2>2, Leaves
  <2>4. QED
    BY <1>1, <1>2, <2>1, <2>3
<1>13. ASSUME Tick \/ UNCHANGED vars PROVE [Abstract!Next]_(Abstract!vars)
  <2>1. UNCHANGED <<pc, op, deque, offer, hand>>
    BY <1>13 DEF Tick, vars, data
  <2>2. QED
    BY <1>1, <1>3, <2>1
<1>14. ASSUME NEW t \in Threads, Body(t) PROVE [Abstract!Next]_(Abstract!vars)
  BY <1>9, <1>10, <1>11, <1>12, <1>14 DEF Body
<1>15. Producers \subseteq Threads /\ Consumers \subseteq Threads
  BY DEF Threads
<1>16. QED
  BY <1>4, <1>6, <1>7, <1>8, <1>13, <1>14, <1>15 DEF Next, Inside

\* Every method of ThreadDeque acts on the deque at one instant, for any
\* number of threads and any bulk, although its statements on deque_ and size_
\* are steps of their own between which the other threads run: no element is
\* lost, handed out twice or torn out of its batch, although waits end for
\* many reasons and are answered without a second look.  The proof rests on
\* Holding: only the mutex keeps a second thread out of the methods.
THEOREM DequeImplemented == Spec => ImplementsDeque
<1>1. Init => Abstract!Init
  <2>1. Init => Working = {}
    BY DEF Init, Working
  <2>2. Init => Settled = <<>> /\ Offered = [t \in Threads |-> <<>>]
    BY <2>1 DEF Init, Settled, Offered
  <2>3. QED
    BY <2>2 DEF Init, Abstract!Init
<1>2. QED
  BY <1>1, InitInv, StepInv, StepRefines, PTL DEF Spec, ImplementsDeque, Abstract!Spec
=============================================================================
