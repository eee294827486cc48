------------------------- MODULE TimeoutQueueProofs -------------------------
(***************************************************************************)
(* The three containers of TimeoutQueueNew agree, for every set of ids and *)
(* messages and every range of deadlines.                                  *)
(***************************************************************************)
EXTENDS TimeoutQueue, WellFoundedInduction, TLAPS

\* time_ is ordered: what lets the timeout calls look at its first node only.
Sorted == \A j, k \in 1 .. Len(time) : j < k => time[j].at <= time[k].at

IInv == TypeOK /\ TimeIndex /\ SendIndex /\ Sorted

-----------------------------------------------------------------------------
(* The operations of multimap and list. *)

\* A set of naturals that is not empty has a least element.
LEMMA LeastElement ==
    ASSUME NEW T \in SUBSET Nat, T # {}
    PROVE  \E k \in T : \A i \in T : k <= i
<1> DEFINE R == OpToRel(<, Nat)
<1>1. IsWellFoundedOn(R, Nat)
  BY NatLessThanWellFounded
<1>2. \A x, y \in Nat : y < x => <<y, x>> \in R
  BY DEF OpToRel
<1> HIDE DEF R
<1>3. PICK x \in T : \A y \in T : ~(<<y, x>> \in R)
  BY <1>1, WFMin, Zenon
<1>4. ASSUME NEW i \in T PROVE x <= i
  <2>1. i \in Nat /\ x \in Nat
    OBVIOUS
  <2>2. ~(i < x)
    BY <1>2, <1>3, <2>1, Zenon
  <2>3. QED
    BY <2>1, <2>2
<1>5. QED
  BY <1>3, <1>4

\* Erasing the k-th element keeps the others, in order.
LEMMA ErasedFacts ==
    ASSUME NEW S, NEW s \in Seq(S), NEW k \in 1 .. Len(s)
    PROVE  /\ Erased(s, k) \in Seq(S)
           /\ Len(Erased(s, k)) = Len(s) - 1
           /\ \A i \in 1 .. Len(s) - 1 :
                 Erased(s, k)[i] = IF i < k THEN s[i] ELSE s[i + 1]
<1>1. Len(s) - 1 \in Nat
  OBVIOUS
<1>2. \A i \in 1 .. Len(s) - 1 : (IF i < k THEN s[i] ELSE s[i + 1]) \in S
  OBVIOUS
<1>3. QED
  BY <1>1, <1>2 DEF Erased

\* Inserting at k moves the elements from k on by one.
LEMMA InsertedFacts ==
    ASSUME NEW S, NEW s \in Seq(S), NEW x \in S, NEW k \in 1 .. Len(s) + 1
    PROVE  /\ Inserted(s, k, x) \in Seq(S)
           /\ Len(Inserted(s, k, x)) = Len(s) + 1
           /\ \A i \in 1 .. Len(s) + 1 :
                 Inserted(s, k, x)[i] = IF i < k THEN s[i] ELSE IF i = k THEN x ELSE s[i - 1]
<1>1. Len(s) + 1 \in Nat
  OBVIOUS
<1>2. \A i \in 1 .. Len(s) + 1 :
         (IF i < k THEN s[i] ELSE IF i = k THEN x ELSE s[i - 1]) \in S
  OBVIOUS
<1>3. QED
  BY <1>1, <1>2 DEF Inserted

\* An ordered sequence has a place for every deadline.
LEMMA UpperBoundExists ==
    ASSUME NEW S, NEW s \in Seq(S), NEW at \in Int,
           \A j \in 1 .. Len(s) : s[j].at \in Int,
           \A j, k \in 1 .. Len(s) : j < k => s[j].at <= s[k].at
    PROVE  /\ UpperBound(s, at) \in 1 .. Len(s) + 1
           /\ \A i \in 1 .. Len(s) : i < UpperBound(s, at) => s[i].at <= at
           /\ \A i \in 1 .. Len(s) : i >= UpperBound(s, at) => s[i].at > at
<1> DEFINE Later == {i \in 1 .. Len(s) : s[i].at > at}
           P(k) == /\ \A i \in 1 .. Len(s) : i < k => s[i].at <= at
                   /\ \A i \in 1 .. Len(s) : i >= k => s[i].at > at
<1>1. Len(s) \in Nat
  OBVIOUS
<1>2. \E k \in 1 .. Len(s) + 1 : P(k)
  <2>1. CASE Later = {}
    <3>1. P(Len(s) + 1)
      BY <1>1, <2>1
    <3>2. QED
      BY <1>1, <3>1
  <2>2. CASE Later # {}
    <3>1. PICK k \in Later : \A i \in Later : k <= i
      <4>1. Later \in SUBSET Nat
        BY <1>1
      <4>2. QED
        BY <2>2, <4>1, LeastElement
    <3>2. P(k)
      BY <1>1, <3>1
    <3>3. QED
      BY <1>1, <3>1, <3>2, SMTT(30)
  <2>3. QED
    BY <2>1, <2>2
<1>3. UpperBound(s, at) \in 1 .. Len(s) + 1 /\ P(UpperBound(s, at))
  BY <1>2 DEF UpperBound
<1>4. QED
  BY <1>3

-----------------------------------------------------------------------------
(* The invariant is inductive. *)

LEMMA InitInv == Init => IInv
<1> SUFFICES ASSUME Init PROVE IInv
  OBVIOUS
<1>1. DOMAIN data = {} /\ time = <<>> /\ send = <<>>
  BY DEF Init
<1>2. Len(time) = 0 /\ Len(send) = 0 /\ time \in Seq(NodeInfo) /\ send \in Seq(Ids)
  BY <1>1
<1>3. TypeOK
  <2>1. now \in Times /\ sweepNow \in Times
    BY MaxTimeAssumption DEF Init, Times
  <2>2. QED
    BY <1>1, <1>2, <2>1 DEF Init, TypeOK
<1>4. TimeIndex /\ SendIndex /\ Sorted
  BY <1>1, <1>2 DEF TimeIndex, SendIndex, Sorted
<1>5. QED
  BY <1>3, <1>4 DEF IInv

\* The positions that the iterators of an entry stand for exist.
LEMMA Positions ==
    ASSUME IInv, NEW id \in DOMAIN data
    PROVE  /\ TimePos(id) \in 1 .. Len(time) /\ time[TimePos(id)].id = id
           /\ ~data[id].hasSend => SendPos(id) \in 1 .. Len(send) /\ send[SendPos(id)] = id
BY DEF IInv, TimeIndex, SendIndex, TimePos, SendPos, Position

\* Taking one entry out of time_ and data_.
LEMMA TimeErased ==
    ASSUME IInv, NEW id \in DOMAIN data,
           time' = Erased(time, TimePos(id)), data' = Forget(id)
    PROVE  /\ time' \in Seq(NodeInfo) /\ TimeIndex' /\ Sorted'
           /\ DOMAIN data' = DOMAIN data \ {id}
           /\ \A i \in DOMAIN data' : data'[i] = data[i]
<1> DEFINE k == TimePos(id)
<1>1. k \in 1 .. Len(time) /\ time[k].id = id
  BY Positions
<1>2. time \in Seq(NodeInfo) /\ Len(time) \in Nat
  BY DEF IInv, TypeOK
<1> HIDE DEF k
<1>3. /\ time' \in Seq(NodeInfo)
      /\ Len(time') = Len(time) - 1
      /\ \A i \in 1 .. Len(time) - 1 : time'[i] = IF i < k THEN time[i] ELSE time[i + 1]
  BY <1>1, <1>2, ErasedFacts DEF k
<1>4. DOMAIN data' = DOMAIN data \ {id} /\ \A i \in DOMAIN data' : data'[i] = data[i]
  BY DEF Forget
<1>5. \A i, j \in 1 .. Len(time) : time[i].id = time[j].id => i = j
  BY DEF IInv, TimeIndex
<1>6. ASSUME NEW i \in 1 .. Len(time')
      PROVE  \E j \in 1 .. Len(time) : j # k /\ time'[i] = time[j] /\ j \in {i, i + 1} /\ (j = i <=> i < k)
  <2>1. CASE i < k
    <3>1. i \in 1 .. Len(time) /\ i # k /\ time'[i] = time[i]
      BY <1>1, <1>2, <1>3, <2>1
    <3>2. QED
      BY <2>1, <3>1
  <2>2. CASE ~(i < k)
    <3>1. i + 1 \in 1 .. Len(time) /\ i + 1 # k /\ time'[i] = time[i + 1] /\ i + 1 # i
      BY <1>1, <1>2, <1>3, <2>2
    <3>2. QED
      BY <2>2, <3>1
  <2>3. QED
    BY <2>1, <2>2
<1>7. ASSUME NEW j \in 1 .. Len(time), j # k
      PROVE  \E i \in 1 .. Len(time') : time'[i] = time[j]
  <2>1. CASE j < k
    <3>1. j \in 1 .. Len(time') /\ time'[j] = time[j]
      BY <1>1, <1>2, <1>3, <2>1
    <3>2. QED
      BY <3>1
  <2>2. CASE j > k
    <3>1. j - 1 \in 1 .. Len(time') /\ time'[j - 1] = time[j]
      BY <1>1, <1>2, <1>3, <2>2
    <3>2. QED
      BY <3>1
  <2>3. QED
    BY <1>1, <1>2, <1>7, <2>1, <2>2
<1>8. \A i \in 1 .. Len(time') : time'[i].id \in DOMAIN data' /\ time'[i].at = data'[time'[i].id].at
  <2>1. SUFFICES ASSUME NEW i \in 1 .. Len(time')
                 PROVE  time'[i].id \in DOMAIN data' /\ time'[i].at = data'[time'[i].id].at
    OBVIOUS
  <2>2. PICK j \in 1 .. Len(time) : j # k /\ time'[i] = time[j]
    BY <1>6
  <2>3. time[j].id # id /\ time[j].id \in DOMAIN data /\ time[j].at = data[time[j].id].at
    BY <1>1, <1>5, <2>2 DEF IInv, TimeIndex
  <2>4. QED
    BY <1>4, <2>2, <2>3
<1>9. \A i, j \in 1 .. Len(time') : time'[i].id = time'[j].id => i = j
  <2>1. SUFFICES ASSUME NEW i \in 1 .. Len(time'), NEW j \in 1 .. Len(time'),
                        time'[i].id = time'[j].id
                 PROVE  i = j
    OBVIOUS
  <2>2. PICK a \in 1 .. Len(time) : time'[i] = time[a] /\ a \in {i, i + 1} /\ (a = i <=> i < k)
    BY <1>6
  <2>3. PICK b \in 1 .. Len(time) : time'[j] = time[b] /\ b \in {j, j + 1} /\ (b = j <=> j < k)
    BY <1>6
  <2>4. a = b
    BY <1>5, <2>1, <2>2, <2>3
  <2>5. QED
    BY <1>1, <1>2, <1>3, <2>2, <2>3, <2>4
<1>10. \A d \in DOMAIN data' : \E i \in 1 .. Len(time') : time'[i].id = d
  <2>1. SUFFICES ASSUME NEW d \in DOMAIN data \ {id} PROVE \E i \in 1 .. Len(time') : time'[i].id = d
    BY <1>4
  <2>2. PICK j \in 1 .. Len(time) : time[j].id = d
    BY DEF IInv, TimeIndex
  <2>3. j # k
    BY <1>1, <2>2
  <2>4. QED
    BY <1>7, <2>2, <2>3
<1>11. Sorted'
  <2>1. SUFFICES ASSUME NEW i \in 1 .. Len(time'), NEW j \in 1 .. Len(time'), i < j
                 PROVE  time'[i].at <= time'[j].at
    BY DEF Sorted
  <2>2. PICK a \in 1 .. Len(time) : time'[i] = time[a] /\ a \in {i, i + 1} /\ (a = i <=> i < k)
    BY <1>6
  <2>3. PICK b \in 1 .. Len(time) : time'[j] = time[b] /\ b \in {j, j + 1} /\ (b = j <=> j < k)
    BY <1>6
  <2>4. a < b
    BY <1>1, <1>2, <1>3, <2>1, <2>2, <2>3
  <2>5. QED
    BY <2>2, <2>3, <2>4 DEF IInv, Sorted
<1>12. TimeIndex'
  BY <1>8, <1>9, <1>10 DEF TimeIndex
<1>13. QED
  BY <1>3, <1>4, <1>11, <1>12

\* Taking the k-th node out of send_ while its request leaves the unsent ones.
LEMMA SendErased ==
    ASSUME IInv, NEW k \in 1 .. Len(send), send' = Erased(send, k),
           DOMAIN data' \in {DOMAIN data, DOMAIN data \ {send[k]}},
           \A i \in DOMAIN data' : i # send[k] => data'[i] = data[i],
           send[k] \in DOMAIN data' => data'[send[k]].hasSend
    PROVE  send' \in Seq(Ids) /\ SendIndex'
<1>1. send \in Seq(Ids) /\ Len(send) \in Nat
  BY DEF IInv, TypeOK
<1>2. /\ send' \in Seq(Ids)
      /\ Len(send') = Len(send) - 1
      /\ \A i \in 1 .. Len(send) - 1 : send'[i] = IF i < k THEN send[i] ELSE send[i + 1]
  BY <1>1, ErasedFacts
<1>3. \A i, j \in 1 .. Len(send) : send[i] = send[j] => i = j
  BY DEF IInv, SendIndex
<1>4. ASSUME NEW i \in 1 .. Len(send')
      PROVE  \E j \in 1 .. Len(send) : j # k /\ send'[i] = send[j]
  BY <1>1, <1>2, SMTT(30)
<1>5. ASSUME NEW j \in 1 .. Len(send), j # k
      PROVE  \E i \in 1 .. Len(send') : send'[i] = send[j]
  <2>1. CASE j < k
    <3>1. j \in 1 .. Len(send') /\ send'[j] = send[j]
      BY <1>1, <1>2, <2>1
    <3>2. QED
      BY <3>1
  <2>2. CASE j > k
    <3>1. j - 1 \in 1 .. Len(send') /\ send'[j - 1] = send[j]
      BY <1>1, <1>2, <2>2
    <3>2. QED
      BY <3>1
  <2>3. QED
    BY <1>1, <1>5, <2>1, <2>2
<1>6. \A i \in 1 .. Len(send') : send'[i] \in DOMAIN data' /\ ~data'[send'[i]].hasSend
  <2>1. SUFFICES ASSUME NEW i \in 1 .. Len(send')
                 PROVE  send'[i] \in DOMAIN data' /\ ~data'[send'[i]].hasSend
    OBVIOUS
  <2>2. PICK j \in 1 .. Len(send) : j # k /\ send'[i] = send[j]
    BY <1>4
  <2>3. send[j] # send[k] /\ send[j] \in DOMAIN data /\ ~data[send[j]].hasSend
    BY <1>3, <2>2 DEF IInv, SendIndex
  <2>4. QED
    BY <2>2, <2>3
<1>7. \A i, j \in 1 .. Len(send') : send'[i] = send'[j] => i = j
  BY <1>1, <1>2, <1>3, SMTT(30)
<1>8. \A d \in DOMAIN data' : ~data'[d].hasSend => \E i \in 1 .. Len(send') : send'[i] = d
  <2>1. SUFFICES ASSUME NEW d \in DOMAIN data', ~data'[d].hasSend
                 PROVE  \E i \in 1 .. Len(send') : send'[i] = d
    OBVIOUS
  <2>2. d # send[k] /\ d \in DOMAIN data /\ ~data[d].hasSend
    BY <2>1
  <2>3. PICK j \in 1 .. Len(send) : send[j] = d
    BY <2>2 DEF IInv, SendIndex
  <2>4. j # k
    BY <2>2, <2>3
  <2>5. QED
    BY <1>5, <2>3, <2>4
<1>9. QED
  BY <1>2, <1>6, <1>7, <1>8 DEF SendIndex

\* get, erase and the timeout calls: one entry leaves all containers.
LEMMA RemovedInv ==
    ASSUME IInv, NEW id \in DOMAIN data, Removed(id),
           now' \in Times, sweepNow' \in Times,
           sweep' \in {"no", "all", "func"}, aborted' \in BOOLEAN
    PROVE  IInv'
<1>1. /\ time' \in Seq(NodeInfo) /\ TimeIndex' /\ Sorted'
      /\ DOMAIN data' = DOMAIN data \ {id}
      /\ \A i \in DOMAIN data' : data'[i] = data[i]
  BY TimeErased DEF Removed
<1>2. send' \in Seq(Ids) /\ SendIndex'
  <2>1. CASE data[id].hasSend
    <3>1. send' = send
      BY <2>1 DEF Removed
    <3>2. \A k \in 1 .. Len(send) : send[k] # id
      BY <2>1 DEF IInv, SendIndex
    <3>3. QED
      BY <1>1, <3>1, <3>2 DEF IInv, TypeOK, SendIndex
  <2>2. CASE ~data[id].hasSend
    <3> DEFINE k == SendPos(id)
    <3>1. k \in 1 .. Len(send) /\ send[k] = id
      BY <2>2, Positions
    <3>2. send' = Erased(send, k)
      BY <2>2 DEF Removed
    <3> HIDE DEF k
    <3>3. QED
      BY <1>1, <3>1, <3>2, SendErased
  <2>3. QED
    BY <2>1, <2>2
<1>3. TypeOK'
  BY <1>1, <1>2 DEF IInv, TypeOK
<1>4. QED
  BY <1>1, <1>2, <1>3 DEF IInv

LEMMA PushInv ==
    ASSUME IInv, NEW m \in Msgs, NEW id \in Ids, NEW at \in Times, NEW hasSend \in BOOLEAN,
           Push(m, id, at, hasSend)
    PROVE  IInv'
<1> DEFINE k == UpperBound(time, at)
           x == [at |-> at, id |-> id]
<1>1. /\ time \in Seq(NodeInfo) /\ Len(time) \in Nat
      /\ send \in Seq(Ids) /\ Len(send) \in Nat
      /\ x \in NodeInfo /\ at \in Int /\ x.at = at /\ x.id = id
      /\ \A i \in 1 .. Len(time) : time[i] \in NodeInfo
  <2>1. time \in Seq(NodeInfo) /\ send \in Seq(Ids)
    BY DEF IInv, TypeOK
  <2>2. x \in NodeInfo /\ x.at = at /\ x.id = id
    BY DEF NodeInfo
  <2>3. at \in Int
    BY MaxTimeAssumption DEF Times
  <2>4. QED
    BY <2>1, <2>2, <2>3
<1>2. /\ k \in 1 .. Len(time) + 1
      /\ \A i \in 1 .. Len(time) : i < k => time[i].at <= at
      /\ \A i \in 1 .. Len(time) : i >= k => time[i].at > at
  <2>1. \A i \in 1 .. Len(time) : time[i].at \in Int
    BY <1>1, MaxTimeAssumption DEF NodeInfo, Times
  <2>2. \A i, j \in 1 .. Len(time) : i < j => time[i].at <= time[j].at
    BY DEF IInv, Sorted
  <2>3. QED
    BY <1>1, <2>1, <2>2, UpperBoundExists
<1>3. /\ time' = Inserted(time, k, x)
      /\ send' = IF hasSend THEN send ELSE Inserted(send, 1, id)
      /\ id \notin DOMAIN data
      /\ data' = Remember(id, [ptr |-> m, hasSend |-> hasSend, at |-> at])
      /\ UNCHANGED <<now, sweep, sweepNow, aborted>>
  BY DEF Push
<1> HIDE DEF k, x
<1>4. /\ time' \in Seq(NodeInfo)
      /\ Len(time') = Len(time) + 1
      /\ \A i \in 1 .. Len(time) + 1 :
            time'[i] = IF i < k THEN time[i] ELSE IF i = k THEN x ELSE time[i - 1]
  <2>1. time \in Seq(NodeInfo) /\ x \in NodeInfo /\ k \in 1 .. Len(time) + 1
    BY <1>1, <1>2
  <2>2. /\ Inserted(time, k, x) \in Seq(NodeInfo)
        /\ Len(Inserted(time, k, x)) = Len(time) + 1
        /\ \A i \in 1 .. Len(time) + 1 : Inserted(time, k, x)[i] =
               IF i < k THEN time[i] ELSE IF i = k THEN x ELSE time[i - 1]
    <3>1. ASSUME NEW n \in 1 .. Len(time) + 1, NEW y \in NodeInfo
          PROVE  /\ Inserted(time, n, y) \in Seq(NodeInfo)
                 /\ Len(Inserted(time, n, y)) = Len(time) + 1
                 /\ \A i \in 1 .. Len(time) + 1 : Inserted(time, n, y)[i] =
                       IF i < n THEN time[i] ELSE IF i = n THEN y ELSE time[i - 1]
      BY <2>1, InsertedFacts
    <3>2. QED
      BY <2>1, <3>1
  <2>3. QED
    BY <1>3, <2>2
<1>5. /\ DOMAIN data' = DOMAIN data \cup {id}
      /\ \A i \in DOMAIN data : data'[i] = data[i]
      /\ data'[id] \in PtrInfo /\ data'[id].at = at /\ data'[id].hasSend = hasSend
  BY <1>3 DEF Remember, PtrInfo
<1>6. \A i \in 1 .. Len(time) : /\ time[i].id \in DOMAIN data /\ time[i].id # id
                                /\ time[i].at = data[time[i].id].at /\ time[i].at \in Int
  <2>1. \A i \in 1 .. Len(time) : time[i].at \in Int
    BY <1>1, MaxTimeAssumption DEF NodeInfo, Times
  <2>2. QED
    BY <1>3, <2>1 DEF IInv, TimeIndex
<1>7. \A i, j \in 1 .. Len(time) : time[i].id = time[j].id => i = j
  BY DEF IInv, TimeIndex
<1>8. ASSUME NEW i \in 1 .. Len(time')
      PROVE  \/ i = k /\ time'[i] = x
             \/ i < k /\ i \in 1 .. Len(time) /\ time'[i] = time[i]
             \/ i > k /\ i - 1 \in 1 .. Len(time) /\ time'[i] = time[i - 1]
  BY <1>1, <1>2, <1>4, SMTT(30)
<1>9. \A i \in 1 .. Len(time') : time'[i].id \in DOMAIN data' /\ time'[i].at = data'[time'[i].id].at
  <2>1. SUFFICES ASSUME NEW i \in 1 .. Len(time')
                 PROVE  time'[i].id \in DOMAIN data' /\ time'[i].at = data'[time'[i].id].at
    OBVIOUS
  <2>2. CASE time'[i] = x
    BY <1>1, <1>5, <2>2
  <2>3. ASSUME NEW j \in 1 .. Len(time), time'[i] = time[j]
        PROVE  time'[i].id \in DOMAIN data' /\ time'[i].at = data'[time'[i].id].at
    BY <1>5, <1>6, <2>3
  <2>4. QED
    BY <1>8, <2>2, <2>3
<1>10. \A i, j \in 1 .. Len(time') : time'[i].id = time'[j].id => i = j
  <2>1. SUFFICES ASSUME NEW i \in 1 .. Len(time'), NEW j \in 1 .. Len(time'),
                        time'[i].id = time'[j].id
                 PROVE  i = j
    OBVIOUS
  <2>2. i \in Int /\ j \in Int
    BY <1>1, <1>4
  <2>3. \/ i = k /\ time'[i] = x
        \/ i < k /\ i \in 1 .. Len(time) /\ time'[i] = time[i]
        \/ i > k /\ i - 1 \in 1 .. Len(time) /\ time'[i] = time[i - 1]
    BY <1>8
  <2>4. \/ j = k /\ time'[j] = x
        \/ j < k /\ j \in 1 .. Len(time) /\ time'[j] = time[j]
        \/ j > k /\ j - 1 \in 1 .. Len(time) /\ time'[j] = time[j - 1]
    BY <1>8
  <2>5. x.id = id /\ k \in Int
    BY <1>1, <1>2
  <2>6. CASE i = k \/ j = k
    BY <1>6, <2>1, <2>2, <2>3, <2>4, <2>5, <2>6, SMTT(30)
  <2>7. CASE i # k /\ j # k
    <3>1. PICK a \in 1 .. Len(time) : time'[i] = time[a] /\ a = IF i < k THEN i ELSE i - 1
      BY <2>2, <2>3, <2>5, <2>7
    <3>2. PICK b \in 1 .. Len(time) : time'[j] = time[b] /\ b = IF j < k THEN j ELSE j - 1
      BY <2>2, <2>4, <2>5, <2>7
    <3>3. a = b
      BY <1>7, <2>1, <3>1, <3>2
    <3>4. QED
      BY <2>2, <2>5, <2>7, <3>1, <3>2, <3>3
  <2>8. QED
    BY <2>6, <2>7
<1>11. \A d \in DOMAIN data' : \E i \in 1 .. Len(time') : time'[i].id = d
  <2>1. SUFFICES ASSUME NEW d \in DOMAIN data \cup {id}
                 PROVE  \E i \in 1 .. Len(time') : time'[i].id = d
    BY <1>5
  <2>2. CASE d = id
    <3>1. k \in 1 .. Len(time') /\ time'[k] = x
      BY <1>1, <1>2, <1>4
    <3>2. QED
      BY <1>1, <2>2, <3>1
  <2>3. CASE d # id
    <3>1. PICK j \in 1 .. Len(time) : time[j].id = d
      BY <2>1, <2>3 DEF IInv, TimeIndex
    <3>2. CASE j < k
      <4>1. j \in 1 .. Len(time') /\ time'[j] = time[j]
        BY <1>1, <1>2, <1>4, <3>2
      <4>2. QED
        BY <3>1, <4>1
    <3>3. CASE j >= k
      <4>1. j + 1 \in 1 .. Len(time') /\ time'[j + 1] = time[j]
        BY <1>1, <1>2, <1>4, <3>3
      <4>2. QED
        BY <3>1, <4>1
    <3>4. QED
      BY <1>1, <1>2, <3>1, <3>2, <3>3
  <2>4. QED
    BY <2>2, <2>3
<1>12. Sorted'
  <2>1. SUFFICES ASSUME NEW i \in 1 .. Len(time'), NEW j \in 1 .. Len(time'), i < j
                 PROVE  time'[i].at <= time'[j].at
    BY DEF Sorted
  <2>2. i \in Int /\ j \in Int
    BY <1>1, <1>4
  <2>3. \A a, b \in 1 .. Len(time) : a < b => time[a].at <= time[b].at
    BY DEF IInv, Sorted
  <2>4. \/ i = k /\ time'[i] = x
        \/ i < k /\ i \in 1 .. Len(time) /\ time'[i] = time[i]
        \/ i > k /\ i - 1 \in 1 .. Len(time) /\ time'[i] = time[i - 1]
    BY <1>8
  <2>5. \/ j = k /\ time'[j] = x
        \/ j < k /\ j \in 1 .. Len(time) /\ time'[j] = time[j]
        \/ j > k /\ j - 1 \in 1 .. Len(time) /\ time'[j] = time[j - 1]
    BY <1>8
  <2>6. x.at = at /\ at \in Int /\ k \in Int
    BY <1>1, <1>2
  <2>7. CASE i = k
    BY <1>2, <1>6, <2>1, <2>2, <2>4, <2>5, <2>6, <2>7
  <2>8. CASE j = k
    BY <1>2, <1>6, <2>1, <2>2, <2>4, <2>5, <2>6, <2>8
  <2>9. CASE i # k /\ j # k
    <3>1. CASE i < k /\ j < k
      BY <2>1, <2>2, <2>3, <2>4, <2>5, <2>6, <3>1
    <3>2. CASE i < k /\ j > k
      <4>1. i < j - 1
        BY <2>2, <2>6, <3>2
      <4>2. QED
        BY <2>3, <2>4, <2>5, <3>2, <4>1, <2>2, <2>6
    <3>3. CASE i > k
      <4>1. j > k /\ i - 1 < j - 1
        BY <2>1, <2>2, <2>6, <3>3
      <4>2. QED
        BY <2>3, <2>4, <2>5, <3>3, <4>1, <2>2, <2>6, SMTT(30)
    <3>4. QED
      BY <2>1, <2>2, <2>6, <2>9, <3>1, <3>2, <3>3
  <2>10. QED
    BY <2>7, <2>8, <2>9
<1>13. send' \in Seq(Ids) /\ SendIndex'
  <2>1. \A i \in 1 .. Len(send) : send[i] \in DOMAIN data /\ send[i] # id /\ ~data[send[i]].hasSend
    BY <1>3 DEF IInv, SendIndex
  <2>2. CASE hasSend
    <3>1. send' = send
      BY <1>3, <2>2
    <3>2. QED
      BY <1>1, <1>5, <2>1, <2>2, <3>1 DEF IInv, SendIndex
  <2>3. CASE ~hasSend
    <3>1. /\ send' \in Seq(Ids) /\ Len(send') = Len(send) + 1
          /\ \A i \in 1 .. Len(send) + 1 :
               send'[i] = IF i < 1 THEN send[i] ELSE IF i = 1 THEN id ELSE send[i - 1]
      <4>1. send' = Inserted(send, 1, id) /\ 1 \in 1 .. Len(send) + 1
        BY <1>1, <1>3, <2>3
      <4>2. QED
        BY <1>1, <4>1, InsertedFacts, SMTT(30)
    <3>2. ASSUME NEW i \in 1 .. Len(send')
          PROVE  \/ i = 1 /\ send'[i] = id
                 \/ i - 1 \in 1 .. Len(send) /\ send'[i] = send[i - 1]
      BY <1>1, <3>1
    <3>3. \A i \in 1 .. Len(send') : send'[i] \in DOMAIN data' /\ ~data'[send'[i]].hasSend
      BY <1>5, <2>1, <2>3, <3>2
    <3>4. \A i, j \in 1 .. Len(send) : send[i] = send[j] => i = j
      BY DEF IInv, SendIndex
    <3>5. \A i, j \in 1 .. Len(send') : send'[i] = send'[j] => i = j
      <4>1. SUFFICES ASSUME NEW i \in 1 .. Len(send'), NEW j \in 1 .. Len(send'), send'[i] = send'[j]
                     PROVE  i = j
        OBVIOUS
      <4>2. i \in Int /\ j \in Int
        BY <1>1, <3>1
      <4>3. QED
        BY <2>1, <3>2, <3>4, <4>1, <4>2, SMTT(30)
    <3>6. \A d \in DOMAIN data' : ~data'[d].hasSend => \E i \in 1 .. Len(send') : send'[i] = d
      <4>1. SUFFICES ASSUME NEW d \in DOMAIN data \cup {id}, ~data'[d].hasSend
                     PROVE  \E i \in 1 .. Len(send') : send'[i] = d
        BY <1>5
      <4>2. CASE d = id
        <5>1. 1 \in 1 .. Len(send') /\ send'[1] = id
          BY <1>1, <3>1
        <5>2. QED
          BY <4>2, <5>1
      <4>3. CASE d # id
        <5>1. d \in DOMAIN data /\ ~data[d].hasSend
          BY <1>5, <4>1, <4>3
        <5>2. PICK j \in 1 .. Len(send) : send[j] = d
          BY <5>1 DEF IInv, SendIndex
        <5>3. j + 1 \in 1 .. Len(send') /\ send'[j + 1] = send[j]
          BY <1>1, <3>1
        <5>4. QED
          BY <5>2, <5>3
      <4>4. QED
        BY <4>2, <4>3
    <3>7. QED
      BY <3>1, <3>3, <3>5, <3>6 DEF SendIndex
  <2>4. QED
    BY <2>2, <2>3
<1>14. TimeIndex'
  BY <1>9, <1>10, <1>11 DEF TimeIndex
<1>15. TypeOK'
  BY <1>3, <1>4, <1>5, <1>13 DEF IInv, TypeOK
<1>16. QED
  BY <1>12, <1>13, <1>14, <1>15 DEF IInv

\* popSend and popSend(true): the oldest unsent request leaves send_.
LEMMA PopSendInv ==
    ASSUME IInv, PopSend \/ PopSendDel
    PROVE  IInv'
<1> DEFINE n == Len(send)
           id == send[n]
<1>1. n \in 1 .. Len(send) /\ send \in Seq(Ids) /\ id \in DOMAIN data /\ ~data[id].hasSend
  <2>1. send \in Seq(Ids) /\ send # <<>>
    BY DEF IInv, TypeOK, PopSend, PopSendDel
  <2>2. n \in 1 .. Len(send)
    BY <2>1
  <2>3. QED
    BY <2>1, <2>2 DEF IInv, SendIndex
<1>2. UNCHANGED <<now, sweep, sweepNow, aborted>> /\ send' = Erased(send, n)
  BY DEF PopSend, PopSendDel
<1>3. CASE PopSend
  <2>1. /\ DOMAIN data' = DOMAIN data
        /\ \A i \in DOMAIN data : i # id => data'[i] = data[i]
        /\ data'[id] = [data[id] EXCEPT !.hasSend = TRUE]
        /\ time' = time
    BY <1>1, <1>3 DEF PopSend, Remember
  <2>2. data[id] \in PtrInfo
    BY <1>1 DEF IInv, TypeOK
  <2>3. data'[id] \in PtrInfo /\ data'[id].hasSend /\ data'[id].at = data[id].at
    BY <2>1, <2>2 DEF PtrInfo
  <2> HIDE DEF n, id
  <2>4. send' \in Seq(Ids) /\ SendIndex'
    <3>1. \A i \in DOMAIN data' : i # send[n] => data'[i] = data[i]
      BY <2>1 DEF id
    <3>2. send[n] \in DOMAIN data' => data'[send[n]].hasSend
      BY <2>3 DEF id
    <3>3. QED
      BY <1>1, <1>2, <2>1, <3>1, <3>2, SendErased
  <2>5. TimeIndex' /\ Sorted'
    <3>1. \A i \in DOMAIN data : data'[i].at = data[i].at
      BY <2>1, <2>3
    <3>2. QED
      BY <2>1, <3>1 DEF IInv, TimeIndex, Sorted
  <2>6. TypeOK'
    <3>1. \A i \in DOMAIN data' : data'[i] \in PtrInfo
      BY <2>1, <2>3 DEF IInv, TypeOK
    <3>2. QED
      BY <1>2, <2>1, <2>4, <3>1 DEF IInv, TypeOK
  <2>7. QED
    BY <2>4, <2>5, <2>6 DEF IInv
<1>4. CASE PopSendDel
  <2>1. time' = Erased(time, TimePos(id)) /\ data' = Forget(id)
    BY <1>4 DEF PopSendDel
  <2> HIDE DEF n, id
  <2>2. /\ time' \in Seq(NodeInfo) /\ TimeIndex' /\ Sorted'
        /\ DOMAIN data' = DOMAIN data \ {id}
        /\ \A i \in DOMAIN data' : data'[i] = data[i]
    BY <1>1, <2>1, TimeErased
  <2>3. send' \in Seq(Ids) /\ SendIndex'
    <3>1. DOMAIN data' = DOMAIN data \ {send[n]}
      BY <2>2 DEF id
    <3>2. QED
      BY <1>1, <1>2, <2>2, <3>1, SendErased
  <2>4. TypeOK'
    BY <1>2, <2>2, <2>3 DEF IInv, TypeOK
  <2>5. QED
    BY <2>2, <2>3, <2>4 DEF IInv
<1>5. QED
  BY <1>3, <1>4

\* The first node of time_ belongs to an entry.
LEMMA FirstNode ==
    ASSUME IInv, time # <<>>
    PROVE  1 \in 1 .. Len(time) /\ time[1].id \in DOMAIN data
<1>1. time \in Seq(NodeInfo)
  BY DEF IInv, TypeOK
<1>2. 1 \in 1 .. Len(time)
  BY <1>1
<1>3. QED
  BY <1>2 DEF IInv, TimeIndex

LEMMA StepInv == IInv /\ [Next]_vars => IInv'
<1> SUFFICES ASSUME IInv, [Next]_vars PROVE IInv'
  OBVIOUS
<1>0. /\ now \in Times /\ sweepNow \in Times /\ aborted \in BOOLEAN
      /\ sweep \in {"no", "all", "func"}
  BY DEF IInv, TypeOK
<1>a. ASSUME UNCHANGED <<data, time, send>>, now' \in Times, sweepNow' \in Times,
             sweep' \in {"no", "all", "func"}, aborted' \in BOOLEAN
      PROVE  IInv'
  BY <1>a DEF IInv, TypeOK, TimeIndex, SendIndex, Sorted
<1>1. ASSUME NEW m \in Msgs, NEW id \in Ids, NEW at \in Times, NEW hasSend \in BOOLEAN,
             Push(m, id, at, hasSend)
      PROVE  IInv'
  BY <1>1, PushInv
<1>2. ASSUME NEW id \in Ids, Erase(id) PROVE IInv'
  BY <1>0, <1>2, RemovedInv DEF Erase
<1>3. CASE GetSend
  BY <1>0, <1>a, <1>3 DEF GetSend
<1>4. CASE PopSend \/ PopSendDel
  BY <1>4, PopSendInv
<1>5. ASSUME NEW kind \in {"all", "func"}, SweepBegin(kind) PROVE IInv'
  BY <1>0, <1>a, <1>5 DEF SweepBegin
<1>6. CASE SweepStep
  <2>1. sweepNow' \in Times /\ now' \in Times /\ aborted' \in BOOLEAN
    BY <1>0, <1>6 DEF SweepStep
  <2>2. CASE time = <<>> \/ time[1].at > sweepNow'
    BY <1>a, <1>6, <2>1, <2>2 DEF SweepStep
  <2>3. CASE ~(time = <<>> \/ time[1].at > sweepNow')
    BY <1>0, <1>6, <2>1, <2>3, FirstNode, RemovedInv DEF SweepStep
  <2>4. QED
    BY <2>2, <2>3
<1>7. CASE TimeoutOne
  BY <1>0, <1>7, FirstNode, RemovedInv DEF TimeoutOne
<1>8. CASE Clock
  BY <1>0, <1>a, <1>8 DEF Clock
<1>9. CASE UNCHANGED vars
  BY <1>0, <1>a, <1>9 DEF vars
<1>10. QED
  BY <1>1, <1>2, <1>3, <1>4, <1>5, <1>6, <1>7, <1>8, <1>9 DEF Next

\* The three containers hold entries, nodes and ids of their kinds, whatever
\* the calls and the callbacks of timeout(func).
THEOREM TypeCorrect == Spec => []TypeOK
<1>1. IInv => TypeOK
  BY DEF IInv
<1>2. QED
  BY <1>1, InitInv, StepInv, PTL DEF Spec

\* No sequence of calls leaves a dangling iterator or a stray node in the three
\* containers of TimeoutQueueNew.
THEOREM Consistency == Spec => []IndexesAgree
<1>1. IInv => IndexesAgree
  BY DEF IInv, IndexesAgree
<1>2. QED
  BY <1>1, InitInv, StepInv, PTL DEF Spec

\* A sweep removes none but expired requests, whether or not there is a callback,
\* and timeout() without a callback removes all of them (TimeoutQueueNew.hpp:144-217).
THEOREM Sweeping == Spec => SweepExact
<1> DEFINE A == /\ sweep # "no" /\ sweep' = "no" => \A id \in DOMAIN data' : data'[id].at > sweepNow'
                /\ SweepStep => \A id \in DOMAIN data \ DOMAIN data' : data[id].at <= sweepNow'
<1>1. IInv /\ [Next]_vars => [A]_vars
  <2> SUFFICES ASSUME IInv, Next PROVE A
    BY Zenon
  <2> USE DEF Callable
  <2>1. CASE SweepStep
    <3>0. /\ time \in Seq(NodeInfo) /\ sweepNow' \in Int /\ sweepNow \in Int
          /\ \A k \in 1 .. Len(time) : time[k].at \in Int
      <4>1. time \in Seq(NodeInfo) /\ sweepNow' \in Times /\ sweepNow \in Times
        BY <2>1 DEF IInv, TypeOK, SweepStep
      <4>2. \A k \in 1 .. Len(time) : time[k] \in NodeInfo
        BY <4>1
      <4>3. QED
        BY <4>1, <4>2, MaxTimeAssumption, SMTT(30) DEF NodeInfo, Times
    <3>1. CASE time = <<>> \/ time[1].at > sweepNow'
      <4>1. data' = data
        BY <2>1, <3>1 DEF SweepStep
      <4>2. ASSUME NEW id \in DOMAIN data PROVE data[id].at > sweepNow'
        <5>1. PICK k \in 1 .. Len(time) : time[k].id = id /\ time[k].at = data[id].at
          BY DEF IInv, TimeIndex
        <5>2. time # <<>> /\ k \in Int /\ 1 <= k /\ 1 \in 1 .. Len(time)
          BY <3>0, <5>1
        <5>3. time[1].at <= time[k].at
          BY <3>0, <5>2 DEF IInv, Sorted
        <5>4. QED
          BY <3>0, <3>1, <5>1, <5>2, <5>3
      <4>3. QED
        BY <4>1, <4>2
    <3>2. CASE ~(time = <<>> \/ time[1].at > sweepNow')
      <4>1. /\ sweep' = sweep /\ Removed(time[1].id)
            /\ time[1].id \in DOMAIN data /\ time[1].at = data[time[1].id].at
            /\ time[1].at <= sweepNow'
        BY <2>1, <3>0, <3>2, FirstNode DEF SweepStep, IInv, TimeIndex
      <4>2. DOMAIN data' = DOMAIN data \ {time[1].id}
        BY <4>1 DEF Removed, Forget
      <4>3. QED
        BY <4>1, <4>2
    <3>3. QED
      BY <3>1, <3>2
  <2>2. ASSUME ~SweepStep, sweep # "no" => sweep' = sweep PROVE A
    BY <2>2
  <2>3. ASSUME NEW m \in Msgs, NEW id \in Ids, NEW at \in Times, NEW hasSend \in BOOLEAN,
               Push(m, id, at, hasSend)
        PROVE  sweep' = sweep
    BY <2>3 DEF Push
  <2>4. ASSUME NEW id \in Ids, Erase(id) PROVE sweep' = sweep
    BY <2>4 DEF Erase
  <2>5. CASE GetSend \/ PopSend \/ PopSendDel \/ TimeoutOne \/ Clock
    <3>1. sweep' = sweep
      BY <2>5 DEF GetSend, PopSend, PopSendDel, TimeoutOne, Clock
    <3>2. QED
      BY <2>1, <2>2, <3>1
  <2>6. ASSUME NEW kind \in {"all", "func"}, SweepBegin(kind) PROVE sweep = "no"
    BY <2>6 DEF SweepBegin
  <2>7. QED
    BY <2>1, <2>2, <2>3, <2>4, <2>5, <2>6 DEF Next
<1>2. QED
  BY <1>1, InitInv, StepInv, PTL DEF Spec, SweepExact
=============================================================================
