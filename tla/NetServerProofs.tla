--------------------------- MODULE NetServerProofs ---------------------------
(***************************************************************************)
(* The server answers the right client, once, and no request vanishes: for *)
(* any number of clients, requests, uids and coroutines.                   *)
(***************************************************************************)
EXTENDS NetServer, FiniteSetTheorems, TLAPS

-----------------------------------------------------------------------------
(* How often a request occurs in a deque. *)

Positions(s, c, k) == {i \in 1 .. Len(s) : s[i].c = c /\ s[i].k = k}

\* what one element contributes
Hit(x, c, k) == IF x.c = c /\ x.k = k THEN 1 ELSE 0

\* A count is a natural number, and zero only if there is no such element.
LEMMA TimesFacts ==
    ASSUME NEW S, NEW s \in Seq(S), NEW c, NEW k
    PROVE  /\ IsFiniteSet(Positions(s, c, k))
           /\ Times(s, c, k) = Cardinality(Positions(s, c, k))
           /\ Times(s, c, k) \in Nat
           /\ Times(s, c, k) = 0 <=> \A i \in 1 .. Len(s) : ~(s[i].c = c /\ s[i].k = k)
<1>1. 1 \in Int /\ Len(s) \in Int
  OBVIOUS
<1>2. IsFiniteSet(1 .. Len(s))
  BY <1>1, FS_Interval
<1>3. Positions(s, c, k) \in SUBSET (1 .. Len(s))
  BY DEF Positions
<1>4. IsFiniteSet(Positions(s, c, k))
  BY <1>2, <1>3, FS_Subset
<1>5. Times(s, c, k) = Cardinality(Positions(s, c, k))
  BY DEF Times, Positions
<1>6. Times(s, c, k) \in Nat
  BY <1>4, <1>5, FS_CardinalityType
<1>7. Times(s, c, k) = 0 <=> Positions(s, c, k) = {}
  BY <1>4, <1>5, FS_EmptySet
<1>8. Positions(s, c, k) = {} <=> \A i \in 1 .. Len(s) : ~(s[i].c = c /\ s[i].k = k)
  BY DEF Positions
<1>9. QED
  BY <1>4, <1>5, <1>6, <1>7, <1>8

LEMMA TimesEmpty ==
    ASSUME NEW c, NEW k
    PROVE  Times(<<>>, c, k) = 0
<1>1. <<>> \in Seq({})
  OBVIOUS
<1>2. \A i \in 1 .. Len(<<>>) : ~(<<>>[i].c = c /\ <<>>[i].k = k)
  OBVIOUS
<1>3. QED
  BY <1>1, <1>2, TimesFacts

LEMMA TimesOne ==
    ASSUME NEW x, NEW c, NEW k
    PROVE  Times(<<x>>, c, k) = Hit(x, c, k)
<1>1. CASE x.c = c /\ x.k = k
  <2>1. Positions(<<x>>, c, k) = {1}
    BY <1>1 DEF Positions
  <2>2. QED
    BY <1>1, <2>1, FS_Singleton DEF Times, Positions, Hit
<1>2. CASE ~(x.c = c /\ x.k = k)
  <2>1. Positions(<<x>>, c, k) = {}
    BY <1>2 DEF Positions
  <2>2. QED
    BY <1>2, <2>1, FS_EmptySet DEF Times, Positions, Hit
<1>3. QED
  BY <1>1, <1>2

\* push_back(queue) adds the counts.
LEMMA TimesConcat ==
    ASSUME NEW S, NEW s \in Seq(S), NEW t \in Seq(S), NEW c, NEW k
    PROVE  Times(s \o t, c, k) = Times(s, c, k) + Times(t, c, k)
<1> DEFINE A == Positions(s, c, k)
           B == Positions(t, c, k)
           m == Len(s)
           C == {i \in m + 1 .. m + Len(t) : (s \o t)[i].c = c /\ (s \o t)[i].k = k}
           f == [j \in B |-> m + j]
<1>1. m \in Nat /\ Len(t) \in Nat
  OBVIOUS
<1>2. /\ Len(s \o t) = m + Len(t) /\ s \o t \in Seq(S)
      /\ \A i \in 1 .. m : (s \o t)[i] = s[i]
      /\ \A j \in 1 .. Len(t) : (s \o t)[m + j] = t[j]
  OBVIOUS
<1>3. Positions(s \o t, c, k) = A \cup C
  BY <1>1, <1>2 DEF Positions
<1>4. A \cap C = {}
  BY <1>1 DEF Positions
<1>5. f \in [B -> C]
  BY <1>1, <1>2 DEF Positions
<1>6. \A x, y \in B : f[x] = f[y] => x = y
  BY <1>1 DEF Positions
<1>7. \A y \in C : \E x \in B : f[x] = y
  <2>1. TAKE y \in C
  <2>2. y - m \in 1 .. Len(t) /\ m + (y - m) = y
    BY <1>1
  <2>3. (s \o t)[y] = t[y - m]
    BY <1>2, <2>2
  <2>4. y - m \in B
    BY <2>2, <2>3 DEF Positions
  <2>5. QED
    BY <2>2, <2>4
<1>9. IsFiniteSet(A) /\ IsFiniteSet(B)
  BY TimesFacts
<1>14. Times(s \o t, c, k) = Cardinality(A \cup C)
  <2>1. Times(s \o t, c, k) = Cardinality(Positions(s \o t, c, k))
    BY DEF Times, Positions
  <2>2. QED
    BY <1>3, <2>1
<1> HIDE DEF A, B, C, f, m
<1>8. ExistsBijection(B, C)
  <2>1. f \in Injection(B, C)
    BY <1>5, <1>6 DEF Injection, IsInjective
  <2>2. f \in Surjection(B, C)
    BY <1>5, <1>7 DEF Surjection
  <2>3. QED
    BY <2>1, <2>2 DEF ExistsBijection, Bijection
<1>10. IsFiniteSet(C) /\ Cardinality(C) = Cardinality(B)
  BY <1>8, <1>9, FS_Bijection
<1>11. Cardinality(A \cup C) = Cardinality(A) + Cardinality(C) - Cardinality(A \cap C)
  BY <1>9, <1>10, FS_Union
<1>12. Cardinality(A \cap C) = 0
  BY <1>4, FS_EmptySet
<1>13. Cardinality(A) \in Nat /\ Cardinality(B) \in Nat
  BY <1>9, FS_CardinalityType
<1>15. Times(s, c, k) = Cardinality(A) /\ Times(t, c, k) = Cardinality(B)
  BY TimesFacts DEF A, B
<1>16. QED
  BY <1>10, <1>11, <1>12, <1>13, <1>14, <1>15

\* What leaves at the front is counted no longer.
LEMMA TimesTail ==
    ASSUME NEW S, NEW s \in Seq(S), s # <<>>, NEW c, NEW k
    PROVE  Times(s, c, k) = Hit(Head(s), c, k) + Times(Tail(s), c, k)
<1> DEFINE h == <<Head(s)>>
           t == Tail(s)
<1>1. h \in Seq(S) /\ t \in Seq(S)
  OBVIOUS
<1>2. s = h \o t
  OBVIOUS
<1>3. Times(h, c, k) = Hit(Head(s), c, k)
  BY TimesOne
<1> HIDE DEF h, t
<1>4. Times(h \o t, c, k) = Times(h, c, k) + Times(t, c, k)
  BY <1>1, TimesConcat
<1>5. QED
  BY <1>2, <1>3, <1>4 DEF t

\* what a read of n complete requests puts into the receive deque
Block(d, p, n, u) == [i \in 1 .. n |-> [closed |-> FALSE, c |-> d, k |-> p + i, uid |-> u]]

\* Each of them counts once.
LEMMA TimesBlock ==
    ASSUME NEW d, NEW p \in Nat, NEW n \in Nat, NEW u, NEW c, NEW k \in Nat
    PROVE  Times(Block(d, p, n, u), c, k) = IF c = d /\ k \in p + 1 .. p + n THEN 1 ELSE 0
<1> DEFINE b == Block(d, p, n, u)
<1>1. Len(b) = n /\ \A i \in 1 .. n : b[i].c = d /\ b[i].k = p + i
  BY DEF Block
<1> HIDE DEF b
<1>2. CASE c = d /\ k \in p + 1 .. p + n
  <2>1. Positions(b, c, k) = {k - p}
    BY <1>1, <1>2 DEF Positions
  <2>2. Cardinality({k - p}) = 1
    BY FS_Singleton
  <2>3. QED
    BY <1>2, <2>1, <2>2 DEF Times, Positions, b
<1>3. CASE ~(c = d /\ k \in p + 1 .. p + n)
  <2>1. Positions(b, c, k) = {}
    BY <1>1, <1>3 DEF Positions
  <2>2. QED
    BY <1>3, <2>1, FS_EmptySet DEF Times, Positions, b
<1>4. QED
  BY <1>2, <1>3

-----------------------------------------------------------------------------
(***************************************************************************)
(* The inductive invariant.                                                *)
(***************************************************************************)

\* No half is read twice: what was cut out, buffered or still with the kernel
\* was sent.
Halves == \A c \in Clients : 2 * parsed[c] + recvBuf[c] + arrived[c] <= sent[c]

\* connectionUids_ and uid_ agree; a uid in free_ was never given away, and
\* no uid was given away twice.
Table ==
    /\ \A u \in Uids : connOf[u] # None => uidOf[connOf[u]] = u
    /\ \A c \in Clients : state[c] \in {"out", "backlog"} => uidOf[c] = 0
    /\ \A i \in 1 .. Len(free) : \A c \in Clients : uidOf[c] # free[i]
    /\ \A i, j \in 1 .. Len(free) : free[i] = free[j] => i = j
    /\ \A c, d \in Clients : uidOf[c] = uidOf[d] /\ uidOf[c] # 0 => c = d

\* Request k of client c was cut out, and came with this uid.
Came(c, k, uid) == c \in Clients /\ k \in 1 .. parsed[c] /\ uid = uidOf[c]

Received(d)  == IF d.closed THEN d.k = 0 ELSE Came(d.c, d.k, d.uid)
Sendable(d)  == IF d.cmd = "s" THEN Came(d.c, d.k, d.uid) ELSE d.c = None /\ d.k = 0

\* What travels through the server are requests that came.
Known ==
    /\ \A i \in 1 .. Len(recvDeque) : Received(recvDeque[i])
    /\ \A r \in running \cup lost : Came(r.c, r.k, r.uid)
    /\ \A i \in 1 .. Len(sendDeque) : Sendable(sendDeque[i])
    /\ \A i \in 1 .. Len(pipe) : Sendable(pipe[i])
    /\ \A c \in Clients : \A i \in 1 .. Len(out[c]) : out[c][i].k \in 1 .. parsed[c]

\* The deque that the network thread works through is empty before the next
\* swap.
Idle == npc # "pipe" => pipe = <<>>

Finite == IsFiniteSet(running) /\ IsFiniteSet(lost)

IInv == /\ TypeOK /\ Halves /\ Table /\ Known /\ Idle /\ Finite
        /\ RightConnection /\ Accounted
-----------------------------------------------------------------------------
(* Types. *)

USE DEF Notify, Listen

\* The empty deque, and the ends of one that is not.
LEMMA SeqFacts ==
    ASSUME NEW S
    PROVE  /\ <<>> \in Seq(S)
           /\ \A s \in Seq(S) : s # <<>> => /\ Head(s) \in S /\ Head(s) = s[1] /\ Tail(s) \in Seq(S)
                                            /\ 1 \in 1 .. Len(s) /\ Len(Tail(s)) = Len(s) - 1
                                            /\ Len(s) \in Nat
                                            /\ \A i \in 1 .. Len(Tail(s)) : Tail(s)[i] = s[i + 1] /\ i + 1 \in 1 .. Len(s)
           /\ \A s, t \in Seq(S) : s \o t \in Seq(S)
           /\ \A x \in S : <<x>> \in Seq(S)
OBVIOUS

LEMMA AppendIsConcat ==
    ASSUME NEW S, NEW s \in Seq(S), NEW x \in S
    PROVE  Append(s, x) = s \o <<x>> /\ <<x>> \in Seq(S)
OBVIOUS

LEMMA ConcatAll ==
    ASSUME NEW S, NEW s \in Seq(S), NEW t \in Seq(S)
    PROVE  \A i \in 1 .. Len(s \o t) : \/ i \in 1 .. Len(s) /\ (s \o t)[i] = s[i]
                                       \/ \E j \in 1 .. Len(t) : (s \o t)[i] = t[j]
<1>1. Len(s) \in Nat /\ Len(t) \in Nat /\ Len(s \o t) = Len(s) + Len(t)
  OBVIOUS
<1>2. /\ \A i \in 1 .. Len(s) : (s \o t)[i] = s[i]
      /\ \A j \in 1 .. Len(t) : (s \o t)[Len(s) + j] = t[j]
  OBVIOUS
<1>3. TAKE i \in 1 .. Len(s \o t)
<1>4. CASE i \in 1 .. Len(s)
  BY <1>2, <1>4
<1>5. CASE i \notin 1 .. Len(s)
  <2>1. i - Len(s) \in 1 .. Len(t) /\ i = Len(s) + (i - Len(s))
    BY <1>1, <1>5
  <2>2. (s \o t)[i] = t[i - Len(s)]
    BY <1>2, <2>1
  <2>3. QED
    BY <2>1, <2>2
<1>6. QED
  BY <1>4, <1>5

\* What a read cuts out is what came, for any number of halves.
LEMMA Cut ==
    ASSUME NEW h \in Nat
    PROVE  /\ h \div 2 \in Nat /\ h % 2 \in 0 .. 1
           /\ 2 * (h \div 2) + (h % 2) = h
OBVIOUS

LEMMA UidFacts == /\ Uids \subseteq Nat /\ 0 \notin Uids /\ UidCount \in Nat /\ MaxReq \in Nat
                  /\ Uids \subseteq 0 .. UidCount /\ 0 .. UidCount \subseteq Events
                  /\ \A u \in 0 .. UidCount : u # 0 => u \in Uids
BY SizesAssumption DEF Uids, Events

LEMMA HalfFacts ==
    ASSUME TypeOK, NEW c \in Clients
    PROVE  /\ sent[c] \in 0 .. 2 * MaxReq /\ sent[c] \in Nat /\ arrived[c] \in Nat
           /\ recvBuf[c] \in Nat /\ parsed[c] \in Nat /\ 0 \in 0 .. 2 * MaxReq
<1>1. /\ sent[c] \in 0 .. 2 * MaxReq /\ arrived[c] \in 0 .. 2 * MaxReq
      /\ recvBuf[c] \in 0 .. 1 /\ parsed[c] \in 0 .. MaxReq
  BY DEF TypeOK
<1>2. 2 * MaxReq \in Nat /\ MaxReq \in Nat
  BY UidFacts
<1>3. QED
  BY <1>1, <1>2

\* Requests that came stay so: parsed only grows, and a uid is given once.
LEMMA KnownStays ==
    ASSUME TypeOK, parsed' \in [Clients -> Nat],
           \A c \in Clients : parsed[c] <= parsed'[c],
           \A c \in Clients : uidOf[c] # 0 => uidOf'[c] = uidOf[c]
    PROVE  /\ \A d \in RecvData : Received(d) => Received(d)'
           /\ \A d \in SendData : Sendable(d) => Sendable(d)'
           /\ \A r \in Request : Came(r.c, r.k, r.uid) => Came(r.c, r.k, r.uid)'
<1>1. ASSUME NEW c, NEW k, NEW uid \in Uids, Came(c, k, uid) PROVE Came(c, k, uid)'
  <2>1. c \in Clients /\ k \in 1 .. parsed[c] /\ uid = uidOf[c]
    BY <1>1 DEF Came
  <2>2. uidOf'[c] = uidOf[c]
    BY <2>1, UidFacts
  <2>3. k \in 1 .. parsed'[c]
    BY <2>1, SMTT(30) DEF TypeOK
  <2>4. QED
    BY <2>1, <2>2, <2>3 DEF Came
<1>2. ASSUME NEW d \in RecvData, Received(d) PROVE Received(d)'
  BY <1>1, <1>2 DEF Received, RecvData
<1>3. ASSUME NEW d \in SendData, Sendable(d) PROVE Sendable(d)'
  BY <1>1, <1>3 DEF Sendable, SendData
<1>4. ASSUME NEW r \in Request, Came(r.c, r.k, r.uid) PROVE Came(r.c, r.k, r.uid)'
  BY <1>1, <1>4 DEF Request
<1>5. QED
  BY <1>2, <1>3, <1>4

(* The places where a request can be. *)

Waiting(c, k) == {r \in running : r.c = c /\ r.k = k /\ ~(hand # None /\ hand.c = c /\ hand.k = k)}
Dropped(c, k) == {r \in lost : r.c = c /\ r.k = k}

Total(c, k) == Times(recvDeque, c, k) + Times(sendDeque, c, k) + Times(pipe, c, k) + Times(out[c], c, k)
                 + Cardinality(Waiting(c, k)) + Cardinality(Dropped(c, k))

LEMMA Totals ==
    /\ Accounted  <=> (crash  = "no" => \A c \in Clients : \A k \in 1 .. parsed[c] : Total(c, k) = 1)
    /\ Accounted' <=> (crash' = "no" => \A c \in Clients : \A k \in 1 .. parsed'[c] : Total(c, k)' = 1)
BY DEF Accounted, Total, Waiting, Dropped

\* Steps that move no request: what they leave alone is enough.
LEMMA Unmoved ==
    ASSUME Accounted, crash = "no" \/ crash' = crash,
           UNCHANGED <<parsed, recvDeque, sendDeque, pipe, out, running, lost, hand>>
    PROVE  Accounted'
<1>1. SUFFICES ASSUME crash' = "no", NEW c \in Clients, NEW k \in 1 .. parsed'[c]
               PROVE  Total(c, k)' = 1
  BY Totals
<1>2. Total(c, k) = 1
  BY <1>1, Totals
<1>3. Total(c, k)' = Total(c, k)
  BY DEF Total, Times, Waiting, Dropped
<1>4. QED
  BY <1>2, <1>3

LEMMA Quiet ==
    ASSUME Known, Finite, RightConnection, Accounted,
           UNCHANGED <<uidOf, parsed, recvDeque, sendDeque, pipe, out, running, lost, hand, crash>>
    PROVE  Known' /\ Finite' /\ RightConnection' /\ Accounted'
<1>1. Known'
  BY DEF Known, Received, Sendable, Came
<1>2. Finite'
  BY DEF Finite
<1>3. RightConnection'
  BY DEF RightConnection
<1>4. Accounted'
  BY Unmoved
<1>5. QED
  BY <1>1, <1>2, <1>3, <1>4

-----------------------------------------------------------------------------
(* The steps that move no request. *)

LEMMA ClientSteps ==
    ASSUME IInv, NEW c \in Clients,
           ClientConnect(c) \/ ClientSend(c) \/ \E how \in ClientsMayEnd : ClientEnd(c, how)
    PROVE  IInv'
<1> USE DEF client, conn, table, epoll, biz
<1>1. CASE ClientConnect(c)
  <2>1. TypeOK'
    BY <1>1, UidFacts DEF IInv, TypeOK, ClientConnect, Events
  <2>2. Halves' /\ Idle'
    BY <1>1 DEF IInv, Halves, Idle, ClientConnect
  <2>3. Table'
    BY <1>1 DEF IInv, TypeOK, Table, ClientConnect
  <2>4. Known' /\ Finite' /\ RightConnection' /\ Accounted'
    BY <1>1, Quiet DEF IInv, ClientConnect
  <2>5. QED
    BY <2>1, <2>2, <2>3, <2>4 DEF IInv
<1>2. CASE ClientSend(c)
  <2> DEFINE top == 2 * MaxReq
  <2>0. /\ top \in Nat /\ sent[c] \in 0 .. top /\ arrived[c] \in Nat /\ sent[c] < top
        /\ recvBuf[c] \in Nat /\ parsed[c] \in Nat
        /\ 2 * parsed[c] + recvBuf[c] + arrived[c] <= sent[c]
    <3>1. top \in Nat
      BY UidFacts
    <3>2. 2 * parsed[c] + recvBuf[c] + arrived[c] <= sent[c]
      BY DEF IInv, Halves
    <3>3. sent[c] < top
      BY <1>2 DEF ClientSend
    <3>4. sent[c] \in 0 .. top /\ arrived[c] \in 0 .. top /\ recvBuf[c] \in 0 .. 1 /\ parsed[c] \in 0 .. MaxReq
      BY DEF IInv, TypeOK
    <3>5. QED
      BY <3>1, <3>2, <3>3, <3>4, UidFacts
  <2> HIDE DEF top
  <2>1a. sent[c] + 1 \in 0 .. top /\ arrived[c] + 1 \in 0 .. top
    BY <2>0
  <2>1. sent[c] + 1 \in 0 .. 2 * MaxReq /\ arrived[c] + 1 \in 0 .. 2 * MaxReq
    BY <2>1a DEF top
  <2>2. ready' \subseteq Events
    BY <1>2, UidFacts DEF IInv, TypeOK, ClientSend, Stir
  <2>3. TypeOK'
    BY <1>2, <2>1, <2>2 DEF IInv, TypeOK, ClientSend
  <2>4. Halves' /\ Idle'
    <3>1. \A d \in Clients : 2 * parsed[d] + recvBuf[d] + arrived'[d] <= sent'[d]
      <4>1. TAKE d \in Clients
      <4>2. CASE d = c
        <5>1. arrived'[d] = arrived[c] + 1 /\ sent'[d] = sent[c] + 1
          BY <1>2, <4>2 DEF IInv, TypeOK, ClientSend
        <5>2. QED
          BY <2>0, <4>2, <5>1
      <4>3. CASE d # c
        BY <1>2, <4>3 DEF IInv, TypeOK, Halves, ClientSend
      <4>4. QED
        BY <4>2, <4>3
    <3>2. QED
      BY <1>2, <3>1 DEF IInv, Halves, Idle, ClientSend
  <2>5. Table'
    BY <1>2 DEF IInv, Table, ClientSend
  <2>6. Known' /\ Finite' /\ RightConnection' /\ Accounted'
    BY <1>2, Quiet DEF IInv, ClientSend
  <2>7. QED
    BY <2>3, <2>4, <2>5, <2>6 DEF IInv
<1>3. ASSUME NEW how \in ClientsMayEnd, ClientEnd(c, how) PROVE IInv'
  <2>1. ready' \subseteq Events
    BY <1>3, UidFacts DEF IInv, TypeOK, ClientEnd, Stir
  <2>2. TypeOK'
    BY <1>3, <2>1, FlagsAssumption DEF IInv, TypeOK, ClientEnd
  <2>3. Halves' /\ Idle'
    BY <1>3 DEF IInv, Halves, Idle, ClientEnd
  <2>4. Table'
    BY <1>3 DEF IInv, Table, ClientEnd
  <2>5. Known' /\ Finite' /\ RightConnection' /\ Accounted'
    BY <1>3, Quiet DEF IInv, ClientEnd
  <2>6. QED
    BY <2>2, <2>3, <2>4, <2>5 DEF IInv
<1>4. QED
  BY <1>1, <1>2, <1>3

LEMMA LoopSteps ==
    ASSUME IInv, Poll \/ BatchEnd \/ OnListen \/ AcceptEnd \/ PipeEnd
    PROVE  IInv'
<1> USE DEF client, conn, table, epoll, biz
<1>1. TypeOK' /\ Halves' /\ Idle' /\ Table'
  BY DEF IInv, TypeOK, Halves, Idle, Table, Poll, BatchEnd, OnListen, AcceptEnd, PipeEnd
<1>2. UNCHANGED <<uidOf, parsed, recvDeque, sendDeque, pipe, out, running, lost, hand, crash>>
  BY DEF Poll, BatchEnd, OnListen, AcceptEnd, PipeEnd
<1>3. Known' /\ Finite' /\ RightConnection' /\ Accounted'
  BY <1>2, Quiet DEF IInv
<1>4. QED
  BY <1>1, <1>3 DEF IInv

LEMMA AcceptAbortedStep ==
    ASSUME IInv, NEW c \in Clients, AcceptAborted(c)
    PROVE  IInv'
<1> USE DEF client, conn, table, epoll, biz
<1>1. /\ state' = [state EXCEPT ![c] = "gone"]
      /\ UNCHANGED <<sent, arrived, ending, conn, table, epoll, recvDeque, biz, sendDeque, out, lost, crash>>
  BY DEF AcceptAborted
<1>2. TypeOK' /\ Halves' /\ Idle'
  BY <1>1 DEF IInv, TypeOK, Halves, Idle
<1>3. Table'
  BY <1>1 DEF IInv, TypeOK, Table
<1>4. Known' /\ Finite' /\ RightConnection' /\ Accounted'
  BY <1>1, Quiet DEF IInv
<1>5. QED
  BY <1>2, <1>3, <1>4 DEF IInv

-----------------------------------------------------------------------------
(* Counting the places. *)

LEMMA Counts ==
    ASSUME TypeOK, Finite, NEW c \in Clients, NEW k
    PROVE  /\ Times(recvDeque, c, k) \in Nat /\ Times(sendDeque, c, k) \in Nat
           /\ Times(pipe, c, k) \in Nat /\ Times(out[c], c, k) \in Nat
           /\ IsFiniteSet(Waiting(c, k)) /\ Cardinality(Waiting(c, k)) \in Nat
           /\ IsFiniteSet(Dropped(c, k)) /\ Cardinality(Dropped(c, k)) \in Nat
           /\ Cardinality(Waiting(c, k)) = 0 <=> Waiting(c, k) = {}
           /\ Cardinality(Dropped(c, k)) = 0 <=> Dropped(c, k) = {}
<1>1. /\ recvDeque \in Seq(RecvData) /\ sendDeque \in Seq(SendData)
      /\ pipe \in Seq(SendData) /\ out[c] \in Seq(Response)
  BY DEF TypeOK
<1>2. /\ Times(recvDeque, c, k) \in Nat /\ Times(sendDeque, c, k) \in Nat
      /\ Times(pipe, c, k) \in Nat /\ Times(out[c], c, k) \in Nat
  BY <1>1, TimesFacts
<1>3. IsFiniteSet(running) /\ IsFiniteSet(lost)
  BY DEF Finite
<1>4. Waiting(c, k) \in SUBSET running /\ Dropped(c, k) \in SUBSET lost
  BY DEF Waiting, Dropped
<1>5. IsFiniteSet(Waiting(c, k)) /\ IsFiniteSet(Dropped(c, k))
  BY <1>3, <1>4, FS_Subset
<1>6. QED
  BY <1>2, <1>5, FS_CardinalityType, FS_EmptySet

\* A request that is in one place is in no other.
LEMMA Alone ==
    ASSUME IInv, crash = "no", NEW c \in Clients, NEW k \in 1 .. parsed[c]
    PROVE  /\ Times(pipe, c, k) >= 1 =>
                /\ Times(recvDeque, c, k) = 0 /\ Times(sendDeque, c, k) = 0 /\ Times(pipe, c, k) = 1
                /\ Times(out[c], c, k) = 0 /\ Cardinality(Waiting(c, k)) = 0 /\ Cardinality(Dropped(c, k)) = 0
           /\ Times(recvDeque, c, k) >= 1 =>
                /\ Times(recvDeque, c, k) = 1 /\ Times(sendDeque, c, k) = 0 /\ Times(pipe, c, k) = 0
                /\ Times(out[c], c, k) = 0 /\ Cardinality(Waiting(c, k)) = 0 /\ Cardinality(Dropped(c, k)) = 0
           /\ Cardinality(Waiting(c, k)) >= 1 =>
                /\ Times(recvDeque, c, k) = 0 /\ Times(sendDeque, c, k) = 0 /\ Times(pipe, c, k) = 0
                /\ Times(out[c], c, k) = 0 /\ Cardinality(Waiting(c, k)) = 1 /\ Cardinality(Dropped(c, k)) = 0
<1> DEFINE a == Times(recvDeque, c, k)
           b == Times(sendDeque, c, k)
           p == Times(pipe, c, k)
           o == Times(out[c], c, k)
           w == Cardinality(Waiting(c, k))
           d == Cardinality(Dropped(c, k))
<1>1. a \in Nat /\ b \in Nat /\ p \in Nat /\ o \in Nat /\ w \in Nat /\ d \in Nat
  BY Counts DEF IInv
<1>2. Total(c, k) = 1
  BY Totals DEF IInv
<1>3. a + b + p + o + w + d = 1
  BY <1>2 DEF Total
<1> HIDE DEF a, b, p, o, w, d
<1>4. /\ p >= 1 => a = 0 /\ b = 0 /\ p = 1 /\ o = 0 /\ w = 0 /\ d = 0
      /\ a >= 1 => a = 1 /\ b = 0 /\ p = 0 /\ o = 0 /\ w = 0 /\ d = 0
      /\ w >= 1 => a = 0 /\ b = 0 /\ p = 0 /\ o = 0 /\ w = 1 /\ d = 0
  BY <1>1, <1>3
<1>5. QED
  BY <1>4 DEF a, b, p, o, w, d

\* A request that was not cut out is nowhere.
LEMMA Nowhere ==
    ASSUME TypeOK, Finite, Known, NEW c \in Clients, NEW k \in Nat, k > parsed[c]
    PROVE  Total(c, k) = 0
<1>1. parsed[c] \in Nat
  BY UidFacts DEF TypeOK
<1>2. ASSUME NEW uid PROVE ~Came(c, k, uid)
  BY <1>1 DEF Came
<1>3. /\ recvDeque \in Seq(RecvData) /\ sendDeque \in Seq(SendData)
      /\ pipe \in Seq(SendData) /\ out[c] \in Seq(Response)
  BY DEF TypeOK
<1>4. Times(recvDeque, c, k) = 0
  <2>1. ASSUME NEW d \in RecvData, Received(d) PROVE ~(d.c = c /\ d.k = k)
    BY <1>1, <1>2, <2>1 DEF Received, RecvData
  <2>2. \A i \in 1 .. Len(recvDeque) : ~(recvDeque[i].c = c /\ recvDeque[i].k = k)
    BY <1>3, <2>1 DEF Known
  <2>3. QED
    BY <1>3, <2>2, TimesFacts
<1>5. ASSUME NEW d \in SendData, Sendable(d) PROVE ~(d.c = c /\ d.k = k)
  BY <1>1, <1>2, <1>5 DEF Sendable, SendData
<1>6. Times(sendDeque, c, k) = 0 /\ Times(pipe, c, k) = 0
  <2>1. /\ \A i \in 1 .. Len(sendDeque) : ~(sendDeque[i].c = c /\ sendDeque[i].k = k)
        /\ \A i \in 1 .. Len(pipe) : ~(pipe[i].c = c /\ pipe[i].k = k)
    BY <1>3, <1>5 DEF Known
  <2>2. QED
    BY <1>3, <2>1, TimesFacts
<1>7. Times(out[c], c, k) = 0
  <2>1. \A i \in 1 .. Len(out[c]) : ~(out[c][i].c = c /\ out[c][i].k = k)
    BY <1>1 DEF Known
  <2>2. QED
    BY <1>3, <2>1, TimesFacts
<1>8. Waiting(c, k) = {} /\ Dropped(c, k) = {}
  BY <1>2 DEF Known, Waiting, Dropped
<1>9. QED
  BY <1>4, <1>6, <1>7, <1>8, FS_EmptySet DEF Total

-----------------------------------------------------------------------------
(* Connections come and go. *)

LEMMA AcceptStep ==
    ASSUME IInv, crash = "no", NEW c \in Clients, Accept(c)
    PROVE  IInv'
<1> USE DEF client, conn, table, epoll, biz
<1>1. /\ state[c] = "backlog" /\ state' = [state EXCEPT ![c] = "open"] /\ uidOf[c] = 0
      /\ UNCHANGED <<sent, arrived, ending, recvBuf, parsed, batch, npc, pipe, recvDeque,
                     running, hand, closes, sendDeque, out, lost>>
      /\ AddTConnection(c)
  BY DEF IInv, Table, Accept
<1>2. Halves' /\ Idle' /\ Finite' /\ RightConnection'
  BY <1>1 DEF IInv, Halves, Idle, Finite, RightConnection
<1>3. Accounted'
  BY <1>1, Unmoved DEF IInv
<1>4. CASE free = <<>>
  <2>1. crash' = "uid" /\ UNCHANGED <<uidOf, free, connOf, ready>>
    BY <1>1, <1>4 DEF AddTConnection
  <2>2. TypeOK'
    BY <1>1, <2>1 DEF IInv, TypeOK
  <2>3. Table'
    BY <1>1, <2>1 DEF IInv, TypeOK, Table
  <2>4. Known'
    BY <1>1, <2>1 DEF IInv, Known, Received, Sendable, Came
  <2>5. QED
    BY <1>2, <1>3, <2>2, <2>3, <2>4 DEF IInv
<1>5. CASE free # <<>>
  <2> DEFINE h == Head(free)
  <2>1. /\ h \in Uids /\ h = free[1] /\ Tail(free) \in Seq(Uids) /\ Len(free) \in Nat
        /\ 1 \in 1 .. Len(free) /\ Len(Tail(free)) = Len(free) - 1
        /\ \A i \in 1 .. Len(Tail(free)) : Tail(free)[i] = free[i + 1] /\ i + 1 \in 1 .. Len(free)
    BY <1>5, SeqFacts DEF IInv, TypeOK
  <2> HIDE DEF h
  <2>2. /\ uidOf' = [uidOf EXCEPT ![c] = h] /\ free' = Tail(free)
        /\ connOf' = [connOf EXCEPT ![h] = c] /\ crash' = crash
        /\ ready' \subseteq ready \cup {h}
    BY <1>1, <1>5 DEF AddTConnection, h
  <2>3. TypeOK'
    BY <1>1, <2>1, <2>2, UidFacts DEF IInv, TypeOK
  <2>4. \A d \in Clients : uidOf'[d] = IF d = c THEN h ELSE uidOf[d]
    BY <2>2 DEF IInv, TypeOK
  <2>5. \A d \in Clients : uidOf[d] # h
    BY <2>1 DEF IInv, Table
  <2>6. Table'
    <3>1. \A u \in Uids : connOf'[u] # None => uidOf'[connOf'[u]] = u
      <4>1. TAKE u \in Uids
      <4>2. CASE u = h
        BY <2>1, <2>2, <2>4, <4>2 DEF IInv, TypeOK
      <4>3. CASE u # h
        <5>1. connOf'[u] = connOf[u]
          BY <2>2, <4>3 DEF IInv, TypeOK
        <5>2. ASSUME connOf[u] # None PROVE uidOf'[connOf[u]] = u
          <6>1. connOf[u] \in Clients /\ uidOf[connOf[u]] = u
            BY <5>2 DEF IInv, TypeOK, Table
          <6>2. connOf[u] # c
            BY <1>1, <6>1, UidFacts
          <6>3. QED
            BY <2>4, <6>1, <6>2
        <5>3. QED
          BY <5>1, <5>2
      <4>4. QED
        BY <4>2, <4>3
    <3>2. \A d \in Clients : state'[d] \in {"out", "backlog"} => uidOf'[d] = 0
      BY <1>1, <2>4 DEF IInv, TypeOK, Table
    <3>3. \A i \in 1 .. Len(free') : \A d \in Clients : uidOf'[d] # free'[i]
      <4>1. TAKE i \in 1 .. Len(free')
      <4>2. TAKE d \in Clients
      <4>3. free'[i] = free[i + 1] /\ i + 1 \in 1 .. Len(free) /\ i + 1 # 1
        BY <2>1, <2>2
      <4>4. free[i + 1] # h /\ uidOf[d] # free[i + 1]
        BY <2>1, <4>3 DEF IInv, Table
      <4>5. QED
        BY <2>4, <4>3, <4>4
    <3>4. \A i, j \in 1 .. Len(free') : free'[i] = free'[j] => i = j
      <4>1. TAKE i, j \in 1 .. Len(free')
      <4>2. /\ free'[i] = free[i + 1] /\ i + 1 \in 1 .. Len(free)
            /\ free'[j] = free[j + 1] /\ j + 1 \in 1 .. Len(free) /\ i \in Int /\ j \in Int
        BY <2>1, <2>2
      <4>3. free[i + 1] = free[j + 1] => i + 1 = j + 1
        BY <4>2 DEF IInv, Table
      <4>4. QED
        BY <4>2, <4>3
    <3>5. \A d, e \in Clients : uidOf'[d] = uidOf'[e] /\ uidOf'[d] # 0 => d = e
      BY <2>4, <2>5 DEF IInv, Table
    <3>6. QED
      BY <3>1, <3>2, <3>3, <3>4, <3>5 DEF Table
  <2>7. Known'
    <3>1. /\ parsed' \in [Clients -> Nat] /\ \A d \in Clients : parsed[d] <= parsed'[d]
          /\ \A d \in Clients : uidOf[d] # 0 => uidOf'[d] = uidOf[d]
      BY <1>1, <2>4, UidFacts, SMTT(30) DEF IInv, TypeOK
    <3>2. /\ \A d \in RecvData : Received(d) => Received(d)'
          /\ \A d \in SendData : Sendable(d) => Sendable(d)'
          /\ \A r \in Request : Came(r.c, r.k, r.uid) => Came(r.c, r.k, r.uid)'
      BY <3>1, KnownStays DEF IInv
    <3>3. QED
      BY <1>1, <3>2, SMTT(30) DEF IInv, TypeOK, Known
  <2>8. QED
    BY <1>2, <1>3, <2>3, <2>6, <2>7 DEF IInv
<1>6. QED
  BY <1>4, <1>5

\* delConnection forgets a uid and tells the servant, which counts as no
\* request.
LEMMA Deleted ==
    ASSUME IInv, NEW u \in Uids, connOf[u] # None, DelConnection(connOf[u]), UNCHANGED uidOf
    PROVE  /\ state' \in [Clients -> {"out", "backlog", "open", "gone"}]
           /\ connOf' \in [Uids -> Clients \cup {None}] /\ free' = free /\ ready' \subseteq Events
           /\ recvDeque' \in Seq(RecvData)
           /\ Table'
           /\ \A i \in 1 .. Len(recvDeque') : Received(recvDeque'[i])
           /\ \A d, k : k # 0 => Times(recvDeque', d, k) = Times(recvDeque, d, k)
<1> DEFINE c == connOf[u]
           x == [closed |-> TRUE, c |-> c, k |-> 0, uid |-> uidOf[c]]
           t == <<x>>
<1>1. c \in Clients /\ uidOf[c] = u
  BY DEF IInv, TypeOK, Table
<1>2. /\ recvDeque' = recvDeque \o t
      /\ ready' = ready \ {uidOf[c]} /\ connOf' = [connOf EXCEPT ![uidOf[c]] = None]
      /\ state' = [state EXCEPT ![c] = "gone"] /\ free' = free
  BY DEF DelConnection, InsertRecvDeque, PushedBack
<1>3. x \in RecvData /\ x.closed /\ x.k = 0
  BY <1>1, UidFacts DEF RecvData
<1>4. t \in Seq(RecvData) /\ recvDeque \in Seq(RecvData) /\ Len(t) = 1 /\ t[1] = x
  BY <1>3 DEF IInv, TypeOK
<1>5. /\ state' \in [Clients -> {"out", "backlog", "open", "gone"}]
      /\ connOf' \in [Uids -> Clients \cup {None}] /\ ready' \subseteq Events
  BY <1>2 DEF IInv, TypeOK
<1>6. Table'
  BY <1>1, <1>2 DEF IInv, TypeOK, Table
<1>7. \A d, k : Times(t, d, k) = Hit(x, d, k)
  BY TimesOne
<1> HIDE DEF t
<1>8. \A d, k : k # 0 => Times(recvDeque \o t, d, k) = Times(recvDeque, d, k)
  <2>1. TAKE d, k
  <2>2. HAVE k # 0
  <2>3. Times(t, d, k) = 0
    BY <1>3, <1>7, <2>2 DEF Hit
  <2>4. Times(recvDeque, d, k) \in Nat
    BY <1>4, TimesFacts
  <2>5. Times(recvDeque \o t, d, k) = Times(recvDeque, d, k) + Times(t, d, k)
    BY <1>4, TimesConcat
  <2>6. QED
    BY <2>3, <2>4, <2>5
<1>9. Received(x)
  BY <1>3 DEF Received
<1>10. \A i \in 1 .. Len(recvDeque \o t) : Received((recvDeque \o t)[i])
  <2>1. TAKE i \in 1 .. Len(recvDeque \o t)
  <2>2. \/ i \in 1 .. Len(recvDeque) /\ (recvDeque \o t)[i] = recvDeque[i]
        \/ \E j \in 1 .. Len(t) : (recvDeque \o t)[i] = t[j]
    BY <1>4, ConcatAll
  <2>3. \A j \in 1 .. Len(t) : t[j] = x
    BY <1>4
  <2>4. QED
    BY <1>9, <2>2, <2>3 DEF IInv, Known
<1>11. recvDeque \o t \in Seq(RecvData)
  BY <1>4
<1>12. QED
  BY <1>2, <1>5, <1>6, <1>8, <1>10, <1>11

LEMMA PipeCloseStep ==
    ASSUME IInv, crash = "no", PipeClose
    PROVE  IInv'
<1> USE DEF client, conn, table, epoll, biz
<1> DEFINE u == Head(pipe).uid
<1>1. /\ npc = "pipe" /\ pipe # <<>> /\ Head(pipe).cmd = "c" /\ pipe' = Tail(pipe)
      /\ UNCHANGED <<sent, arrived, ending, uidOf, recvBuf, parsed, batch, npc, running, hand, closes,
                     sendDeque, out, lost, crash>>
  BY DEF PipeClose
<1>2. /\ pipe \in Seq(SendData) /\ Head(pipe) \in SendData /\ Head(pipe) = pipe[1] /\ Tail(pipe) \in Seq(SendData)
      /\ 1 \in 1 .. Len(pipe)
      /\ \A i \in 1 .. Len(Tail(pipe)) : Tail(pipe)[i] = pipe[i + 1] /\ i + 1 \in 1 .. Len(pipe)
  BY <1>1, SeqFacts DEF IInv, TypeOK
<1>3. u \in Uids
  BY <1>2 DEF SendData
<1>4. Head(pipe).c = None
  BY <1>1, <1>2 DEF IInv, Known, Sendable
<1>5. /\ state' \in [Clients -> {"out", "backlog", "open", "gone"}]
      /\ connOf' \in [Uids -> Clients \cup {None}] /\ free' = free /\ ready' \subseteq Events
      /\ recvDeque' \in Seq(RecvData)
      /\ Table'
      /\ \A i \in 1 .. Len(recvDeque') : Received(recvDeque'[i])
      /\ \A d, k : k # 0 => Times(recvDeque', d, k) = Times(recvDeque, d, k)
  <2>1. CASE connOf[u] = None
    <3>1. UNCHANGED <<recvDeque, ready, free, connOf, state>>
      BY <2>1 DEF PipeClose
    <3>2. QED
      BY <1>1, <3>1 DEF IInv, TypeOK, Table, Known
  <2>2. CASE connOf[u] # None
    <3>1. DelConnection(connOf[u])
      BY <2>2 DEF PipeClose
    <3> HIDE DEF u
    <3>2. QED
      BY <1>1, <1>3, <2>2, <3>1, Deleted
  <2>3. QED
    BY <2>1, <2>2
<1>6. TypeOK'
  BY <1>1, <1>2, <1>5 DEF IInv, TypeOK
<1>7. Halves' /\ Idle' /\ Finite' /\ RightConnection'
  BY <1>1 DEF IInv, Halves, Idle, Finite, RightConnection
<1>8. Known'
  <2>1. \A i \in 1 .. Len(pipe') : Sendable(pipe'[i])
    BY <1>1, <1>2 DEF IInv, Known
  <2>2. QED
    BY <1>1, <1>5, <2>1 DEF IInv, Known, Received, Sendable, Came
<1>9. Accounted'
  <2>1. ASSUME NEW c \in Clients, NEW k \in 1 .. parsed[c] PROVE Total(c, k)' = 1
    <3>1. k # 0 /\ c # None
      BY ClientsAssumption
    <3>2. Times(recvDeque', c, k) = Times(recvDeque, c, k)
      BY <1>5, <3>1
    <3>3. Hit(Head(pipe), c, k) = 0
      BY <1>4, <3>1 DEF Hit
    <3>4. Times(pipe, c, k) = Hit(Head(pipe), c, k) + Times(Tail(pipe), c, k)
      BY <1>1, <1>2, TimesTail
    <3>5. Times(Tail(pipe), c, k) \in Nat
      BY <1>2, TimesFacts
    <3>6. Times(pipe', c, k) = Times(pipe, c, k)
      BY <1>1, <3>3, <3>4, <3>5
    <3>7. Total(c, k)' = Total(c, k)
      BY <1>1, <3>2, <3>6 DEF Total, Waiting, Dropped, Times
    <3>8. QED
      BY <3>7, Totals DEF IInv
  <2>2. QED
    BY <1>1, <2>1, Totals
<1>10. QED
  BY <1>5, <1>6, <1>7, <1>8, <1>9 DEF IInv

\* Connection::recv: every request cut out gets into the receive deque once.
LEMMA ReceiveStep ==
    ASSUME IInv, crash = "no", NEW c \in Clients, uidOf[c] \in Uids, Receive(c),
           arrived' = [arrived EXCEPT ![c] = 0], batch' \subseteq batch,
           UNCHANGED <<sent, ending, uidOf, npc, pipe, biz, sendDeque, out, lost, crash>>
    PROVE  IInv'
<1> USE DEF client, conn, table, epoll, biz
<1> DEFINE halves == recvBuf[c] + arrived[c]
           n == halves \div 2
           rest == halves % 2
           p == parsed[c]
           b == Block(c, p, n, uidOf[c])
<1>1. /\ recvDeque' = recvDeque \o b
      /\ recvBuf' = [recvBuf EXCEPT ![c] = rest]
      /\ parsed' = [parsed EXCEPT ![c] = p + n]
      /\ UNCHANGED <<state, ready, free, connOf>>
  BY DEF Receive, InsertRecvDeque, PushedBack, Block
<1>2. p \in Nat /\ sent[c] \in 0 .. 2 * MaxReq /\ recvBuf[c] \in Nat /\ arrived[c] \in Nat
  BY HalfFacts DEF IInv
<1>3. 2 * p + recvBuf[c] + arrived[c] <= sent[c]
  BY DEF IInv, Halves
<1>4. halves \in Nat /\ 2 * p + halves <= sent[c]
  BY <1>2, <1>3, UidFacts
<1>5. n \in Nat /\ rest \in 0 .. 1 /\ 2 * n + rest = halves
  BY <1>4, Cut
<1> HIDE DEF halves, n, rest
<1>6. 2 * (p + n) + rest <= sent[c] /\ p + n \in 0 .. MaxReq
  BY <1>2, <1>4, <1>5, UidFacts
<1>7. \A i \in 1 .. n : p + i \in 1 .. p + n /\ p + i \in 0 .. MaxReq
  BY <1>2, <1>5, <1>6, UidFacts
<1>8. b \in Seq(RecvData) /\ Len(b) = n
  <2>1. \A i \in 1 .. n : [closed |-> FALSE, c |-> c, k |-> p + i, uid |-> uidOf[c]] \in RecvData
    BY <1>7 DEF RecvData
  <2>2. QED
    BY <1>5, <2>1 DEF Block
<1>9. \A i \in 1 .. n : /\ b[i].closed = FALSE /\ b[i].c = c
                        /\ b[i].k = p + i /\ b[i].uid = uidOf[c]
  BY DEF Block
<1>10. \A d \in Clients, k \in Nat : Times(b, d, k) = IF d = c /\ k \in p + 1 .. p + n THEN 1 ELSE 0
  BY <1>2, <1>5, TimesBlock
<1> HIDE DEF b
<1>11. recvDeque \in Seq(RecvData) /\ recvDeque' \in Seq(RecvData)
  BY <1>1, <1>8 DEF IInv, TypeOK
<1>12. TypeOK'
  <2>1. arrived' \in [Clients -> 0 .. 2 * MaxReq]
    <3>1. 0 \in 0 .. 2 * MaxReq
      BY HalfFacts DEF IInv
    <3>2. QED
      BY <3>1 DEF IInv, TypeOK
  <2>2. recvBuf' \in [Clients -> 0 .. 1] /\ parsed' \in [Clients -> 0 .. MaxReq]
    BY <1>1, <1>5, <1>6 DEF IInv, TypeOK
  <2>3. QED
    BY <1>1, <1>11, <2>1, <2>2 DEF IInv, TypeOK
<1>13. \A d \in Clients : /\ parsed'[d] = IF d = c THEN p + n ELSE parsed[d]
                          /\ recvBuf'[d] = IF d = c THEN rest ELSE recvBuf[d]
                          /\ arrived'[d] = IF d = c THEN 0 ELSE arrived[d]
  BY <1>1 DEF IInv, TypeOK
<1>14. Halves'
  <2>1. ASSUME NEW d \in Clients PROVE 2 * parsed'[d] + recvBuf'[d] + arrived'[d] <= sent[d]
    <3>1. CASE d = c
      <4>1. parsed'[d] = p + n /\ recvBuf'[d] = rest /\ arrived'[d] = 0
        BY <1>13, <3>1
      <4>2. QED
        BY <1>2, <1>5, <1>6, <3>1, <4>1
    <3>2. CASE d # c
      BY <1>13, <3>2 DEF IInv, Halves
    <3>3. QED
      BY <3>1, <3>2
  <2>2. QED
    BY <2>1 DEF Halves
<1>15. Table' /\ Idle' /\ Finite' /\ RightConnection'
  BY <1>1 DEF IInv, Table, Idle, Finite, RightConnection
<1>16. Known'
  <2>1. parsed' \in [Clients -> Nat] /\ \A d \in Clients : parsed[d] <= parsed'[d]
    <3>1. ASSUME NEW d \in Clients PROVE parsed[d] \in Nat /\ parsed[d] <= parsed'[d] /\ parsed'[d] \in Nat
      <4>1. parsed[d] \in Nat
        BY HalfFacts DEF IInv
      <4>2. QED
        BY <1>2, <1>5, <1>13, <4>1
    <3>2. parsed' \in [Clients -> 0 .. MaxReq]
      BY <1>12 DEF TypeOK
    <3>3. QED
      BY <3>1, <3>2
  <2>2. /\ \A d \in RecvData : Received(d) => Received(d)'
        /\ \A d \in SendData : Sendable(d) => Sendable(d)'
        /\ \A r \in Request : Came(r.c, r.k, r.uid) => Came(r.c, r.k, r.uid)'
    BY <2>1, KnownStays DEF IInv
  <2>3. ASSUME NEW i \in 1 .. n, NEW d, d = b[i] PROVE Received(d)'
    <3>1. d.closed = FALSE /\ d.c = c /\ d.k = p + i /\ d.uid = uidOf[c]
      BY <1>9, <2>3
    <3>2. p + i \in 1 .. parsed'[c]
      BY <1>7, <1>13
    <3>3. QED
      BY <3>1, <3>2 DEF Received, Came
  <2>4. ASSUME NEW i \in 1 .. Len(recvDeque), NEW d, d = recvDeque[i] PROVE Received(d)'
    <3>1. d \in RecvData /\ Received(d)
      BY <1>11, <2>4 DEF IInv, Known
    <3>2. QED
      BY <2>2, <3>1
  <2>5. ASSUME NEW i \in 1 .. Len(recvDeque'), NEW d, d = recvDeque'[i] PROVE Received(d)'
    <3>1. \/ i \in 1 .. Len(recvDeque) /\ (recvDeque \o b)[i] = recvDeque[i]
          \/ \E j \in 1 .. Len(b) : (recvDeque \o b)[i] = b[j]
      <4>1. \A e \in 1 .. Len(recvDeque \o b) :
                 \/ e \in 1 .. Len(recvDeque) /\ (recvDeque \o b)[e] = recvDeque[e]
                 \/ \E j \in 1 .. Len(b) : (recvDeque \o b)[e] = b[j]
        <5>1. recvDeque \in Seq(RecvData) /\ b \in Seq(RecvData)
          BY <1>8, <1>11
        <5>2. QED
          BY <5>1, ConcatAll
      <4>2. i \in 1 .. Len(recvDeque \o b)
        BY <1>1
      <4>3. QED
        BY <4>1, <4>2, Zenon
    <3>2. CASE i \in 1 .. Len(recvDeque) /\ d = recvDeque[i]
      BY <2>4, <3>2
    <3>3. CASE \E j \in 1 .. Len(b) : d = b[j]
      BY <1>8, <2>3, <3>3
    <3>4. QED
      BY <1>1, <2>5, <3>1, <3>2, <3>3
  <2>6. \A i \in 1 .. Len(recvDeque') : (Received(recvDeque[i]))'
    BY <2>5
  <2>7. /\ \A r \in running \cup lost : Came(r.c, r.k, r.uid)'
        /\ \A i \in 1 .. Len(sendDeque) : (Sendable(sendDeque[i]))'
        /\ \A i \in 1 .. Len(pipe) : (Sendable(pipe[i]))'
    BY <2>2, SMTT(30) DEF IInv, TypeOK, Known
  <2>8. \A d \in Clients : \A i \in 1 .. Len(out[d]) : out[d][i].k \in 1 .. parsed'[d]
    <3>1. \A d \in Clients : \A i \in 1 .. Len(out[d]) : out[d][i].k \in 1 .. parsed[d]
      BY DEF IInv, Known
    <3>2. \A d \in Clients : parsed[d] \in Nat /\ parsed'[d] \in Nat /\ parsed[d] <= parsed'[d]
      BY <2>1, HalfFacts DEF IInv
    <3>3. QED
      BY <3>1, <3>2
  <2>9. QED
    BY <2>6, <2>7, <2>8 DEF Known
<1>17. Accounted'
  <2>1. ASSUME NEW d \in Clients, NEW k \in 1 .. parsed'[d] PROVE Total(d, k)' = 1
    <3>1. k \in Nat /\ k >= 1
      BY <1>12, <2>1, UidFacts DEF TypeOK
    <3>2. Times(recvDeque', d, k) = Times(recvDeque, d, k) + Times(b, d, k)
      BY <1>1, <1>8, <1>11, TimesConcat
    <3>3. Times(sendDeque', d, k) = Times(sendDeque, d, k)
      OBVIOUS
    <3>4. Times(pipe', d, k) = Times(pipe, d, k) /\ Times(out'[d], d, k) = Times(out[d], d, k)
      OBVIOUS
    <3>5. Waiting(d, k)' = Waiting(d, k) /\ Dropped(d, k)' = Dropped(d, k)
      BY DEF Waiting, Dropped
    <3>6. /\ Times(recvDeque, d, k) \in Nat /\ Times(sendDeque, d, k) \in Nat
          /\ Times(pipe, d, k) \in Nat /\ Times(out[d], d, k) \in Nat
          /\ Cardinality(Waiting(d, k)) \in Nat /\ Cardinality(Dropped(d, k)) \in Nat
      BY Counts DEF IInv
    <3>7. Times(b, d, k) \in {0, 1}
      BY <1>10, <3>1
    <3>8. Total(d, k)' = Total(d, k) + Times(b, d, k)
      <4>1. Total(d, k)' = Times(recvDeque', d, k) + Times(sendDeque', d, k) + Times(pipe', d, k)
                             + Times(out'[d], d, k) + Cardinality(Waiting(d, k)') + Cardinality(Dropped(d, k)')
        BY DEF Total, Times
      <4>2. QED
        BY <3>2, <3>3, <3>4, <3>5, <3>6, <3>7, <4>1 DEF Total
    <3>9. CASE k \in 1 .. parsed[d]
      <4>1. Total(d, k) = 1
        BY <3>9, Totals DEF IInv
      <4>2. ~(d = c /\ k \in p + 1 .. p + n)
        BY <1>2, <1>5, <3>9
      <4>3. QED
        BY <1>10, <3>1, <3>8, <4>1, <4>2
    <3>10. CASE k \notin 1 .. parsed[d]
      <4>1. parsed[d] \in Nat /\ k > parsed[d]
        <5>1. parsed[d] \in Nat
          BY HalfFacts DEF IInv
        <5>2. QED
          BY <3>1, <3>10, <5>1
      <4>2. d = c /\ k \in p + 1 .. p + n
        BY <1>2, <1>5, <1>13, <2>1, <3>1, <4>1
      <4>3. Total(d, k) = 0
        BY <3>1, <4>1, Nowhere DEF IInv
      <4>4. QED
        BY <1>10, <3>1, <3>8, <4>2, <4>3
    <3>11. QED
      BY <3>9, <3>10
  <2>2. QED
    BY <2>1, Totals
<1>18. QED
  BY <1>12, <1>14, <1>15, <1>16, <1>17 DEF IInv

LEMMA OnNetStep ==
    ASSUME IInv, crash = "no", NEW u \in Uids, OnNet(u)
    PROVE  IInv'
<1> USE DEF client, conn, table, epoll, biz
<1>1. /\ batch' \subseteq batch
      /\ UNCHANGED <<sent, ending, uidOf, npc, pipe, running, hand, closes, sendDeque, out, lost>>
  BY DEF OnNet
<1>2. CASE connOf[u] = None
  <2>1. crash' = "null" /\ UNCHANGED <<state, arrived, recvBuf, parsed, free, connOf, ready, recvDeque>>
    BY <1>2 DEF OnNet
  <2>2. TypeOK'
    BY <1>1, <2>1 DEF IInv, TypeOK
  <2>3. Halves' /\ Table' /\ Idle' /\ Finite' /\ RightConnection'
    BY <1>1, <2>1 DEF IInv, Halves, Table, Idle, Finite, RightConnection
  <2>4. Known'
    BY <1>1, <2>1 DEF IInv, Known, Received, Sendable, Came
  <2>5. Accounted'
    BY <2>1 DEF Accounted
  <2>6. QED
    BY <2>2, <2>3, <2>4, <2>5 DEF IInv
<1>3. CASE connOf[u] # None
  <2> DEFINE c == connOf[u]
  <2>1. /\ arrived' = [arrived EXCEPT ![c] = 0] /\ crash' = crash
        /\ \/ DelConnection(c) /\ UNCHANGED <<recvBuf, parsed>>
           \/ Receive(c)
    BY <1>3 DEF OnNet
  <2>2. c \in Clients /\ uidOf[c] = u
    BY <1>3 DEF IInv, TypeOK, Table
  <2>3. CASE Receive(c)
    <3> HIDE DEF c
    <3>1. QED
      BY <1>1, <2>1, <2>2, <2>3, ReceiveStep
  <2>4. CASE DelConnection(c) /\ UNCHANGED <<recvBuf, parsed>>
    <3>1. /\ state' \in [Clients -> {"out", "backlog", "open", "gone"}]
          /\ connOf' \in [Uids -> Clients \cup {None}] /\ free' = free /\ ready' \subseteq Events
          /\ recvDeque' \in Seq(RecvData)
          /\ Table'
          /\ \A i \in 1 .. Len(recvDeque') : Received(recvDeque'[i])
          /\ \A d, k : k # 0 => Times(recvDeque', d, k) = Times(recvDeque, d, k)
      BY <1>1, <1>3, <2>4, Deleted
    <3> HIDE DEF c
    <3>2. TypeOK'
      <4>1. arrived' \in [Clients -> 0 .. 2 * MaxReq]
        <5>1. 0 \in 0 .. 2 * MaxReq
          BY <2>2, HalfFacts DEF IInv
        <5>2. QED
          BY <2>1, <5>1 DEF IInv, TypeOK
      <4>2. QED
        BY <1>1, <2>1, <2>4, <3>1, <4>1 DEF IInv, TypeOK
    <3>3. Halves'
      <4>1. ASSUME NEW d \in Clients PROVE 2 * parsed[d] + recvBuf[d] + arrived'[d] <= sent[d]
        <5>1. 2 * parsed[d] + recvBuf[d] + arrived[d] <= sent[d]
          BY DEF IInv, Halves
        <5>2. arrived'[d] = 0 \/ arrived'[d] = arrived[d]
          BY <2>1 DEF IInv, TypeOK
        <5>3. parsed[d] \in Nat /\ recvBuf[d] \in Nat /\ arrived[d] \in Nat /\ sent[d] \in Nat
          BY HalfFacts DEF IInv
        <5>4. QED
          BY <5>1, <5>2, <5>3
      <4>2. QED
        BY <1>1, <2>4, <4>1 DEF Halves
    <3>4. Idle' /\ Finite' /\ RightConnection'
      BY <1>1 DEF IInv, Idle, Finite, RightConnection
    <3>5. Known'
      BY <1>1, <2>4, <3>1 DEF IInv, Known, Received, Sendable, Came
    <3>6. Accounted'
      <4>1. ASSUME NEW d \in Clients, NEW k \in 1 .. parsed[d] PROVE Total(d, k)' = 1
        <5>1. Times(recvDeque', d, k) = Times(recvDeque, d, k)
          BY <3>1
        <5>2. Total(d, k)' = Total(d, k)
          BY <1>1, <5>1 DEF Total, Waiting, Dropped, Times
        <5>3. QED
          BY <5>2, Totals DEF IInv
      <4>2. QED
        BY <2>4, <4>1, Totals
    <3>7. QED
      BY <3>1, <3>2, <3>3, <3>4, <3>5, <3>6 DEF IInv
  <2>5. QED
    BY <2>1, <2>3, <2>4
<1>4. QED
  BY <1>2, <1>3

-----------------------------------------------------------------------------
(* Requests move on. *)

LEMMA OnNotifyStep ==
    ASSUME IInv, crash = "no", OnNotify
    PROVE  IInv'
<1> USE DEF client, conn, table, epoll, biz
<1>1. /\ npc = "batch" /\ npc' = "pipe" /\ batch' \subseteq batch
      /\ pipe' = sendDeque /\ sendDeque' = <<>>
      /\ UNCHANGED <<state, sent, arrived, ending, uidOf, recvBuf, parsed, free, connOf, ready,
                     recvDeque, running, hand, closes, out, lost, crash>>
  BY DEF OnNotify, Swap
<1>2. pipe = <<>>
  BY <1>1 DEF IInv, Idle
<1>3. TypeOK'
  BY <1>1 DEF IInv, TypeOK
<1>4. Halves' /\ Table' /\ Idle' /\ Finite' /\ RightConnection'
  BY <1>1 DEF IInv, Halves, Table, Idle, Finite, RightConnection
<1>5. Known'
  BY <1>1 DEF IInv, Known, Received, Sendable, Came
<1>6. Accounted'
  <2>1. ASSUME NEW c \in Clients, NEW k \in 1 .. parsed[c] PROVE Total(c, k)' = 1
    <3>1. Total(c, k) = 1
      BY Totals DEF IInv
    <3>2. Times(pipe, c, k) = 0 /\ Times(sendDeque', c, k) = 0
      BY <1>1, <1>2, TimesEmpty
    <3>3. /\ Times(recvDeque, c, k) \in Nat /\ Times(sendDeque, c, k) \in Nat
          /\ Times(out[c], c, k) \in Nat
          /\ Cardinality(Waiting(c, k)) \in Nat /\ Cardinality(Dropped(c, k)) \in Nat
      BY Counts DEF IInv
    <3>4. Total(c, k)' = Times(recvDeque, c, k) + Times(sendDeque', c, k) + Times(pipe', c, k)
                           + Times(out[c], c, k) + Cardinality(Waiting(c, k)) + Cardinality(Dropped(c, k))
      BY <1>1 DEF Total, Times, Waiting, Dropped
    <3>5. Times(pipe', c, k) = Times(sendDeque, c, k)
      BY <1>1
    <3>6. QED
      BY <3>1, <3>2, <3>3, <3>4, <3>5 DEF Total
  <2>2. QED
    BY <1>1, <2>1, Totals
<1>7. QED
  BY <1>3, <1>4, <1>5, <1>6 DEF IInv

\* A response goes to the connection that its uid names, which is the one that
\* the request came from, or nowhere.
LEMMA PipeSendStep ==
    ASSUME IInv, crash = "no", PipeSend
    PROVE  IInv'
<1> USE DEF client, conn, table, epoll, biz
<1> DEFINE q == Head(pipe)
           t == Tail(pipe)
           c == q.c
           r == [c |-> q.c, k |-> q.k, uid |-> q.uid]
<1>1. /\ npc = "pipe" /\ pipe # <<>> /\ q.cmd = "s" /\ pipe' = t
      /\ UNCHANGED <<state, sent, arrived, ending, uidOf, recvBuf, parsed, free, connOf, ready, batch, npc,
                     recvDeque, running, hand, closes, sendDeque>>
  BY DEF PipeSend
<1>2. /\ pipe \in Seq(SendData) /\ q \in SendData /\ q = pipe[1] /\ t \in Seq(SendData)
      /\ 1 \in 1 .. Len(pipe)
      /\ \A i \in 1 .. Len(t) : t[i] = pipe[i + 1] /\ i + 1 \in 1 .. Len(pipe)
  BY <1>1, SeqFacts DEF IInv, TypeOK
<1>3. \A d, k : Times(pipe, d, k) = Hit(q, d, k) + Times(t, d, k)
  BY <1>1, <1>2, TimesTail
<1>4. Came(q.c, q.k, q.uid)
  BY <1>1, <1>2 DEF IInv, Known, Sendable
<1>5. /\ c \in Clients /\ q.k \in 1 .. parsed[c] /\ q.uid = uidOf[c] /\ q.uid \in Uids
      /\ parsed[c] \in Nat /\ q.k \in 1 .. MaxReq
  BY <1>2, <1>4, UidFacts, SMTT(30) DEF IInv, TypeOK, Came, SendData
<1>6. r \in Request
  BY <1>5 DEF Request
<1>7. connOf[q.uid] # None => connOf[q.uid] = c
  BY <1>5, UidFacts, SMTT(30) DEF IInv, TypeOK, Table
<1>8. \/ crash' = "null" /\ out' = out /\ lost' = lost
      \/ ConSend(c, q)
  BY <1>7 DEF PipeSend
<1> HIDE DEF q, t
<1>9. \A d \in Clients : \A k \in 1 .. parsed[d] : Times(t, d, k) \in Nat /\ Hit(q, d, k) \in {0, 1}
  BY <1>2, TimesFacts DEF Hit
<1>10. \/ out' = out /\ crash' # "no" /\ crash' \in {"null", "sigpipe"} /\ lost' \in {lost, lost \cup {r}}
       \/ out' = out /\ crash' = crash /\ lost' = lost \cup {r}
       \/ \E w \in BOOLEAN : /\ out' = [out EXCEPT ![c] = Append(@, [c |-> c, k |-> q.k, whole |-> w])]
                             /\ lost' = lost /\ crash' = crash
  <2>1. CASE crash' = "null" /\ out' = out /\ lost' = lost
    BY <2>1
  <2>2. CASE ConSend(c, q)
    <3>1. PICK taken \in TcpSend(c) :
            /\ out' = IF taken \in {"all", "part"}
                        THEN [out EXCEPT ![c] = Append(@, [c |-> q.c, k |-> q.k, whole |-> taken = "all"])]
                        ELSE out
            /\ lost' = IF taken \in {"all", "part"} THEN lost ELSE lost \cup {r}
            /\ crash' = IF taken = "sigpipe" THEN "sigpipe" ELSE crash
      BY <2>2 DEF ConSend
    <3>2. CASE taken = "all" \/ taken = "part"
      BY <3>1, <3>2
    <3>3. CASE taken = "sigpipe"
      BY <3>1, <3>3
    <3>4. CASE taken # "all" /\ taken # "part" /\ taken # "sigpipe"
      BY <3>1, <3>4
    <3>5. QED
      BY <3>2, <3>3, <3>4
  <2>3. QED
    BY <1>8, <2>1, <2>2
<1>11. Halves' /\ Table' /\ Idle'
  BY <1>1 DEF IInv, Halves, Table, Idle
<1>12. Finite' /\ lost' \subseteq Request /\ \A d \in lost' : Came(d.c, d.k, d.uid)
  <2>1. lost' = lost \/ lost' = lost \cup {r}
    BY <1>10
  <2>2. IsFiniteSet(lost \cup {r})
    BY FS_AddElement DEF IInv, Finite
  <2>3. Came(r.c, r.k, r.uid)
    BY <1>4
  <2>4. QED
    BY <1>1, <1>6, <2>1, <2>2, <2>3 DEF IInv, TypeOK, Finite, Known
<1>13. \A i \in 1 .. Len(t) : Sendable(t[i])
  BY <1>2 DEF IInv, Known
<1>14. /\ Times(recvDeque, c, q.k) = 0 /\ Times(sendDeque, c, q.k) = 0 /\ Times(t, c, q.k) = 0
       /\ Times(out[c], c, q.k) = 0 /\ Cardinality(Waiting(c, q.k)) = 0 /\ Cardinality(Dropped(c, q.k)) = 0
  <2>1. Total(c, q.k) = 1
    BY <1>5, Totals DEF IInv
  <2>2. Hit(q, c, q.k) = 1
    BY DEF Hit
  <2>3. Times(pipe, c, q.k) = 1 + Times(t, c, q.k) /\ Times(t, c, q.k) \in Nat
    BY <1>3, <1>5, <1>9, <2>2
  <2>5. Times(pipe, c, q.k) \in Nat /\ Times(pipe, c, q.k) >= 1
    BY <2>3
  <2>6. /\ Times(recvDeque, c, q.k) = 0 /\ Times(sendDeque, c, q.k) = 0 /\ Times(pipe, c, q.k) = 1
        /\ Times(out[c], c, q.k) = 0 /\ Cardinality(Waiting(c, q.k)) = 0 /\ Cardinality(Dropped(c, q.k)) = 0
    BY <1>5, <2>5, Alone
  <2>7. Times(t, c, q.k) = 0
    BY <2>3, <2>6
  <2>8. QED
    BY <2>6, <2>7
<1>15. ASSUME NEW d \in Clients, NEW k \in 1 .. parsed[d]
       PROVE  Total(d, k)' = Times(recvDeque, d, k) + Times(sendDeque, d, k) + Times(t, d, k)
                               + Times(out'[d], d, k) + Cardinality(Waiting(d, k)) + Cardinality(Dropped(d, k)')
  BY <1>1 DEF Total, Times, Waiting
<1>16. CASE out' = out
  <2>1. TypeOK'
    BY <1>1, <1>2, <1>10, <1>12, <1>16 DEF IInv, TypeOK
  <2>2. Known'
    BY <1>1, <1>12, <1>13, <1>16 DEF IInv, Known, Received, Sendable, Came
  <2>3. RightConnection'
    BY <1>16 DEF IInv, RightConnection
  <2>4. Accounted'
    <3>1. CASE crash' # "no"
      BY <3>1 DEF Accounted
    <3>2. CASE crash' = "no" /\ lost' = lost \cup {r}
      <4>1. ASSUME NEW d \in Clients, NEW k \in 1 .. parsed[d] PROVE Total(d, k)' = 1
        <5>1. Total(d, k) = 1
          BY Totals DEF IInv
        <5>2. /\ Times(recvDeque, d, k) \in Nat /\ Times(sendDeque, d, k) \in Nat
              /\ Times(out[d], d, k) \in Nat
              /\ Cardinality(Waiting(d, k)) \in Nat /\ Cardinality(Dropped(d, k)) \in Nat
          BY Counts DEF IInv
        <5>3. CASE d = c /\ k = q.k
          <6>1. Dropped(d, k) = {}
            BY <1>5, <1>14, <5>3, Counts DEF IInv
          <6>2. Dropped(d, k)' = {r}
            BY <3>2, <5>3, <6>1 DEF Dropped
          <6>3. Cardinality(Dropped(d, k)') = 1
            BY <6>2, FS_Singleton
          <6>4. QED
            BY <1>14, <1>15, <1>16, <5>3, <6>3
        <5>4. CASE ~(d = c /\ k = q.k)
          <6>1. Dropped(d, k)' = Dropped(d, k)
            BY <3>2, <5>4 DEF Dropped
          <6>2. Hit(q, d, k) = 0
            BY <5>4 DEF Hit
          <6>3. Times(t, d, k) = Times(pipe, d, k)
            BY <1>3, <1>9, <6>2
          <6>4. QED
            BY <1>15, <1>16, <5>1, <5>2, <6>1, <6>3 DEF Total
        <5>5. QED
          BY <5>3, <5>4
      <4>2. QED
        BY <1>1, <4>1, Totals
    <3>3. CASE lost' = lost /\ crash' = "no"
      <4>1. out' # out
        <5>1. PICK w \in BOOLEAN : out' = [out EXCEPT ![c] = Append(@, [c |-> c, k |-> q.k, whole |-> w])]
          <6>1. r \notin lost
            <7>1. Dropped(c, q.k) = {}
              BY <1>5, <1>14, Counts DEF IInv
            <7>2. QED
              BY <7>1 DEF Dropped
          <6>2. QED
            BY <1>10, <3>3, <6>1
        <5>2. out'[c] = Append(out[c], [c |-> c, k |-> q.k, whole |-> w]) /\ out[c] \in Seq(Response)
          BY <1>5, <5>1 DEF IInv, TypeOK
        <5>3. Len(out'[c]) # Len(out[c])
          BY <5>2
        <5>4. QED
          BY <5>3
      <4>2. QED
        BY <1>16, <4>1
    <3>4. QED
      BY <1>10, <1>16, <3>1, <3>2, <3>3
  <2>5. QED
    BY <1>11, <1>12, <2>1, <2>2, <2>3, <2>4 DEF IInv
<1>17. CASE \E w \in BOOLEAN : /\ out' = [out EXCEPT ![c] = Append(@, [c |-> c, k |-> q.k, whole |-> w])]
                               /\ lost' = lost /\ crash' = crash
  <2>1. PICK w \in BOOLEAN : /\ out' = [out EXCEPT ![c] = Append(@, [c |-> c, k |-> q.k, whole |-> w])]
                             /\ lost' = lost /\ crash' = crash
    BY <1>17
  <2> DEFINE x == [c |-> c, k |-> q.k, whole |-> w]
             y == <<x>>
  <2>2. x \in Response /\ x.c = c /\ x.k = q.k
    BY <1>5 DEF Response
  <2>3. out[c] \in Seq(Response) /\ y \in Seq(Response) /\ Append(out[c], x) = out[c] \o y
    <3>1. out[c] \in Seq(Response)
      BY <1>5 DEF IInv, TypeOK
    <3> HIDE DEF x
    <3>2. QED
      BY <2>2, <3>1, AppendIsConcat
  <2>4. /\ Len(out[c]) \in Nat
        /\ Append(out[c], x) \in Seq(Response) /\ Len(Append(out[c], x)) = Len(out[c]) + 1
        /\ \A i \in 1 .. Len(out[c]) : Append(out[c], x)[i] = out[c][i]
        /\ Append(out[c], x)[Len(out[c]) + 1] = x
    BY <2>2, <2>3
  <2>5. \A d \in Clients : out'[d] = IF d = c THEN Append(out[c], x) ELSE out[d]
    BY <1>5, <2>1 DEF IInv, TypeOK
  <2>6. \A d, k : Times(y, d, k) = Hit(x, d, k)
    BY TimesOne
  <2> HIDE DEF x, y
  <2>7. TypeOK'
    <3>1. out' \in [Clients -> Seq(Response)]
      BY <1>5, <2>1, <2>4 DEF IInv, TypeOK, x
    <3>2. QED
      BY <1>1, <1>2, <2>1, <3>1 DEF IInv, TypeOK
  <2>8. \A d \in Clients : \A i \in 1 .. Len(out'[d]) :
           \/ i \in 1 .. Len(out[d]) /\ out'[d][i] = out[d][i]
           \/ d = c /\ i = Len(out[c]) + 1 /\ out'[d][i] = x
    <3>1. TAKE d \in Clients
    <3>2. TAKE i \in 1 .. Len(out'[d])
    <3>3. CASE d # c
      BY <2>5, <3>3
    <3>4. CASE d = c
      <4>1. out'[d] = Append(out[c], x)
        BY <2>5, <3>4
      <4>2. i \in 1 .. Len(out[c]) + 1
        BY <2>4, <4>1
      <4>3. CASE i \in 1 .. Len(out[c])
        BY <2>4, <3>4, <4>1, <4>3
      <4>4. CASE i = Len(out[c]) + 1
        BY <2>4, <3>4, <4>1, <4>4
      <4>5. QED
        BY <2>4, <4>2, <4>3, <4>4
    <3>5. QED
      BY <3>3, <3>4
  <2>9. Known'
    <3>1. \A d \in Clients : \A i \in 1 .. Len(out'[d]) : out'[d][i].k \in 1 .. parsed[d]
      BY <1>5, <2>2, <2>8 DEF IInv, Known
    <3>2. QED
      BY <1>1, <1>13, <2>1, <3>1 DEF IInv, Known, Received, Sendable, Came
  <2>10. RightConnection'
    <3>1. \A i \in 1 .. Len(out[c]) : ~(out[c][i].c = c /\ out[c][i].k = q.k)
      BY <1>14, <2>3, TimesFacts
    <3>2. \A i \in 1 .. Len(out[c]) : out[c][i].k # q.k
      BY <1>5, <3>1 DEF IInv, RightConnection
    <3>3. ASSUME NEW d \in Clients PROVE \A i \in 1 .. Len(out'[d]) : out'[d][i].c = d
      BY <2>2, <2>8 DEF IInv, RightConnection
    <3>4. ASSUME NEW d \in Clients, NEW i \in 1 .. Len(out'[d]), NEW j \in 1 .. Len(out'[d]),
                 out'[d][i].k = out'[d][j].k
          PROVE  i = j
      BY <2>2, <2>8, <3>2, <3>4, SMTT(30) DEF IInv, RightConnection
    <3>5. QED
      BY <3>3, <3>4 DEF RightConnection
  <2>11. Accounted'
    <3>1. ASSUME NEW d \in Clients, NEW k \in 1 .. parsed[d] PROVE Total(d, k)' = 1
      <4>1. Total(d, k) = 1
        BY Totals DEF IInv
      <4>2. Dropped(d, k)' = Dropped(d, k)
        BY <2>1 DEF Dropped
      <4>3. /\ Times(recvDeque, d, k) \in Nat /\ Times(sendDeque, d, k) \in Nat
            /\ Times(out[d], d, k) \in Nat
            /\ Cardinality(Waiting(d, k)) \in Nat /\ Cardinality(Dropped(d, k)) \in Nat
        BY Counts DEF IInv
      <4>4. d = c => Times(out'[d], d, k) = Times(out[c], c, k) + Hit(x, c, k)
        <5>1. Times(out[c] \o y, c, k) = Times(out[c], c, k) + Times(y, c, k)
          BY <2>3, TimesConcat
        <5>2. QED
          BY <1>5, <2>3, <2>5, <2>6, <5>1
      <4>5. CASE d = c /\ k = q.k
        <5>1. Hit(x, c, k) = 1
          BY <2>2, <4>5 DEF Hit
        <5>2. Times(out'[d], d, k) = 1
          BY <1>14, <4>4, <4>5, <5>1
        <5>3. Cardinality(Dropped(d, k)') = 0
          BY <1>14, <4>2, <4>5
        <5>4. QED
          BY <1>14, <1>15, <4>5, <5>2, <5>3
      <4>6. CASE ~(d = c /\ k = q.k)
        <5>1. Hit(q, d, k) = 0 /\ (d = c => Hit(x, c, k) = 0)
          BY <2>2, <4>6 DEF Hit
        <5>2. Times(t, d, k) = Times(pipe, d, k)
          BY <1>3, <1>9, <5>1
        <5>3. Times(out'[d], d, k) = Times(out[d], d, k)
          <6>1. CASE d = c
            BY <4>3, <4>4, <5>1, <6>1
          <6>2. CASE d # c
            BY <2>5, <6>2
          <6>3. QED
            BY <6>1, <6>2
        <5>4. QED
          BY <1>15, <4>1, <4>2, <5>2, <5>3 DEF Total
      <4>7. QED
        BY <4>5, <4>6
    <3>2. QED
      BY <1>1, <3>1, Totals
  <2>12. QED
    BY <1>11, <1>12, <2>7, <2>9, <2>10, <2>11 DEF IInv
<1>18. QED
  BY <1>10, <1>16, <1>17

\* A request leaves the receive deque for a coroutine, or is lost.
LEMMA HandleRequestStep ==
    ASSUME IInv, crash = "no", HandleRequest
    PROVE  IInv'
<1> USE DEF client, conn, table, epoll, biz
<1> DEFINE q == Head(recvDeque)
           t == Tail(recvDeque)
           r == [c |-> q.c, k |-> q.k, uid |-> q.uid]
<1>1. /\ hand = None /\ recvDeque # <<>> /\ recvDeque' = t
      /\ UNCHANGED <<state, sent, arrived, ending, uidOf, recvBuf, parsed, free, connOf, ready, batch, npc, pipe,
                     hand, closes, sendDeque, out, crash>>
  BY DEF HandleRequest, PopFront
<1>2. /\ recvDeque \in Seq(RecvData) /\ q \in RecvData /\ q = recvDeque[1] /\ t \in Seq(RecvData)
      /\ 1 \in 1 .. Len(recvDeque)
      /\ \A i \in 1 .. Len(t) : t[i] = recvDeque[i + 1] /\ i + 1 \in 1 .. Len(recvDeque)
  BY <1>1, SeqFacts DEF IInv, TypeOK
<1>3. \A d, k : Times(recvDeque, d, k) = Hit(q, d, k) + Times(t, d, k)
  BY <1>1, <1>2, TimesTail
<1>4. Received(q) /\ q.closed \in BOOLEAN
  BY <1>2 DEF IInv, Known, RecvData
<1>5. \/ q.closed /\ running' = running /\ lost' = lost
      \/ ~q.closed /\ running' = running \cup {r} /\ lost' = lost
      \/ ~q.closed /\ running' = running /\ lost' = lost \cup {r}
  <2>1. CASE q.closed
    BY <2>1 DEF HandleRequest
  <2>2. CASE ~q.closed
    <3>1. CASE Cardinality(running) < Coros
      BY <2>2, <3>1 DEF HandleRequest
    <3>2. CASE ~(Cardinality(running) < Coros)
      BY <2>2, <3>2 DEF HandleRequest
    <3>3. QED
      BY <3>1, <3>2
  <2>3. QED
    BY <1>4, <2>1, <2>2
<1> HIDE DEF q, t
<1>6. Halves' /\ Table' /\ Idle' /\ RightConnection'
  BY <1>1 DEF IInv, Halves, Table, Idle, RightConnection
<1>7. \A i \in 1 .. Len(t) : Received(t[i])
  BY <1>2 DEF IInv, Known
<1>8. ~q.closed => /\ Came(q.c, q.k, q.uid) /\ q.c \in Clients /\ q.k \in 1 .. parsed[q.c]
                   /\ r \in Request
  <2>1. ASSUME ~q.closed PROVE Came(q.c, q.k, q.uid)
    BY <1>4, <2>1 DEF Received
  <2>2. ASSUME Came(q.c, q.k, q.uid)
        PROVE  q.c \in Clients /\ q.k \in 1 .. parsed[q.c] /\ r \in Request
    <3>1. q.c \in Clients /\ q.k \in 1 .. parsed[q.c] /\ q.uid \in Uids
      BY <1>2, <2>2 DEF Came, RecvData
    <3>2. parsed[q.c] \in 0 .. MaxReq
      BY <3>1 DEF IInv, TypeOK
    <3>3. q.k \in 1 .. MaxReq
      BY <3>1, <3>2, UidFacts
    <3>4. QED
      BY <3>1, <3>3 DEF Request
  <2>3. QED
    BY <2>1, <2>2
<1>9. IsFiniteSet(running \cup {r}) /\ IsFiniteSet(lost \cup {r})
  BY FS_AddElement DEF IInv, Finite
<1>10. TypeOK' /\ Finite'
  BY <1>1, <1>2, <1>5, <1>8, <1>9 DEF IInv, TypeOK, Finite
<1>11. Known'
  <2>1. \A d \in running' \cup lost' : Came(d.c, d.k, d.uid)
    BY <1>5, <1>8 DEF IInv, Known
  <2>2. QED
    BY <1>1, <1>7, <2>1 DEF IInv, Known, Received, Sendable, Came
<1>12. ASSUME NEW d \in Clients, NEW k \in 1 .. parsed[d] PROVE Total(d, k)' = 1
  <2>1. Total(d, k)' = Times(t, d, k) + Times(sendDeque, d, k) + Times(pipe, d, k)
                         + Times(out[d], d, k) + Cardinality(Waiting(d, k)') + Cardinality(Dropped(d, k)')
    BY <1>1 DEF Total, Times
  <2>2. Times(t, d, k) \in Nat
    BY <1>2, TimesFacts
  <2>3. CASE ~q.closed /\ q.c = d /\ q.k = k
    <3>1. Hit(q, d, k) = 1
      BY <2>3 DEF Hit
    <3>2. Times(recvDeque, d, k) = 1 + Times(t, d, k)
      BY <1>3, <3>1
    <3>3. Times(recvDeque, d, k) >= 1
      BY <2>2, <3>2
    <3>4. /\ Times(recvDeque, d, k) = 1 /\ Times(sendDeque, d, k) = 0 /\ Times(pipe, d, k) = 0
          /\ Times(out[d], d, k) = 0 /\ Cardinality(Waiting(d, k)) = 0 /\ Cardinality(Dropped(d, k)) = 0
      BY <3>3, Alone
    <3>5. Times(t, d, k) = 0
      BY <2>2, <3>2, <3>4
    <3>6. Waiting(d, k) = {} /\ Dropped(d, k) = {}
      BY <3>4, Counts DEF IInv
    <3>7. Cardinality({r}) = 1 /\ Cardinality({}) = 0
      BY FS_Singleton, FS_EmptySet
    <3>8. CASE running' = running \cup {r} /\ lost' = lost
      <4>1. Waiting(d, k)' = {r}
        BY <1>1, <2>3, <3>6, <3>8 DEF Waiting
      <4>2. Dropped(d, k)' = {}
        BY <3>6, <3>8 DEF Dropped
      <4>3. QED
        BY <2>1, <3>4, <3>5, <3>7, <4>1, <4>2
    <3>9. CASE running' = running /\ lost' = lost \cup {r}
      <4>1. Dropped(d, k)' = {r}
        BY <2>3, <3>6, <3>9 DEF Dropped
      <4>2. Waiting(d, k)' = {}
        BY <1>1, <3>6, <3>9 DEF Waiting
      <4>3. QED
        BY <2>1, <3>4, <3>5, <3>7, <4>1, <4>2
    <3>10. QED
      BY <1>5, <2>3, <3>8, <3>9
  <2>4. CASE q.closed \/ ~(q.c = d /\ q.k = k)
    <3>1. q.closed => q.k # k
      <4>1. q.closed => q.k = 0
        BY <1>4 DEF Received
      <4>2. k # 0
        OBVIOUS
      <4>3. QED
        BY <4>1, <4>2
    <3>2. Hit(q, d, k) = 0
      BY <2>4, <3>1 DEF Hit
    <3>3. Times(t, d, k) = Times(recvDeque, d, k)
      BY <1>3, <2>2, <3>2
    <3>4. Waiting(d, k)' = Waiting(d, k)
      <4>1. CASE running' = running
        BY <1>1, <4>1 DEF Waiting
      <4>2. CASE running' = running \cup {r} /\ ~(q.c = d /\ q.k = k)
        BY <1>1, <4>2 DEF Waiting
      <4>3. QED
        BY <1>5, <2>4, <4>1, <4>2
    <3>5. Dropped(d, k)' = Dropped(d, k)
      <4>1. CASE lost' = lost
        BY <4>1 DEF Dropped
      <4>2. CASE lost' = lost \cup {r} /\ ~(q.c = d /\ q.k = k)
        BY <4>2 DEF Dropped
      <4>3. QED
        BY <1>5, <2>4, <4>1, <4>2
    <3>6. Total(d, k) = 1
      BY Totals DEF IInv
    <3>7. QED
      BY <2>1, <3>3, <3>4, <3>5, <3>6 DEF Total
  <2>5. QED
    BY <1>4, <2>3, <2>4
<1>13. Accounted'
  BY <1>1, <1>12, Totals
<1>14. QED
  BY <1>6, <1>10, <1>11, <1>13 DEF IInv

\* Something is pushed to the send deque and kept in hand until the wake-up.
LEMMA Pushed ==
    ASSUME IInv, NEW x \in SendData, Sendable(x), hand' = x, sendDeque' = PushedBack(sendDeque, <<x>>),
           closes' \in 0 .. MaxCloses,
           UNCHANGED <<client, conn, table, epoll, recvDeque, running, out, lost, crash>>
    PROVE  /\ TypeOK' /\ Halves' /\ Table' /\ Known' /\ Idle' /\ Finite' /\ RightConnection'
           /\ \A d, k : Times(sendDeque', d, k) = Times(sendDeque, d, k) + Hit(x, d, k)
<1> USE DEF client, conn, table, epoll
<1> DEFINE t == <<x>>
<1>1. t \in Seq(SendData) /\ sendDeque \in Seq(SendData) /\ Len(t) = 1 /\ t[1] = x
  BY DEF IInv, TypeOK
<1>2. \A d, k : Times(t, d, k) = Hit(x, d, k)
  BY TimesOne
<1>3. sendDeque' = sendDeque \o t
  BY DEF PushedBack
<1> HIDE DEF t
<1>4. sendDeque \o t \in Seq(SendData)
  BY <1>1
<1>5. \A d, k : Times(sendDeque \o t, d, k) = Times(sendDeque, d, k) + Times(t, d, k)
  BY <1>1, TimesConcat
<1>6. \A i \in 1 .. Len(sendDeque \o t) : \/ i \in 1 .. Len(sendDeque) /\ (sendDeque \o t)[i] = sendDeque[i]
                                          \/ \E j \in 1 .. Len(t) : (sendDeque \o t)[i] = t[j]
  BY <1>1, ConcatAll
<1>7. \A i \in 1 .. Len(sendDeque') : Sendable(sendDeque'[i])
  <2>1. \A j \in 1 .. Len(t) : t[j] = x
    BY <1>1
  <2>2. QED
    BY <1>3, <1>6, <2>1 DEF IInv, Known
<1>8. TypeOK'
  BY <1>3, <1>4 DEF IInv, TypeOK
<1>9. Halves' /\ Table' /\ Idle' /\ Finite' /\ RightConnection'
  BY DEF IInv, Halves, Table, Idle, Finite, RightConnection
<1>10. Known'
  BY <1>7 DEF IInv, Known, Received, Sendable, Came
<1>11. QED
  BY <1>2, <1>3, <1>5, <1>8, <1>9, <1>10

LEMMA RespondPushStep ==
    ASSUME IInv, crash = "no", NEW r \in running, RespondPush(r)
    PROVE  IInv'
<1> USE DEF client, conn, table, epoll, biz
<1> DEFINE x == [cmd |-> "s", uid |-> r.uid, c |-> r.c, k |-> r.k]
<1>1. /\ hand = None /\ hand' = x /\ sendDeque' = PushedBack(sendDeque, <<x>>)
      /\ UNCHANGED <<client, conn, table, epoll, recvDeque, running, closes, out, lost, crash>>
  BY DEF RespondPush
<1>2. r \in Request /\ Came(r.c, r.k, r.uid)
  BY DEF IInv, TypeOK, Known
<1>3. r.c \in Clients /\ r.k \in 1 .. parsed[r.c] /\ r.k \in 0 .. MaxReq /\ r.uid \in Uids
  BY <1>2, UidFacts DEF Came, Request
<1>4. x \in SendData /\ x.cmd = "s" /\ x.c = r.c /\ x.k = r.k /\ x.uid = r.uid
  BY <1>3 DEF SendData
<1>5. Sendable(x) /\ x # None
  BY <1>2, <1>4, NoneAssumption DEF Sendable
<1> HIDE DEF x
<1>6. /\ TypeOK' /\ Halves' /\ Table' /\ Known' /\ Idle' /\ Finite' /\ RightConnection'
      /\ \A d, k : Times(sendDeque', d, k) = Times(sendDeque, d, k) + Hit(x, d, k)
  <2>1. closes' \in 0 .. MaxCloses
    BY <1>1 DEF IInv, TypeOK
  <2>2. QED
    BY <1>1, <1>4, <1>5, <2>1, Pushed
<1>7. ASSUME NEW d \in Clients, NEW k \in 1 .. parsed[d] PROVE Total(d, k)' = 1
  <2>1. Total(d, k)' = Times(recvDeque, d, k) + Times(sendDeque', d, k) + Times(pipe, d, k)
                         + Times(out[d], d, k) + Cardinality(Waiting(d, k)') + Cardinality(Dropped(d, k))
    BY <1>1 DEF Total, Times, Dropped
  <2>2. CASE d = r.c /\ k = r.k
    <3>1. r \in Waiting(d, k)
      BY <1>1, <2>2 DEF Waiting
    <3>2. Cardinality(Waiting(d, k)) \in Nat /\ Cardinality(Waiting(d, k)) # 0
      BY <3>1, Counts DEF IInv
    <3>3. Cardinality(Waiting(d, k)) >= 1
      BY <3>2
    <3>4. /\ Times(recvDeque, d, k) = 0 /\ Times(sendDeque, d, k) = 0 /\ Times(pipe, d, k) = 0
          /\ Times(out[d], d, k) = 0 /\ Cardinality(Dropped(d, k)) = 0
      BY <3>3, Alone
    <3>5. Waiting(d, k)' = {}
      BY <1>1, <1>4, <1>5, <2>2 DEF Waiting
    <3>6. Hit(x, d, k) = 1
      BY <1>4, <2>2 DEF Hit
    <3>7. Times(sendDeque', d, k) = 1 /\ Cardinality(Waiting(d, k)') = 0
      BY <1>6, <3>4, <3>5, <3>6, FS_EmptySet
    <3>8. QED
      BY <2>1, <3>4, <3>7
  <2>3. CASE ~(d = r.c /\ k = r.k)
    <3>1. Hit(x, d, k) = 0
      BY <1>4, <2>3 DEF Hit
    <3>2. Waiting(d, k)' = Waiting(d, k)
      BY <1>1, <1>4, <2>3 DEF Waiting
    <3>3. Times(sendDeque', d, k) = Times(sendDeque, d, k)
      <4>1. Times(sendDeque, d, k) \in Nat
        BY Counts DEF IInv
      <4>2. QED
        BY <1>6, <3>1, <4>1
    <3>4. Total(d, k) = 1
      BY Totals DEF IInv
    <3>5. QED
      BY <2>1, <3>2, <3>3, <3>4 DEF Total
  <2>4. QED
    BY <2>2, <2>3
<1>8. Accounted'
  BY <1>1, <1>7, Totals
<1>9. QED
  BY <1>6, <1>8 DEF IInv

LEMMA ClosePushStep ==
    ASSUME IInv, crash = "no", NEW u \in Uids, ClosePush(u)
    PROVE  IInv'
<1> USE DEF client, conn, table, epoll, biz
<1> DEFINE x == [cmd |-> "c", uid |-> u, c |-> None, k |-> 0]
<1>1. /\ hand = None /\ hand' = x /\ sendDeque' = PushedBack(sendDeque, <<x>>)
      /\ closes < MaxCloses /\ closes' = closes + 1
      /\ UNCHANGED <<client, conn, table, epoll, recvDeque, running, out, lost, crash>>
  BY DEF ClosePush
<1>2. x \in SendData /\ Sendable(x) /\ x.c = None
  BY UidFacts DEF SendData, Sendable
<1> HIDE DEF x
<1>3. closes' \in 0 .. MaxCloses
  BY <1>1, SizesAssumption DEF IInv, TypeOK
<1>4. /\ TypeOK' /\ Halves' /\ Table' /\ Known' /\ Idle' /\ Finite' /\ RightConnection'
      /\ \A d, k : Times(sendDeque', d, k) = Times(sendDeque, d, k) + Hit(x, d, k)
  BY <1>1, <1>2, <1>3, Pushed
<1>5. ASSUME NEW d \in Clients, NEW k \in 1 .. parsed[d] PROVE Total(d, k)' = 1
  <2>1. d # None
    BY ClientsAssumption
  <2>2. Times(sendDeque, d, k) \in Nat
    BY Counts DEF IInv
  <2>3. Times(sendDeque', d, k) = Times(sendDeque, d, k)
    BY <1>2, <1>4, <2>1, <2>2 DEF Hit
  <2>4. Waiting(d, k)' = Waiting(d, k)
    BY <1>1, <1>2, <2>1 DEF Waiting
  <2>5. Total(d, k)' = Total(d, k)
    BY <1>1, <2>3, <2>4 DEF Total, Times, Dropped
  <2>6. QED
    BY <2>5, Totals DEF IInv
<1>6. Accounted'
  BY <1>1, <1>5, Totals
<1>7. QED
  BY <1>4, <1>6 DEF IInv

\* The coroutine that ends is the one whose response was pushed.
LEMMA WakeStep ==
    ASSUME IInv, crash = "no", Wake
    PROVE  IInv'
<1> USE DEF client, conn, table, epoll, biz
<1>1. /\ hand # None /\ hand' = None /\ ready' = ready \cup {Notify}
      /\ running' = {r \in running : ~(r.c = hand.c /\ r.k = hand.k)}
      /\ UNCHANGED <<state, sent, arrived, ending, uidOf, recvBuf, parsed, free, connOf, batch, npc, pipe,
                     recvDeque, closes, sendDeque, out, lost, crash>>
  BY DEF Wake
<1>2. running' \in SUBSET running
  BY <1>1
<1>3. Finite'
  BY <1>1, <1>2, FS_Subset DEF IInv, Finite
<1>4. TypeOK'
  BY <1>1, <1>2 DEF IInv, TypeOK, Events
<1>5. Halves' /\ Table' /\ Idle' /\ RightConnection'
  BY <1>1 DEF IInv, Halves, Table, Idle, RightConnection
<1>6. Known'
  BY <1>1, <1>2 DEF IInv, Known, Received, Sendable, Came
<1>7. ASSUME NEW d \in Clients, NEW k \in 1 .. parsed[d] PROVE Total(d, k)' = 1
  <2>1. Waiting(d, k)' = Waiting(d, k)
    BY <1>1 DEF Waiting
  <2>2. Total(d, k)' = Total(d, k)
    BY <1>1, <2>1 DEF Total, Times, Dropped
  <2>3. QED
    BY <2>2, Totals DEF IInv
<1>8. Accounted'
  BY <1>1, <1>7, Totals
<1>9. QED
  BY <1>3, <1>4, <1>5, <1>6, <1>8 DEF IInv

-----------------------------------------------------------------------------
(* The invariant is inductive. *)

LEMMA Initial == Init => IInv
<1> SUFFICES ASSUME Init PROVE IInv
  OBVIOUS
<1> USE DEF Init
<1>1. TypeOK
  BY SizesAssumption DEF TypeOK, Uids, Events
<1>2. Halves /\ Idle
  BY DEF Halves, Idle
<1>3. Table
  <2>1. Len(free) = UidCount /\ \A i \in 1 .. UidCount : free[i] = i
    BY UidFacts DEF Uids
  <2>2. QED
    BY <2>1, UidFacts DEF Table
<1>4. Known /\ RightConnection
  BY DEF Known, RightConnection
<1>5. Finite
  BY FS_EmptySet DEF Finite
<1>6. Accounted
  BY DEF Accounted
<1>7. QED
  BY <1>1, <1>2, <1>3, <1>4, <1>5, <1>6 DEF IInv

LEMMA Inductive == IInv /\ [Next]_vars => IInv'
<1> SUFFICES ASSUME IInv, [Next]_vars PROVE IInv'
  OBVIOUS
<1>1. CASE UNCHANGED vars
  <2> USE DEF vars, client, conn, table, epoll, biz
  <2>1. TypeOK' /\ Halves' /\ Table' /\ Idle'
    BY <1>1 DEF IInv, TypeOK, Halves, Table, Idle
  <2>2. Known' /\ Finite' /\ RightConnection' /\ Accounted'
    BY <1>1, Quiet DEF IInv
  <2>3. QED
    BY <2>1, <2>2 DEF IInv
<1>2. CASE Next
  <2>1. crash = "no"
    BY <1>2 DEF Next
  <2>2. CASE \E c \in Clients : ClientConnect(c) \/ ClientSend(c) \/ \E how \in ClientsMayEnd : ClientEnd(c, how)
    BY <2>2, ClientSteps
  <2>3. CASE Poll \/ BatchEnd \/ OnListen \/ AcceptEnd \/ PipeEnd
    BY <2>3, LoopSteps
  <2>4. CASE OnNotify \/ PipeSend \/ PipeClose
    BY <2>1, <2>4, OnNotifyStep, PipeSendStep, PipeCloseStep
  <2>5. CASE \E c \in Clients : Accept(c) \/ AcceptAborted(c)
    BY <2>1, <2>5, AcceptStep, AcceptAbortedStep
  <2>6. CASE \E u \in Uids : OnNet(u)
    BY <2>1, <2>6, OnNetStep
  <2>7. CASE HandleRequest \/ Wake
    BY <2>1, <2>7, HandleRequestStep, WakeStep
  <2>8. CASE \E r \in running : RespondPush(r)
    BY <2>1, <2>8, RespondPushStep
  <2>9. CASE \E u \in Uids : ClosePush(u)
    BY <2>1, <2>9, ClosePushStep
  <2>10. QED
    BY <1>2, <2>2, <2>3, <2>4, <2>5, <2>6, <2>7, <2>8, <2>9 DEF Next, NetThread, Business
<1>3. QED
  BY <1>1, <1>2

-----------------------------------------------------------------------------
(* Theorems *)

\* Every deque, table and counter of the server keeps its type, and no more
\* requests are cut out of a connection than the client has sent whole
\* (Connection.cc:18-64).
THEOREM TypeCorrect == Spec => []TypeOK
<1>1. IInv => TypeOK
  BY DEF IInv
<1>2. QED
  BY <1>1, Initial, Inductive, PTL DEF Spec

\* A response never reaches another client than the one whose request it
\* answers, nor twice, however many clients come and go meanwhile: a uid is
\* given to one connection only (NetThread.cc:131-138, 180-210).
THEOREM AnswersAskers == Spec => []RightConnection
<1>1. IInv => RightConnection
  BY DEF IInv
<1>2. QED
  BY <1>1, Initial, Inductive, PTL DEF Spec

\* Every request that was received whole is in exactly one place between the
\* read and the write, for any number of clients, requests and coroutines
\* (Connection.cc:43-64, ThreadDeque.hpp:32-126, ServantHandle.cc:84-119).
THEOREM NoneVanishes == Spec => []Accounted
<1>1. IInv => Accounted
  BY DEF IInv
<1>2. QED
  BY <1>1, Initial, Inductive, PTL DEF Spec
=============================================================================
