-------------------------- MODULE ClientCallProofs --------------------------
(***************************************************************************)
(* Calls on the client, for any number of calling threads and calls: who   *)
(* owns a message, in which order requests reach the wire, and whose       *)
(* response a call is given.                                               *)
(***************************************************************************)
EXTENDS ClientCall, FiniteSetTheorems, TLAPS

-----------------------------------------------------------------------------
(* The inductive invariant. *)

Held      == {"send", "finish", "set", "signal", "unlock"}
Finishing == {"finish", "set", "signal", "unlock"}

\* where the threads are, and what that says of their data
Control ==
    /\ npc \in Held <=> nmsg # 0
    /\ npc \in {"drain", "send"} => nq # None
    /\ armed \/ npc = "handle" => p # None
    /\ readable /\ ~eof => inbound # <<>>
    /\ \A c \in Callers : /\ pc[c] \in {"create", "add", "mod"} => p # None
                          /\ pc[c] # "idle" => cur[c] # 0
                          /\ cur[c] # 0 => msg[cur[c]].by = c

\* a request that waits to be sent has no id, and is younger than those before it
Queued ==
    /\ \A c \in Callers : \A k \in 1 .. Len(reqQueue[c]) :
          /\ msg[reqQueue[c][k]].by = c /\ msg[reqQueue[c][k]].rid = 0
          /\ \A j \in 1 .. k - 1 : reqQueue[c][j] < reqQueue[c][k]
    /\ npc = "send" => /\ msg[nmsg].by = nq /\ msg[nmsg].rid = 0
                       /\ \A k \in 1 .. Len(reqQueue[nq]) : nmsg < reqQueue[nq][k]

\* one that has an id is in the table, with the network thread or with the
\* callback thread, and there once
Served ==
    /\ npc \in Finishing => msg[nmsg].rid # 0
    /\ \A i \in Ids : pending[i] # 0 => msg[pending[i]].rid = i /\ pending[i] # nmsg
    /\ \A k \in 1 .. Len(asyncQueue) :
          /\ msg[asyncQueue[k]].rid # 0 /\ msg[asyncQueue[k]].kind = "async"
          /\ asyncQueue[k] # nmsg
          /\ \A i \in Ids : pending[i] # asyncQueue[k]
          /\ \A j \in 1 .. k - 1 : asyncQueue[j] # asyncQueue[k]

\* a call is finished by the network thread only
Unfinished ==
    /\ \A c \in Callers : \A k \in 1 .. Len(reqQueue[c]) : ~msg[reqQueue[c][k]].fin
    /\ \A i \in Ids : pending[i] # 0 => ~msg[pending[i]].fin
    /\ \A k \in 1 .. Len(asyncQueue) : ~msg[asyncQueue[k]].fin
    /\ npc \in {"send", "finish", "set"} => ~msg[nmsg].fin
    /\ npc \in {"signal", "unlock"} => msg[nmsg].fin

\* who has the mutex of a message
Locks ==
    /\ npc \in {"set", "signal", "unlock"} => msg[nmsg].kind = "sync" /\ msg[nmsg].lock = Net
    /\ \A c \in Callers : pc[c] = "recheck" => msg[cur[c]].lock = c

InQueue(m) == \E c \in Callers : \E k \in 1 .. Len(reqQueue[c]) : reqQueue[c][k] = m
InTable(m) == \E i \in Ids : pending[i] = m
InAsync(m) == \E k \in 1 .. Len(asyncQueue) : asyncQueue[k] = m
Somewhere(m) == InQueue(m) \/ nmsg = m \/ InTable(m) \/ InAsync(m)

\* no message leaks: one that lives is held by somebody who will go on with it
Kept ==
    \A m \in 1 .. made : msg[m].life = "live" =>
        /\ msg[m].kind = "sync" => cur[msg[m].by] = m /\ pc[msg[m].by] # "idle"
        /\ msg[m].kind = "async" \/ ~msg[m].fin => Somewhere(m)

\* where invoke looks at the message of a synchronous call
Looking == {"check", "lock", "recheck", "waiting", "woken", "return"}

\* a caller returns only when its call is finished, or after a spurious wakeup
Patient ==
    \A c \in Callers :
        /\ ~Spurious /\ pc[c] \in {"woken", "return"} => msg[cur[c]].fin
        /\ pc[c] \in Looking => msg[cur[c]].kind = "sync"

\* a message that may be held: it lives, or the caller did not wait for its end
Safe(m) == msg[m].life = "live" \/ (Spurious /\ msg[m].kind = "sync" /\ ~msg[m].fin)

\* and so nobody holds another, but the network thread as the process ends
Alive ==
    /\ crash = "freed" => Spurious
    /\ \A c \in Callers : \A k \in 1 .. Len(reqQueue[c]) : Safe(reqQueue[c][k])
    /\ nmsg # 0 => Safe(nmsg) \/ crash = "mutex"
    /\ npc = "set" /\ crash = "no" => msg[nmsg].life = "live"
    /\ \A i \in Ids : pending[i] # 0 => Safe(pending[i])
    /\ \A k \in 1 .. Len(asyncQueue) : Safe(asyncQueue[k])

\* what is on the wire is older than what is not
Ordered ==
    \A k \in 1 .. Len(wire) :
        /\ wire[k].m \in 1 .. made
        /\ \A j \in 1 .. k - 1 : msg[wire[j].m].by = msg[wire[k].m].by => wire[j].m < wire[k].m
        /\ \A c \in Callers : msg[wire[k].m].by = c =>
              \A q \in 1 .. Len(reqQueue[c]) : wire[k].m < reqQueue[c][q]
        /\ npc = "send" /\ msg[wire[k].m].by = msg[nmsg].by => wire[k].m < nmsg

Fresh == MaxCalls < IdMod

\* the messages that were given an id
Sent == {m \in 1 .. made : msg[m].rid # 0}

\* ids count the requests sent, and no two are the same
Numbered == Fresh =>
    /\ id = Cardinality(Sent)
    /\ \A m \in 1 .. made : msg[m].rid <= id
    /\ \A m, n \in 1 .. made : msg[m].rid # 0 /\ msg[m].rid = msg[n].rid => m = n

\* the wire has them all until one of them is kept back; then it is closed
\* to those that follow
OnWire == Fresh =>
    /\ \A k \in 1 .. Len(wire) : /\ wire[k].id = k /\ msg[wire[k].m].rid = k
                                 /\ k < Len(wire) => wire[k].part = "whole"
    /\ \/ crash # "no" \/ sendBuf # 0 \/ conn = "closed"
       \/ unsent = <<>> /\ Len(wire) = id /\ \A k \in 1 .. Len(wire) : wire[k].part = "whole"

\* a piece that begins where an answer begins, begins with its id
Begins ==
    inbound # <<>> /\ Head(inbound).of # 0 =>
        Head(inbound).of \in 1 .. Len(wire) /\ Head(inbound).says = wire[Head(inbound).of].id

\* the response of message m does not begin with the answer to another
Given(m) ==
    /\ msg[m].resp # <<>>
    /\ Head(msg[m].resp).of # 0 =>
          Head(msg[m].resp).of \in 1 .. Len(wire) /\ wire[Head(msg[m].resp).of].m = m

Matched == Fresh =>
    /\ \A m \in 1 .. made : msg[m].fin => Given(m)
    /\ npc \in Finishing => Given(nmsg)
    /\ \A k \in 1 .. Len(asyncQueue) : Given(asyncQueue[k])

IInv == /\ TypeOK /\ Control /\ Queued /\ Served /\ Unfinished /\ Locks
        /\ Kept /\ Patient /\ Alive /\ Ordered /\ Numbered /\ OnWire /\ Begins /\ Matched

-----------------------------------------------------------------------------
(* Messages. *)

LEMMA Constants ==
    /\ MaxCalls \in Nat /\ IdMod \in Nat /\ IdMod > 1
    /\ Net \notin Callers /\ None \notin Callers /\ Net # None
    /\ Ids \subseteq Nat /\ 0 \notin Ids /\ \A i \in 0 .. IdMod - 1 : i # 0 => i \in Ids
BY CallersAssumption, BoundsAssumption, IdModAssumption DEF Ids

LEMMA MessageFacts ==
    ASSUME TypeOK, NEW m \in 1 .. made
    PROVE  /\ msg[m] \in ReqMessage /\ m \in Nat /\ m # 0 /\ made \in Nat /\ m \in Msgs
           /\ msg[m].kind \in {"sync", "async"} /\ msg[m].by \in Callers
           /\ msg[m].life \in {"live", "deleted"} /\ msg[m].rid \in 0 .. IdMod - 1
           /\ msg[m].rid \in Nat /\ msg[m].fin \in BOOLEAN /\ msg[m].resp \in Seq(Piece)
           /\ msg[m].lock \in Callers \cup {Net, None}
<1>1. msg \in Seq(ReqMessage) /\ Len(msg) = made /\ made \in 0 .. MaxCalls
  BY DEF TypeOK
<1>2. msg[m] \in ReqMessage
  BY <1>1
<1>3. m \in Nat /\ m # 0 /\ made \in Nat /\ m \in Msgs
  BY <1>1, Constants DEF Msgs
<1>4. QED
  BY <1>2, <1>3, Constants DEF ReqMessage

\* A step that writes one field of a message leaves the rest alone.
LEMMA Written ==
    ASSUME TypeOK, NEW m \in 1 .. made, NEW x \in ReqMessage,
           msg' = [msg EXCEPT ![m] = x]
    PROVE  /\ msg' \in Seq(ReqMessage) /\ Len(msg') = made
           /\ msg'[m] = x /\ \A j \in 1 .. made : j # m => msg'[j] = msg[j]
BY DEF TypeOK

LEMMA LockWritten ==
    ASSUME TypeOK, NEW m \in 1 .. made, NEW v \in Callers \cup {Net, None},
           msg' = [msg EXCEPT ![m].lock = v]
    PROVE  /\ msg' \in Seq(ReqMessage) /\ Len(msg') = made
           /\ \A j \in 1 .. made :
                 /\ msg'[j].kind = msg[j].kind /\ msg'[j].by = msg[j].by
                 /\ msg'[j].life = msg[j].life /\ msg'[j].rid = msg[j].rid
                 /\ msg'[j].fin = msg[j].fin /\ msg'[j].resp = msg[j].resp
                 /\ msg'[j].lock = IF j = m THEN v ELSE msg[j].lock
<1> DEFINE x == [msg[m] EXCEPT !.lock = v]
<1>1. /\ x \in ReqMessage /\ x.lock = v /\ x.kind = msg[m].kind /\ x.by = msg[m].by /\ x.life = msg[m].life
      /\ x.rid = msg[m].rid /\ x.fin = msg[m].fin /\ x.resp = msg[m].resp
  BY MessageFacts DEF ReqMessage
<1>2. msg' = [msg EXCEPT ![m] = x]
  OBVIOUS
<1> HIDE DEF x
<1>3. /\ msg' \in Seq(ReqMessage) /\ Len(msg') = made
      /\ msg'[m] = x /\ \A j \in 1 .. made : j # m => msg'[j] = msg[j]
  BY <1>1, <1>2, Written
<1>4. QED
  BY <1>1, <1>3

LEMMA LifeWritten ==
    ASSUME TypeOK, NEW m \in 1 .. made, msg' = [msg EXCEPT ![m].life = "deleted"]
    PROVE  /\ msg' \in Seq(ReqMessage) /\ Len(msg') = made
           /\ \A j \in 1 .. made :
                 /\ msg'[j].kind = msg[j].kind /\ msg'[j].by = msg[j].by
                 /\ msg'[j].lock = msg[j].lock /\ msg'[j].rid = msg[j].rid
                 /\ msg'[j].fin = msg[j].fin /\ msg'[j].resp = msg[j].resp
                 /\ msg'[j].life = IF j = m THEN "deleted" ELSE msg[j].life
<1> DEFINE x == [msg[m] EXCEPT !.life = "deleted"]
<1>1. /\ x \in ReqMessage /\ x.life = "deleted" /\ x.kind = msg[m].kind /\ x.by = msg[m].by /\ x.lock = msg[m].lock
      /\ x.rid = msg[m].rid /\ x.fin = msg[m].fin /\ x.resp = msg[m].resp
  BY MessageFacts DEF ReqMessage
<1>2. msg' = [msg EXCEPT ![m] = x]
  OBVIOUS
<1> HIDE DEF x
<1>3. /\ msg' \in Seq(ReqMessage) /\ Len(msg') = made
      /\ msg'[m] = x /\ \A j \in 1 .. made : j # m => msg'[j] = msg[j]
  BY <1>1, <1>2, Written
<1>4. QED
  BY <1>1, <1>3

LEMMA FinWritten ==
    ASSUME TypeOK, NEW m \in 1 .. made, msg' = [msg EXCEPT ![m].fin = TRUE]
    PROVE  /\ msg' \in Seq(ReqMessage) /\ Len(msg') = made
           /\ \A j \in 1 .. made :
                 /\ msg'[j].kind = msg[j].kind /\ msg'[j].by = msg[j].by
                 /\ msg'[j].lock = msg[j].lock /\ msg'[j].rid = msg[j].rid
                 /\ msg'[j].life = msg[j].life /\ msg'[j].resp = msg[j].resp
                 /\ msg'[j].fin <=> j = m \/ msg[j].fin
<1> DEFINE x == [msg[m] EXCEPT !.fin = TRUE]
<1>1. /\ x \in ReqMessage /\ x.fin = TRUE /\ x.kind = msg[m].kind /\ x.by = msg[m].by /\ x.lock = msg[m].lock
      /\ x.rid = msg[m].rid /\ x.life = msg[m].life /\ x.resp = msg[m].resp
  BY MessageFacts DEF ReqMessage
<1>2. msg' = [msg EXCEPT ![m] = x]
  OBVIOUS
<1> HIDE DEF x
<1>3. /\ msg' \in Seq(ReqMessage) /\ Len(msg') = made
      /\ msg'[m] = x /\ \A j \in 1 .. made : j # m => msg'[j] = msg[j]
  BY <1>1, <1>2, Written
<1>4. QED
  BY <1>1, <1>3

LEMMA RidWritten ==
    ASSUME TypeOK, NEW m \in 1 .. made, NEW i \in 0 .. IdMod - 1, msg' = [msg EXCEPT ![m].rid = i]
    PROVE  /\ msg' \in Seq(ReqMessage) /\ Len(msg') = made
           /\ \A j \in 1 .. made :
                 /\ msg'[j].kind = msg[j].kind /\ msg'[j].by = msg[j].by
                 /\ msg'[j].lock = msg[j].lock /\ msg'[j].life = msg[j].life
                 /\ msg'[j].fin = msg[j].fin /\ msg'[j].resp = msg[j].resp
                 /\ msg'[j].rid = IF j = m THEN i ELSE msg[j].rid
<1> DEFINE x == [msg[m] EXCEPT !.rid = i]
<1>1. /\ x \in ReqMessage /\ x.rid = i /\ x.kind = msg[m].kind /\ x.by = msg[m].by /\ x.lock = msg[m].lock
      /\ x.life = msg[m].life /\ x.fin = msg[m].fin /\ x.resp = msg[m].resp
  BY MessageFacts DEF ReqMessage
<1>2. msg' = [msg EXCEPT ![m] = x]
  OBVIOUS
<1> HIDE DEF x
<1>3. /\ msg' \in Seq(ReqMessage) /\ Len(msg') = made
      /\ msg'[m] = x /\ \A j \in 1 .. made : j # m => msg'[j] = msg[j]
  BY <1>1, <1>2, Written
<1>4. QED
  BY <1>1, <1>3

LEMMA RespWritten ==
    ASSUME TypeOK, NEW m \in 1 .. made, NEW r \in Seq(Piece), msg' = [msg EXCEPT ![m].resp = r]
    PROVE  /\ msg' \in Seq(ReqMessage) /\ Len(msg') = made
           /\ \A j \in 1 .. made :
                 /\ msg'[j].kind = msg[j].kind /\ msg'[j].by = msg[j].by
                 /\ msg'[j].lock = msg[j].lock /\ msg'[j].rid = msg[j].rid
                 /\ msg'[j].fin = msg[j].fin /\ msg'[j].life = msg[j].life
                 /\ msg'[j].resp = IF j = m THEN r ELSE msg[j].resp
<1> DEFINE x == [msg[m] EXCEPT !.resp = r]
<1>1. /\ x \in ReqMessage /\ x.resp = r /\ x.kind = msg[m].kind /\ x.by = msg[m].by /\ x.lock = msg[m].lock
      /\ x.rid = msg[m].rid /\ x.fin = msg[m].fin /\ x.life = msg[m].life
  BY MessageFacts DEF ReqMessage
<1>2. msg' = [msg EXCEPT ![m] = x]
  OBVIOUS
<1> HIDE DEF x
<1>3. /\ msg' \in Seq(ReqMessage) /\ Len(msg') = made
      /\ msg'[m] = x /\ \A j \in 1 .. made : j # m => msg'[j] = msg[j]
  BY <1>1, <1>2, Written
<1>4. QED
  BY <1>1, <1>3

LEMMA Entries ==
    ASSUME NEW S
    PROVE  \A s \in Seq(S) : Len(s) \in Nat /\ \A k \in 1 .. Len(s) : s[k] \in S
OBVIOUS

\* The messages that the containers and threads hold are messages.
LEMMA HeldTypes ==
    ASSUME TypeOK
    PROVE  /\ \A c \in Callers : /\ reqQueue[c] \in Seq(1 .. made) /\ Len(reqQueue[c]) \in Nat
                                 /\ \A k \in 1 .. Len(reqQueue[c]) : reqQueue[c][k] \in 1 .. made
           /\ \A i \in Ids : pending[i] \in 0 .. made /\ (pending[i] # 0 => pending[i] \in 1 .. made)
           /\ Len(asyncQueue) \in Nat
           /\ \A k \in 1 .. Len(asyncQueue) : asyncQueue[k] \in 1 .. made
           /\ nmsg # 0 => nmsg \in 1 .. made
           /\ \A c \in Callers : cur[c] # 0 => cur[c] \in 1 .. made
           /\ Len(wire) \in Nat /\ Len(unsent) \in Nat
           /\ \A k \in 1 .. Len(wire) : wire[k] \in Request
           /\ made \in Nat /\ id \in Nat
<1>1. made \in Nat /\ id \in Nat
  BY Constants DEF TypeOK
<1>2. \A c \in Callers : reqQueue[c] \in Seq(1 .. made)
  BY DEF TypeOK
<1>3. \A c \in Callers : cur[c] \in 0 .. made
  BY DEF TypeOK
<1>4. nmsg \in 0 .. made /\ \A i \in Ids : pending[i] \in 0 .. made
  BY DEF TypeOK
<1>5. asyncQueue \in Seq(1 .. made) /\ wire \in Seq(Request) /\ unsent \in Seq(Ids)
  BY DEF TypeOK
<1>6. \A x \in 0 .. made : x # 0 => x \in 1 .. made
  BY <1>1
<1>7. /\ \A s \in Seq(1 .. made) : Len(s) \in Nat /\ \A k \in 1 .. Len(s) : s[k] \in 1 .. made
      /\ Len(wire) \in Nat /\ Len(unsent) \in Nat
      /\ \A k \in 1 .. Len(wire) : wire[k] \in Request
  BY <1>5, Entries
<1>8. QED
  BY <1>1, <1>2, <1>3, <1>4, <1>5, <1>6, <1>7

-----------------------------------------------------------------------------
(* Steps that move no message. *)

\* what they leave alone, the callback thread's queue set aside
Quiet ==
    /\ made' = made
    /\ \A j \in 1 .. made : /\ msg'[j].kind = msg[j].kind /\ msg'[j].by = msg[j].by
                            /\ msg'[j].rid = msg[j].rid /\ msg'[j].resp = msg[j].resp
                            /\ msg'[j].life = "live" => msg[j].life = "live"
                            /\ msg[j].fin => msg'[j].fin
                            /\ msg'[j].fin => msg[j].fin \/ (j = nmsg /\ npc \in Finishing)
    /\ UNCHANGED <<reqQueue, id, pending, unsent, wire>>
    /\ npc' = "send" => npc = "send" /\ nq' = nq
    /\ npc' \in Finishing => npc \in Finishing
    /\ npc' \in Held => nmsg' = nmsg
    /\ nmsg' = nmsg \/ nmsg' = 0
    /\ crash = "no" /\ (sendBuf # 0 => sendBuf' # 0 \/ conn' = "closed")
    /\ conn = "closed" => conn' = "closed"
    /\ inbound' = inbound \/ inbound' = <<>> \/ Begins'

Still == Quiet /\ asyncQueue' = asyncQueue

LEMMA StillServed ==
    ASSUME IInv, Still
    PROVE  Served'
<1>1. /\ \A c \in Callers : \A k \in 1 .. Len(reqQueue[c]) : reqQueue[c][k] \in 1 .. made
      /\ \A i \in Ids : pending[i] # 0 => pending[i] \in 1 .. made
      /\ \A k \in 1 .. Len(asyncQueue) : asyncQueue[k] \in 1 .. made /\ asyncQueue[k] # 0
      /\ nmsg # 0 => nmsg \in 1 .. made
      /\ npc \in Held => nmsg # 0
  BY HeldTypes, SMTT(30) DEF IInv, Control
<1>2. QED
  BY <1>1, SMTT(30) DEF IInv, Still, Quiet, Served, Held, Finishing

LEMMA QuietOrdered ==
    ASSUME IInv, Quiet
    PROVE  Queued' /\ Ordered' /\ Numbered' /\ OnWire' /\ Begins'
<1>1. \A k \in 1 .. Len(wire) : wire[k].m \in 1 .. made
  BY DEF IInv, Ordered
<1>2. npc \in Held => nmsg \in 1 .. made
  BY HeldTypes DEF IInv, Control
<1>3. Ordered'
  <2>1. wire' = wire /\ reqQueue' = reqQueue /\ made' = made
    BY DEF Quiet
  <2>2. \A k \in 1 .. Len(wire) : msg'[wire[k].m].by = msg[wire[k].m].by
    BY <1>1 DEF Quiet
  <2>3. npc' = "send" => npc = "send" /\ nmsg' = nmsg /\ msg'[nmsg].by = msg[nmsg].by
    BY <1>2 DEF Quiet, Held
  <2>4. Ordered
    BY DEF IInv
  <2>5. Len(wire) \in Nat
    BY HeldTypes DEF IInv
  <2>6. SUFFICES ASSUME NEW k \in 1 .. Len(wire)
                 PROVE  /\ wire[k].m \in 1 .. made
                        /\ \A j \in 1 .. k - 1 : msg'[wire[j].m].by = msg'[wire[k].m].by => wire[j].m < wire[k].m
                        /\ \A c \in Callers : msg'[wire[k].m].by = c =>
                              \A q \in 1 .. Len(reqQueue[c]) : wire[k].m < reqQueue[c][q]
                        /\ npc' = "send" /\ msg'[wire[k].m].by = msg'[nmsg'].by => wire[k].m < nmsg'
    BY <2>1 DEF Ordered
  <2>7. \A j \in 1 .. k - 1 : j \in 1 .. Len(wire)
    BY <2>5
  <2>8. \A j \in 1 .. k - 1 : msg'[wire[j].m].by = msg'[wire[k].m].by => wire[j].m < wire[k].m
    BY <2>2, <2>4, <2>7 DEF Ordered
  <2>9. QED
    BY <2>2, <2>3, <2>4, <2>8 DEF Ordered
<1>4. Numbered'
  <2>1. Sent' = Sent
    BY DEF Quiet, Sent
  <2>2. QED
    BY <2>1 DEF IInv, Quiet, Numbered
<1>5. OnWire'
  BY <1>1 DEF IInv, Quiet, OnWire
<1>6. Queued'
  <2>1. \A c \in Callers : \A k \in 1 .. Len(reqQueue[c]) : reqQueue[c][k] \in 1 .. made
    BY HeldTypes DEF IInv
  <2>2. QED
    BY <1>2, <2>1, SMTT(30) DEF IInv, Quiet, Queued, Held
<1>7. Begins'
  <2>1. wire' = wire /\ (inbound' = inbound \/ inbound' = <<>> \/ Begins')
    BY DEF Quiet
  <2>2. QED
    BY <2>1 DEF IInv, Begins
<1>8. QED
  BY <1>3, <1>4, <1>5, <1>6, <1>7

LEMMA StillOrdered ==
    ASSUME IInv, Still
    PROVE  Queued' /\ Ordered' /\ Numbered' /\ OnWire' /\ Begins'
BY QuietOrdered DEF Still

LEMMA StillMatched ==
    ASSUME IInv, Still
    PROVE  Matched'
<1>1. SUFFICES ASSUME Fresh PROVE Matched'
  BY DEF Matched
<1>2. /\ \A m \in 1 .. made : msg[m].fin => Given(m)
      /\ npc \in Finishing => Given(nmsg)
      /\ \A k \in 1 .. Len(asyncQueue) : Given(asyncQueue[k])
  BY <1>1 DEF IInv, Matched
<1>3. ASSUME NEW m \in 1 .. made, Given(m) PROVE Given(m)'
  BY <1>3 DEF Given, Still, Quiet
<1>4. /\ \A k \in 1 .. Len(asyncQueue) : asyncQueue[k] \in 1 .. made
      /\ npc \in Finishing => nmsg \in 1 .. made
  BY HeldTypes DEF IInv, Control, Held, Finishing
<1>5. \A m \in 1 .. made' : msg'[m].fin => Given(m)'
  BY <1>2, <1>3 DEF Still, Quiet
<1>6. npc' \in Finishing => Given(nmsg)'
  <2>1. SUFFICES ASSUME npc' \in Finishing PROVE Given(nmsg)'
    OBVIOUS
  <2>2. nmsg' = nmsg /\ npc \in Finishing
    BY <2>1 DEF Still, Quiet, Finishing, Held
  <2>3. QED
    BY <1>2, <1>3, <1>4, <2>2 DEF Given
<1>7. \A k \in 1 .. Len(asyncQueue') : Given(asyncQueue[k])'
  BY <1>2, <1>3, <1>4 DEF Still, Quiet, Given
<1>8. QED
  BY <1>5, <1>6, <1>7 DEF Matched

\* the message that the network thread lets go is finished
LEMMA StillKept ==
    ASSUME IInv, Still, cur' = cur,
           nmsg' # nmsg => msg[nmsg].kind = "sync" /\ msg[nmsg].fin,
           \A c \in Callers : pc'[c] = "idle" => \/ pc[c] = "idle" \/ msg[cur[c]].kind = "async"
                                                 \/ msg'[cur[c]].life = "deleted"
    PROVE  Kept'
<1>1. SUFFICES ASSUME NEW m \in 1 .. made, msg'[m].life = "live"
               PROVE  /\ msg'[m].kind = "sync" => cur'[msg'[m].by] = m /\ pc'[msg'[m].by] # "idle"
                      /\ msg'[m].kind = "async" \/ ~msg'[m].fin => Somewhere(m)'
  BY DEF Kept, Still, Quiet
<1>2. /\ msg[m].kind = "sync" => cur[msg[m].by] = m /\ pc[msg[m].by] # "idle"
      /\ msg[m].kind = "async" \/ ~msg[m].fin => Somewhere(m)
      /\ msg[m].by \in Callers /\ msg[m].kind \in {"sync", "async"}
  BY <1>1, MessageFacts DEF IInv, Still, Quiet, Kept
<1>3. msg'[m].kind = "sync" => cur'[msg'[m].by] = m /\ pc'[msg'[m].by] # "idle"
  BY <1>1, <1>2 DEF Still, Quiet
<1>4. msg'[m].kind = "async" \/ ~msg'[m].fin => Somewhere(m)'
  <2>1. SUFFICES ASSUME msg'[m].kind = "async" \/ ~msg'[m].fin PROVE Somewhere(m)'
    OBVIOUS
  <2>2. msg[m].kind = "async" \/ ~msg[m].fin
    BY <2>1 DEF Still, Quiet
  <2>3. Somewhere(m)
    BY <1>2, <2>2
  <2>4. nmsg = m => nmsg' = m
    BY <2>2
  <2>5. QED
    BY <2>3, <2>4 DEF Still, Quiet, Somewhere, InQueue, InTable, InAsync
<1>5. QED
  BY <1>3, <1>4

LEMMA StillAlive ==
    ASSUME IInv, Still,
           \A j \in 1 .. made : msg'[j].life = msg[j].life /\ msg'[j].fin = msg[j].fin,
           crash' # "freed", npc' = "set" => npc = "set"
    PROVE  Alive'
<1>1. /\ \A c \in Callers : \A k \in 1 .. Len(reqQueue[c]) : reqQueue[c][k] \in 1 .. made
      /\ \A i \in Ids : pending[i] # 0 => pending[i] \in 1 .. made
      /\ \A k \in 1 .. Len(asyncQueue) : asyncQueue[k] \in 1 .. made
      /\ nmsg # 0 => nmsg \in 1 .. made
      /\ npc = "set" => nmsg # 0
  BY HeldTypes DEF IInv, Control, Held
<1>2. /\ \A c \in Callers : \A k \in 1 .. Len(reqQueue[c]) : Safe(reqQueue[c][k])
      /\ \A i \in Ids : pending[i] # 0 => Safe(pending[i])
      /\ \A k \in 1 .. Len(asyncQueue) : Safe(asyncQueue[k])
      /\ nmsg # 0 => Safe(nmsg)
      /\ npc = "set" => msg[nmsg].life = "live"
  BY DEF IInv, Alive, Still, Quiet
<1>3. UNCHANGED <<reqQueue, pending, asyncQueue>>
  BY DEF Still, Quiet
<1>4. \A j \in 1 .. made : msg'[j].kind = msg[j].kind
  BY DEF Still, Quiet
<1>5. nmsg' # 0 => nmsg' = nmsg
  BY DEF Still, Quiet
<1>6. npc' = "set" => npc = "set" /\ nmsg' = nmsg
  BY DEF Still, Quiet, Held
<1>7. /\ \A c \in Callers : \A k \in 1 .. Len(reqQueue'[c]) : Safe(reqQueue[c][k])'
      /\ \A i \in Ids : pending'[i] # 0 => Safe(pending[i])'
      /\ \A k \in 1 .. Len(asyncQueue') : Safe(asyncQueue[k])'
  BY <1>1, <1>2, <1>3, <1>4, SMTT(30) DEF Safe
<1>8. nmsg' # 0 => Safe(nmsg)'
  BY <1>1, <1>2, <1>4, <1>5 DEF Safe
<1>9. npc' = "set" => msg'[nmsg'].life = "live"
  BY <1>1, <1>2, <1>6
<1>10. QED
  BY <1>7, <1>8, <1>9 DEF Alive

-----------------------------------------------------------------------------
(* The calling thread inside a call. *)

Places == {"idle", "notify", "create", "add", "mod", "check",
           "lock", "recheck", "waiting", "woken", "return"}

\* A step that writes nothing but the place of caller c, its second notify
\* and the slot.
LEMMA CallerMoves ==
    ASSUME IInv, crash = "no", NEW c \in Callers, NEW x \in Places,
           UNCHANGED <<msg, made, cur, reqQueue, net, proxy, trans, peer, asyncQueue>>,
           pc' = [pc EXCEPT ![c] = x], pc[c] # "idle", x # "recheck",
           x = "idle" => msg[cur[c]].kind = "async",
           ~Spurious /\ x \in {"woken", "return"} => msg[cur[c]].fin,
           x \in Looking => msg[cur[c]].kind = "sync",
           x \in {"create", "add", "mod"} => p' # None,
           again' \in [Callers -> BOOLEAN],
           p' \in Callers \cup {None}, p # None => p' # None, armed' => p' # None,
           valid' \in BOOLEAN, added' \in BOOLEAN, armed' \in BOOLEAN,
           crash' \in {"no", "assert", "null"}
    PROVE  IInv'
<1> USE DEF net, proxy, trans, peer
<1>1. Still
  BY DEF Still, Quiet, Held
<1>2. TypeOK'
  <2>1. pc' \in [Callers -> Places]
    BY DEF IInv, TypeOK, Places
  <2>2. crash' \in {"no", "assert", "mutex", "null", "send", "freed"}
    OBVIOUS
  <2>3. UNCHANGED <<msg, made, cur, reqQueue, net, proxy, trans, peer, asyncQueue>>
    OBVIOUS
  <2>4. QED
    BY <2>1, <2>2, <2>3, SMTT(30) DEF IInv, TypeOK, Places
<1>3. /\ pc'[c] = x /\ \A d \in Callers : d # c => pc'[d] = pc[d]
      /\ \A d \in Callers : cur[d] # 0 => msg[cur[d]].by = d
      /\ cur[c] # 0
  BY DEF IInv, TypeOK, Control
<1>4. Control'
  BY <1>3 DEF IInv, Control
<1>5. Unfinished'
  BY DEF IInv, Unfinished
<1>6. Locks'
  BY <1>3 DEF IInv, Locks
<1>7. Patient'
  BY <1>3 DEF IInv, Patient
<1>8. Kept'
  BY <1>1, <1>3, StillKept
<1>9. Alive'
  BY <1>1, StillAlive
<1>10. QED
  BY <1>1, <1>2, <1>4, <1>5, <1>6, <1>7, <1>8, <1>9,
     StillServed, StillOrdered, StillMatched DEF IInv

LEMMA AgainType ==
    ASSUME TypeOK, NEW c \in Callers
    PROVE  /\ [again EXCEPT ![c] = FALSE] \in [Callers -> BOOLEAN] /\ again \in [Callers -> BOOLEAN]
           /\ again[c] \in BOOLEAN /\ valid \in BOOLEAN /\ added \in BOOLEAN /\ armed \in BOOLEAN
           /\ p \in Callers \cup {None} /\ pc[c] \in Places
           /\ crash \in {"no", "assert", "mutex", "null", "send", "freed"}
BY DEF TypeOK, Places

LEMMA NotifySteps ==
    ASSUME IInv, crash = "no", NEW c \in Callers,
           NotifySet(c) \/ NotifyMod(c) \/ NotifyCreate(c) \/ NotifyAdd(c)
    PROVE  IInv'
<1> USE DEF slot, caller
<1>1. /\ again \in [Callers -> BOOLEAN] /\ [again EXCEPT ![c] = FALSE] \in [Callers -> BOOLEAN]
      /\ again[c] \in BOOLEAN /\ valid \in BOOLEAN /\ added \in BOOLEAN /\ armed \in BOOLEAN
      /\ p \in Callers \cup {None}
      /\ (armed => p # None) /\ (pc[c] \in {"create", "add", "mod"} => p # None)
      /\ c # None /\ (pc[c] # "idle" => cur[c] \in 1 .. made)
  BY AgainType, Constants, HeldTypes DEF IInv, Control
<1>2. CASE NotifySet(c)
  <2> DEFINE x == IF valid THEN "mod" ELSE "create"
  <2>1. /\ pc' = [pc EXCEPT ![c] = x] /\ p' = c /\ pc[c] = "notify" /\ crash' = crash
        /\ UNCHANGED <<msg, made, cur, again, reqQueue, valid, added, armed, net, proxy, trans, peer, asyncQueue>>
    BY <1>2 DEF NotifySet
  <2>2. x \in Places /\ x # "recheck" /\ x # "idle" /\ x \notin {"woken", "return"} /\ x \notin Looking
    BY DEF Places, Looking
  <2> HIDE DEF x
  <2>3. QED
    BY <1>1, <2>1, <2>2, CallerMoves
<1>3. ASSUME AfterNotify(c), pc[c] \in {"mod", "add"}, crash' \in {crash, "assert"},
             valid' = valid, added' \in BOOLEAN, armed' \in BOOLEAN
      PROVE  IInv'
  <2> DEFINE x == CASE again[c] -> "notify"
                    [] ~again[c] /\ msg[cur[c]].kind = "sync" -> "check"
                    [] OTHER -> "idle"
  <2>1. /\ pc' = [pc EXCEPT ![c] = x] /\ again' = [again EXCEPT ![c] = FALSE]
        /\ UNCHANGED <<msg, made, cur, reqQueue, p, net, proxy, trans, peer, asyncQueue>>
    BY <1>3 DEF AfterNotify
  <2>2. pc[c] # "idle" /\ msg[cur[c]].kind \in {"sync", "async"} /\ p # None
    <3>1. pc[c] # "idle" /\ cur[c] \in 1 .. made /\ p # None
      BY <1>1, <1>3
    <3>2. QED
      BY <3>1, MessageFacts DEF IInv
  <2>3. /\ x \in Places /\ x # "recheck" /\ x \notin {"woken", "return", "create", "add", "mod"}
        /\ x = "idle" => msg[cur[c]].kind = "async"
        /\ x \in Looking => msg[cur[c]].kind = "sync"
    BY <1>1, <2>2 DEF Places, Looking
  <2> HIDE DEF x
  <2>4. QED
    BY <1>1, <1>3, <2>1, <2>2, <2>3, CallerMoves
<1>4. CASE NotifyMod(c)
  BY <1>1, <1>3, <1>4 DEF NotifyMod
<1>5. CASE NotifyAdd(c)
  BY <1>1, <1>3, <1>5 DEF NotifyAdd
<1>6. CASE NotifyCreate(c)
  <2>1. "add" \in Places /\ "add" \notin Looking
    BY DEF Places, Looking
  <2>2. /\ pc' = [pc EXCEPT ![c] = "add"] /\ pc[c] = "create" /\ crash' = crash
        /\ valid' = TRUE /\ added' = FALSE /\ armed' = FALSE
        /\ UNCHANGED <<msg, made, cur, again, reqQueue, p, net, proxy, trans, peer, asyncQueue>>
    BY <1>6 DEF NotifyCreate
  <2>3. /\ again' \in [Callers -> BOOLEAN] /\ p' \in Callers \cup {None} /\ (p # None => p' # None)
        /\ (armed' => p' # None) /\ valid' \in BOOLEAN /\ added' \in BOOLEAN /\ armed' \in BOOLEAN
        /\ crash' \in {"no", "assert", "null"}
    BY <1>1, <2>2
  <2>4. QED
    BY <1>1, <2>1, <2>2, <2>3, CallerMoves
<1>7. QED
  BY <1>2, <1>4, <1>5, <1>6

LEMMA CheckSteps ==
    ASSUME IInv, crash = "no", NEW c \in Callers,
           Check(c) \/ SpuriousWakeup(c) \/ Woken(c)
    PROVE  IInv'
<1> USE DEF slot
<1>1. /\ again \in [Callers -> BOOLEAN] /\ valid \in BOOLEAN /\ added \in BOOLEAN /\ armed \in BOOLEAN
      /\ p \in Callers \cup {None} /\ (armed => p # None)
      /\ pc[c] \in Looking => msg[cur[c]].kind = "sync"
  BY AgainType DEF IInv, Control, Patient
<1>2. CASE Check(c)
  <2> DEFINE x == IF msg[cur[c]].fin THEN "return" ELSE "lock"
  <2>1. /\ pc' = [pc EXCEPT ![c] = x] /\ pc[c] = "check" /\ crash' \in {crash, "null"}
        /\ UNCHANGED <<msg, made, cur, again, reqQueue, slot, net, proxy, trans, peer, asyncQueue>>
    BY <1>2 DEF Check
  <2>2. x \in Places /\ x \notin {"recheck", "idle", "woken", "create", "add", "mod"}
        /\ (x = "return" => msg[cur[c]].fin) /\ msg[cur[c]].kind = "sync"
    BY <1>1, <2>1 DEF Places, Looking
  <2> HIDE DEF x
  <2>3. /\ again' \in [Callers -> BOOLEAN] /\ p' \in Callers \cup {None} /\ (p # None => p' # None)
        /\ (armed' => p' # None) /\ valid' \in BOOLEAN /\ added' \in BOOLEAN /\ armed' \in BOOLEAN
        /\ crash' \in {"no", "assert", "null"}
    BY <1>1, <2>1
  <2>4. QED
    BY <2>1, <2>2, <2>3, CallerMoves
<1>3. CASE SpuriousWakeup(c)
  <2>1. /\ pc' = [pc EXCEPT ![c] = "woken"] /\ pc[c] = "waiting" /\ crash' = crash /\ Spurious
        /\ UNCHANGED <<msg, made, cur, again, reqQueue, slot, net, proxy, trans, peer, asyncQueue>>
    BY <1>3 DEF SpuriousWakeup
  <2>2. "woken" \in Places /\ msg[cur[c]].kind = "sync"
    BY <1>1, <2>1 DEF Places, Looking
  <2>3. /\ again' \in [Callers -> BOOLEAN] /\ p' \in Callers \cup {None} /\ (p # None => p' # None)
        /\ (armed' => p' # None) /\ valid' \in BOOLEAN /\ added' \in BOOLEAN /\ armed' \in BOOLEAN
        /\ crash' \in {"no", "assert", "null"}
    BY <1>1, <2>1
  <2>4. QED
    BY <2>1, <2>2, <2>3, CallerMoves
<1>4. CASE Woken(c)
  <2>1. /\ pc' = [pc EXCEPT ![c] = "return"] /\ pc[c] = "woken" /\ crash' = crash
        /\ UNCHANGED <<msg, made, cur, again, reqQueue, slot, net, proxy, trans, peer, asyncQueue>>
    BY <1>4 DEF Woken
  <2>2. "return" \in Places /\ (~Spurious => msg[cur[c]].fin) /\ msg[cur[c]].kind = "sync"
    BY <1>1, <2>1 DEF Places, IInv, Patient, Looking
  <2>3. /\ again' \in [Callers -> BOOLEAN] /\ p' \in Callers \cup {None} /\ (p # None => p' # None)
        /\ (armed' => p' # None) /\ valid' \in BOOLEAN /\ added' \in BOOLEAN /\ armed' \in BOOLEAN
        /\ crash' \in {"no", "assert", "null"}
    BY <1>1, <2>1
  <2>4. QED
    BY <2>1, <2>2, <2>3, CallerMoves
<1>5. QED
  BY <1>2, <1>3, <1>4

\* the mutex of the call is taken for the second look, and given up after it
LEMMA LookSteps ==
    ASSUME IInv, crash = "no", NEW c \in Callers, Acquire(c) \/ Recheck(c)
    PROVE  IInv'
<1> USE DEF slot, net, proxy, trans, peer
<1> DEFINE m == cur[c]
           v == IF pc[c] = "lock" THEN c ELSE None
<1>1. /\ pc[c] \in {"lock", "recheck"} /\ (pc[c] = "lock" => msg[m].lock = None)
      /\ msg' = [msg EXCEPT ![m].lock = v]
      /\ pc' = [pc EXCEPT ![c] = pc'[c]]
      /\ pc[c] = "lock" => pc'[c] = "recheck"
      /\ pc[c] = "recheck" => (pc'[c] = "waiting" \/ (pc'[c] = "return" /\ msg[m].fin))
      /\ UNCHANGED <<made, cur, again, reqQueue, slot, net, proxy, trans, peer, asyncQueue, crash>>
  BY DEF Acquire, Recheck, IInv, TypeOK
<1>2. m \in 1 .. made /\ msg[m].by = c
  BY <1>1, HeldTypes DEF IInv, Control
<1>3. v \in Callers \cup {Net, None}
  OBVIOUS
<1>4. \A d \in Callers : d # c => pc'[d] = pc[d] /\ cur[d] # m
  BY <1>1, <1>2, Constants, SMTT(30) DEF IInv, Control, TypeOK
<1> HIDE DEF m
<1>5. /\ msg' \in Seq(ReqMessage) /\ Len(msg') = made
      /\ \A j \in 1 .. made :
            /\ msg'[j].kind = msg[j].kind /\ msg'[j].by = msg[j].by
            /\ msg'[j].life = msg[j].life /\ msg'[j].rid = msg[j].rid
            /\ msg'[j].fin = msg[j].fin /\ msg'[j].resp = msg[j].resp
            /\ msg'[j].lock = IF j = m THEN v ELSE msg[j].lock
  <2> HIDE DEF v
  <2>1. QED
    BY <1>1, <1>2, <1>3, LockWritten DEF IInv
<1>6. Still
  BY <1>1, <1>5 DEF Still, Quiet, Held
<1>7. TypeOK'
  <2>1. pc'[c] \in Places /\ pc \in [Callers -> Places]
    BY <1>1 DEF IInv, TypeOK, Places
  <2>2. pc' \in [Callers -> Places]
    BY <1>1, <2>1
  <2>3. /\ msg' \in Seq(ReqMessage) /\ Len(msg') = made
        /\ UNCHANGED <<made, cur, again, reqQueue, slot, net, proxy, trans, peer, asyncQueue, crash>>
    BY <1>1, <1>5
  <2>4. QED
    BY <2>2, <2>3, SMTT(30) DEF IInv, TypeOK, Places
<1>8. \A d \in Callers : cur[d] # 0 => cur[d] \in 1 .. made
  BY HeldTypes DEF IInv
<1>9. Control'
  BY <1>1, <1>4, <1>5, <1>8 DEF IInv, Control
<1>10. /\ \A d \in Callers : \A k \in 1 .. Len(reqQueue[d]) : reqQueue[d][k] \in 1 .. made
       /\ \A i \in Ids : pending[i] # 0 => pending[i] \in 1 .. made
       /\ \A k \in 1 .. Len(asyncQueue) : asyncQueue[k] \in 1 .. made
       /\ npc \in Held => nmsg \in 1 .. made
  BY HeldTypes DEF IInv, Control
<1>11. Unfinished'
  BY <1>1, <1>5, <1>10 DEF IInv, Unfinished, Held
<1>12. Locks'
  <2>1. npc \in {"set", "signal", "unlock"} => msg[nmsg].kind = "sync" /\ msg[nmsg].lock = Net /\ nmsg # m
    BY <1>1, <1>10, Constants DEF IInv, Locks, Held, m
  <2>2. npc' \in {"set", "signal", "unlock"} => msg'[nmsg'].kind = "sync" /\ msg'[nmsg'].lock = Net
    BY <1>1, <1>5, <1>10, <2>1 DEF Held
  <2>3. ASSUME NEW d \in Callers, pc'[d] = "recheck" PROVE msg'[cur'[d]].lock = d
    <3>1. CASE d = c
      BY <1>1, <1>2, <1>5, <2>3, <3>1 DEF m
    <3>2. CASE d # c
      BY <1>1, <1>4, <1>5, <1>8, <2>3, <3>2 DEF IInv, Locks, Control
    <3>3. QED
      BY <3>1, <3>2
  <2>4. QED
    BY <2>2, <2>3 DEF Locks
<1>13. Patient'
  <2>1. SUFFICES ASSUME NEW d \in Callers
                 PROVE  /\ ~Spurious /\ pc'[d] \in {"woken", "return"} => msg'[cur[d]].fin
                        /\ pc'[d] \in Looking => msg'[cur[d]].kind = "sync"
    BY <1>1 DEF Patient
  <2>2. CASE d = c
    <3>1. msg[m].kind = "sync"
      BY <1>1 DEF IInv, Patient, Looking, m
    <3>2. QED
      BY <1>1, <1>2, <1>5, <2>2, <3>1 DEF m
  <2>3. CASE d # c
    BY <1>4, <1>5, <1>8, <2>3 DEF IInv, Patient, Control, Looking
  <2>4. QED
    BY <2>2, <2>3
<1>14. Kept'
  <2>1. \A d \in Callers : pc'[d] = "idle" => pc[d] = "idle"
    BY <1>1, <1>4
  <2>2. nmsg' = nmsg /\ cur' = cur
    BY <1>1
  <2>3. QED
    BY <1>6, <2>1, <2>2, StillKept
<1>15. Alive'
  <2>1. crash' # "freed" /\ npc' = npc
    BY <1>1
  <2>2. QED
    BY <1>5, <1>6, <2>1, StillAlive
<1>16. QED
  BY <1>6, <1>7, <1>9, <1>11, <1>12, <1>13, <1>14, <1>15,
     StillServed, StillOrdered, StillMatched DEF IInv

\* the call returns: nobody but its caller has the message, or the mutex is locked
LEMMA ReturnStep ==
    ASSUME IInv, crash = "no", NEW c \in Callers, Return(c)
    PROVE  IInv'
<1> USE DEF slot, net, proxy, trans, peer
<1> DEFINE m == cur[c]
<1>1. /\ pc[c] = "return" /\ msg' = [msg EXCEPT ![m].life = "deleted"]
      /\ crash' = IF msg[m].lock # None THEN "mutex" ELSE crash
      /\ pc' = [pc EXCEPT ![c] = "idle"]
      /\ UNCHANGED <<made, cur, again, reqQueue, slot, net, proxy, trans, peer, asyncQueue>>
  BY DEF Return, MutexDestroyed
<1>2. m \in 1 .. made /\ msg[m].by = c
  BY <1>1, HeldTypes DEF IInv, Control
<1>3. pc'[c] = "idle" /\ \A d \in Callers : d # c => pc'[d] = pc[d] /\ cur[d] # m
  BY <1>1, <1>2, Constants DEF IInv, Control, TypeOK
<1> HIDE DEF m
<1>4. /\ msg' \in Seq(ReqMessage) /\ Len(msg') = made
      /\ \A j \in 1 .. made :
            /\ msg'[j].kind = msg[j].kind /\ msg'[j].by = msg[j].by
            /\ msg'[j].lock = msg[j].lock /\ msg'[j].rid = msg[j].rid
            /\ msg'[j].fin = msg[j].fin /\ msg'[j].resp = msg[j].resp
            /\ msg'[j].life = IF j = m THEN "deleted" ELSE msg[j].life
  BY <1>1, <1>2, LifeWritten DEF IInv
<1>5. Still
  BY <1>1, <1>4 DEF Still, Quiet, Held
<1>6. TypeOK'
  <2>1. pc' \in [Callers -> Places]
    BY <1>1 DEF IInv, TypeOK, Places
  <2>2. /\ msg' \in Seq(ReqMessage) /\ Len(msg') = made /\ crash' \in {"no", "mutex"}
        /\ UNCHANGED <<made, cur, again, reqQueue, slot, net, proxy, trans, peer, asyncQueue>>
    BY <1>1, <1>4
  <2>3. QED
    BY <2>1, <2>2, SMTT(30) DEF IInv, TypeOK, Places
<1>7. \A d \in Callers : cur[d] # 0 => cur[d] \in 1 .. made
  BY HeldTypes DEF IInv
<1>8. Control'
  BY <1>1, <1>3, <1>4, <1>7 DEF IInv, Control
<1>9. /\ \A d \in Callers : \A k \in 1 .. Len(reqQueue[d]) : reqQueue[d][k] \in 1 .. made
      /\ \A i \in Ids : pending[i] # 0 => pending[i] \in 1 .. made
      /\ \A k \in 1 .. Len(asyncQueue) : asyncQueue[k] \in 1 .. made
      /\ nmsg # 0 => nmsg \in 1 .. made
      /\ npc \in Held <=> nmsg # 0
  BY HeldTypes DEF IInv, Control
<1>10. Unfinished'
  BY <1>1, <1>4, <1>9 DEF IInv, Unfinished, Held
<1>11. Locks' /\ Patient'
  BY <1>1, <1>3, <1>4, <1>7, <1>9 DEF IInv, Locks, Patient, Looking, Control, Held
<1>12. Kept'
  <2>1. \A d \in Callers : pc'[d] = "idle" => pc[d] = "idle" \/ msg'[cur[d]].life = "deleted"
    BY <1>2, <1>3, <1>4 DEF m
  <2>2. nmsg' = nmsg /\ cur' = cur
    BY <1>1
  <2>3. QED
    BY <1>5, <2>1, <2>2, StillKept
<1>13. Alive'
  <2>1. msg[m].kind = "sync" /\ (msg[m].fin \/ Spurious)
    BY <1>1 DEF IInv, Patient, Looking, m
  <2>2. /\ \A d \in Callers : \A k \in 1 .. Len(reqQueue[d]) : Safe(reqQueue[d][k]) /\ ~msg[reqQueue[d][k]].fin
        /\ nmsg # 0 => Safe(nmsg)
        /\ npc = "set" => msg[nmsg].life = "live"
        /\ \A i \in Ids : pending[i] # 0 => Safe(pending[i]) /\ ~msg[pending[i]].fin
        /\ \A k \in 1 .. Len(asyncQueue) : Safe(asyncQueue[k]) /\ ~msg[asyncQueue[k]].fin
    BY DEF IInv, Alive, Unfinished
  \* the message stays safe to hold until its call is finished
  <2>3. ASSUME NEW j \in 1 .. made, Safe(j), j # m \/ ~msg[j].fin PROVE Safe(j)'
    BY <1>4, <2>1, <2>3 DEF Safe
  <2>4. nmsg = m /\ (msg[m].fin \/ npc = "set") => crash' = "mutex"
    BY <1>1, <1>2, <1>9, Constants DEF IInv, Unfinished, Locks, Held
  <2>5. \A d \in Callers : \A k \in 1 .. Len(reqQueue'[d]) : Safe(reqQueue[d][k])'
    <3>1. SUFFICES ASSUME NEW d \in Callers, NEW k \in 1 .. Len(reqQueue[d]) PROVE Safe(reqQueue[d][k])'
      BY <1>1
    <3>2. PICK j \in 1 .. made : j = reqQueue[d][k]
      BY <1>9
    <3>3. Safe(j)'
      BY <2>2, <2>3, <3>2
    <3>4. QED
      BY <1>1, <3>2, <3>3 DEF Safe
  <2>6. \A i \in Ids : pending'[i] # 0 => Safe(pending[i])'
    <3>1. SUFFICES ASSUME NEW i \in Ids, pending[i] # 0 PROVE Safe(pending[i])'
      BY <1>1
    <3>2. PICK j \in 1 .. made : j = pending[i]
      BY <1>9, <3>1
    <3>3. Safe(j)'
      BY <2>2, <2>3, <3>1, <3>2
    <3>4. QED
      BY <1>1, <3>2, <3>3 DEF Safe
  <2>7. \A k \in 1 .. Len(asyncQueue') : Safe(asyncQueue[k])'
    <3>1. SUFFICES ASSUME NEW k \in 1 .. Len(asyncQueue) PROVE Safe(asyncQueue[k])'
      BY <1>1
    <3>2. PICK j \in 1 .. made : j = asyncQueue[k]
      BY <1>9
    <3>3. Safe(j)'
      BY <2>2, <2>3, <3>2
    <3>4. QED
      BY <1>1, <3>2, <3>3 DEF Safe
  <2>8. nmsg' # 0 => Safe(nmsg)' \/ crash' = "mutex"
    <3>1. SUFFICES ASSUME nmsg # 0, crash' # "mutex" PROVE Safe(nmsg)'
      BY <1>1
    <3>2. PICK j \in 1 .. made : j = nmsg
      BY <1>9, <3>1
    <3>3. Safe(j)'
      BY <2>2, <2>3, <2>4, <3>1, <3>2
    <3>4. QED
      BY <1>1, <3>2, <3>3 DEF Safe
  <2>9. npc' = "set" /\ crash' = "no" => msg'[nmsg'].life = "live"
    <3>1. npc = "set" => nmsg \in 1 .. made
      BY <1>9 DEF Held
    <3>2. npc' = npc /\ nmsg' = nmsg
      BY <1>1
    <3>3. QED
      BY <1>4, <2>2, <2>4, <3>1, <3>2
  <2>10. crash' # "freed"
    BY <1>1
  <2>11. QED
    BY <2>5, <2>6, <2>7, <2>8, <2>9, <2>10 DEF Alive
<1>14. QED
  BY <1>5, <1>6, <1>8, <1>10, <1>11, <1>12, <1>13, StillServed, StillOrdered, StillMatched DEF IInv

-----------------------------------------------------------------------------
(* The other end, and the network thread where it moves no message. *)

\* what the server sends
Sends ==
    /\ UNCHANGED <<msg, made, caller, reqQueue, slot, net, proxy, trans, eof, asyncQueue, crash>>
    /\ answered' \subseteq 1 .. Len(wire) /\ partial' \in BOOLEAN /\ inbound' \in Seq(Piece)
    /\ inbound' # <<>> /\ readable' = TRUE /\ Begins'

LEMMA AnswerSteps ==
    ASSUME IInv, AnswerRest \/ \E k \in 1 .. Len(wire) : Answer(k)
    PROVE  Sends
<1> USE DEF trans
<1>1. inbound \in Seq(Piece) /\ answered \subseteq 1 .. Len(wire) /\ partial \in BOOLEAN /\ wire \in Seq(Request)
  BY DEF IInv, TypeOK
<1>2. ASSUME NEW x \in Piece, Arrives(x), x.of # 0 => x.of \in 1 .. Len(wire) /\ x.says = wire[x.of].id
      PROVE  /\ UNCHANGED <<msg, made, caller, reqQueue, slot, net, proxy, trans, eof, asyncQueue, crash>>
             /\ inbound' \in Seq(Piece) /\ inbound' # <<>> /\ readable' = TRUE /\ Begins'
  <2>1. /\ UNCHANGED <<msg, made, caller, reqQueue, slot, net, proxy, trans, eof, asyncQueue, crash>>
        /\ inbound' = (IF inbound = <<>> THEN <<x>> ELSE inbound) /\ readable' = TRUE
    BY <1>2 DEF Arrives
  <2>2. <<x>> \in Seq(Piece) /\ <<x>> # <<>> /\ Head(<<x>>) = x
    OBVIOUS
  <2>3. inbound' \in Seq(Piece) /\ inbound' # <<>>
    BY <1>1, <2>1, <2>2
  <2>4. Begins'
    <3>1. CASE inbound = <<>>
      BY <1>2, <2>1, <2>2, <3>1 DEF Begins
    <3>2. CASE inbound # <<>>
      BY <2>1, <3>2 DEF IInv, Begins
    <3>3. QED
      BY <3>1, <3>2
  <2>5. QED
    BY <2>1, <2>3, <2>4
<1>3. ASSUME NEW i \in 0 .. IdMod - 1 PROVE Fragment(i) \in Piece /\ Fragment(i).of = 0
  BY DEF Fragment, Piece
<1>4. ASSUME NEW k \in 1 .. Len(wire)
      PROVE  /\ Start(k) \in Piece /\ Start(k).of = k /\ Start(k).says = wire[k].id
             /\ 1 .. wire[k].id \subseteq 0 .. IdMod - 1
  <2>1. wire[k] \in Request
    BY <1>1, <1>4
  <2>2. wire[k].id \in 1 .. IdMod - 1 /\ k \in Nat
    BY <2>1 DEF Request, Ids
  <2>3. wire[k].id \in 0 .. IdMod - 1 /\ 1 .. wire[k].id \subseteq 0 .. IdMod - 1
    BY <2>2, Constants
  <2>4. QED
    BY <2>2, <2>3 DEF Start, Piece
<1>5. CASE AnswerRest
  <2>1. PICK i \in 0 .. IdMod - 1 : Arrives(Fragment(i))
    BY <1>5 DEF AnswerRest
  <2>2. answered' = answered /\ partial' = FALSE
    BY <1>5 DEF AnswerRest
  <2>3. Fragment(i) \in Piece /\ Fragment(i).of = 0
    BY <1>3
  <2>4. /\ UNCHANGED <<msg, made, caller, reqQueue, slot, net, proxy, trans, eof, asyncQueue, crash>>
        /\ inbound' \in Seq(Piece) /\ inbound' # <<>> /\ readable' = TRUE /\ Begins'
    BY <1>2, <2>1, <2>3
  <2>5. QED
    BY <1>1, <2>2, <2>4 DEF Sends
<1>6. ASSUME NEW k \in 1 .. Len(wire), Answer(k) PROVE Sends
  <2>1. /\ answered' = answered \cup {k}
        /\ \/ Arrives(Start(k)) /\ partial' \in {FALSE, MaySplit}
           \/ partial' = TRUE /\ \E i \in 1 .. wire[k].id : Arrives(Fragment(i))
    BY <1>6 DEF Answer
  <2>2. partial' \in BOOLEAN /\ answered' \subseteq 1 .. Len(wire)
    BY <1>1, <2>1, SplitAssumption
  <2>3. \E x \in Piece : Arrives(x) /\ (x.of # 0 => x.of \in 1 .. Len(wire) /\ x.says = wire[x.of].id)
    <3>1. CASE Arrives(Start(k))
      BY <1>4, <3>1
    <3>2. CASE \E i \in 1 .. wire[k].id : Arrives(Fragment(i))
      BY <1>3, <1>4, <3>2
    <3>3. QED
      BY <2>1, <3>1, <3>2
  <2>4. QED
    BY <1>2, <2>2, <2>3 DEF Sends
<1>7. QED
  BY <1>5, <1>6

LEMMA PeerSteps ==
    ASSUME IInv, crash = "no",
           \/ Established \/ PeerClose \/ ReadClosed \/ PollNotify \/ Handle
           \/ AnswerRest \/ \E k \in 1 .. Len(wire) : Answer(k)
    PROVE  IInv'
<1> USE DEF caller, slot, net, proxy, trans, peer
<1>1. /\ UNCHANGED <<msg, made, caller, reqQueue, p, valid, added, nmsg, proxy, wire, asyncQueue, crash>>
      /\ \/ UNCHANGED <<npc, nq>>
         \/ npc = "poll" /\ npc' = "handle" /\ nq' = nq
         \/ npc = "handle" /\ npc' = "drain" /\ nq' = p
      /\ armed' => armed
      /\ conn = "closed" => conn' = "closed"
      /\ conn' = "closed" \/ sendBuf' = sendBuf
      /\ inbound' = inbound \/ inbound' = <<>> \/ Begins'
  <2>1. CASE Sends
    BY <2>1 DEF Sends
  <2>2. CASE Established \/ PeerClose \/ ReadClosed \/ PollNotify \/ Handle
    BY <2>2 DEF Established, PeerClose, ReadClosed, Close, PollNotify, Handle
  <2>3. QED
    BY <2>1, <2>2, AnswerSteps
<1>2. Still
  BY <1>1 DEF Still, Quiet, Held, Finishing
<1>3. TypeOK'
  <2>1. CASE Established \/ PeerClose \/ PollNotify
    BY <2>1, ZenonT(30) DEF Established, PeerClose, PollNotify, IInv, TypeOK
  <2>2. CASE ReadClosed
    <3>1. <<>> \in Seq(Piece) /\ 0 \in 0 .. made
      BY DEF IInv, TypeOK
    <3>2. QED
      BY <2>2, <3>1 DEF ReadClosed, Close, IInv, TypeOK
  <2>3. CASE Handle
    BY <2>3, SMTT(30) DEF Handle, IInv, TypeOK
  <2>4. CASE Sends
    BY <2>4, SMTT(30) DEF Sends, IInv, TypeOK
  <2>5. QED
    BY <2>1, <2>2, <2>3, <2>4, AnswerSteps
<1>4. Control'
  <2>1. readable' /\ ~eof' => inbound' # <<>>
    <3>1. CASE Established \/ PeerClose \/ ReadClosed \/ PollNotify \/ Handle
      BY <3>1 DEF Established, PeerClose, ReadClosed, Close, PollNotify, Handle, IInv, Control
    <3>2. CASE Sends
      BY <3>2 DEF Sends
    <3>3. QED
      BY <3>1, <3>2, AnswerSteps
  <2>2. armed' \/ npc' = "handle" => p' # None
    <3>1. CASE Established \/ PeerClose \/ ReadClosed \/ PollNotify \/ Handle
      BY <3>1 DEF Established, PeerClose, ReadClosed, PollNotify, Handle, IInv, Control
    <3>2. CASE Sends
      BY <3>2 DEF Sends, IInv, Control
    <3>3. QED
      BY <3>1, <3>2, AnswerSteps
  <2>3. QED
    BY <1>1, <2>1, <2>2 DEF IInv, Control, Held
<1>5. Unfinished' /\ Locks' /\ Patient'
  BY <1>1 DEF IInv, Unfinished, Locks, Patient
<1>6. Kept'
  BY <1>1, <1>2, StillKept
<1>7. Alive'
  <2>1. msg' = msg /\ crash' # "freed" /\ (npc' = "set" => npc = "set")
    BY <1>1
  <2>2. QED
    BY <1>2, <2>1, StillAlive
<1>8. QED
  BY <1>2, <1>3, <1>4, <1>5, <1>6, <1>7, StillServed, StillOrdered, StillMatched DEF IInv

\* What finishInvoke does to a synchronous message: lock, set, signal, unlock.
LEMMA FinishLockStep ==
    ASSUME IInv, crash = "no", FinishLock \/ FinishUnlock
    PROVE  IInv'
<1> USE DEF caller, slot, proxy, trans, peer
<1> DEFINE m == nmsg
           v == IF npc = "finish" THEN Net ELSE None
<1>1. /\ npc \in {"finish", "unlock"} /\ (npc = "finish" => msg[m].kind = "sync" /\ msg[m].lock = None)
      /\ msg' = [msg EXCEPT ![m].lock = v] /\ nq' = nq
      /\ npc = "finish" => npc' = "set" /\ nmsg' = nmsg
      /\ npc = "unlock" => npc' = (IF nq = None THEN "poll" ELSE "drain") /\ nmsg' = 0 /\ crash' = crash
      /\ npc = "finish" => crash' = IF msg[m].life = "deleted" THEN "freed" ELSE crash
      /\ UNCHANGED <<made, pc, cur, again, reqQueue, slot, proxy, trans, peer, asyncQueue>>
  BY DEF FinishLock, FinishUnlock, Finished
<1>2. m \in 1 .. made
  BY <1>1, HeldTypes DEF IInv, Control, Held
<1>3. v \in Callers \cup {Net, None}
  OBVIOUS
<1>4. npc = "unlock" => msg[m].kind = "sync" /\ msg[m].lock = Net /\ msg[m].fin
  BY DEF IInv, Locks, Unfinished
<1> HIDE DEF m
<1>5. /\ msg' \in Seq(ReqMessage) /\ Len(msg') = made
      /\ \A j \in 1 .. made :
            /\ msg'[j].kind = msg[j].kind /\ msg'[j].by = msg[j].by
            /\ msg'[j].life = msg[j].life /\ msg'[j].rid = msg[j].rid
            /\ msg'[j].fin = msg[j].fin /\ msg'[j].resp = msg[j].resp
            /\ msg'[j].lock = IF j = m THEN v ELSE msg[j].lock
  <2> HIDE DEF v
  <2>1. QED
    BY <1>1, <1>2, <1>3, LockWritten DEF IInv
<1>6. Still
  BY <1>1, <1>5 DEF Still, Quiet, Held, Finishing
<1>7. TypeOK'
  <2>1. /\ msg' \in Seq(ReqMessage) /\ Len(msg') = made
        /\ UNCHANGED <<made, pc, cur, again, reqQueue, slot, proxy, trans, peer, asyncQueue>>
        /\ npc' \in {"set", "poll", "drain"} /\ nmsg' \in {nmsg, 0} /\ nq' = nq /\ crash' \in {"no", "freed"}
    BY <1>1, <1>5
  <2>2. 0 \in 0 .. made
    BY DEF IInv, TypeOK
  <2>3. QED
    BY <2>1, <2>2, SMTT(30) DEF IInv, TypeOK
<1>8. \A d \in Callers : cur[d] # 0 => cur[d] \in 1 .. made
  BY HeldTypes DEF IInv
<1>9. Control'
  <2>1. npc' \in Held <=> nmsg' # 0
    BY <1>1, <1>2 DEF Held, m
  <2>2. npc' \in {"drain", "send"} => nq' # None
    BY <1>1
  <2>3. npc' # "handle"
    BY <1>1
  <2>4. QED
    BY <1>1, <1>5, <1>8, <2>1, <2>2, <2>3 DEF IInv, Control
<1>10. /\ \A d \in Callers : \A k \in 1 .. Len(reqQueue[d]) : reqQueue[d][k] \in 1 .. made
       /\ \A i \in Ids : pending[i] # 0 => pending[i] \in 1 .. made
       /\ \A k \in 1 .. Len(asyncQueue) : asyncQueue[k] \in 1 .. made
  BY HeldTypes DEF IInv
<1>11. Unfinished'
  <2>1. npc' = "set" => ~msg'[nmsg'].fin
    BY <1>1, <1>2, <1>5 DEF IInv, Unfinished, m
  <2>2. npc' \in {"set", "poll", "drain"}
    BY <1>1
  <2>3. QED
    BY <1>1, <1>5, <1>10, <2>1, <2>2 DEF IInv, Unfinished
<1>12. Locks'
  <2>1. npc' \in {"set", "signal", "unlock"} => msg'[nmsg'].kind = "sync" /\ msg'[nmsg'].lock = Net
    BY <1>1, <1>2, <1>5 DEF m
  <2>2. ASSUME NEW d \in Callers, pc'[d] = "recheck" PROVE msg'[cur'[d]].lock = d
    <3>1. pc[d] = "recheck" /\ cur'[d] = cur[d] /\ cur[d] \in 1 .. made /\ msg[cur[d]].lock = d
      BY <1>1, <1>8, <2>2 DEF IInv, Locks, Control
    <3>2. cur[d] # m
      BY <1>1, <1>4, <3>1, Constants
    <3>3. QED
      BY <1>5, <3>1, <3>2
  <2>3. QED
    BY <2>1, <2>2 DEF Locks
<1>13. Patient'
  BY <1>1, <1>5, <1>8 DEF IInv, Patient, Looking, Control
<1>14. Kept'
  <2>1. \A d \in Callers : pc'[d] = "idle" => pc[d] = "idle"
    BY <1>1
  <2>2. cur' = cur /\ (nmsg' # nmsg => msg[nmsg].kind = "sync" /\ msg[nmsg].fin)
    BY <1>1, <1>4 DEF m
  <2>3. QED
    BY <1>6, <2>1, <2>2, StillKept
<1>15. Alive'
  <2>1. CASE npc = "unlock"
    <3>1. crash' # "freed" /\ npc' # "set"
      BY <1>1, <2>1
    <3>2. QED
      BY <1>5, <1>6, <3>1, StillAlive
  <2>2. CASE npc = "finish"
    <3>1. /\ \A c \in Callers : \A k \in 1 .. Len(reqQueue[c]) : Safe(reqQueue[c][k])
          /\ \A i \in Ids : pending[i] # 0 => Safe(pending[i])
          /\ \A k \in 1 .. Len(asyncQueue) : Safe(asyncQueue[k])
          /\ Safe(m)
      BY <1>2, <2>2 DEF IInv, Alive, m
    <3>2. /\ \A c \in Callers : \A k \in 1 .. Len(reqQueue'[c]) : Safe(reqQueue[c][k])'
          /\ \A i \in Ids : pending'[i] # 0 => Safe(pending[i])'
          /\ \A k \in 1 .. Len(asyncQueue') : Safe(asyncQueue[k])'
      BY <1>1, <1>5, <1>10, <3>1 DEF Safe
    <3>3. Safe(nmsg)'
      BY <1>1, <1>2, <1>5, <2>2, <3>1 DEF Safe, m
    <3>4. crash' = "freed" => Spurious
      BY <1>1, <2>2, <3>1 DEF Safe
    <3>5. crash' = "no" => msg'[nmsg'].life = "live"
      <4>1. msg[m].life \in {"live", "deleted"}
        BY <1>2, MessageFacts DEF IInv
      <4>2. crash' = "no" => msg[m].life = "live"
        BY <1>1, <2>2, <4>1
      <4>3. nmsg' = m
        BY <1>1, <2>2 DEF m
      <4>4. QED
        BY <1>2, <1>5, <4>2, <4>3
    <3>6. QED
      BY <3>2, <3>3, <3>4, <3>5 DEF Alive
  <2>3. QED
    BY <1>1, <2>1, <2>2
<1>16. QED
  BY <1>6, <1>7, <1>9, <1>11, <1>12, <1>13, <1>14, <1>15,
     StillServed, StillOrdered, StillMatched DEF IInv

LEMMA FinishSetStep ==
    ASSUME IInv, crash = "no", FinishSet
    PROVE  IInv'
<1> USE DEF caller, slot, proxy, trans, peer
<1> DEFINE m == nmsg
<1>1. /\ npc = "set" /\ npc' = "signal" /\ msg' = [msg EXCEPT ![m].fin = TRUE]
      /\ UNCHANGED <<made, pc, cur, again, reqQueue, slot, nq, nmsg, proxy, trans, peer, asyncQueue, crash>>
  BY DEF FinishSet
<1>2. m \in 1 .. made
  BY <1>1, HeldTypes DEF IInv, Control, Held
<1> HIDE DEF m
<1>3. /\ msg' \in Seq(ReqMessage) /\ Len(msg') = made
      /\ \A j \in 1 .. made :
            /\ msg'[j].kind = msg[j].kind /\ msg'[j].by = msg[j].by
            /\ msg'[j].lock = msg[j].lock /\ msg'[j].rid = msg[j].rid
            /\ msg'[j].life = msg[j].life /\ msg'[j].resp = msg[j].resp
            /\ msg'[j].fin <=> j = m \/ msg[j].fin
  BY <1>1, <1>2, FinWritten DEF IInv
<1>4. Still
  BY <1>1, <1>3 DEF Still, Quiet, Held, Finishing, m
<1>5. TypeOK'
  BY <1>1, <1>3, SMTT(30) DEF IInv, TypeOK
<1>6. \A d \in Callers : cur[d] # 0 => cur[d] \in 1 .. made
  BY HeldTypes DEF IInv
<1>7. Control'
  BY <1>1, <1>3, <1>6 DEF IInv, Control, Held
<1>8. /\ \A d \in Callers : \A k \in 1 .. Len(reqQueue[d]) : reqQueue[d][k] \in 1 .. made
      /\ \A i \in Ids : pending[i] # 0 => pending[i] \in 1 .. made
      /\ \A k \in 1 .. Len(asyncQueue) : asyncQueue[k] \in 1 .. made
  BY HeldTypes DEF IInv
<1>9. /\ \A d \in Callers : \A k \in 1 .. Len(reqQueue[d]) : reqQueue[d][k] # m
      /\ \A i \in Ids : pending[i] # m
      /\ \A k \in 1 .. Len(asyncQueue) : asyncQueue[k] # m
  <2>1. msg[m].rid # 0 /\ m # 0
    BY <1>1, <1>2 DEF IInv, Served, Finishing, m
  <2>2. QED
    BY <2>1 DEF IInv, Served, Queued, m
<1>10. Unfinished'
  BY <1>1, <1>2, <1>3, <1>8, <1>9 DEF IInv, Unfinished, m
<1>11. Locks'
  BY <1>1, <1>2, <1>3, <1>6 DEF IInv, Locks, Control, m
<1>12. Patient'
  BY <1>1, <1>3, <1>6 DEF IInv, Patient, Looking, Control
<1>13. Kept'
  BY <1>1, <1>4, StillKept
<1>14. Alive'
  <2>1. /\ \A c \in Callers : \A k \in 1 .. Len(reqQueue[c]) : Safe(reqQueue[c][k])
        /\ \A i \in Ids : pending[i] # 0 => Safe(pending[i])
        /\ \A k \in 1 .. Len(asyncQueue) : Safe(asyncQueue[k])
        /\ msg[m].life = "live"
    BY <1>1 DEF IInv, Alive, m
  <2>2. /\ \A c \in Callers : \A k \in 1 .. Len(reqQueue'[c]) : Safe(reqQueue[c][k])'
        /\ \A i \in Ids : pending'[i] # 0 => Safe(pending[i])'
        /\ \A k \in 1 .. Len(asyncQueue') : Safe(asyncQueue[k])'
    BY <1>1, <1>3, <1>8, <1>9, <2>1 DEF Safe
  <2>3. Safe(nmsg)'
    BY <1>1, <1>2, <1>3, <2>1 DEF Safe, m
  <2>4. npc' # "set" /\ crash' # "freed"
    BY <1>1
  <2>5. QED
    BY <2>2, <2>3, <2>4 DEF Alive
<1>15. QED
  BY <1>4, <1>5, <1>7, <1>10, <1>11, <1>12, <1>13, <1>14,
     StillServed, StillOrdered, StillMatched DEF IInv

LEMMA FinishSignalStep ==
    ASSUME IInv, crash = "no", FinishSignal
    PROVE  IInv'
<1> USE DEF caller, slot, proxy, trans, peer
<1>1. /\ npc = "signal" /\ npc' = "unlock"
      /\ UNCHANGED <<msg, made, cur, again, reqQueue, slot, nq, nmsg, proxy, trans, peer, asyncQueue, crash>>
      /\ pc' = [c \in Callers |-> IF pc[c] = "waiting" /\ cur[c] = nmsg THEN "woken" ELSE pc[c]]
  BY DEF FinishSignal
<1>2. \A c \in Callers : pc'[c] = pc[c] \/ (pc[c] = "waiting" /\ pc'[c] = "woken" /\ cur[c] = nmsg)
  BY <1>1
<1>3. msg[nmsg].fin
  BY <1>1 DEF IInv, Unfinished
<1>4. Still
  BY <1>1 DEF Still, Quiet, Held, Finishing
<1>5. TypeOK'
  BY <1>1, SMTT(30) DEF IInv, TypeOK
<1>6. Control'
  BY <1>1, <1>2 DEF IInv, Control, Held
<1>7. Unfinished' /\ Locks'
  BY <1>1, <1>2 DEF IInv, Unfinished, Locks
<1>8. Patient'
  BY <1>1, <1>2, <1>3 DEF IInv, Patient, Looking
<1>9. Kept'
  BY <1>1, <1>2, <1>4, StillKept
<1>10. Alive'
  <2>1. msg' = msg /\ npc' # "set" /\ crash' # "freed"
    BY <1>1
  <2>2. QED
    BY <1>4, <2>1, StillAlive
<1>11. QED
  BY <1>4, <1>5, <1>6, <1>7, <1>8, <1>9, <1>10, StillServed, StillOrdered, StillMatched DEF IInv

-----------------------------------------------------------------------------
(* A call begins. *)

LEMMA WiderTypes ==
    ASSUME NEW n \in Nat
    PROVE  /\ \A s \in Seq(1 .. n) : s \in Seq(1 .. n + 1)
           /\ 0 .. n \subseteq 0 .. n + 1 /\ 1 .. n \subseteq 1 .. n + 1
           /\ \A j \in 1 .. n + 1 : j = n + 1 \/ j \in 1 .. n
           /\ n + 1 \in 1 .. n + 1 /\ n + 1 \in 0 .. n + 1 /\ n + 1 \notin 1 .. n /\ n + 1 \in Nat
<1>1. 1 .. n \subseteq 1 .. n + 1
  OBVIOUS
<1>2. \A s \in Seq(1 .. n) : s \in Seq(1 .. n + 1)
  BY <1>1
<1>3. QED
  BY <1>1, <1>2

LEMMA AppendedFacts ==
    ASSUME NEW S, NEW s \in Seq(S), NEW x \in S
    PROVE  /\ Append(s, x) \in Seq(S) /\ Len(Append(s, x)) = Len(s) + 1
           /\ \A k \in 1 .. Len(s) : Append(s, x)[k] = s[k]
           /\ Append(s, x)[Len(s) + 1] = x
           /\ \A k \in 1 .. Len(s) + 1 : k \in 1 .. Len(s) \/ k = Len(s) + 1
OBVIOUS

LEMMA InvokeStep ==
    ASSUME IInv, crash = "no", NEW c \in Callers, NEW kind \in Kinds, Invoke(c, kind)
    PROVE  IInv'
<1> USE DEF slot, net, proxy, trans, peer
<1> DEFINE m == made + 1
           room == Room(c)
           new == [kind |-> kind, by |-> c, life |-> IF room THEN "live" ELSE "deleted",
                   rid |-> 0, fin |-> FALSE, lock |-> None, resp |-> <<>>]
<1>1. /\ pc[c] = "idle" /\ made < MaxCalls /\ made' = m /\ msg' = Append(msg, new)
      /\ reqQueue' = IF room THEN [reqQueue EXCEPT ![c] = Append(@, m)] ELSE reqQueue
      /\ cur' = [cur EXCEPT ![c] = m] /\ again' = [again EXCEPT ![c] = ~room]
      /\ pc' = [pc EXCEPT ![c] = "notify"]
      /\ UNCHANGED <<slot, net, proxy, trans, peer, asyncQueue, crash>>
  BY DEF Invoke
<1>2. /\ new \in ReqMessage /\ new.kind = kind /\ new.by = c /\ new.rid = 0 /\ ~new.fin
      /\ new.lock = None /\ new.resp = <<>> /\ (room => new.life = "live") /\ (~room => new.life = "deleted")
  <2>1. kind \in {"sync", "async"} /\ 0 \in 0 .. IdMod - 1 /\ <<>> \in Seq(Piece)
    BY KindsAssumption, IdModAssumption
  <2>2. QED
    BY <2>1 DEF ReqMessage
<1>3. made \in Nat /\ MaxCalls \in Nat /\ m \in 0 .. MaxCalls
  BY <1>1, Constants, HeldTypes DEF IInv
<1>4. room => Len(reqQueue[c]) < QueueCap
  BY DEF Room
<1> HIDE DEF room, new
<1>5. /\ msg' \in Seq(ReqMessage) /\ Len(msg') = m /\ msg'[m] = new
      /\ \A j \in 1 .. made : msg'[j] = msg[j]
  BY <1>1, <1>2, AppendedFacts, SMTT(30) DEF IInv, TypeOK
<1>6. /\ \A s \in Seq(1 .. made) : s \in Seq(1 .. m)
      /\ 0 .. made \subseteq 0 .. m /\ 1 .. made \subseteq 1 .. m
      /\ \A j \in 1 .. m : j = m \/ j \in 1 .. made
      /\ m \in 1 .. m /\ m \in 0 .. m /\ m \notin 1 .. made /\ m \in Nat /\ m # 0
      /\ \A j \in 1 .. made : j < m /\ j \in Nat
  BY <1>3, WiderTypes
<1> HIDE DEF m
<1>7. /\ \A d \in Callers : /\ reqQueue[d] \in Seq(1 .. m) /\ Len(reqQueue[d]) \in Nat
                            /\ \A k \in 1 .. Len(reqQueue[d]) : reqQueue[d][k] \in 1 .. made
      /\ \A i \in Ids : pending[i] # 0 => pending[i] \in 1 .. made
      /\ \A k \in 1 .. Len(asyncQueue) : asyncQueue[k] \in 1 .. made
      /\ nmsg # 0 => nmsg \in 1 .. made
      /\ npc \in Held <=> nmsg # 0
      /\ \A d \in Callers : cur[d] # 0 => cur[d] \in 1 .. made
      /\ \A k \in 1 .. Len(wire) : wire[k].m \in 1 .. made
  BY <1>6, HeldTypes DEF IInv, Control, Ordered
\* the queues after the push
<1>8. \A d \in Callers : /\ reqQueue'[d] \in Seq(1 .. m) /\ Len(reqQueue'[d]) <= QueueCap
                         /\ \A k \in 1 .. Len(reqQueue'[d]) :
                               \/ k \in 1 .. Len(reqQueue[d]) /\ reqQueue'[d][k] = reqQueue[d][k]
                               \/ k = Len(reqQueue[d]) + 1 /\ reqQueue'[d][k] = m /\ d = c /\ room
  <2>1. ASSUME NEW d \in Callers, reqQueue'[d] = reqQueue[d]
        PROVE  /\ reqQueue'[d] \in Seq(1 .. m) /\ Len(reqQueue'[d]) <= QueueCap
               /\ \A k \in 1 .. Len(reqQueue'[d]) :
                     k \in 1 .. Len(reqQueue[d]) /\ reqQueue'[d][k] = reqQueue[d][k]
    BY <1>7, <2>1 DEF IInv, TypeOK
  <2>2. CASE ~room
    BY <1>1, <2>1, <2>2
  <2>3. CASE room
    <3>1. /\ \A d \in Callers : d # c => reqQueue'[d] = reqQueue[d]
          /\ reqQueue'[c] = Append(reqQueue[c], m)
      BY <1>1, <2>3 DEF IInv, TypeOK
    <3>2. /\ reqQueue'[c] \in Seq(1 .. m) /\ Len(reqQueue'[c]) = Len(reqQueue[c]) + 1
          /\ \A k \in 1 .. Len(reqQueue[c]) : reqQueue'[c][k] = reqQueue[c][k]
          /\ reqQueue'[c][Len(reqQueue[c]) + 1] = m
          /\ \A k \in 1 .. Len(reqQueue[c]) + 1 : k \in 1 .. Len(reqQueue[c]) \/ k = Len(reqQueue[c]) + 1
      BY <1>6, <1>7, <3>1, AppendedFacts
    <3>3. Len(reqQueue'[c]) <= QueueCap
      BY <1>4, <1>7, <2>3, <3>2, BoundsAssumption
    <3>4. QED
      BY <2>1, <2>3, <3>1, <3>2, <3>3
  <2>4. QED
    BY <2>2, <2>3
<1>9. TypeOK'
  <2>1. made' \in 0 .. MaxCalls /\ msg' \in Seq(ReqMessage) /\ Len(msg') = made'
    BY <1>1, <1>3, <1>5
  <2>2. /\ pc' \in [Callers -> Places] /\ cur' \in [Callers -> 0 .. made'] /\ again' \in [Callers -> BOOLEAN]
    <3>1. pc \in [Callers -> Places] /\ cur \in [Callers -> 0 .. m] /\ again \in [Callers -> BOOLEAN]
      BY <1>6 DEF IInv, TypeOK, Places
    <3>2. "notify" \in Places /\ (~room) \in BOOLEAN
      BY DEF Places
    <3>3. QED
      BY <1>1, <1>6, <3>1, <3>2
  <2>3. reqQueue' \in [Callers -> Seq(1 .. made')] /\ \A d \in Callers : Len(reqQueue'[d]) <= QueueCap
    <3>1. reqQueue' = [d \in Callers |-> reqQueue'[d]]
      BY <1>1 DEF IInv, TypeOK
    <3>2. QED
      BY <1>1, <1>8, <3>1
  <2>4. /\ nmsg' \in 0 .. made' /\ pending' \in [Ids -> 0 .. made'] /\ sendBuf' \in 0 .. made'
        /\ asyncQueue' \in Seq(1 .. made')
    BY <1>1, <1>6 DEF IInv, TypeOK
  <2>5. UNCHANGED <<slot, npc, nq, id, unsent, conn, wire, peer, crash>> /\ Len(asyncQueue') <= AsyncCap
    BY <1>1 DEF IInv, TypeOK
  <2>6. /\ p' \in Callers \cup {None} /\ valid' \in BOOLEAN /\ added' \in BOOLEAN /\ armed' \in BOOLEAN
        /\ npc' \in {"poll", "handle", "drain", "send", "finish", "set", "signal", "unlock"}
        /\ nq' \in Callers \cup {None} /\ id' \in 0 .. IdMod - 1 /\ unsent' \in Seq(Ids)
    BY <2>5 DEF IInv, TypeOK
  <2>7. /\ conn' \in {"none", "connecting", "open", "closed"} /\ wire' \in Seq(Request)
        /\ answered' \subseteq 1 .. Len(wire') /\ inbound' \in Seq(Piece) /\ partial' \in BOOLEAN
        /\ eof' \in BOOLEAN /\ readable' \in BOOLEAN
        /\ crash' \in {"no", "assert", "mutex", "null", "send", "freed"}
    BY <2>5 DEF IInv, TypeOK
  <2>8. QED
    BY <2>1, <2>2, <2>3, <2>4, <2>5, <2>6, <2>7 DEF TypeOK, Places
<1>10. /\ pc'[c] = "notify" /\ cur'[c] = m
       /\ \A d \in Callers : d # c => pc'[d] = pc[d] /\ cur'[d] = cur[d]
  BY <1>1 DEF IInv, TypeOK
<1>11. Control'
  <2>1. ASSUME NEW d \in Callers
        PROVE  /\ pc'[d] \in {"create", "add", "mod"} => p' # None
               /\ pc'[d] # "idle" => cur'[d] # 0
               /\ cur'[d] # 0 => msg'[cur'[d]].by = d
    BY <1>1, <1>2, <1>5, <1>6, <1>7, <1>10 DEF IInv, Control
  <2>2. QED
    BY <1>1, <2>1 DEF IInv, Control
<1>12. Queued'
  <2>1. ASSUME NEW d \in Callers, NEW k \in 1 .. Len(reqQueue'[d])
        PROVE  /\ msg'[reqQueue'[d][k]].by = d /\ msg'[reqQueue'[d][k]].rid = 0
               /\ \A j \in 1 .. k - 1 : reqQueue'[d][j] < reqQueue'[d][k]
    <3>1. \A j \in 1 .. k - 1 : /\ j \in 1 .. Len(reqQueue[d]) /\ reqQueue'[d][j] = reqQueue[d][j]
                                /\ reqQueue[d][j] < m
      <4>1. Len(reqQueue'[d]) \in Nat /\ Len(reqQueue[d]) \in Nat
        BY <1>7, <1>8
      <4>2. \A j \in 1 .. k - 1 : j \in 1 .. Len(reqQueue'[d]) /\ j # Len(reqQueue[d]) + 1
        BY <1>8, <4>1
      <4>3. QED
        BY <1>6, <1>7, <1>8, <4>2
    <3>2. CASE k \in 1 .. Len(reqQueue[d]) /\ reqQueue'[d][k] = reqQueue[d][k]
      <4>1. /\ msg[reqQueue[d][k]].by = d /\ msg[reqQueue[d][k]].rid = 0
            /\ \A j \in 1 .. k - 1 : reqQueue[d][j] < reqQueue[d][k]
        BY <3>2 DEF IInv, Queued
      <4>2. msg'[reqQueue'[d][k]] = msg[reqQueue[d][k]]
        BY <1>5, <1>7, <3>2
      <4>3. QED
        BY <3>1, <3>2, <4>1, <4>2
    <3>3. CASE reqQueue'[d][k] = m /\ d = c
      BY <1>2, <1>5, <3>1, <3>3
    <3>4. QED
      BY <1>8, <3>2, <3>3
  <2>2. ASSUME npc' = "send"
        PROVE  /\ msg'[nmsg'].by = nq' /\ msg'[nmsg'].rid = 0
               /\ \A k \in 1 .. Len(reqQueue'[nq']) : nmsg' < reqQueue'[nq'][k]
    <3>1. npc = "send" /\ nmsg' = nmsg /\ nq' = nq /\ nmsg \in 1 .. made /\ nq \in Callers
      BY <1>1, <1>7, <2>2 DEF IInv, Control, TypeOK, Held
    <3>2. /\ msg[nmsg].by = nq /\ msg[nmsg].rid = 0
          /\ \A k \in 1 .. Len(reqQueue[nq]) : nmsg < reqQueue[nq][k]
      BY <3>1 DEF IInv, Queued
    <3>3. msg'[nmsg] = msg[nmsg] /\ nmsg < m
      BY <1>5, <1>6, <3>1
    <3>4. ASSUME NEW k \in 1 .. Len(reqQueue'[nq]) PROVE nmsg < reqQueue'[nq][k]
      BY <1>8, <3>1, <3>2, <3>3
    <3>5. QED
      BY <3>1, <3>2, <3>3, <3>4
  <2>3. QED
    BY <2>1, <2>2 DEF Queued
<1>13. Served'
  BY <1>1, <1>5, <1>7, ZenonT(30) DEF IInv, Served, Held, Finishing
<1>14. Unfinished'
  <2>1. \A d \in Callers : \A k \in 1 .. Len(reqQueue'[d]) : ~msg'[reqQueue'[d][k]].fin
    <3>1. SUFFICES ASSUME NEW d \in Callers, NEW k \in 1 .. Len(reqQueue'[d])
                   PROVE  ~msg'[reqQueue'[d][k]].fin
      OBVIOUS
    <3>2. CASE k \in 1 .. Len(reqQueue[d]) /\ reqQueue'[d][k] = reqQueue[d][k]
      BY <1>5, <1>7, <3>2 DEF IInv, Unfinished
    <3>3. CASE reqQueue'[d][k] = m
      BY <1>2, <1>5, <3>3
    <3>4. QED
      BY <1>8, <3>2, <3>3
  <2>2. QED
    BY <1>1, <1>5, <1>7, <2>1, ZenonT(30) DEF IInv, Unfinished, Held
<1>15. Locks' /\ Patient'
  <2>1. \A d \in Callers : pc'[d] # "idle" /\ pc'[d] # "notify" =>
            pc'[d] = pc[d] /\ cur'[d] = cur[d] /\ msg'[cur'[d]] = msg[cur[d]]
    BY <1>5, <1>7, <1>10 DEF IInv, Control
  <2>2. npc \in Held => msg'[nmsg] = msg[nmsg]
    BY <1>5, <1>7
  <2>3. npc' = npc /\ nmsg' = nmsg
    BY <1>1
  <2>4. Locks'
    BY <2>1, <2>2, <2>3 DEF IInv, Locks, Held
  <2>5. Patient'
    BY <2>1 DEF IInv, Patient, Looking
  <2>6. QED
    BY <2>4, <2>5
<1>16. Kept'
  <2>1. SUFFICES ASSUME NEW j \in 1 .. m, msg'[j].life = "live"
                 PROVE  /\ msg'[j].kind = "sync" => cur'[msg'[j].by] = j /\ pc'[msg'[j].by] # "idle"
                        /\ msg'[j].kind = "async" \/ ~msg'[j].fin => Somewhere(j)'
    BY <1>1 DEF Kept
  <2>2. CASE j = m
    <3>1. room
      BY <1>2, <1>5, <2>1, <2>2
    <3>2. reqQueue'[c] = Append(reqQueue[c], m)
      BY <1>1, <3>1 DEF IInv, TypeOK
    <3>3. Len(reqQueue[c]) + 1 \in 1 .. Len(reqQueue'[c]) /\ reqQueue'[c][Len(reqQueue[c]) + 1] = m
      BY <1>6, <1>7, <3>2
    <3>4. InQueue(j)'
      BY <2>2, <3>3 DEF InQueue
    <3>5. QED
      BY <1>2, <1>5, <1>10, <2>2, <3>4 DEF Somewhere
  <2>3. CASE j # m
    <3>1. j \in 1 .. made /\ msg'[j] = msg[j]
      BY <1>5, <1>6, <2>1, <2>3
    <3>2. /\ msg[j].kind = "sync" => cur[msg[j].by] = j /\ pc[msg[j].by] # "idle"
          /\ msg[j].kind = "async" \/ ~msg[j].fin => Somewhere(j)
      BY <2>1, <3>1 DEF IInv, Kept
    <3>3. msg[j].by \in Callers
      BY <3>1, MessageFacts DEF IInv
    <3>4. ASSUME Somewhere(j) PROVE Somewhere(j)'
      <4>1. ASSUME InQueue(j) PROVE InQueue(j)'
        <5>1. PICK d \in Callers : \E k \in 1 .. Len(reqQueue[d]) : reqQueue[d][k] = j
          BY <4>1 DEF InQueue
        <5>2. PICK k \in 1 .. Len(reqQueue[d]) : reqQueue[d][k] = j
          BY <5>1
        <5>3. k \in 1 .. Len(reqQueue'[d]) /\ reqQueue'[d][k] = j
          <6>1. CASE reqQueue'[d] = reqQueue[d]
            BY <5>2, <6>1
          <6>2. CASE reqQueue'[d] = Append(reqQueue[d], m)
            BY <1>6, <1>7, <5>2, <6>2, AppendedFacts
          <6>3. QED
            BY <1>1, <6>1, <6>2 DEF IInv, TypeOK
        <5>4. QED
          BY <5>3 DEF InQueue
      <4>2. QED
        BY <1>1, <3>4, <4>1 DEF Somewhere, InTable, InAsync
    <3>5. QED
      BY <1>1, <1>10, <3>1, <3>2, <3>3, <3>4
  <2>4. QED
    BY <2>2, <2>3
<1>17. Alive'
  <2>1. /\ \A d \in Callers : \A k \in 1 .. Len(reqQueue[d]) : Safe(reqQueue[d][k])
        /\ nmsg # 0 => Safe(nmsg)
        /\ npc = "set" => msg[nmsg].life = "live"
        /\ \A i \in Ids : pending[i] # 0 => Safe(pending[i])
        /\ \A k \in 1 .. Len(asyncQueue) : Safe(asyncQueue[k])
    BY DEF IInv, Alive
  <2>2. \A d \in Callers : \A k \in 1 .. Len(reqQueue'[d]) : Safe(reqQueue[d][k])'
    <3>1. SUFFICES ASSUME NEW d \in Callers, NEW k \in 1 .. Len(reqQueue'[d])
                   PROVE  Safe(reqQueue[d][k])'
      OBVIOUS
    <3>2. CASE k \in 1 .. Len(reqQueue[d]) /\ reqQueue'[d][k] = reqQueue[d][k]
      <4>1. msg'[reqQueue'[d][k]] = msg[reqQueue[d][k]]
        BY <1>5, <1>7, <3>2
      <4>2. Safe(reqQueue[d][k])
        BY <2>1, <3>2
      <4>3. QED
        BY <4>1, <4>2 DEF Safe
    <3>3. CASE reqQueue'[d][k] = m /\ room
      BY <1>2, <1>5, <3>3 DEF Safe
    <3>4. QED
      BY <1>8, <3>2, <3>3
  <2>3. /\ nmsg' # 0 => Safe(nmsg)'
        /\ \A i \in Ids : pending'[i] # 0 => Safe(pending[i])'
        /\ \A k \in 1 .. Len(asyncQueue') : Safe(asyncQueue[k])'
    BY <1>1, <1>5, <1>7, <2>1, ZenonT(30) DEF Safe
  <2>4. npc' = "set" => msg'[nmsg'].life = "live"
    BY <1>1, <1>5, <1>7, <2>1 DEF Held
  <2>5. crash' # "freed"
    BY <1>1
  <2>6. QED
    BY <2>2, <2>3, <2>4, <2>5 DEF Alive
<1>18. Ordered'
  <2>1. SUFFICES ASSUME NEW k \in 1 .. Len(wire)
                 PROVE  /\ wire[k].m \in 1 .. m
                        /\ \A j \in 1 .. k - 1 : msg'[wire[j].m].by = msg'[wire[k].m].by => wire[j].m < wire[k].m
                        /\ \A d \in Callers : msg'[wire[k].m].by = d =>
                              \A q \in 1 .. Len(reqQueue'[d]) : wire[k].m < reqQueue'[d][q]
                        /\ npc = "send" /\ msg'[wire[k].m].by = msg'[nmsg].by => wire[k].m < nmsg
    BY <1>1 DEF Ordered
  <2>2. \A j \in 1 .. k - 1 : j \in 1 .. Len(wire)
    BY HeldTypes DEF IInv
  <2>3. \A j \in 1 .. k - 1 : msg'[wire[j].m].by = msg'[wire[k].m].by => wire[j].m < wire[k].m
    BY <1>5, <1>7, <2>2 DEF IInv, Ordered
  <2>4. \A d \in Callers : msg'[wire[k].m].by = d =>
              \A q \in 1 .. Len(reqQueue'[d]) : wire[k].m < reqQueue'[d][q]
    <3>1. SUFFICES ASSUME NEW d \in Callers, msg'[wire[k].m].by = d, NEW q \in 1 .. Len(reqQueue'[d])
                   PROVE  wire[k].m < reqQueue'[d][q]
      OBVIOUS
    <3>2. CASE q \in 1 .. Len(reqQueue[d]) /\ reqQueue'[d][q] = reqQueue[d][q]
      BY <1>5, <1>7, <3>1, <3>2 DEF IInv, Ordered
    <3>3. CASE reqQueue'[d][q] = m
      BY <1>6, <1>7, <3>3
    <3>4. QED
      BY <1>8, <3>2, <3>3
  <2>5. npc = "send" /\ msg'[wire[k].m].by = msg'[nmsg].by => wire[k].m < nmsg
    BY <1>5, <1>7 DEF IInv, Ordered, Held
  <2>6. QED
    BY <1>6, <1>7, <2>3, <2>4, <2>5
<1>19. Numbered'
  <2>1. Sent' = Sent
    BY <1>1, <1>2, <1>5, <1>6 DEF Sent
  <2>2. id \in Nat
    BY HeldTypes DEF IInv
  <2>3. QED
    BY <1>1, <1>2, <1>5, <1>6, <2>1, <2>2, SMTT(30) DEF IInv, Numbered
<1>20. OnWire' /\ Begins'
  BY <1>1, <1>5, <1>7 DEF IInv, OnWire, Begins
<1>21. Matched'
  <2>1. SUFFICES ASSUME Fresh PROVE Matched'
    BY DEF Matched
  <2>2. ASSUME NEW j \in 1 .. made, Given(j) PROVE Given(j)'
    BY <1>1, <1>5, <2>2 DEF Given
  <2>3. \A j \in 1 .. made' : msg'[j].fin => Given(j)'
    BY <1>1, <1>2, <1>5, <1>6, <2>1, <2>2 DEF IInv, Matched
  <2>4. npc' \in Finishing => Given(nmsg)'
    <3>1. npc \in Finishing => nmsg \in 1 .. made /\ Given(nmsg)
      BY <1>7, <2>1 DEF IInv, Matched, Held, Finishing
    <3>2. npc' = npc /\ nmsg' = nmsg
      BY <1>1
    <3>3. QED
      BY <2>2, <3>1, <3>2 DEF Given
  <2>5. \A k \in 1 .. Len(asyncQueue') : Given(asyncQueue[k])'
    <3>1. \A k \in 1 .. Len(asyncQueue) : Given(asyncQueue[k]) /\ asyncQueue[k] \in 1 .. made
      BY <1>7, <2>1 DEF IInv, Matched
    <3>2. asyncQueue' = asyncQueue
      BY <1>1
    <3>3. QED
      BY <2>2, <3>1, <3>2 DEF Given
  <2>6. QED
    BY <2>3, <2>4, <2>5 DEF Matched
<1>22. QED
  BY <1>9, <1>11, <1>12, <1>13, <1>14, <1>15, <1>16, <1>17, <1>18, <1>19, <1>20, <1>21 DEF IInv

-----------------------------------------------------------------------------
(* The network thread takes a message from a queue. *)

LEMMA DrainEmpty ==
    ASSUME IInv, crash = "no", Drain, reqQueue[nq] = <<>>
    PROVE  IInv'
<1> USE DEF caller, slot, proxy, trans, peer
<1>1. /\ npc = "drain" /\ npc' = "poll" /\ nq' = None
      /\ UNCHANGED <<nmsg, reqQueue, msg, made, caller, slot, proxy, trans, peer, asyncQueue, crash>>
  BY DEF Drain
<1>2. Still
  BY <1>1 DEF Still, Quiet, Held, Finishing
<1>3. TypeOK'
  BY <1>1 DEF IInv, TypeOK
<1>4. Control'
  BY <1>1 DEF IInv, Control, Held
<1>5. Unfinished' /\ Locks' /\ Patient'
  BY <1>1 DEF IInv, Unfinished, Locks, Patient
<1>6. Kept' /\ Alive'
  <2>1. msg' = msg /\ npc' # "set" /\ crash' # "freed"
    BY <1>1
  <2>2. Alive'
    BY <1>2, <2>1, StillAlive
  <2>3. QED
    BY <1>1, <1>2, <2>2, StillKept
<1>7. QED
  BY <1>2, <1>3, <1>4, <1>5, <1>6, StillServed, StillOrdered, StillMatched DEF IInv

LEMMA TailedFacts ==
    ASSUME NEW S, NEW s \in Seq(S), s # <<>>
    PROVE  /\ Tail(s) \in Seq(S) /\ Head(s) = s[1] /\ Head(s) \in S /\ 1 \in 1 .. Len(s)
           /\ Len(s) \in Nat /\ Len(Tail(s)) = Len(s) - 1
           /\ \A k \in 1 .. Len(Tail(s)) : Tail(s)[k] = s[k + 1] /\ k + 1 \in 1 .. Len(s) /\ 1 < k + 1
           /\ \A k \in 1 .. Len(s) : k # 1 => k - 1 \in 1 .. Len(Tail(s)) /\ Tail(s)[k - 1] = s[k]
<1>1. /\ Tail(s) \in Seq(S) /\ Head(s) = s[1] /\ Head(s) \in S /\ 1 \in 1 .. Len(s)
      /\ Len(s) \in Nat /\ Len(Tail(s)) = Len(s) - 1
  OBVIOUS
<1>2. \A k \in 1 .. Len(Tail(s)) : Tail(s)[k] = s[k + 1] /\ k + 1 \in 1 .. Len(s) /\ 1 < k + 1
  OBVIOUS
<1>3. \A k \in 1 .. Len(s) : k # 1 => k - 1 \in 1 .. Len(Tail(s)) /\ (k - 1) + 1 = k
  BY <1>1
<1>4. QED
  BY <1>1, <1>2, <1>3

LEMMA DrainOne ==
    ASSUME IInv, crash = "no", Drain, reqQueue[nq] # <<>>
    PROVE  IInv'
<1> USE DEF caller, slot, proxy, trans, peer
<1> DEFINE h == Head(reqQueue[nq])
<1>1. /\ npc = "drain" /\ npc' = "send" /\ nmsg' = h /\ nq' = nq
      /\ reqQueue' = [reqQueue EXCEPT ![nq] = Tail(@)]
      /\ UNCHANGED <<msg, made, pc, cur, again, slot, proxy, trans, peer, asyncQueue, crash>>
  BY DEF Drain
<1>2. nq \in Callers /\ nmsg = 0
  BY <1>1 DEF IInv, Control, TypeOK, Held
<1>3. /\ Tail(reqQueue[nq]) \in Seq(1 .. made) /\ h = reqQueue[nq][1] /\ h \in 1 .. made
      /\ 1 \in 1 .. Len(reqQueue[nq]) /\ Len(reqQueue[nq]) \in Nat
      /\ Len(Tail(reqQueue[nq])) = Len(reqQueue[nq]) - 1
      /\ \A k \in 1 .. Len(Tail(reqQueue[nq])) :
            /\ Tail(reqQueue[nq])[k] = reqQueue[nq][k + 1]
            /\ k + 1 \in 1 .. Len(reqQueue[nq]) /\ 1 < k + 1
      /\ \A k \in 1 .. Len(reqQueue[nq]) : k # 1 =>
            k - 1 \in 1 .. Len(Tail(reqQueue[nq])) /\ Tail(reqQueue[nq])[k - 1] = reqQueue[nq][k]
  <2>1. reqQueue[nq] \in Seq(1 .. made)
    BY <1>2 DEF IInv, TypeOK
  <2>2. QED
    BY <2>1, TailedFacts
<1> HIDE DEF h
<1>4. reqQueue'[nq] = Tail(reqQueue[nq]) /\ \A d \in Callers : d # nq => reqQueue'[d] = reqQueue[d]
  BY <1>1, <1>2 DEF IInv, TypeOK
<1>5. /\ \A d \in Callers : Len(reqQueue[d]) \in Nat /\ \A k \in 1 .. Len(reqQueue[d]) : reqQueue[d][k] \in 1 .. made
      /\ \A i \in Ids : pending[i] # 0 => pending[i] \in 1 .. made
      /\ \A k \in 1 .. Len(asyncQueue) : asyncQueue[k] \in 1 .. made
      /\ h # 0
  <2>1. h # 0
    BY <1>3
  <2>2. QED
    BY <2>1, HeldTypes DEF IInv
\* an entry that is left was there before, behind h
<1>6. ASSUME NEW d \in Callers, NEW k \in 1 .. Len(reqQueue'[d])
      PROVE  \E k2 \in 1 .. Len(reqQueue[d]) :
                /\ reqQueue'[d][k] = reqQueue[d][k2] /\ (d = nq => 1 < k2)
                /\ \A j \in 1 .. k - 1 : \E j2 \in 1 .. k2 - 1 : reqQueue'[d][j] = reqQueue[d][j2]
  <2>1. CASE d = nq
    <3>1. k + 1 \in 1 .. Len(reqQueue[d]) /\ reqQueue'[d][k] = reqQueue[d][k + 1] /\ 1 < k + 1
      BY <1>3, <1>4, <1>6, <2>1
    <3>2. \A j \in 1 .. k - 1 : j \in 1 .. Len(reqQueue'[d]) /\ j + 1 \in 1 .. (k + 1) - 1
      BY <1>3, <1>4, <1>6, <2>1
    <3>3. \A j \in 1 .. k - 1 : reqQueue'[d][j] = reqQueue[d][j + 1]
      BY <1>3, <1>4, <2>1, <3>2
    <3>4. \A j \in 1 .. k - 1 : \E j2 \in 1 .. (k + 1) - 1 : reqQueue'[d][j] = reqQueue[d][j2]
      BY <3>2, <3>3
    <3>5. QED
      BY <3>1, <3>4
  <2>2. CASE d # nq
    BY <1>4, <1>6, <2>2
  <2>3. QED
    BY <2>1, <2>2
<1>7. \A d \in Callers : \A k \in 1 .. Len(reqQueue'[d]) :
          \E k2 \in 1 .. Len(reqQueue[d]) : reqQueue'[d][k] = reqQueue[d][k2]
  BY <1>6
<1>8. /\ msg[h].by = nq /\ msg[h].rid = 0 /\ ~msg[h].fin
      /\ \A k \in 1 .. Len(reqQueue[nq]) : 1 < k => h < reqQueue[nq][k]
  BY <1>2, <1>3 DEF IInv, Queued, Unfinished
<1>9. TypeOK'
  <2>1. /\ reqQueue' \in [Callers -> Seq(1 .. made)]
    BY <1>1, <1>2, <1>3 DEF IInv, TypeOK
  <2>2. \A d \in Callers : Len(reqQueue'[d]) <= QueueCap
    <3>1. Len(Tail(reqQueue[nq])) <= Len(reqQueue[nq]) /\ Len(reqQueue[nq]) <= QueueCap /\ QueueCap \in Nat
      BY <1>2, <1>3, BoundsAssumption DEF IInv, TypeOK
    <3>2. Len(Tail(reqQueue[nq])) <= QueueCap
      BY <1>3, <3>1
    <3>3. QED
      BY <1>4, <3>2 DEF IInv, TypeOK
  <2>3. /\ nmsg' \in 0 .. made /\ npc' = "send" /\ nq' = nq
        /\ UNCHANGED <<msg, made, pc, cur, again, slot, proxy, trans, peer, asyncQueue, crash>>
    BY <1>1, <1>3
  <2>4. QED
    BY <2>1, <2>2, <2>3, SMTT(30) DEF IInv, TypeOK
<1>10. Control'
  BY <1>1, <1>2, <1>5, Constants DEF IInv, Control, Held
<1>11. Queued'
  <2>1. ASSUME NEW d \in Callers, NEW k \in 1 .. Len(reqQueue'[d])
        PROVE  /\ msg[reqQueue'[d][k]].by = d /\ msg[reqQueue'[d][k]].rid = 0
               /\ \A j \in 1 .. k - 1 : reqQueue'[d][j] < reqQueue'[d][k]
    <3>1. PICK k2 \in 1 .. Len(reqQueue[d]) :
                /\ reqQueue'[d][k] = reqQueue[d][k2]
                /\ \A j \in 1 .. k - 1 : \E j2 \in 1 .. k2 - 1 : reqQueue'[d][j] = reqQueue[d][j2]
      BY <1>6
    <3>2. /\ msg[reqQueue[d][k2]].by = d /\ msg[reqQueue[d][k2]].rid = 0
          /\ \A j2 \in 1 .. k2 - 1 : reqQueue[d][j2] < reqQueue[d][k2]
      BY DEF IInv, Queued
    <3>3. QED
      BY <3>1, <3>2
  <2>2. \A k \in 1 .. Len(reqQueue'[nq]) : h < reqQueue'[nq][k]
    BY <1>2, <1>6, <1>8
  <2>3. msg' = msg /\ nmsg' = h /\ nq' = nq
    BY <1>1
  <2>4. \A d \in Callers : \A k \in 1 .. Len(reqQueue'[d]) :
            /\ msg'[reqQueue'[d][k]].by = d /\ msg'[reqQueue'[d][k]].rid = 0
            /\ \A j \in 1 .. k - 1 : reqQueue'[d][j] < reqQueue'[d][k]
    BY <2>1, <2>3
  <2>5. /\ msg'[nmsg'].by = nq' /\ msg'[nmsg'].rid = 0
        /\ \A k \in 1 .. Len(reqQueue'[nq']) : nmsg' < reqQueue'[nq'][k]
    BY <1>8, <2>2, <2>3
  <2>6. QED
    BY <2>4, <2>5 DEF Queued
<1>12. Served'
  <2>1. \A i \in Ids : pending[i] # 0 => pending[i] # h
    BY <1>8, Constants DEF IInv, Served
  <2>2. \A k \in 1 .. Len(asyncQueue) : asyncQueue[k] # h
    BY <1>8 DEF IInv, Served
  <2>3. QED
    BY <1>1, <2>1, <2>2 DEF IInv, Served, Finishing
<1>13. Unfinished'
  BY <1>1, <1>7, <1>8 DEF IInv, Unfinished
<1>14. Locks' /\ Patient'
  BY <1>1 DEF IInv, Locks, Patient
<1>15. Kept'
  <2>1. ASSUME NEW j \in 1 .. made, Somewhere(j) PROVE Somewhere(j)'
    <3>1. CASE InQueue(j)
      <4>1. PICK d \in Callers : \E k \in 1 .. Len(reqQueue[d]) : reqQueue[d][k] = j
        BY <3>1 DEF InQueue
      <4>2. PICK k \in 1 .. Len(reqQueue[d]) : reqQueue[d][k] = j
        BY <4>1
      <4>3. CASE d # nq
        BY <1>4, <4>2, <4>3 DEF Somewhere, InQueue
      <4>4. CASE d = nq /\ k = 1
        BY <1>1, <1>3, <4>2, <4>4 DEF Somewhere
      <4>5. CASE d = nq /\ k # 1
        <5>1. k - 1 \in 1 .. Len(reqQueue'[d]) /\ reqQueue'[d][k - 1] = j
          BY <1>3, <1>4, <4>2, <4>5
        <5>2. QED
          BY <5>1 DEF Somewhere, InQueue
      <4>6. QED
        BY <4>3, <4>4, <4>5
    <3>2. CASE InTable(j) \/ InAsync(j)
      BY <1>1, <3>2 DEF Somewhere, InTable, InAsync
    <3>3. j # nmsg
      BY <1>2
    <3>4. QED
      BY <2>1, <3>1, <3>2, <3>3 DEF Somewhere
  <2>2. QED
    BY <1>1, <2>1 DEF IInv, Kept
<1>16. Alive'
  <2>1. /\ \A d \in Callers : \A k \in 1 .. Len(reqQueue'[d]) : Safe(reqQueue'[d][k])
        /\ Safe(h)
    BY <1>2, <1>3, <1>7 DEF IInv, Alive
  <2>2. /\ \A d \in Callers : \A k \in 1 .. Len(reqQueue'[d]) : Safe(reqQueue[d][k])'
        /\ Safe(nmsg)'
    BY <1>1, <2>1 DEF Safe
  <2>3. /\ \A i \in Ids : pending'[i] # 0 => Safe(pending[i])'
        /\ \A k \in 1 .. Len(asyncQueue') : Safe(asyncQueue[k])'
    BY <1>1 DEF IInv, Alive, Safe
  <2>4. npc' # "set" /\ crash' # "freed"
    BY <1>1
  <2>5. QED
    BY <2>2, <2>3, <2>4 DEF Alive
<1>17. Ordered'
  <2>1. SUFFICES ASSUME NEW k \in 1 .. Len(wire)
                 PROVE  /\ \A d \in Callers : msg[wire[k].m].by = d =>
                              \A q \in 1 .. Len(reqQueue'[d]) : wire[k].m < reqQueue'[d][q]
                        /\ msg[wire[k].m].by = nq => wire[k].m < h
    BY <1>1, <1>8 DEF IInv, Ordered
  <2>2. \A d \in Callers : msg[wire[k].m].by = d =>
              \A q \in 1 .. Len(reqQueue[d]) : wire[k].m < reqQueue[d][q]
    BY DEF IInv, Ordered
  <2>3. QED
    BY <1>2, <1>3, <1>7, <2>2
<1>18. Numbered' /\ OnWire'
  <2>1. Sent' = Sent
    BY <1>1 DEF Sent
  <2>2. QED
    BY <1>1, <2>1 DEF IInv, Numbered, OnWire
<1>19. Matched' /\ Begins'
  BY <1>1 DEF IInv, Matched, Given, Finishing, Begins
<1>20. QED
  BY <1>9, <1>10, <1>11, <1>12, <1>13, <1>14, <1>15, <1>16, <1>17, <1>18, <1>19 DEF IInv

-----------------------------------------------------------------------------
(* The network thread sends a request. *)

LEMMA IdType ==
    ASSUME TypeOK
    PROVE  GenerateId \in Ids
<1>1. id \in Nat /\ IdMod \in Nat /\ IdMod > 1
  BY Constants, HeldTypes
<1>2. (id + 1) % IdMod \in 0 .. IdMod - 1
  BY <1>1
<1>3. 1 \in Ids /\ \A i \in 0 .. IdMod - 1 : i # 0 => i \in Ids
  BY <1>1, Constants DEF Ids
<1>4. QED
  BY <1>2, <1>3 DEF GenerateId

\* With fewer calls than ids the next id is one that nobody has.
LEMMA FreshId ==
    ASSUME IInv, npc = "send", Fresh
    PROVE  /\ GenerateId = id + 1 /\ Cardinality(Sent \cup {nmsg}) = id + 1
           /\ \A m \in 1 .. made : msg[m].rid # id + 1
           /\ pending[id + 1] = 0
<1>1. nmsg \in 1 .. made /\ msg[nmsg].rid = 0
  BY HeldTypes DEF IInv, Control, Queued, Held
<1>2. /\ id \in Nat /\ made \in Nat /\ made <= MaxCalls /\ MaxCalls \in Nat /\ IdMod \in Nat /\ IdMod > 1
      /\ MaxCalls < IdMod
  BY Constants, HeldTypes DEF IInv, TypeOK, Fresh
<1>3. /\ id = Cardinality(Sent)
      /\ \A m \in 1 .. made : msg[m].rid <= id
  BY DEF IInv, Numbered
<1>4. IsFiniteSet(1 .. made) /\ Cardinality(1 .. made) = made
  <2>1. 1 \in Int /\ made \in Int
    BY <1>2
  <2>2. /\ IsFiniteSet(1 .. made) /\ Cardinality(1 .. made) = IF 1 > made THEN 0 ELSE made - 1 + 1
    BY <2>1, FS_Interval
  <2>3. QED
    BY <1>2, <2>2
<1>5. Sent \in SUBSET (1 .. made) /\ nmsg \notin Sent /\ Sent \cup {nmsg} \in SUBSET (1 .. made)
  BY <1>1 DEF Sent
<1>6. IsFiniteSet(Sent)
  BY <1>4, <1>5, FS_Subset
<1>7. Cardinality(Sent \cup {nmsg}) = Cardinality(Sent) + 1
  BY <1>5, <1>6, FS_AddElement
<1>8. Cardinality(Sent \cup {nmsg}) <= Cardinality(1 .. made)
  BY <1>4, <1>5, FS_Subset
<1>9. id + 1 <= made
  BY <1>3, <1>4, <1>7, <1>8
<1>10. id + 1 \in 1 .. IdMod - 1 /\ (id + 1) % IdMod = id + 1 /\ id + 1 # 0
  BY <1>2, <1>9
<1>11. GenerateId = id + 1
  BY <1>10 DEF GenerateId
<1>12. \A m \in 1 .. made : msg[m].rid # id + 1
  BY <1>2, <1>3, MessageFacts DEF IInv
<1>13. pending[id + 1] = 0
  <2>1. id + 1 \in Ids
    BY <1>10 DEF Ids
  <2>2. QED
    BY <1>12, <2>1, HeldTypes DEF IInv, Served
<1>14. QED
  BY <1>3, <1>7, <1>11, <1>12, <1>13

\* What sendReqMessage comes to: the request is on the wire, or its rest is
\* kept, or it is held back because others are.
LEMMA SendOutcome ==
    ASSUME IInv, crash = "no", SendReqMessage
    PROVE  \E r \in {"all", "part", "none", "error", "fatal"} :
              /\ wire' = CASE r = "all"  -> Append(wire, [id |-> id', m |-> nmsg, part |-> "whole"])
                           [] r = "part" -> Append(wire, [id |-> id', m |-> nmsg, part |-> "head"])
                           [] OTHER -> wire
              /\ sendBuf' = IF r \in {"part", "none"} THEN nmsg ELSE sendBuf
              /\ crash' = CASE msg[nmsg].life = "deleted" -> "freed"
                            [] msg[nmsg].life = "live" /\ r = "fatal" -> "send"
                            [] OTHER -> crash
              /\ unsent' = IF ~Known(id') /\ r = "error" THEN <<id'>> \o unsent ELSE unsent
              /\ r = "error" <=> unsent # <<>> \/ sendBuf # 0
              /\ r \in {"all", "part", "none"} => conn' # "closed"
              /\ IF ~Known(id')
                   THEN pending' = [pending EXCEPT ![id'] = nmsg] /\ npc' = "drain" /\ nmsg' = 0
                   ELSE npc' = "finish" /\ pending' = pending /\ nmsg' = nmsg
<1>1. PICK r \in SendRequest(conn') :
          /\ wire' = CASE r = "all"  -> Append(wire, [id |-> id', m |-> nmsg, part |-> "whole"])
                       [] r = "part" -> Append(wire, [id |-> id', m |-> nmsg, part |-> "head"])
                       [] OTHER -> wire
          /\ sendBuf' = IF r \in {"part", "none"} THEN nmsg ELSE sendBuf
          /\ crash' = CASE msg[nmsg].life = "deleted" -> "freed"
                        [] msg[nmsg].life = "live" /\ r = "fatal" -> "send"
                        [] OTHER -> crash
          /\ IF ~Known(id')
               THEN /\ pending' = [pending EXCEPT ![id'] = nmsg]
                    /\ unsent' = IF r = "error" THEN <<id'>> \o unsent ELSE unsent
                    /\ npc' = "drain" /\ nmsg' = 0
               ELSE npc' = "finish" /\ UNCHANGED <<pending, unsent, nmsg>>
  BY DEF SendReqMessage
<1>2. /\ r \in {"all", "part", "none", "error", "fatal"}
      /\ r = "error" <=> unsent # <<>> \/ sendBuf # 0
      /\ r \in {"all", "part", "none"} => conn' # "closed"
  <2>1. CASE unsent # <<>> \/ sendBuf # 0
    BY <1>1, <2>1 DEF SendRequest
  <2>2. CASE ~(unsent # <<>> \/ sendBuf # 0)
    <3>1. r \in Send(conn')
      BY <1>1, <2>2 DEF SendRequest
    <3>2. CASE conn' = "closed" \/ (conn' = "connecting" /\ eof)
      BY <2>2, <3>1, <3>2 DEF Send
    <3>3. CASE conn' = "connecting" /\ ~eof
      BY <2>2, <3>1, <3>3 DEF Send
    <3>4. CASE conn' # "closed" /\ conn' # "connecting"
      <4>1. Send(conn') = {"all"} \cup (IF SendMayBlock THEN {"part", "none"} ELSE {})
                                  \cup (IF eof THEN {"fatal"} ELSE {})
        BY <3>4 DEF Send
      <4>2. r \in {"all", "part", "none", "fatal"}
        BY <3>1, <4>1
      <4>3. QED
        BY <2>2, <3>4, <4>2
    <3>5. QED
      BY <3>2, <3>3, <3>4
  <2>3. QED
    BY <2>1, <2>2
<1>3. QED
  BY <1>1, <1>2

LEMMA SendStep ==
    ASSUME IInv, crash = "no", SendReqMessage
    PROVE  IInv'
<1> USE DEF caller, slot, peer
<1> DEFINE m == nmsg
           i == id'
<1>1. /\ npc = "send" /\ id' = GenerateId /\ conn' \in Connected /\ msg' = [msg EXCEPT ![m].rid = i]
      /\ UNCHANGED <<made, pc, cur, again, reqQueue, slot, nq, peer, asyncQueue>>
  BY DEF SendReqMessage
<1>2. PICK r \in {"all", "part", "none", "error", "fatal"} :
          /\ wire' = CASE r = "all"  -> Append(wire, [id |-> i, m |-> m, part |-> "whole"])
                       [] r = "part" -> Append(wire, [id |-> i, m |-> m, part |-> "head"])
                       [] OTHER -> wire
          /\ sendBuf' = IF r \in {"part", "none"} THEN m ELSE sendBuf
          /\ crash' = CASE msg[m].life = "deleted" -> "freed"
                        [] msg[m].life = "live" /\ r = "fatal" -> "send"
                        [] OTHER -> crash
          /\ unsent' = IF ~Known(i) /\ r = "error" THEN <<i>> \o unsent ELSE unsent
          /\ r = "error" <=> unsent # <<>> \/ sendBuf # 0
          /\ r \in {"all", "part", "none"} => conn' # "closed"
          /\ IF ~Known(i)
               THEN pending' = [pending EXCEPT ![i] = m] /\ npc' = "drain" /\ nmsg' = 0
               ELSE npc' = "finish" /\ pending' = pending /\ nmsg' = nmsg
  BY SendOutcome
<1>3. /\ m \in 1 .. made /\ msg[m].rid = 0 /\ msg[m].by = nq /\ nq \in Callers /\ ~msg[m].fin
      /\ \A k \in 1 .. Len(reqQueue[nq]) : m < reqQueue[nq][k]
  BY <1>1, HeldTypes DEF IInv, Control, Queued, Unfinished, TypeOK, Held
<1>4. i \in Ids /\ i \in 0 .. IdMod - 1 /\ i # 0 /\ i \in Nat
  BY <1>1, IdType, Constants DEF IInv, Ids
<1>5. conn = "closed" => conn' = "closed"
  BY <1>1 DEF Connected
<1>6. Known(i) <=> pending[i] # 0
  BY DEF Known
<1> HIDE DEF m, i
<1>7. /\ msg' \in Seq(ReqMessage) /\ Len(msg') = made
      /\ \A j \in 1 .. made :
            /\ msg'[j].kind = msg[j].kind /\ msg'[j].by = msg[j].by
            /\ msg'[j].lock = msg[j].lock /\ msg'[j].life = msg[j].life
            /\ msg'[j].fin = msg[j].fin /\ msg'[j].resp = msg[j].resp
            /\ msg'[j].rid = IF j = m THEN i ELSE msg[j].rid
  <2>1. TypeOK /\ m \in 1 .. made /\ i \in 0 .. IdMod - 1 /\ msg' = [msg EXCEPT ![m].rid = i]
    BY <1>1, <1>3, <1>4 DEF IInv
  <2>2. QED
    BY <2>1, RidWritten
<1>8. /\ \A d \in Callers : \A k \in 1 .. Len(reqQueue[d]) : reqQueue[d][k] \in 1 .. made
      /\ \A j \in Ids : pending[j] # 0 => pending[j] \in 1 .. made
      /\ \A k \in 1 .. Len(asyncQueue) : asyncQueue[k] \in 1 .. made
      /\ \A d \in Callers : cur[d] # 0 => cur[d] \in 1 .. made
      /\ Len(wire) \in Nat /\ made \in Nat
      /\ \A k \in 1 .. Len(wire) : wire[k].m \in 1 .. made
      /\ 0 \notin 1 .. made
  BY HeldTypes DEF IInv, Ordered
\* no other place has the message
<1>9. /\ \A d \in Callers : \A k \in 1 .. Len(reqQueue[d]) : reqQueue[d][k] # m
      /\ \A j \in Ids : pending[j] # m
      /\ \A k \in 1 .. Len(asyncQueue) : asyncQueue[k] # m
  <2>1. \A d \in Callers : \A k \in 1 .. Len(reqQueue[d]) : reqQueue[d][k] # m
    <3>1. SUFFICES ASSUME NEW d \in Callers, NEW k \in 1 .. Len(reqQueue[d]), reqQueue[d][k] = m PROVE FALSE
      OBVIOUS
    <3>2. d = nq
      BY <1>3, <3>1 DEF IInv, Queued
    <3>3. m < m /\ m \in Nat
      BY <1>3, <3>1, <3>2
    <3>4. QED
      BY <3>3
  <2>2. \A j \in Ids : pending[j] # m
    BY <1>3, <1>8, Constants DEF IInv, Served
  <2>3. \A k \in 1 .. Len(asyncQueue) : asyncQueue[k] # m
    BY DEF IInv, Served, m
  <2>4. QED
    BY <2>1, <2>2, <2>3
\* the table after the push
<1>10. \A j \in Ids : pending'[j] = IF ~Known(i) /\ j = i THEN m ELSE pending[j]
  BY <1>2, <1>4 DEF IInv, TypeOK
\* the wire after the call
<1>11. /\ wire' \in Seq(Request) /\ Len(wire') \in Nat
       /\ \A k \in 1 .. Len(wire) : k \in 1 .. Len(wire') /\ wire'[k] = wire[k]
       /\ \A k \in 1 .. Len(wire') : \/ k \in 1 .. Len(wire)
                                     \/ /\ k = Len(wire) + 1 /\ wire'[k].m = m /\ wire'[k].id = i
                                        /\ r \in {"all", "part"}
                                        /\ r = "all" => wire'[k].part = "whole"
       /\ r \notin {"all", "part"} => Len(wire') = Len(wire)
       /\ r \in {"all", "part"} => Len(wire') = Len(wire) + 1
  <2>1. wire \in Seq(Request)
    BY DEF IInv, TypeOK
  <2>2. CASE r \notin {"all", "part"}
    BY <1>2, <1>8, <2>1, <2>2
  <2>3. ASSUME NEW x \in Request, wire' = Append(wire, x), x.id = i, x.m = m, r \in {"all", "part"},
               r = "all" => x.part = "whole"
        PROVE  <1>11!:
    BY <1>8, <2>1, <2>3, AppendedFacts
  <2>4. m \in Msgs
    BY <1>3, MessageFacts DEF IInv
  <2>5. CASE r = "all"
    <3>1. [id |-> i, m |-> m, part |-> "whole"] \in Request
      BY <1>4, <2>4 DEF Request
    <3>2. QED
      BY <1>2, <2>3, <2>5, <3>1
  <2>6. CASE r = "part"
    <3>1. [id |-> i, m |-> m, part |-> "head"] \in Request
      BY <1>4, <2>4 DEF Request
    <3>2. QED
      BY <1>2, <2>3, <2>6, <3>1
  <2>7. QED
    BY <2>2, <2>5, <2>6
<1>12. TypeOK'
  <2>1. id' \in 0 .. IdMod - 1 /\ nmsg' \in 0 .. made /\ sendBuf' \in 0 .. made
    BY <1>2, <1>3, <1>4, <1>8, SMTT(30) DEF IInv, TypeOK, m, i
  <2>2. pending' \in [Ids -> 0 .. made]
    BY <1>2, <1>3, <1>4, <1>8, SMTT(30) DEF IInv, TypeOK
  <2>3. unsent' \in Seq(Ids)
    BY <1>2, <1>4 DEF IInv, TypeOK
  <2>4. conn' \in {"none", "connecting", "open", "closed"}
    BY <1>1 DEF Connected, IInv, TypeOK
  <2>5. crash' \in {"no", "freed", "send"} /\ npc' \in {"drain", "finish"}
    BY <1>2
  <2>6. answered' \subseteq 1 .. Len(wire')
    BY <1>1, <1>11 DEF IInv, TypeOK
  <2>7. UNCHANGED <<made, pc, cur, again, reqQueue, slot, nq, peer, asyncQueue>>
    BY <1>1
  <2>8. QED
    BY <1>7, <1>11, <2>1, <2>2, <2>3, <2>4, <2>5, <2>6, <2>7, SMTT(30) DEF IInv, TypeOK
<1>13. \/ npc' = "drain" /\ nmsg' = 0
       \/ npc' = "finish" /\ nmsg' = m /\ pending' = pending /\ Known(i)
  BY <1>2 DEF m
<1>14. Control'
  <2>1. npc' \in Held <=> nmsg' # 0
    BY <1>3, <1>8, <1>13 DEF Held
  <2>2. nq' # None /\ npc' # "handle"
    BY <1>1, <1>13 DEF IInv, Control
  <2>3. \A d \in Callers : cur'[d] # 0 => msg'[cur'[d]].by = d
    BY <1>1, <1>7, <1>8 DEF IInv, Control
  <2>4. QED
    BY <1>1, <2>1, <2>2, <2>3 DEF IInv, Control
<1>15. Queued'
  <2>1. npc' # "send"
    BY <1>13
  <2>2. \A d \in Callers : \A k \in 1 .. Len(reqQueue[d]) :
            /\ msg'[reqQueue[d][k]].by = d /\ msg'[reqQueue[d][k]].rid = 0
            /\ \A j \in 1 .. k - 1 : reqQueue[d][j] < reqQueue[d][k]
    BY <1>7, <1>8, <1>9, SMTT(30) DEF IInv, Queued
  <2>3. reqQueue' = reqQueue
    BY <1>1
  <2>4. QED
    BY <2>1, <2>2, <2>3 DEF Queued
<1>16. Served'
  <2>1. npc' \in Finishing => msg'[nmsg'].rid # 0
    BY <1>3, <1>4, <1>7, <1>13 DEF Finishing
  <2>2. ASSUME NEW j \in Ids, pending'[j] # 0 PROVE msg'[pending'[j]].rid = j /\ pending'[j] # nmsg'
    <3>1. CASE ~Known(i) /\ j = i
      BY <1>3, <1>7, <1>8, <1>10, <1>13, <3>1
    <3>2. CASE ~(~Known(i) /\ j = i)
      <4>1. pending'[j] = pending[j] /\ pending[j] \in 1 .. made /\ pending[j] # m
        BY <1>8, <1>9, <1>10, <2>2, <3>2
      <4>2. msg[pending[j]].rid = j
        BY <2>2, <4>1 DEF IInv, Served
      <4>3. QED
        BY <1>7, <1>8, <1>13, <4>1, <4>2
    <3>3. QED
      BY <3>1, <3>2
  <2>3. ASSUME NEW k \in 1 .. Len(asyncQueue)
        PROVE  /\ msg'[asyncQueue[k]].rid # 0 /\ msg'[asyncQueue[k]].kind = "async"
               /\ asyncQueue[k] # nmsg'
               /\ \A j \in Ids : pending'[j] # asyncQueue[k]
               /\ \A j \in 1 .. k - 1 : asyncQueue[j] # asyncQueue[k]
    <3>1. /\ msg[asyncQueue[k]].rid # 0 /\ msg[asyncQueue[k]].kind = "async"
          /\ \A j \in Ids : pending[j] # asyncQueue[k]
          /\ \A j \in 1 .. k - 1 : asyncQueue[j] # asyncQueue[k]
      BY DEF IInv, Served
    <3>2. asyncQueue[k] \in 1 .. made /\ asyncQueue[k] # m
      BY <1>8, <1>9
    <3>3. QED
      BY <1>7, <1>8, <1>10, <1>13, <3>1, <3>2
  <2>4. QED
    BY <1>1, <2>1, <2>2, <2>3 DEF Served
<1>17. Unfinished'
  <2>1. \A j \in Ids : pending'[j] # 0 => ~msg'[pending'[j]].fin
    BY <1>3, <1>7, <1>8, <1>10 DEF IInv, Unfinished
  <2>2. npc' = "finish" => ~msg'[nmsg'].fin
    BY <1>3, <1>7, <1>13
  <2>3. npc' \in {"drain", "finish"}
    BY <1>13
  <2>4. QED
    BY <1>1, <1>7, <1>8, <2>1, <2>2, <2>3 DEF IInv, Unfinished
<1>18. Locks' /\ Patient'
  <2>1. \A d \in Callers : pc[d] # "idle" => /\ cur[d] \in 1 .. made
                                             /\ msg'[cur[d]].lock = msg[cur[d]].lock
                                             /\ msg'[cur[d]].fin = msg[cur[d]].fin
                                             /\ msg'[cur[d]].kind = msg[cur[d]].kind
    BY <1>7, <1>8 DEF IInv, Control
  <2>2. npc' \notin {"set", "signal", "unlock"} /\ pc' = pc /\ cur' = cur
    BY <1>1, <1>13
  <2>3. QED
    BY <2>1, <2>2 DEF IInv, Locks, Patient, Looking
<1>19. Kept'
  <2>1. ASSUME NEW j \in 1 .. made, Somewhere(j) PROVE Somewhere(j)'
    <3>1. CASE j = m
      <4>1. CASE Known(i)
        BY <1>2, <3>1, <4>1 DEF Somewhere, m
      <4>2. CASE ~Known(i)
        BY <1>4, <1>10, <3>1, <4>2 DEF Somewhere, InTable
      <4>3. QED
        BY <4>1, <4>2
    <3>2. CASE j # m
      <4>1. ASSUME InTable(j) PROVE InTable(j)'
        <5>1. PICK t \in Ids : pending[t] = j
          BY <4>1 DEF InTable
        <5>2. pending'[t] = j
          BY <1>6, <1>8, <1>10, <5>1
        <5>3. QED
          BY <5>2 DEF InTable
      <4>2. QED
        BY <1>1, <2>1, <3>2, <4>1 DEF Somewhere, InQueue, InAsync, m
    <3>3. QED
      BY <3>1, <3>2
  <2>2. QED
    BY <1>1, <1>7, <2>1 DEF IInv, Kept
<1>20. Alive'
  <2>1. /\ \A d \in Callers : \A k \in 1 .. Len(reqQueue[d]) : Safe(reqQueue[d][k])
        /\ \A j \in Ids : pending[j] # 0 => Safe(pending[j])
        /\ \A k \in 1 .. Len(asyncQueue) : Safe(asyncQueue[k])
        /\ Safe(m)
    BY <1>3, <1>8 DEF IInv, Alive, m
  <2>2. ASSUME NEW j \in 1 .. made, Safe(j) PROVE Safe(j)'
    BY <1>7, <2>2 DEF Safe
  <2>3. ASSUME NEW j \in Ids, pending'[j] # 0 PROVE Safe(pending[j])'
    <3>1. \E t \in 1 .. made : t = pending'[j] /\ Safe(t)
      BY <1>3, <1>8, <1>10, <2>1, <2>3
    <3>2. QED
      BY <2>2, <3>1 DEF Safe
  <2>4. nmsg' # 0 => Safe(nmsg)'
    BY <1>3, <1>7, <1>13, <2>1 DEF Safe
  <2>5. /\ \A d \in Callers : \A k \in 1 .. Len(reqQueue'[d]) : Safe(reqQueue[d][k])'
        /\ \A k \in 1 .. Len(asyncQueue') : Safe(asyncQueue[k])'
    BY <1>1, <1>7, <1>8, <2>1 DEF Safe
  <2>6. npc' # "set"
    BY <1>13
  <2>7. crash' = "freed" => Spurious
    BY <1>2, <2>1 DEF Safe
  <2>8. QED
    BY <2>3, <2>4, <2>5, <2>6, <2>7 DEF Alive
<1>21. Ordered'
  <2>1. npc' # "send" /\ reqQueue' = reqQueue /\ made' = made
    BY <1>1, <1>13
  <2>2. SUFFICES ASSUME NEW k \in 1 .. Len(wire')
                 PROVE  /\ wire'[k].m \in 1 .. made
                        /\ \A j \in 1 .. k - 1 : msg'[wire'[j].m].by = msg'[wire'[k].m].by => wire'[j].m < wire'[k].m
                        /\ \A d \in Callers : msg'[wire'[k].m].by = d =>
                              \A q \in 1 .. Len(reqQueue[d]) : wire'[k].m < reqQueue[d][q]
    BY <2>1 DEF Ordered
  <2>3. \A j \in 1 .. k - 1 : j \in 1 .. Len(wire) /\ wire'[j] = wire[j] /\ wire[j].m \in 1 .. made
    BY <1>8, <1>11
  <2>4. CASE k \in 1 .. Len(wire)
    <3>1. wire'[k] = wire[k] /\ wire[k].m \in 1 .. made
      BY <1>8, <1>11, <2>4
    <3>2. \A j \in 1 .. k - 1 : msg[wire[j].m].by = msg[wire[k].m].by => wire[j].m < wire[k].m
      BY <2>4 DEF IInv, Ordered
    <3>3. \A d \in Callers : msg[wire[k].m].by = d =>
              \A q \in 1 .. Len(reqQueue[d]) : wire[k].m < reqQueue[d][q]
      BY <2>4 DEF IInv, Ordered
    <3>4. msg'[wire'[k].m].by = msg[wire[k].m].by
      BY <1>7, <3>1
    <3>5. \A j \in 1 .. k - 1 : wire'[j] = wire[j] /\ msg'[wire'[j].m].by = msg[wire[j].m].by
      BY <1>7, <2>3
    <3>6. QED
      BY <3>1, <3>2, <3>3, <3>4, <3>5
  <2>5. CASE wire'[k].m = m
    <3>1. \A j \in 1 .. k - 1 : msg[wire[j].m].by = msg[m].by => wire[j].m < m
      BY <1>1, <2>3 DEF IInv, Ordered, m
    <3>2. msg'[m].by = nq
      BY <1>3, <1>7
    <3>3. QED
      BY <1>3, <1>7, <2>3, <2>5, <3>1, <3>2, SMTT(30)
  <2>6. QED
    BY <1>11, <2>4, <2>5
<1>22. ASSUME Fresh
       PROVE  /\ i = id + 1 /\ Cardinality(Sent \cup {m}) = id + 1 /\ id \in Nat
              /\ \A j \in 1 .. made : msg[j].rid # i
              /\ ~Known(i)
  <2>1. i = id + 1
    BY <1>1, <1>22, FreshId DEF i
  <2>2. id \in Nat
    BY HeldTypes DEF IInv
  <2>3. QED
    BY <1>1, <1>6, <1>22, <2>1, <2>2, FreshId DEF m
<1>23. Numbered'
  <2>1. SUFFICES ASSUME Fresh
                 PROVE  /\ i = Cardinality(Sent')
                        /\ \A j \in 1 .. made : msg'[j].rid <= i
                        /\ \A j, n \in 1 .. made : msg'[j].rid # 0 /\ msg'[j].rid = msg'[n].rid => j = n
    BY <1>1 DEF Numbered, i
  <2>2. Sent' = Sent \cup {m}
    BY <1>1, <1>3, <1>4, <1>7 DEF Sent
  <2>3. /\ \A j \in 1 .. made : msg[j].rid <= id
        /\ \A j, n \in 1 .. made : msg[j].rid # 0 /\ msg[j].rid = msg[n].rid => j = n
    BY <2>1 DEF IInv, Numbered
  <2>4. \A j \in 1 .. made : msg[j].rid \in Nat
    BY MessageFacts DEF IInv
  <2>5. \A j \in 1 .. made : msg'[j].rid <= i
    BY <1>7, <1>22, <2>1, <2>3, <2>4
  <2>6. \A j, n \in 1 .. made : msg'[j].rid # 0 /\ msg'[j].rid = msg'[n].rid => j = n
    BY <1>3, <1>7, <1>22, <2>1, <2>3
  <2>7. QED
    BY <1>22, <2>1, <2>2, <2>5, <2>6
<1>24. OnWire'
  <2>1. SUFFICES ASSUME Fresh PROVE OnWire'
    BY DEF OnWire
  <2>2. /\ \A k \in 1 .. Len(wire) : /\ wire[k].id = k /\ msg[wire[k].m].rid = k
                                     /\ k < Len(wire) => wire[k].part = "whole"
        /\ \/ sendBuf # 0 \/ conn = "closed"
           \/ unsent = <<>> /\ Len(wire) = id /\ \A k \in 1 .. Len(wire) : wire[k].part = "whole"
    BY <2>1 DEF IInv, OnWire
  <2>3. i = id + 1 /\ id \in Nat /\ ~Known(i)
    BY <1>22, <2>1
  \* what is sent now follows a wire that has everything
  <2>4. CASE r \in {"all", "part"}
    <3>1. unsent = <<>> /\ sendBuf = 0 /\ conn # "closed"
      BY <1>2, <1>5, <2>4
    <3>2. Len(wire) = id /\ \A k \in 1 .. Len(wire) : wire[k].part = "whole"
      BY <2>2, <3>1
    <3>3. ASSUME NEW k \in 1 .. Len(wire')
          PROVE  /\ wire'[k].id = k /\ msg'[wire'[k].m].rid = k
                 /\ k < Len(wire') => wire'[k].part = "whole"
                 /\ r = "all" => wire'[k].part = "whole"
      <4>1. CASE k \in 1 .. Len(wire)
        <5>1. wire'[k] = wire[k] /\ wire[k].m \in 1 .. made /\ wire[k].m # m
          BY <1>3, <1>8, <1>11, <2>2, <4>1
        <5>2. QED
          BY <1>7, <2>2, <3>2, <4>1, <5>1
      <4>2. CASE k = Len(wire) + 1 /\ wire'[k].m = m /\ wire'[k].id = i /\ (r = "all" => wire'[k].part = "whole")
        <5>1. k = i /\ ~(k < Len(wire'))
          BY <1>11, <2>3, <2>4, <3>2, <4>2
        <5>2. msg'[m].rid = i
          BY <1>3, <1>7
        <5>3. QED
          BY <4>2, <5>1, <5>2
      <4>3. QED
        BY <1>11, <4>1, <4>2
    <3>4. \/ sendBuf' # 0
          \/ unsent' = <<>> /\ Len(wire') = i /\ \A k \in 1 .. Len(wire') : wire'[k].part = "whole"
      <4>1. CASE r = "part"
        BY <1>2, <1>3, <1>8, <4>1
      <4>2. CASE r = "all"
        BY <1>2, <1>11, <2>3, <3>1, <3>2, <3>3, <4>2
      <4>3. QED
        BY <2>4, <4>1, <4>2
    <3>5. QED
      BY <3>3, <3>4 DEF OnWire, i
  <2>5. CASE r \notin {"all", "part"}
    <3>1. wire' = wire
      BY <1>2, <2>5
    <3>2. \A k \in 1 .. Len(wire) : msg'[wire[k].m].rid = k
      BY <1>3, <1>7, <1>8, <2>2
    <3>3. crash' # "no" \/ sendBuf' # 0 \/ conn' = "closed"
      <4>1. CASE r = "none"
        BY <1>2, <1>3, <1>8, <4>1
      <4>2. CASE r = "fatal"
        BY <1>2, <1>3, <4>2, MessageFacts DEF IInv
      <4>3. CASE r = "error"
        BY <1>2, <1>5, <2>2, <4>3
      <4>4. QED
        BY <2>5, <4>1, <4>2, <4>3
    <3>4. QED
      BY <2>2, <3>1, <3>2, <3>3 DEF OnWire
  <2>6. QED
    BY <2>4, <2>5
<1>25. Matched'
  <2>1. SUFFICES ASSUME Fresh PROVE Matched'
    BY DEF Matched
  <2>2. /\ \A j \in 1 .. made : msg[j].fin => Given(j)
        /\ \A k \in 1 .. Len(asyncQueue) : Given(asyncQueue[k])
    BY <2>1 DEF IInv, Matched
  <2>3. ASSUME NEW j \in 1 .. made, Given(j) PROVE Given(j)'
    BY <1>7, <1>11, <2>3, SMTT(30) DEF Given
  <2>4. npc' \notin Finishing
    BY <1>13, <1>22, <2>1 DEF Finishing
  <2>5. \A j \in 1 .. made' : msg'[j].fin => Given(j)'
    BY <1>1, <1>7, <2>2, <2>3
  <2>6. \A k \in 1 .. Len(asyncQueue') : Given(asyncQueue[k])'
    <3>1. asyncQueue' = asyncQueue
      BY <1>1
    <3>2. QED
      BY <1>8, <2>2, <2>3, <3>1 DEF Given
  <2>7. QED
    BY <2>4, <2>5, <2>6 DEF Matched
<1>26. Begins'
  BY <1>1, <1>11 DEF IInv, Begins
<1>27. QED
  BY <1>12, <1>14, <1>15, <1>16, <1>17, <1>18, <1>19, <1>20, <1>21, <1>23, <1>24, <1>25, <1>26 DEF IInv

-----------------------------------------------------------------------------
(* A response arrives. *)

LEMMA ReadStep ==
    ASSUME IInv, crash = "no", ReadResponse
    PROVE  IInv'
<1> USE DEF caller, slot, trans
<1> DEFINE h == Head(inbound)
           i == h.says
           m == IF i = 0 THEN 0 ELSE pending[i]
<1>1. /\ npc = "poll" /\ readable /\ ~eof /\ FinishInvoke(inbound) /\ readable' = FALSE /\ inbound' = <<>>
      /\ UNCHANGED <<made, pc, cur, again, reqQueue, slot, id, trans, answered, partial, eof, asyncQueue>>
  BY DEF ReadResponse
<1>2. inbound \in Seq(Piece) /\ inbound # <<>> /\ h \in Piece
  <2>1. inbound \in Seq(Piece) /\ inbound # <<>>
    BY <1>1 DEF IInv, Control, TypeOK
  <2>2. QED
    BY <2>1
<1>3. /\ m # 0 => i \in Ids /\ i # 0 /\ m = pending[i]
      /\ m \in 0 .. made
  <2>1. i \in 0 .. IdMod - 1
    BY <1>2 DEF Piece
  <2>2. i # 0 => i \in Ids
    BY <2>1, Constants
  <2>3. i # 0 => m = pending[i] /\ pending[i] \in 0 .. made
    BY <2>2, HeldTypes DEF IInv
  <2>4. 0 \in 0 .. made
    BY HeldTypes DEF IInv
  <2>5. QED
    BY <2>2, <2>3, <2>4
<1>4. nmsg = 0
  BY <1>1 DEF IInv, Control, Held
<1>5. <<>> \in Seq(Piece)
  OBVIOUS
<1>6. CASE m = 0
  <2>1. UNCHANGED <<msg, npc, nq, nmsg, pending, unsent, crash>>
    BY <1>1, <1>6 DEF FinishInvoke, net
  <2>2. Still
    BY <1>1, <2>1 DEF Still, Quiet
  <2>3. TypeOK'
    BY <1>1, <1>5, <2>1 DEF IInv, TypeOK
  <2>4. Control' /\ Unfinished' /\ Locks' /\ Patient'
    BY <1>1, <2>1 DEF IInv, Control, Unfinished, Locks, Patient
  <2>5. Kept' /\ Alive'
    <3>1. msg' = msg /\ npc' = npc /\ crash' # "freed"
      BY <2>1
    <3>2. Alive'
      BY <2>2, <3>1, StillAlive
    <3>3. QED
      BY <1>1, <2>1, <2>2, <3>2, StillKept
  <2>6. QED
    BY <2>2, <2>3, <2>4, <2>5, StillServed, StillOrdered, StillMatched DEF IInv
<1>7. CASE m # 0
  <2>1. /\ crash' = IF msg[m].life = "deleted" THEN "freed" ELSE crash
        /\ msg' = [msg EXCEPT ![m].resp = inbound]
        /\ pending' = [pending EXCEPT ![i] = 0]
        /\ unsent' = IF i \in Elements(unsent) THEN Erased(unsent, Position(unsent, i)) ELSE unsent
        /\ npc' = "finish" /\ nmsg' = m /\ nq' = nq
    BY <1>1, <1>7 DEF FinishInvoke
  <2>2. /\ m \in 1 .. made /\ msg[m].rid = i /\ ~msg[m].fin /\ i # 0 /\ i \in Ids /\ pending[i] = m
        /\ m # 0
    <3>1. i \in Ids /\ i # 0 /\ pending[i] # 0 /\ m = pending[i]
      BY <1>3, <1>7
    <3>2. pending[i] \in 1 .. made /\ msg[pending[i]].rid = i /\ ~msg[pending[i]].fin
      BY <3>1, HeldTypes DEF IInv, Served, Unfinished
    <3>3. QED
      BY <3>1, <3>2
  <2>3. unsent' \in Seq(Ids) /\ (unsent = <<>> => unsent' = <<>>)
    <3>1. unsent \in Seq(Ids)
      BY DEF IInv, TypeOK
    <3>2. CASE i \in Elements(unsent)
      <4>1. Position(unsent, i) \in 1 .. Len(unsent)
        BY <3>2 DEF Elements, Position
      <4>2. Erased(unsent, Position(unsent, i)) \in Seq(Ids)
        <5>1. Len(unsent) - 1 \in Nat
          BY <3>1, <4>1
        <5>2. \A j \in 1 .. Len(unsent) - 1 :
                 (IF j < Position(unsent, i) THEN unsent[j] ELSE unsent[j + 1]) \in Ids
          BY <3>1, <4>1
        <5>3. QED
          BY <5>1, <5>2 DEF Erased
      <4>3. unsent # <<>>
        BY <3>2 DEF Elements
      <4>4. QED
        BY <2>1, <3>2, <4>2, <4>3
    <3>3. CASE i \notin Elements(unsent)
      BY <2>1, <3>1, <3>3
    <3>4. QED
      BY <3>2, <3>3
  <2> HIDE DEF h, m, i
  <2>4. /\ msg' \in Seq(ReqMessage) /\ Len(msg') = made
        /\ \A j \in 1 .. made :
              /\ msg'[j].kind = msg[j].kind /\ msg'[j].by = msg[j].by
              /\ msg'[j].lock = msg[j].lock /\ msg'[j].rid = msg[j].rid
              /\ msg'[j].fin = msg[j].fin /\ msg'[j].life = msg[j].life
              /\ msg'[j].resp = IF j = m THEN inbound ELSE msg[j].resp
    BY <1>2, <2>1, <2>2, RespWritten DEF IInv
  <2>5. /\ \A d \in Callers : \A k \in 1 .. Len(reqQueue[d]) : reqQueue[d][k] \in 1 .. made
        /\ \A j \in Ids : pending[j] # 0 => pending[j] \in 1 .. made
        /\ \A k \in 1 .. Len(asyncQueue) : asyncQueue[k] \in 1 .. made
        /\ \A d \in Callers : cur[d] # 0 => cur[d] \in 1 .. made
        /\ Len(wire) \in Nat /\ made \in Nat
        /\ \A k \in 1 .. Len(wire) : wire[k].m \in 1 .. made
        /\ 0 \notin 1 .. made
    BY HeldTypes DEF IInv, Ordered
  <2>6. \A j \in Ids : pending'[j] = IF j = i THEN 0 ELSE pending[j]
    BY <2>1, <2>2 DEF IInv, TypeOK
  <2>7. /\ \A j \in Ids : pending[j] = m => j = i
        /\ \A k \in 1 .. Len(asyncQueue) : asyncQueue[k] # m
    <3>1. pending[i] = m /\ i \in Ids
      BY <2>2
    <3>2. \A k \in 1 .. Len(asyncQueue) : asyncQueue[k] # m
      BY <3>1 DEF IInv, Served
    <3>3. \A j \in Ids : pending[j] = m => j = i
      BY <2>2, <2>5 DEF IInv, Served
    <3>4. QED
      BY <3>2, <3>3
  <2>8. TypeOK'
    <3>1. pending' \in [Ids -> 0 .. made] /\ nmsg' \in 0 .. made
      BY <2>1, <2>2, <2>5 DEF IInv, TypeOK
    <3>2. crash' \in {"no", "freed"} /\ npc' = "finish" /\ nq' = nq
      BY <2>1
    <3>3. readable' = FALSE /\ inbound' \in Seq(Piece)
      BY <1>1, <1>5
    <3>4. UNCHANGED <<made, pc, cur, again, reqQueue, slot, id, trans, answered, partial, eof, asyncQueue>>
      BY <1>1
    <3>5. QED
      BY <2>3, <2>4, <3>1, <3>2, <3>3, <3>4, ZenonT(30) DEF IInv, TypeOK
  <2>9. Control'
    <3>1. \A d \in Callers : cur'[d] # 0 => msg'[cur'[d]].by = d
      BY <1>1, <2>4, <2>5 DEF IInv, Control
    <3>2. npc' \in Held /\ nmsg' # 0
      BY <2>1, <2>2 DEF Held
    <3>3. QED
      BY <1>1, <2>1, <3>1, <3>2 DEF IInv, Control
  <2>10. Queued'
    <3>1. ASSUME NEW d \in Callers, NEW k \in 1 .. Len(reqQueue[d])
          PROVE  /\ msg'[reqQueue[d][k]].by = d /\ msg'[reqQueue[d][k]].rid = 0
                 /\ \A j \in 1 .. k - 1 : reqQueue[d][j] < reqQueue[d][k]
      <4>1. /\ msg[reqQueue[d][k]].by = d /\ msg[reqQueue[d][k]].rid = 0
            /\ \A j \in 1 .. k - 1 : reqQueue[d][j] < reqQueue[d][k]
        BY DEF IInv, Queued
      <4>2. reqQueue[d][k] \in 1 .. made
        BY <2>5
      <4>3. QED
        BY <2>4, <4>1, <4>2
    <3>2. reqQueue' = reqQueue /\ npc' # "send"
      BY <1>1, <2>1
    <3>3. QED
      BY <3>1, <3>2 DEF Queued
  <2>11. Served'
    <3>1. msg'[nmsg'].rid # 0
      BY <2>1, <2>2, <2>4
    <3>2. ASSUME NEW j \in Ids, pending'[j] # 0 PROVE msg'[pending'[j]].rid = j /\ pending'[j] # nmsg'
      <4>1. j # i /\ pending'[j] = pending[j] /\ pending[j] \in 1 .. made
        BY <2>5, <2>6, <3>2
      <4>2. msg[pending[j]].rid = j
        BY <3>2, <4>1 DEF IInv, Served
      <4>3. QED
        BY <2>1, <2>4, <2>7, <4>1, <4>2
    <3>3. ASSUME NEW k \in 1 .. Len(asyncQueue)
          PROVE  /\ msg'[asyncQueue[k]].rid # 0 /\ msg'[asyncQueue[k]].kind = "async"
                 /\ asyncQueue[k] # nmsg'
                 /\ \A j \in Ids : pending'[j] # asyncQueue[k]
                 /\ \A j \in 1 .. k - 1 : asyncQueue[j] # asyncQueue[k]
      <4>1. /\ msg[asyncQueue[k]].rid # 0 /\ msg[asyncQueue[k]].kind = "async"
            /\ \A j \in Ids : pending[j] # asyncQueue[k]
            /\ \A j \in 1 .. k - 1 : asyncQueue[j] # asyncQueue[k]
        BY DEF IInv, Served
      <4>2. asyncQueue[k] \in 1 .. made /\ asyncQueue[k] # m
        BY <2>5, <2>7
      <4>3. QED
        BY <2>1, <2>4, <2>5, <2>6, <4>1, <4>2
    <3>4. QED
      BY <1>1, <3>1, <3>2, <3>3 DEF Served
  <2>12. Unfinished'
    <3>1. \A j \in Ids : pending'[j] # 0 => ~msg'[pending'[j]].fin
      BY <2>4, <2>5, <2>6 DEF IInv, Unfinished
    <3>2. npc' = "finish" /\ ~msg'[nmsg'].fin
      BY <2>1, <2>2, <2>4
    <3>3. QED
      BY <1>1, <2>4, <2>5, <3>1, <3>2 DEF IInv, Unfinished
  <2>13. Locks' /\ Patient'
    <3>1. \A d \in Callers : pc[d] # "idle" => /\ cur[d] \in 1 .. made
                                               /\ msg'[cur[d]].lock = msg[cur[d]].lock
                                               /\ msg'[cur[d]].fin = msg[cur[d]].fin
                                               /\ msg'[cur[d]].kind = msg[cur[d]].kind
      BY <2>4, <2>5 DEF IInv, Control
    <3>2. npc' \notin {"set", "signal", "unlock"} /\ pc' = pc /\ cur' = cur
      BY <1>1, <2>1
    <3>3. QED
      BY <3>1, <3>2 DEF IInv, Locks, Patient, Looking
  <2>14. Kept'
    <3>1. ASSUME NEW j \in 1 .. made, Somewhere(j) PROVE Somewhere(j)'
      <4>1. CASE j = m
        BY <2>1, <4>1 DEF Somewhere
      <4>2. CASE j # m
        <5>1. ASSUME InTable(j) PROVE InTable(j)'
          <6>1. PICK t \in Ids : pending[t] = j
            BY <5>1 DEF InTable
          <6>2. t # i
            BY <2>2, <4>2, <6>1
          <6>3. pending'[t] = j
            BY <2>6, <6>1, <6>2
          <6>4. QED
            BY <6>3 DEF InTable
        <5>2. j # nmsg
          BY <1>4, <2>5
        <5>3. QED
          BY <1>1, <3>1, <5>1, <5>2 DEF Somewhere, InQueue, InAsync
      <4>3. QED
        BY <4>1, <4>2
    <3>2. QED
      BY <1>1, <2>4, <3>1 DEF IInv, Kept
  <2>15. Alive'
    <3>1. /\ \A d \in Callers : \A k \in 1 .. Len(reqQueue[d]) : Safe(reqQueue[d][k])
          /\ \A j \in Ids : pending[j] # 0 => Safe(pending[j])
          /\ \A k \in 1 .. Len(asyncQueue) : Safe(asyncQueue[k])
      BY DEF IInv, Alive
    <3>2. Safe(m)
      BY <2>2, <3>1
    <3>3. ASSUME NEW j \in 1 .. made, Safe(j) PROVE Safe(j)'
      BY <2>4, <3>3 DEF Safe
    <3>4. Safe(nmsg)'
      <4>1. nmsg' = m
        BY <2>1
      <4>2. msg'[m].life = "live" \/ (Spurious /\ msg'[m].kind = "sync" /\ ~msg'[m].fin)
        BY <2>2, <2>4, <3>2 DEF Safe
      <4>3. QED
        BY <4>1, <4>2 DEF Safe
    <3>5. ASSUME NEW j \in Ids, pending'[j] # 0 PROVE Safe(pending[j])'
      <4>1. pending'[j] = pending[j] /\ pending[j] \in 1 .. made /\ Safe(pending[j])
        BY <2>5, <2>6, <3>1, <3>5
      <4>2. QED
        BY <2>4, <4>1 DEF Safe
    <3>6. /\ \A d \in Callers : \A k \in 1 .. Len(reqQueue'[d]) : Safe(reqQueue[d][k])'
          /\ \A k \in 1 .. Len(asyncQueue') : Safe(asyncQueue[k])'
      <4>1. reqQueue' = reqQueue /\ asyncQueue' = asyncQueue
        BY <1>1
      <4>2. \A j \in 1 .. made : Safe(j) =>
               msg'[j].life = "live" \/ (Spurious /\ msg'[j].kind = "sync" /\ ~msg'[j].fin)
        BY <2>4 DEF Safe
      <4>3. ASSUME NEW d \in Callers, NEW k \in 1 .. Len(reqQueue[d]) PROVE Safe(reqQueue[d][k])'
        BY <2>5, <3>1, <4>1, <4>2 DEF Safe
      <4>4. ASSUME NEW k \in 1 .. Len(asyncQueue) PROVE Safe(asyncQueue[k])'
        BY <2>5, <3>1, <4>1, <4>2 DEF Safe
      <4>5. QED
        BY <4>1, <4>3, <4>4
    <3>7. npc' # "set" /\ (crash' = "freed" => Spurious)
      BY <2>1, <3>2 DEF Safe
    <3>8. QED
      BY <3>4, <3>5, <3>6, <3>7 DEF Alive
  <2>16. Ordered'
    <3>1. wire' = wire /\ reqQueue' = reqQueue /\ made' = made /\ npc' # "send"
      BY <1>1, <2>1
    <3>2. \A k \in 1 .. Len(wire) : msg'[wire[k].m].by = msg[wire[k].m].by
      BY <2>4, <2>5
    <3>3. SUFFICES ASSUME NEW k \in 1 .. Len(wire)
                   PROVE  /\ wire[k].m \in 1 .. made
                          /\ \A j \in 1 .. k - 1 : msg'[wire[j].m].by = msg'[wire[k].m].by => wire[j].m < wire[k].m
                          /\ \A c \in Callers : msg'[wire[k].m].by = c =>
                                \A q \in 1 .. Len(reqQueue[c]) : wire[k].m < reqQueue[c][q]
      BY <3>1 DEF Ordered
    <3>4. \A j \in 1 .. k - 1 : j \in 1 .. Len(wire)
      BY <2>5
    <3>5. \A j \in 1 .. k - 1 : msg'[wire[j].m].by = msg'[wire[k].m].by => wire[j].m < wire[k].m
      BY <3>2, <3>4 DEF IInv, Ordered
    <3>6. QED
      BY <3>2, <3>5 DEF IInv, Ordered
  <2>17. Numbered'
    <3>1. Sent' = Sent
      BY <1>1, <2>4 DEF Sent
    <3>2. QED
      BY <1>1, <2>4, <3>1 DEF IInv, Numbered
  <2>18. OnWire'
    <3>1. /\ \A k \in 1 .. Len(wire) : msg'[wire[k].m].rid = msg[wire[k].m].rid
          /\ UNCHANGED <<wire, id, sendBuf, conn>>
      BY <1>1, <2>4, <2>5
    <3>2. QED
      BY <2>3, <3>1 DEF IInv, OnWire
  <2>19. Matched'
    <3>1. SUFFICES ASSUME Fresh PROVE Matched'
      BY DEF Matched
    <3>2. h.of # 0 => h.of \in 1 .. Len(wire) /\ wire[h.of].m = m
      <4>1. SUFFICES ASSUME h.of # 0 PROVE h.of \in 1 .. Len(wire) /\ wire[h.of].m = m
        OBVIOUS
      <4>2. h.of \in 1 .. Len(wire) /\ i = wire[h.of].id
        BY <1>2, <4>1 DEF IInv, Begins, h, i
      <4>3. wire[h.of].id = h.of /\ msg[wire[h.of].m].rid = h.of /\ wire[h.of].m \in 1 .. made
        BY <2>5, <3>1, <4>2 DEF IInv, OnWire
      <4>4. QED
        BY <2>2, <3>1, <4>2, <4>3 DEF IInv, Numbered
    <3>3. ASSUME NEW j \in 1 .. made, j = m PROVE Given(j)'
      <4>1. msg'[j].resp = inbound /\ wire' = wire
        BY <1>1, <2>4, <3>3
      <4>2. Head(inbound) = h
        BY DEF h
      <4>3. QED
        BY <1>2, <3>2, <3>3, <4>1, <4>2 DEF Given
    <3>4. ASSUME NEW j \in 1 .. made, Given(j) PROVE Given(j)'
      <4>1. CASE j = m
        BY <3>3, <4>1
      <4>2. CASE j # m
        <5>1. msg'[j].resp = msg[j].resp /\ wire' = wire
          BY <1>1, <2>4, <4>2
        <5>2. QED
          BY <3>4, <5>1 DEF Given
      <4>3. QED
        BY <4>1, <4>2
    <3>5. \A j \in 1 .. made' : msg'[j].fin => Given(j)'
      <4>1. \A j \in 1 .. made : msg[j].fin => Given(j)
        BY <3>1 DEF IInv, Matched
      <4>2. made' = made
        BY <1>1
      <4>3. QED
        BY <2>4, <3>4, <4>1, <4>2
    <3>6. Given(nmsg)'
      <4>1. ASSUME NEW j \in 1 .. made, j = m, Given(j)' PROVE Given(nmsg)'
        BY <2>1, <4>1 DEF Given
      <4>2. QED
        BY <2>2, <3>3, <4>1
    <3>7. ASSUME NEW k \in 1 .. Len(asyncQueue') PROVE Given(asyncQueue[k])'
      <4>1. asyncQueue' = asyncQueue /\ asyncQueue[k] \in 1 .. made
        BY <1>1, <2>5
      <4>2. Given(asyncQueue[k])
        BY <3>1, <4>1 DEF IInv, Matched
      <4>3. ASSUME NEW j \in 1 .. made, j = asyncQueue[k], Given(j)' PROVE Given(asyncQueue[k])'
        BY <4>1, <4>3 DEF Given
      <4>4. QED
        BY <3>4, <4>1, <4>2, <4>3
    <3>8. QED
      BY <3>5, <3>6, <3>7 DEF Matched
  <2>20. Begins'
    BY <1>1 DEF Begins
  <2>21. QED
    BY <2>8, <2>9, <2>10, <2>11, <2>12, <2>13, <2>14, <2>15, <2>16, <2>17, <2>18, <2>19, <2>20 DEF IInv
<1>8. QED
  BY <1>6, <1>7

-----------------------------------------------------------------------------
(* Callbacks. *)

\* What a step on the callback thread's queue does: the rest of the
\* invariant asks only that the entries after it were entries before it or
\* the message that the network thread lets go, and that those which leave
\* their place are deleted.
Passed ==
    /\ Quiet /\ UNCHANGED <<pc, cur, crash>>
    /\ \A j \in 1 .. made : /\ msg'[j].lock = msg[j].lock /\ msg'[j].fin = msg[j].fin
                            /\ msg'[j].life # msg[j].life => msg'[j].life = "deleted"
    /\ \/ npc' = npc /\ nmsg' = nmsg
       \/ npc = "finish" /\ npc' \in {"poll", "drain"} /\ nmsg' = 0

LEMMA PassedCallers ==
    ASSUME IInv, Passed
    PROVE  /\ Locks' /\ Patient'
           /\ \A d \in Callers : cur'[d] # 0 => msg'[cur'[d]].by = d
<1>1. \A d \in Callers : cur[d] # 0 => /\ cur[d] \in 1 .. made
                                       /\ msg'[cur[d]].lock = msg[cur[d]].lock
                                       /\ msg'[cur[d]].fin = msg[cur[d]].fin
                                       /\ msg'[cur[d]].by = msg[cur[d]].by
                                       /\ msg'[cur[d]].kind = msg[cur[d]].kind
  BY HeldTypes DEF IInv, Passed, Quiet
<1>2. \A d \in Callers : pc[d] # "idle" => cur[d] # 0
  BY DEF IInv, Control
<1>3. Patient'
  BY <1>1, <1>2 DEF IInv, Patient, Looking, Passed
<1>4. npc' \in {"set", "signal", "unlock"} => msg'[nmsg'].kind = "sync" /\ msg'[nmsg'].lock = Net
  <2>1. SUFFICES ASSUME npc' \in {"set", "signal", "unlock"}
                 PROVE  msg'[nmsg'].kind = "sync" /\ msg'[nmsg'].lock = Net
    OBVIOUS
  <2>2. npc = npc' /\ nmsg' = nmsg
    BY <2>1 DEF Passed
  <2>3. nmsg \in 1 .. made /\ msg[nmsg].kind = "sync" /\ msg[nmsg].lock = Net
    BY <2>1, <2>2, HeldTypes DEF IInv, Locks, Control, Held
  <2>4. QED
    BY <2>2, <2>3 DEF Passed, Quiet
<1>5. Locks'
  BY <1>1, <1>2, <1>4 DEF IInv, Locks, Passed
<1>6. QED
  BY <1>1, <1>3, <1>5 DEF IInv, Control, Passed

\* The callback thread's queue holds old entries and perhaps the message
\* that the network thread was about to finish.
LEMMA PassedQueue ==
    ASSUME IInv, crash = "no", Passed, asyncQueue' \in Seq(1 .. made),
           \A k \in 1 .. Len(asyncQueue') :
              /\ msg[asyncQueue'[k]].kind = "async" /\ msg'[asyncQueue'[k]].life = msg[asyncQueue'[k]].life
              /\ InAsync(asyncQueue'[k]) \/ (npc = "finish" /\ nmsg' = 0 /\ asyncQueue'[k] = nmsg)
              /\ \A j \in 1 .. k - 1 : asyncQueue'[j] # asyncQueue'[k],
           \A j \in 1 .. made : msg'[j].life # msg[j].life =>
              /\ msg[j].kind = "async" /\ (InAsync(j) \/ (npc = "finish" /\ nmsg' = 0 /\ j = nmsg)),
           \A j \in 1 .. made : msg'[j].life = "live" /\ (InAsync(j) \/ (nmsg' # nmsg /\ j = nmsg)) => InAsync(j)'
    PROVE  Served' /\ Unfinished' /\ Kept' /\ Alive' /\ Matched'
<1>1. /\ \A d \in Callers : \A k \in 1 .. Len(reqQueue[d]) : reqQueue[d][k] \in 1 .. made
      /\ \A i \in Ids : pending[i] # 0 => pending[i] \in 1 .. made
      /\ \A k \in 1 .. Len(asyncQueue) : asyncQueue[k] \in 1 .. made
      /\ nmsg # 0 => nmsg \in 1 .. made
      /\ npc \in Held <=> nmsg # 0
      /\ made \in Nat /\ 0 \notin 1 .. made
  BY HeldTypes DEF IInv, Control
<1>2. \A k \in 1 .. Len(asyncQueue') : asyncQueue'[k] \in 1 .. made
  BY Entries
<1>3. /\ made' = made /\ UNCHANGED <<reqQueue, pending, wire, pc, cur, crash>>
      /\ \A j \in 1 .. made : /\ msg'[j].kind = msg[j].kind /\ msg'[j].by = msg[j].by
                              /\ msg'[j].rid = msg[j].rid /\ msg'[j].resp = msg[j].resp
                              /\ msg'[j].fin = msg[j].fin
                              /\ msg'[j].life = "live" => msg[j].life = "live"
      /\ npc' \in Held => npc' = npc /\ nmsg' = nmsg
      /\ nmsg' = nmsg \/ nmsg' = 0
  BY DEF Passed, Quiet, Held
<1>4. ASSUME NEW j \in 1 .. made, InAsync(j)
      PROVE  /\ msg[j].rid # 0 /\ ~msg[j].fin /\ j # nmsg /\ \A i \in Ids : pending[i] # j
             /\ Fresh => Given(j)
             /\ Safe(j)
  <2>1. PICK k \in 1 .. Len(asyncQueue) : asyncQueue[k] = j
    BY <1>4 DEF InAsync
  <2>2. msg[j].rid # 0 /\ j # nmsg /\ \A i \in Ids : pending[i] # j
    BY <2>1 DEF IInv, Served
  <2>3. ~msg[j].fin
    BY <2>1 DEF IInv, Unfinished
  <2>4. Fresh => Given(j)
    BY <2>1 DEF IInv, Matched
  <2>5. Safe(j)
    BY <2>1 DEF IInv, Alive
  <2>6. QED
    BY <2>2, <2>3, <2>4, <2>5
<1>5. npc = "finish" => /\ nmsg \in 1 .. made /\ msg[nmsg].rid # 0 /\ ~msg[nmsg].fin
                        /\ \A i \in Ids : pending[i] # nmsg
                        /\ Fresh => Given(nmsg)
                        /\ Safe(nmsg)
  <2>1. SUFFICES ASSUME npc = "finish"
                 PROVE  /\ nmsg \in 1 .. made /\ msg[nmsg].rid # 0 /\ ~msg[nmsg].fin
                        /\ \A i \in Ids : pending[i] # nmsg
                        /\ Fresh => Given(nmsg)
                        /\ Safe(nmsg)
    OBVIOUS
  <2>2. nmsg \in 1 .. made /\ nmsg # 0
    BY <1>1, <2>1 DEF Held
  <2>3. msg[nmsg].rid # 0 /\ \A i \in Ids : pending[i] # nmsg
    BY <2>1, <2>2 DEF IInv, Served, Finishing
  <2>4. ~msg[nmsg].fin
    BY <2>1 DEF IInv, Unfinished
  <2>5. Fresh => Given(nmsg)
    BY <2>1 DEF IInv, Matched, Finishing
  <2>6. Safe(nmsg)
    BY <2>2 DEF IInv, Alive
  <2>7. QED
    BY <2>2, <2>3, <2>4, <2>5, <2>6
\* every entry has what the old ones had
<1>6. ASSUME NEW k \in 1 .. Len(asyncQueue')
      PROVE  /\ msg[asyncQueue'[k]].rid # 0 /\ ~msg[asyncQueue'[k]].fin /\ asyncQueue'[k] # nmsg'
             /\ \A i \in Ids : pending[i] # asyncQueue'[k]
             /\ Fresh => Given(asyncQueue'[k])
             /\ Safe(asyncQueue'[k])
  <2>1. CASE InAsync(asyncQueue'[k])
    <3>1. PICK x \in 1 .. made : x = asyncQueue'[k]
      BY <1>2
    <3>2. /\ msg[x].rid # 0 /\ ~msg[x].fin /\ x # nmsg /\ \A i \in Ids : pending[i] # x
          /\ Fresh => Given(x)
          /\ Safe(x)
      BY <1>4, <2>1, <3>1
    <3>3. x # nmsg'
      BY <1>1, <1>3, <3>2
    <3>4. QED
      BY <3>1, <3>2, <3>3
  <2>2. CASE npc = "finish" /\ nmsg' = 0 /\ asyncQueue'[k] = nmsg
    BY <1>1, <1>5, <2>2
  <2>3. QED
    BY <2>1, <2>2
<1>7. Served'
  <2>1. npc' \in Finishing => msg'[nmsg'].rid # 0
    BY <1>1, <1>3 DEF IInv, Served, Finishing, Held
  <2>2. ASSUME NEW i \in Ids, pending[i] # 0 PROVE msg'[pending[i]].rid = i /\ pending[i] # nmsg'
    <3>1. msg[pending[i]].rid = i /\ pending[i] # nmsg /\ pending[i] \in 1 .. made
      BY <1>1, <2>2 DEF IInv, Served
    <3>2. QED
      BY <1>3, <2>2, <3>1
  <2>3. ASSUME NEW k \in 1 .. Len(asyncQueue')
        PROVE  /\ msg'[asyncQueue'[k]].rid # 0 /\ msg'[asyncQueue'[k]].kind = "async"
               /\ asyncQueue'[k] # nmsg'
               /\ \A i \in Ids : pending'[i] # asyncQueue'[k]
               /\ \A j \in 1 .. k - 1 : asyncQueue'[j] # asyncQueue'[k]
    BY <1>2, <1>3, <1>6
  <2>4. QED
    BY <1>3, <2>1, <2>2, <2>3 DEF Served
<1>8. Unfinished'
  <2>1. \A d \in Callers : \A k \in 1 .. Len(reqQueue[d]) : ~msg'[reqQueue[d][k]].fin
    BY <1>1, <1>3 DEF IInv, Unfinished
  <2>2. \A i \in Ids : pending[i] # 0 => ~msg'[pending[i]].fin
    BY <1>1, <1>3 DEF IInv, Unfinished
  <2>3. \A k \in 1 .. Len(asyncQueue') : ~msg'[asyncQueue'[k]].fin
    BY <1>2, <1>3, <1>6
  <2>4. npc' \in Held => npc' = npc /\ nmsg' = nmsg /\ msg'[nmsg].fin = msg[nmsg].fin
    BY <1>1, <1>3
  <2>5. QED
    BY <1>3, <2>1, <2>2, <2>3, <2>4 DEF IInv, Unfinished, Held
<1>9. Kept'
  <2>1. SUFFICES ASSUME NEW j \in 1 .. made, msg'[j].life = "live"
                 PROVE  /\ msg'[j].kind = "sync" => cur'[msg'[j].by] = j /\ pc'[msg'[j].by] # "idle"
                        /\ msg'[j].kind = "async" \/ ~msg'[j].fin => Somewhere(j)'
    BY <1>3 DEF Kept
  <2>2. /\ msg[j].kind = "sync" => cur[msg[j].by] = j /\ pc[msg[j].by] # "idle"
        /\ msg[j].kind = "async" \/ ~msg[j].fin => Somewhere(j)
    BY <1>3, <2>1 DEF IInv, Kept
  <2>3. Somewhere(j) => Somewhere(j)'
    <3>1. InQueue(j) => InQueue(j)'
      BY <1>3 DEF InQueue
    <3>2. InTable(j) => InTable(j)'
      BY <1>3 DEF InTable
    <3>3. InAsync(j) \/ (nmsg' # nmsg /\ j = nmsg) => InAsync(j)'
      BY <2>1
    <3>4. QED
      BY <3>1, <3>2, <3>3 DEF Somewhere
  <2>4. QED
    BY <1>3, <2>2, <2>3
<1>10. Alive'
  <2>1. /\ \A d \in Callers : \A k \in 1 .. Len(reqQueue[d]) : Safe(reqQueue[d][k])
        /\ nmsg # 0 => Safe(nmsg)
        /\ npc = "set" => msg[nmsg].life = "live"
        /\ \A i \in Ids : pending[i] # 0 => Safe(pending[i])
    BY DEF IInv, Alive
  \* what stays where it was is not deleted
  <2>2. ASSUME NEW j \in 1 .. made, Safe(j), ~InAsync(j),
               ~(npc = "finish" /\ nmsg' = 0 /\ j = nmsg)
        PROVE  msg'[j].life = msg[j].life /\ Safe(j)'
    <3>1. msg'[j].life = msg[j].life
      BY <2>2
    <3>2. QED
      BY <1>3, <2>2, <3>1 DEF Safe
  <2>3. ASSUME NEW d \in Callers, NEW k \in 1 .. Len(reqQueue'[d]) PROVE Safe(reqQueue[d][k])'
    <3>1. reqQueue' = reqQueue
      BY <1>3
    <3>2. PICK x \in 1 .. made : x = reqQueue[d][k]
      BY <1>1, <3>1
    <3>3. msg[x].rid = 0 /\ Safe(x)
      BY <2>1, <3>1, <3>2 DEF IInv, Queued
    <3>4. ~InAsync(x) /\ ~(npc = "finish" /\ x = nmsg)
      BY <1>4, <1>5, <3>3
    <3>5. Safe(x)'
      BY <2>2, <3>3, <3>4
    <3>6. QED
      BY <3>1, <3>2, <3>5 DEF Safe
  <2>4. ASSUME NEW i \in Ids, pending'[i] # 0 PROVE Safe(pending[i])'
    <3>1. pending' = pending
      BY <1>3
    <3>2. PICK x \in 1 .. made : x = pending[i]
      BY <1>1, <2>4, <3>1
    <3>3. Safe(x)
      BY <2>1, <2>4, <3>1, <3>2
    <3>4. ~InAsync(x) /\ ~(npc = "finish" /\ x = nmsg)
      BY <1>4, <1>5, <3>2
    <3>5. Safe(x)'
      BY <2>2, <3>3, <3>4
    <3>6. QED
      BY <3>1, <3>2, <3>5 DEF Safe
  <2>5. ASSUME nmsg' # 0
        PROVE  nmsg' = nmsg /\ Safe(nmsg)' /\ msg'[nmsg].life = msg[nmsg].life
    <3>1. nmsg' = nmsg /\ nmsg \in 1 .. made
      BY <1>1, <1>3, <2>5
    <3>2. Safe(nmsg) /\ ~InAsync(nmsg)
      BY <1>4, <2>1, <2>5, <3>1
    <3>3. PICK x \in 1 .. made : x = nmsg
      BY <3>1
    <3>4. msg'[x].life = msg[x].life /\ Safe(x)'
      BY <2>2, <2>5, <3>2, <3>3
    <3>5. QED
      BY <3>1, <3>3, <3>4 DEF Safe
  <2>6. ASSUME NEW k \in 1 .. Len(asyncQueue') PROVE Safe(asyncQueue[k])'
    <3>1. PICK x \in 1 .. made : x = asyncQueue'[k]
      BY <1>2
    <3>2. Safe(x) /\ msg'[x].life = msg[x].life
      BY <1>6, <3>1
    <3>3. QED
      BY <1>3, <3>1, <3>2 DEF Safe
  <2>7. npc' = "set" => msg'[nmsg'].life = "live"
    <3>1. npc' = "set" => npc' = npc /\ nmsg' = nmsg /\ nmsg # 0
      BY <1>1, <1>3 DEF Held
    <3>2. QED
      BY <2>1, <2>5, <3>1
  <2>8. crash' # "freed"
    BY <1>3
  <2>9. QED
    BY <2>3, <2>4, <2>5, <2>6, <2>7, <2>8 DEF Alive
<1>11. Matched'
  <2>1. SUFFICES ASSUME Fresh PROVE Matched'
    BY DEF Matched
  <2>2. ASSUME NEW j \in 1 .. made, Given(j) PROVE Given(j)'
    BY <1>3, <2>2 DEF Given
  <2>3. \A j \in 1 .. made' : msg'[j].fin => Given(j)'
    BY <1>3, <2>1, <2>2 DEF IInv, Matched
  <2>4. npc' \in Finishing => Given(nmsg)'
    <3>1. SUFFICES ASSUME npc' \in Finishing PROVE Given(nmsg)'
      OBVIOUS
    <3>2. npc' = npc /\ nmsg' = nmsg /\ nmsg \in 1 .. made
      BY <1>1, <1>3, <3>1 DEF Finishing, Held
    <3>3. Given(nmsg)
      BY <2>1, <3>1, <3>2 DEF IInv, Matched
    <3>4. ASSUME NEW j \in 1 .. made, j = nmsg, Given(j)' PROVE Given(nmsg)'
      BY <3>2, <3>4 DEF Given
    <3>5. QED
      BY <2>2, <3>2, <3>3, <3>4
  <2>5. ASSUME NEW k \in 1 .. Len(asyncQueue') PROVE Given(asyncQueue[k])'
    <3>1. PICK x \in 1 .. made : x = asyncQueue'[k]
      BY <1>2
    <3>2. Given(x)'
      BY <1>6, <2>1, <2>2, <3>1
    <3>3. QED
      BY <3>1, <3>2 DEF Given
  <2>6. QED
    BY <2>3, <2>4, <2>5 DEF Matched
<1>12. QED
  BY <1>7, <1>8, <1>9, <1>10, <1>11

LEMMA FinishAsyncStep ==
    ASSUME IInv, crash = "no", FinishAsync
    PROVE  IInv'
<1> USE DEF caller, slot, proxy, trans, peer
<1> DEFINE m == nmsg
<1>1. /\ npc = "finish" /\ msg[m].kind = "async" /\ AsyncPush(m) /\ nq' = nq /\ nmsg' = 0
      /\ npc' = (IF nq = None THEN "poll" ELSE "drain")
      /\ UNCHANGED <<made, pc, cur, again, reqQueue, slot, proxy, trans, peer, crash>>
  BY DEF FinishAsync, Finished
<1>2. m \in 1 .. made /\ made \in Nat /\ m # 0
  BY <1>1, HeldTypes DEF IInv, Control, Held
<1>3. /\ asyncQueue \in Seq(1 .. made) /\ Len(asyncQueue) \in Nat /\ Len(asyncQueue) <= AsyncCap
      /\ \A k \in 1 .. Len(asyncQueue) : /\ asyncQueue[k] \in 1 .. made /\ asyncQueue[k] # m
                                         /\ msg[asyncQueue[k]].kind = "async"
                                         /\ \A j \in 1 .. k - 1 : asyncQueue[j] # asyncQueue[k]
  BY HeldTypes DEF IInv, TypeOK, Served
<1> HIDE DEF m
<1>4. \/ /\ Len(asyncQueue) < AsyncCap /\ asyncQueue' = Append(asyncQueue, m) /\ msg' = msg
      \/ /\ asyncQueue' = asyncQueue /\ msg' = [msg EXCEPT ![m].life = "deleted"]
  BY <1>1 DEF AsyncPush
<1>5. /\ msg' \in Seq(ReqMessage) /\ Len(msg') = made
      /\ \A j \in 1 .. made :
            /\ msg'[j].kind = msg[j].kind /\ msg'[j].by = msg[j].by
            /\ msg'[j].lock = msg[j].lock /\ msg'[j].rid = msg[j].rid
            /\ msg'[j].fin = msg[j].fin /\ msg'[j].resp = msg[j].resp
            /\ msg'[j].life # msg[j].life => msg'[j].life = "deleted" /\ j = m
      /\ asyncQueue' = asyncQueue => msg'[m].life = "deleted"
  <2>1. CASE asyncQueue' = Append(asyncQueue, m) /\ msg' = msg
    <3>1. asyncQueue' # asyncQueue
      BY <1>2, <1>3, <2>1, AppendedFacts
    <3>2. QED
      BY <2>1, <3>1 DEF IInv, TypeOK
  <2>2. CASE asyncQueue' = asyncQueue /\ msg' = [msg EXCEPT ![m].life = "deleted"]
    <3>1. /\ msg' \in Seq(ReqMessage) /\ Len(msg') = made
          /\ \A j \in 1 .. made :
                /\ msg'[j].kind = msg[j].kind /\ msg'[j].by = msg[j].by
                /\ msg'[j].lock = msg[j].lock /\ msg'[j].rid = msg[j].rid
                /\ msg'[j].fin = msg[j].fin /\ msg'[j].resp = msg[j].resp
                /\ msg'[j].life = IF j = m THEN "deleted" ELSE msg[j].life
      BY <1>2, <2>2, LifeWritten DEF IInv
    <3>2. QED
      BY <1>2, <3>1
  <2>3. QED
    BY <1>4, <2>1, <2>2
<1>6. /\ asyncQueue' \in Seq(1 .. made) /\ Len(asyncQueue') \in Nat /\ Len(asyncQueue') <= AsyncCap
      /\ \A k \in 1 .. Len(asyncQueue) : k \in 1 .. Len(asyncQueue') /\ asyncQueue'[k] = asyncQueue[k]
      /\ \A k \in 1 .. Len(asyncQueue') :
            \/ k \in 1 .. Len(asyncQueue)
            \/ k = Len(asyncQueue) + 1 /\ asyncQueue'[k] = m /\ msg' = msg
      /\ asyncQueue' # asyncQueue => Len(asyncQueue) + 1 \in 1 .. Len(asyncQueue') /\ asyncQueue'[Len(asyncQueue) + 1] = m
  <2>1. CASE Len(asyncQueue) < AsyncCap /\ asyncQueue' = Append(asyncQueue, m) /\ msg' = msg
    <3>1. /\ asyncQueue' \in Seq(1 .. made) /\ Len(asyncQueue') = Len(asyncQueue) + 1
          /\ \A k \in 1 .. Len(asyncQueue) : asyncQueue'[k] = asyncQueue[k]
          /\ asyncQueue'[Len(asyncQueue) + 1] = m
          /\ \A k \in 1 .. Len(asyncQueue) + 1 : k \in 1 .. Len(asyncQueue) \/ k = Len(asyncQueue) + 1
      BY <1>2, <1>3, <2>1, AppendedFacts
    <3>2. Len(asyncQueue') <= AsyncCap /\ Len(asyncQueue') \in Nat
      BY <1>3, <2>1, <3>1, BoundsAssumption
    <3>3. \A k \in 1 .. Len(asyncQueue) : k \in 1 .. Len(asyncQueue')
      BY <1>3, <3>1
    <3>4. Len(asyncQueue) + 1 \in 1 .. Len(asyncQueue')
      BY <1>3, <3>1
    <3>5. QED
      BY <2>1, <3>1, <3>2, <3>3, <3>4
  <2>2. CASE asyncQueue' = asyncQueue
    BY <1>3, <2>2
  <2>3. QED
    BY <1>4, <2>1, <2>2
<1>7. Quiet
  BY <1>1, <1>5 DEF Quiet, Held, Finishing
<1>8. Passed
  BY <1>1, <1>5, <1>7 DEF Passed
<1>9. TypeOK'
  <2>1. npc' \in {"poll", "drain"} /\ nmsg' \in 0 .. made
    BY <1>1, <1>2
  <2>2. UNCHANGED <<made, pc, cur, again, reqQueue, slot, proxy, trans, peer, crash, nq>>
    BY <1>1
  <2>3. QED
    BY <1>5, <1>6, <2>1, <2>2 DEF IInv, TypeOK
<1>10. /\ Locks' /\ Patient' /\ \A d \in Callers : cur'[d] # 0 => msg'[cur'[d]].by = d
  BY <1>8, PassedCallers
<1>11. Control'
  <2>1. npc' \notin Held /\ nmsg' = 0 /\ npc' # "handle" /\ (npc' \in {"drain", "send"} => nq' # None)
    BY <1>1 DEF Held
  <2>2. QED
    BY <1>1, <1>10, <2>1 DEF IInv, Control
<1>12. ASSUME NEW k \in 1 .. Len(asyncQueue')
       PROVE  /\ msg[asyncQueue'[k]].kind = "async" /\ msg'[asyncQueue'[k]].life = msg[asyncQueue'[k]].life
              /\ InAsync(asyncQueue'[k]) \/ (npc = "finish" /\ nmsg' = 0 /\ asyncQueue'[k] = m)
              /\ \A j \in 1 .. k - 1 : asyncQueue'[j] # asyncQueue'[k]
  <2>1. CASE k \in 1 .. Len(asyncQueue)
    <3>1. /\ asyncQueue'[k] = asyncQueue[k] /\ msg[asyncQueue[k]].kind = "async" /\ asyncQueue[k] # m
          /\ asyncQueue[k] \in 1 .. made
      BY <1>3, <1>6, <2>1
    <3>2. InAsync(asyncQueue'[k])
      BY <2>1, <3>1 DEF InAsync
    <3>3. \A j \in 1 .. k - 1 : j \in 1 .. Len(asyncQueue) /\ asyncQueue'[j] = asyncQueue[j]
      BY <1>3, <1>6, <2>1
    <3>4. \A j \in 1 .. k - 1 : asyncQueue'[j] # asyncQueue'[k]
      BY <1>3, <2>1, <3>1, <3>3
    <3>5. QED
      BY <1>5, <3>1, <3>2, <3>4
  <2>2. CASE k = Len(asyncQueue) + 1 /\ asyncQueue'[k] = m /\ msg' = msg
    <3>1. \A j \in 1 .. k - 1 : j \in 1 .. Len(asyncQueue)
      BY <1>3, <2>2
    <3>2. \A j \in 1 .. k - 1 : asyncQueue'[j] # asyncQueue'[k]
      BY <1>3, <1>6, <2>2, <3>1
    <3>3. QED
      BY <1>1, <2>2, <3>2
  <2>3. QED
    BY <1>6, <2>1, <2>2
<1>13. \A j \in 1 .. made : msg'[j].life # msg[j].life =>
          msg[j].kind = "async" /\ npc = "finish" /\ nmsg' = 0 /\ j = m
  BY <1>1, <1>5
<1>14. ASSUME NEW j \in 1 .. made, msg'[j].life = "live", InAsync(j) \/ j = m
       PROVE  InAsync(j)'
  <2>1. CASE InAsync(j)
    <3>1. PICK k \in 1 .. Len(asyncQueue) : asyncQueue[k] = j
      BY <2>1 DEF InAsync
    <3>2. QED
      BY <1>6, <3>1 DEF InAsync
  <2>2. CASE j = m
    <3>1. asyncQueue' # asyncQueue
      BY <1>5, <1>14, <2>2
    <3>2. QED
      BY <1>6, <2>2, <3>1 DEF InAsync
  <2>3. QED
    BY <1>14, <2>1, <2>2
<1>15. Served' /\ Unfinished' /\ Kept' /\ Alive' /\ Matched'
  BY <1>6, <1>8, <1>12, <1>13, <1>14, PassedQueue DEF m
<1>16. QED
  BY <1>7, <1>9, <1>10, <1>11, <1>15, QuietOrdered DEF IInv

LEMMA AsyncRunStep ==
    ASSUME IInv, crash = "no", AsyncRun
    PROVE  IInv'
<1> USE DEF caller, slot, net, proxy, trans, peer
<1> DEFINE m == Head(asyncQueue)
<1>1. /\ asyncQueue # <<>> /\ msg' = [msg EXCEPT ![m].life = "deleted"] /\ asyncQueue' = Tail(asyncQueue)
      /\ UNCHANGED <<made, pc, cur, again, reqQueue, slot, net, proxy, trans, peer, crash>>
  BY DEF AsyncRun
<1>2. /\ asyncQueue \in Seq(1 .. made) /\ Len(asyncQueue) <= AsyncCap
      /\ \A k \in 1 .. Len(asyncQueue) : /\ msg[asyncQueue[k]].kind = "async"
                                         /\ \A j \in 1 .. k - 1 : asyncQueue[j] # asyncQueue[k]
  BY DEF IInv, TypeOK, Served
<1>3. /\ asyncQueue' \in Seq(1 .. made) /\ m = asyncQueue[1] /\ m \in 1 .. made /\ 1 \in 1 .. Len(asyncQueue)
      /\ Len(asyncQueue) \in Nat /\ Len(asyncQueue') = Len(asyncQueue) - 1
      /\ \A k \in 1 .. Len(asyncQueue') : /\ asyncQueue'[k] = asyncQueue[k + 1]
                                          /\ k + 1 \in 1 .. Len(asyncQueue) /\ 1 < k + 1
      /\ \A k \in 1 .. Len(asyncQueue) : k # 1 => k - 1 \in 1 .. Len(asyncQueue') /\ asyncQueue'[k - 1] = asyncQueue[k]
  <2>1. asyncQueue # <<>> /\ asyncQueue' = Tail(asyncQueue)
    BY <1>1
  <2>2. /\ Tail(asyncQueue) \in Seq(1 .. made) /\ m = asyncQueue[1] /\ m \in 1 .. made /\ 1 \in 1 .. Len(asyncQueue)
        /\ Len(asyncQueue) \in Nat /\ Len(Tail(asyncQueue)) = Len(asyncQueue) - 1
        /\ \A k \in 1 .. Len(Tail(asyncQueue)) : /\ Tail(asyncQueue)[k] = asyncQueue[k + 1]
                                                  /\ k + 1 \in 1 .. Len(asyncQueue) /\ 1 < k + 1
        /\ \A k \in 1 .. Len(asyncQueue) : k # 1 =>
              k - 1 \in 1 .. Len(Tail(asyncQueue)) /\ Tail(asyncQueue)[k - 1] = asyncQueue[k]
    BY <1>2, <2>1, TailedFacts, Zenon
  <2>3. QED
    BY <2>1, <2>2
<1> HIDE DEF m
<1>4. /\ msg' \in Seq(ReqMessage) /\ Len(msg') = made
      /\ \A j \in 1 .. made :
            /\ msg'[j].kind = msg[j].kind /\ msg'[j].by = msg[j].by
            /\ msg'[j].lock = msg[j].lock /\ msg'[j].rid = msg[j].rid
            /\ msg'[j].fin = msg[j].fin /\ msg'[j].resp = msg[j].resp
            /\ msg'[j].life = IF j = m THEN "deleted" ELSE msg[j].life
  BY <1>1, <1>3, LifeWritten DEF IInv
<1>5. Quiet
  BY <1>1, <1>4 DEF Quiet, Held, Finishing
<1>6. Passed
  BY <1>1, <1>4, <1>5 DEF Passed
<1>7. TypeOK'
  <2>1. Len(asyncQueue') <= AsyncCap
    BY <1>2, <1>3, BoundsAssumption
  <2>2. UNCHANGED <<made, pc, cur, again, reqQueue, slot, net, proxy, trans, peer, crash>>
    BY <1>1
  <2>3. asyncQueue' \in Seq(1 .. made) /\ msg' \in Seq(ReqMessage) /\ Len(msg') = made
    BY <1>3, <1>4
  <2>4. QED
    BY <2>1, <2>2, <2>3, SMTT(30) DEF IInv, TypeOK
<1>8. /\ Locks' /\ Patient' /\ \A d \in Callers : cur'[d] # 0 => msg'[cur'[d]].by = d
  BY <1>6, PassedCallers
<1>9. Control'
  BY <1>1, <1>8 DEF IInv, Control
<1>10. ASSUME NEW k \in 1 .. Len(asyncQueue')
       PROVE  /\ msg[asyncQueue'[k]].kind = "async" /\ msg'[asyncQueue'[k]].life = msg[asyncQueue'[k]].life
              /\ InAsync(asyncQueue'[k])
              /\ \A j \in 1 .. k - 1 : asyncQueue'[j] # asyncQueue'[k]
  <2>1. asyncQueue'[k] = asyncQueue[k + 1] /\ k + 1 \in 1 .. Len(asyncQueue) /\ 1 \in 1 .. (k + 1) - 1
    BY <1>3
  <2>2. asyncQueue[k + 1] # m /\ asyncQueue[k + 1] \in 1 .. made /\ msg[asyncQueue[k + 1]].kind = "async"
    <3>1. asyncQueue[k + 1] \in 1 .. made
      BY <1>2, <2>1, Entries
    <3>2. asyncQueue[1] # asyncQueue[k + 1] /\ msg[asyncQueue[k + 1]].kind = "async"
      BY <1>2, <2>1
    <3>3. QED
      BY <1>3, <3>1, <3>2
  <2>3. InAsync(asyncQueue'[k])
    BY <2>1 DEF InAsync
  <2>4. ASSUME NEW j \in 1 .. k - 1 PROVE asyncQueue'[j] # asyncQueue'[k]
    <3>1. j \in 1 .. Len(asyncQueue') /\ j + 1 \in 1 .. (k + 1) - 1
      BY <1>3
    <3>2. QED
      BY <1>2, <1>3, <2>1, <3>1
  <2>5. QED
    BY <1>4, <2>1, <2>2, <2>3, <2>4
<1>11. \A j \in 1 .. made : msg'[j].life # msg[j].life => msg[j].kind = "async" /\ InAsync(j)
  BY <1>2, <1>3, <1>4 DEF InAsync
<1>12. ASSUME NEW j \in 1 .. made, msg'[j].life = "live", InAsync(j)
       PROVE  InAsync(j)'
  <2>1. j # m
    BY <1>4, <1>12
  <2>2. PICK k \in 1 .. Len(asyncQueue) : asyncQueue[k] = j
    BY <1>12 DEF InAsync
  <2>3. k # 1
    BY <1>3, <2>1, <2>2
  <2>4. QED
    BY <1>3, <2>2, <2>3 DEF InAsync
<1>13. Served' /\ Unfinished' /\ Kept' /\ Alive' /\ Matched'
  <2>1. nmsg' = nmsg
    BY <1>1
  <2>2. QED
    BY <1>3, <1>6, <1>10, <1>11, <1>12, <2>1, PassedQueue
<1>14. QED
  BY <1>5, <1>7, <1>8, <1>9, <1>13, QuietOrdered DEF IInv

-----------------------------------------------------------------------------
(* The invariant holds. *)

LEMMA Initial == Init => IInv
<1>1. SUFFICES ASSUME Init PROVE IInv
  OBVIOUS
<1> USE DEF Init
<1>2. TypeOK
  <2>1. made \in 0 .. MaxCalls /\ id \in 0 .. IdMod - 1 /\ made = 0 /\ 0 \in 0 .. made
    BY <1>1, Constants
  <2>2. msg \in Seq(ReqMessage) /\ Len(msg) = made /\ unsent \in Seq(Ids) /\ wire \in Seq(Request)
    BY <1>1
  <2>3. answered \subseteq 1 .. Len(wire) /\ inbound \in Seq(Piece)
    BY <1>1
  <2>4. asyncQueue \in Seq(1 .. made) /\ Len(asyncQueue) <= AsyncCap
    BY <1>1, BoundsAssumption
  <2>5. reqQueue \in [Callers -> Seq(1 .. made)] /\ \A c \in Callers : Len(reqQueue[c]) <= QueueCap
    BY <1>1, BoundsAssumption
  <2>6. pending \in [Ids -> 0 .. made] /\ cur \in [Callers -> 0 .. made]
    BY <1>1, <2>1
  <2>7. again \in [Callers -> BOOLEAN]
    BY <1>1
  <2>8. QED
    BY <1>1, <2>1, <2>2, <2>3, <2>4, <2>5, <2>6, <2>7 DEF TypeOK
<1>3. Control /\ Queued
  BY <1>1 DEF Control, Held, Queued
<1>4. Served /\ Unfinished /\ Locks
  BY <1>1 DEF Served, Unfinished, Locks, Finishing
<1>5. Kept /\ Patient /\ Alive /\ Ordered
  BY <1>1 DEF Kept, Patient, Looking, Alive, Ordered
<1>6. Numbered
  <2>1. Sent = {}
    BY <1>1 DEF Sent
  <2>2. Cardinality({}) = 0
    BY FS_EmptySet
  <2>3. QED
    BY <1>1, <2>1, <2>2 DEF Numbered
<1>7. OnWire /\ Begins /\ Matched
  BY <1>1 DEF OnWire, Begins, Matched, Finishing
<1>8. QED
  BY <1>2, <1>3, <1>4, <1>5, <1>6, <1>7 DEF IInv

LEMMA Inductive == IInv /\ [Next]_vars => IInv'
<1>1. SUFFICES ASSUME IInv, [Next]_vars PROVE IInv'
  OBVIOUS
<1>2. CASE UNCHANGED vars
  <2>1. UNCHANGED <<msg, made, pc, cur, again, reqQueue, p, valid, added, armed, npc, nq, nmsg, id, pending, unsent>>
    BY <1>2 DEF vars, caller, slot, net, proxy
  <2>2. UNCHANGED <<conn, sendBuf, wire, answered, partial, inbound, eof, readable, asyncQueue, crash>>
    BY <1>2 DEF vars, trans, peer
  <2>3. TypeOK' /\ Control' /\ Queued' /\ Served'
    BY <1>1, <2>1, <2>2 DEF IInv, TypeOK, Control, Queued, Served
  <2>4. Unfinished' /\ Locks' /\ Patient' /\ Alive' /\ Ordered'
    BY <1>1, <2>1, <2>2 DEF IInv, Unfinished, Locks, Patient, Alive, Safe, Ordered
  <2>5. Kept'
    BY <1>1, <2>1, <2>2 DEF IInv, Kept, Somewhere, InQueue, InTable, InAsync
  <2>6. Numbered' /\ OnWire' /\ Begins' /\ Matched'
    BY <1>1, <2>1, <2>2 DEF IInv, Numbered, Sent, OnWire, Begins, Matched, Given
  <2>7. QED
    BY <2>3, <2>4, <2>5, <2>6 DEF IInv
<1>3. CASE Next
  <2>1. crash = "no"
    BY <1>3 DEF Next
  <2>2. ASSUME NEW c \in Callers, Caller(c) PROVE IInv'
    BY <1>1, <2>1, <2>2, InvokeStep, NotifySteps, CheckSteps, LookSteps, ReturnStep DEF Caller
  <2>3. CASE NetThread
    <3>1. CASE Drain
      BY <1>1, <2>1, <3>1, DrainEmpty, DrainOne
    <3>2. CASE PollNotify \/ Handle \/ ReadClosed
      BY <1>1, <2>1, <3>2, PeerSteps
    <3>3. CASE SendReqMessage \/ ReadResponse
      BY <1>1, <2>1, <3>3, SendStep, ReadStep
    <3>4. CASE FinishLock \/ FinishSet \/ FinishSignal \/ FinishUnlock \/ FinishAsync
      BY <1>1, <2>1, <3>4, FinishLockStep, FinishSetStep, FinishSignalStep, FinishAsyncStep
    <3>5. QED
      BY <2>3, <3>1, <3>2, <3>3, <3>4 DEF NetThread
  <2>4. CASE AsyncRun
    BY <1>1, <2>1, <2>4, AsyncRunStep
  <2>5. CASE Server \/ PeerClose
    BY <1>1, <2>1, <2>5, PeerSteps DEF Server
  <2>6. QED
    BY <1>3, <2>2, <2>3, <2>4, <2>5 DEF Next
<1>4. QED
  BY <1>1, <1>2, <1>3

LEMMA Invariance == Spec => []IInv
<1>1. QED
  BY Initial, Inductive, PTL DEF Spec

-----------------------------------------------------------------------------
(* Who owns a message. *)

LEMMA HolderKinds ==
    ASSUME TypeOK, NEW m \in 1 .. made, NEW x
    PROVE  x \in Holders(m) <=>
              \/ \E c \in Callers : \E k \in 1 .. Len(reqQueue[c]) : x = <<c, k>> /\ reqQueue[c][k] = m
              \/ x = <<Net, m>> /\ nmsg = m
              \/ \E i \in Ids : x = <<"pending", i>> /\ pending[i] = m
              \/ \E k \in 1 .. Len(asyncQueue) : x = <<"async", k>> /\ asyncQueue[k] = m
<1>1. \A c \in Callers : Len(reqQueue[c]) \in Nat /\ Len(reqQueue[c]) <= QueueCap
  BY HeldTypes DEF TypeOK
<1>2. ASSUME NEW c \in Callers, NEW k \in 1 .. Len(reqQueue[c])
      PROVE  k \in 1 .. QueueCap /\ k <= Len(reqQueue[c])
  BY <1>1, BoundsAssumption
<1>3. ASSUME NEW c \in Callers, NEW k \in 1 .. QueueCap, k <= Len(reqQueue[c])
      PROVE  k \in 1 .. Len(reqQueue[c])
  BY <1>1, <1>3, BoundsAssumption
<1>4. x \in {y \in Callers \X (1 .. QueueCap) : y[2] <= Len(reqQueue[y[1]]) /\ reqQueue[y[1]][y[2]] = m} <=>
        \E c \in Callers : \E k \in 1 .. Len(reqQueue[c]) : x = <<c, k>> /\ reqQueue[c][k] = m
  BY <1>2, <1>3
<1>5. QED
  BY <1>4 DEF Holders

\* A message is held once.
LEMMA OneHolder ==
    ASSUME IInv, NEW m \in 1 .. made, NEW x \in Holders(m), NEW y \in Holders(m)
    PROVE  x = y
<1>1. /\ \A c \in Callers : Len(reqQueue[c]) \in Nat /\ \A k \in 1 .. Len(reqQueue[c]) : reqQueue[c][k] \in Nat
      /\ Len(asyncQueue) \in Nat /\ m \in Nat /\ m # 0
      /\ npc \in Held <=> nmsg # 0
  BY HeldTypes DEF IInv, Control
\* one that waits in a queue is not elsewhere
<1>2. ASSUME NEW c \in Callers, NEW k \in 1 .. Len(reqQueue[c]), reqQueue[c][k] = m
      PROVE  /\ msg[m].by = c /\ msg[m].rid = 0 /\ nmsg # m
             /\ \A j \in 1 .. Len(reqQueue[c]) : reqQueue[c][j] = m => j = k
             /\ \A i \in Ids : pending[i] # m
             /\ \A j \in 1 .. Len(asyncQueue) : asyncQueue[j] # m
  <2>1. msg[m].by = c /\ msg[m].rid = 0
    BY <1>2 DEF IInv, Queued
  <2>2. \A i \in Ids : pending[i] # m
    BY <1>1, <2>1, Constants DEF IInv, Served
  <2>3. \A j \in 1 .. Len(asyncQueue) : asyncQueue[j] # m
    BY <2>1 DEF IInv, Served
  <2>4. nmsg # m
    <3>1. SUFFICES ASSUME nmsg = m PROVE FALSE
      OBVIOUS
    <3>2. npc = "send"
      BY <1>1, <2>1, <3>1 DEF IInv, Served, Held, Finishing
    <3>3. nq = c /\ m < reqQueue[nq][k]
      BY <1>2, <2>1, <3>1, <3>2 DEF IInv, Queued
    <3>4. QED
      BY <1>1, <1>2, <3>3
  <2>5. ASSUME NEW j \in 1 .. Len(reqQueue[c]), reqQueue[c][j] = m PROVE j = k
    <3>1. j \in 1 .. k - 1 => reqQueue[c][j] < reqQueue[c][k]
      BY DEF IInv, Queued
    <3>2. k \in 1 .. j - 1 => reqQueue[c][k] < reqQueue[c][j]
      BY DEF IInv, Queued
    <3>3. j \in 1 .. k - 1 \/ k \in 1 .. j - 1 \/ j = k
      BY <1>1
    <3>4. ~(m < m)
      BY <1>1
    <3>5. QED
      BY <1>2, <2>5, <3>1, <3>2, <3>3, <3>4
  <2>6. QED
    BY <2>1, <2>2, <2>3, <2>4, <2>5
<1>3. nmsg = m => /\ \A i \in Ids : pending[i] # m
                  /\ \A j \in 1 .. Len(asyncQueue) : asyncQueue[j] # m
  BY <1>1 DEF IInv, Served
<1>4. ASSUME NEW i \in Ids, pending[i] = m
      PROVE  /\ \A j \in Ids : pending[j] = m => j = i
             /\ \A j \in 1 .. Len(asyncQueue) : asyncQueue[j] # m
  BY <1>1, <1>4 DEF IInv, Served
<1>5. ASSUME NEW k \in 1 .. Len(asyncQueue), NEW j \in 1 .. Len(asyncQueue), asyncQueue[k] = m, asyncQueue[j] = m
      PROVE  j = k
  <2>1. j \in 1 .. k - 1 => asyncQueue[j] # asyncQueue[k]
    BY DEF IInv, Served
  <2>2. k \in 1 .. j - 1 => asyncQueue[k] # asyncQueue[j]
    BY DEF IInv, Served
  <2>3. j \in 1 .. k - 1 \/ k \in 1 .. j - 1 \/ j = k
    BY <1>1
  <2>4. QED
    BY <1>5, <2>1, <2>2, <2>3
<1>6. ASSUME NEW z
      PROVE  z \in Holders(m) <=>
              \/ \E c \in Callers : \E k \in 1 .. Len(reqQueue[c]) : z = <<c, k>> /\ reqQueue[c][k] = m
              \/ z = <<Net, m>> /\ nmsg = m
              \/ \E i \in Ids : z = <<"pending", i>> /\ pending[i] = m
              \/ \E k \in 1 .. Len(asyncQueue) : z = <<"async", k>> /\ asyncQueue[k] = m
  BY HolderKinds DEF IInv
<1>7. CASE \E c \in Callers : \E k \in 1 .. Len(reqQueue[c]) : x = <<c, k>> /\ reqQueue[c][k] = m
  <2>1. PICK c \in Callers : \E k \in 1 .. Len(reqQueue[c]) : x = <<c, k>> /\ reqQueue[c][k] = m
    BY <1>7
  <2>2. PICK k \in 1 .. Len(reqQueue[c]) : x = <<c, k>> /\ reqQueue[c][k] = m
    BY <2>1
  <2>3. /\ msg[m].by = c /\ nmsg # m
        /\ \A j \in 1 .. Len(reqQueue[c]) : reqQueue[c][j] = m => j = k
        /\ \A i \in Ids : pending[i] # m
        /\ \A j \in 1 .. Len(asyncQueue) : asyncQueue[j] # m
    BY <1>2, <2>2
  <2>4. PICK d \in Callers : \E j \in 1 .. Len(reqQueue[d]) : y = <<d, j>> /\ reqQueue[d][j] = m
    BY <1>6, <2>3
  <2>5. PICK j \in 1 .. Len(reqQueue[d]) : y = <<d, j>> /\ reqQueue[d][j] = m
    BY <2>4
  <2>6. d = c
    BY <1>2, <2>3, <2>5
  <2>7. QED
    BY <2>2, <2>3, <2>5, <2>6
<1>8. CASE x = <<Net, m>> /\ nmsg = m
  BY <1>2, <1>3, <1>6, <1>8
<1>9. CASE \E i \in Ids : x = <<"pending", i>> /\ pending[i] = m
  <2>1. PICK i \in Ids : x = <<"pending", i>> /\ pending[i] = m
    BY <1>9
  <2>2. PICK j \in Ids : y = <<"pending", j>> /\ pending[j] = m
    BY <1>2, <1>3, <1>4, <1>6, <2>1
  <2>3. QED
    BY <1>4, <2>1, <2>2
<1>10. CASE \E k \in 1 .. Len(asyncQueue) : x = <<"async", k>> /\ asyncQueue[k] = m
  <2>1. PICK k \in 1 .. Len(asyncQueue) : x = <<"async", k>> /\ asyncQueue[k] = m
    BY <1>10
  <2>2. PICK j \in 1 .. Len(asyncQueue) : y = <<"async", j>> /\ asyncQueue[j] = m
    BY <1>2, <1>3, <1>4, <1>6, <2>1
  <2>3. QED
    BY <1>5, <2>1, <2>2
<1>11. QED
  BY <1>6, <1>7, <1>8, <1>9, <1>10

LEMMA SomeHolder ==
    ASSUME TypeOK, NEW m \in 1 .. made, Somewhere(m)
    PROVE  Holders(m) # {}
<1>1. ASSUME NEW z
      PROVE  z \in Holders(m) <=>
              \/ \E c \in Callers : \E k \in 1 .. Len(reqQueue[c]) : z = <<c, k>> /\ reqQueue[c][k] = m
              \/ z = <<Net, m>> /\ nmsg = m
              \/ \E i \in Ids : z = <<"pending", i>> /\ pending[i] = m
              \/ \E k \in 1 .. Len(asyncQueue) : z = <<"async", k>> /\ asyncQueue[k] = m
  BY HolderKinds
<1>2. \E z : z \in Holders(m)
  <2>1. CASE InQueue(m)
    BY <1>1, <2>1 DEF InQueue
  <2>2. CASE nmsg = m
    BY <1>1, <2>2
  <2>3. CASE InTable(m)
    BY <1>1, <2>3 DEF InTable
  <2>4. CASE InAsync(m)
    BY <1>1, <2>4 DEF InAsync
  <2>5. QED
    BY <2>1, <2>2, <2>3, <2>4 DEF Somewhere
<1>3. QED
  BY <1>2

LEMMA OwnedFromInv ==
    ASSUME IInv
    PROVE  Owned
<1>0. crash = "freed" => Spurious
  BY DEF IInv, Alive
<1>1. SUFFICES ASSUME NEW m \in 1 .. made
               PROVE  CASE msg[m].life = "live" /\ msg[m].kind = "async" -> Cardinality(Holders(m)) = 1
                        [] msg[m].life = "live" /\ msg[m].kind = "sync" ->
                              /\ cur[msg[m].by] = m /\ pc[msg[m].by] # "idle"
                              /\ IF msg[m].fin THEN Holders(m) \subseteq {<<Net, m>>}
                                               ELSE Cardinality(Holders(m)) = 1
                        [] OTHER -> \/ Cardinality(Holders(m)) = 0
                                    \/ Spurious /\ msg[m].kind = "sync" /\ ~msg[m].fin /\ Cardinality(Holders(m)) = 1
                                    \/ crash = "mutex" /\ Holders(m) = {<<Net, m>>}
  BY <1>0 DEF Owned
<1>2. msg[m].life \in {"live", "deleted"} /\ msg[m].kind \in {"sync", "async"} /\ msg[m].fin \in BOOLEAN /\ m # 0
  BY MessageFacts DEF IInv
<1>3. ASSUME NEW z
      PROVE  z \in Holders(m) <=>
              \/ \E c \in Callers : \E k \in 1 .. Len(reqQueue[c]) : z = <<c, k>> /\ reqQueue[c][k] = m
              \/ z = <<Net, m>> /\ nmsg = m
              \/ \E i \in Ids : z = <<"pending", i>> /\ pending[i] = m
              \/ \E k \in 1 .. Len(asyncQueue) : z = <<"async", k>> /\ asyncQueue[k] = m
  BY HolderKinds DEF IInv
<1>4. Somewhere(m) => Cardinality(Holders(m)) = 1
  <2>1. SUFFICES ASSUME Somewhere(m) PROVE \E x : Holders(m) = {x}
    BY FS_Singleton
  <2>2. PICK x : x \in Holders(m)
    BY <2>1, SomeHolder DEF IInv
  <2>3. \A y \in Holders(m) : y = x
    BY <2>2, OneHolder
  <2>4. QED
    BY <2>2, <2>3
<1>5. ASSUME msg[m].life = "deleted"
      PROVE  \/ Cardinality(Holders(m)) = 0
             \/ Spurious /\ msg[m].kind = "sync" /\ ~msg[m].fin /\ Cardinality(Holders(m)) = 1
             \/ crash = "mutex" /\ Holders(m) = {<<Net, m>>}
  <2>1. CASE ~Somewhere(m)
    <3>1. Holders(m) = {}
      BY <1>3, <2>1 DEF Somewhere, InQueue, InTable, InAsync
    <3>2. QED
      BY <3>1, FS_EmptySet
  <2>2. CASE Somewhere(m) /\ (Safe(m) \/ ~(nmsg = m))
    <3>1. Safe(m)
      BY <1>2, <2>2 DEF IInv, Alive, Somewhere, InQueue, InTable, InAsync
    <3>2. QED
      BY <1>4, <1>5, <2>2, <3>1 DEF Safe
  <2>3. CASE nmsg = m /\ ~Safe(m)
    <3>1. crash = "mutex"
      BY <1>2, <2>3 DEF IInv, Alive
    <3>2. <<Net, m>> \in Holders(m)
      BY <1>3, <2>3
    <3>3. \A y \in Holders(m) : y = <<Net, m>>
      BY <3>2, OneHolder
    <3>4. QED
      BY <3>1, <3>2, <3>3
  <2>4. QED
    BY <2>1, <2>2, <2>3
<1>6. msg[m].life = "live" /\ msg[m].kind = "async" => Cardinality(Holders(m)) = 1
  BY <1>4 DEF IInv, Kept
<1>7. ASSUME msg[m].life = "live", msg[m].kind = "sync"
      PROVE  /\ cur[msg[m].by] = m /\ pc[msg[m].by] # "idle"
             /\ msg[m].fin => Holders(m) \subseteq {<<Net, m>>}
             /\ ~msg[m].fin => Cardinality(Holders(m)) = 1
  <2>1. /\ cur[msg[m].by] = m /\ pc[msg[m].by] # "idle"
        /\ ~msg[m].fin => Cardinality(Holders(m)) = 1
    BY <1>4, <1>7 DEF IInv, Kept
  <2>2. msg[m].fin => /\ \A c \in Callers : \A k \in 1 .. Len(reqQueue[c]) : reqQueue[c][k] # m
                      /\ \A i \in Ids : pending[i] # m
                      /\ \A k \in 1 .. Len(asyncQueue) : asyncQueue[k] # m
    BY <1>2 DEF IInv, Unfinished
  <2>3. QED
    BY <1>3, <2>1, <2>2
<1>8. CASE msg[m].life = "deleted"
  BY <1>5, <1>8
<1>9. CASE msg[m].life = "live" /\ msg[m].kind = "async"
  BY <1>6, <1>9
<1>10. CASE msg[m].life = "live" /\ msg[m].kind = "sync"
  BY <1>2, <1>7, <1>10
<1>11. QED
  BY <1>2, <1>8, <1>9, <1>10

-----------------------------------------------------------------------------
(* The results. *)

\* The fields of the ReqMessages, the queues and the timeout queue of the
\* client keep their types, and no queue is longer than its capacity, with
\* any number of threads calling (ServantProxy.cc:19-80, ObjectProxy.cc:14-93).
THEOREM TypeCorrect == Spec => []TypeOK
<1>1. IInv => TypeOK
  BY DEF IInv
<1>2. QED
  BY <1>1, Invariance, PTL

\* Every message is freed once and by the one who still has it: no response,
\* retry or callback touches freed memory and none leaks, unless
\* pthread_cond_wait returned spuriously, which leaves one pointer to the
\* deleted message, or the caller destroyed the mutex under the network
\* thread, which has the only pointer (ServantProxy.cc:24,59-74,
\* ObjectProxy.cc:30-44,75-93, AsyncProcThread.cc:23-35,46-53).
THEOREM Ownership == Spec => []Owned
<1>1. IInv => Owned
  BY OwnedFromInv
<1>2. QED
  BY <1>1, Invariance, PTL

\* As long as the request ids have not wrapped, requests reach the wire in
\* the order in which they were taken from the queues, without a gap, and
\* nothing follows a request of which only a part was sent
\* (Transceiver.cc:76-106, ObjectProxy.cc:14-44).
THEOREM Ordering ==
    ASSUME MaxCalls < IdMod
    PROVE  Spec => []WireOrder
<1>1. IInv => WireOrder
  <2>1. SUFFICES ASSUME IInv PROVE WireOrder
    OBVIOUS
  <2>2. \A k \in 1 .. Len(wire) : wire[k].id = k /\ (k < Len(wire) => wire[k].part = "whole")
    BY <2>1 DEF IInv, OnWire, Fresh
  <2>3. \A k \in 1 .. Len(wire) : \A j \in 1 .. k - 1 :
            msg[wire[j].m].by = msg[wire[k].m].by => wire[j].m < wire[k].m
    BY <2>1 DEF IInv, Ordered
  <2>4. QED
    BY <2>2, <2>3 DEF WireOrder
<1>2. QED
  BY <1>1, Invariance, PTL

\* As long as the ids have not wrapped, a call that is finished has a
\* response, and one that starts where an answer starts belongs to this very
\* call: in whatever order the server answers, however the stream is cut
\* into reads, and whether or not some wait returned spuriously
\* (ObjectProxy.cc:18,67-83, Transceiver.cc:108-150).
THEOREM OwnAnswers ==
    ASSUME MaxCalls < IdMod
    PROVE  Spec => OwnResponse
<1> DEFINE A == /\ \A c \in Callers : pc[c] = "return" /\ pc'[c] = "idle" /\ msg[cur[c]].fin => Own(cur[c])
                /\ Len(asyncQueue') < Len(asyncQueue) => Own(Head(asyncQueue))
<1>1. IInv /\ [Next]_vars => [A]_vars
  <2>1. SUFFICES ASSUME IInv, Next PROVE A
    BY Zenon
  <2>2. ASSUME NEW c \in Callers, pc[c] = "return", msg[cur[c]].fin PROVE Given(cur[c])
    <3>1. cur[c] \in 1 .. made
      BY <2>1, <2>2, HeldTypes DEF IInv, Control
    <3>2. QED
      BY <2>1, <2>2, <3>1 DEF IInv, Matched, Fresh
  <2>3. ASSUME Len(asyncQueue') < Len(asyncQueue) PROVE Given(Head(asyncQueue))
    <3>1. asyncQueue \in Seq(1 .. made) /\ Len(asyncQueue) \in Nat
      BY <2>1, HeldTypes DEF IInv, TypeOK
    <3>2. asyncQueue' \in Seq(1 .. made')
      <4>1. IInv'
        BY <2>1, Inductive
      <4>2. QED
        BY <4>1 DEF IInv, TypeOK
    <3>3. asyncQueue # <<>>
      BY <2>3, <3>1, <3>2
    <3>4. Head(asyncQueue) = asyncQueue[1] /\ 1 \in 1 .. Len(asyncQueue)
      BY <3>1, <3>3, TailedFacts, Zenon
    <3>5. QED
      BY <2>1, <3>4 DEF IInv, Matched, Fresh
  <2>4. QED
    BY <2>2, <2>3 DEF Given, Own
<1>2. QED
  BY <1>1, Initial, Inductive, PTL DEF Spec, OwnResponse
=============================================================================
