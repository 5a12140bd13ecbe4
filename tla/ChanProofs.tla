----------------------------- MODULE ChanProofs -----------------------------
(***************************************************************************)
(* Proofs about Chan, for any goroutines, channels and capacities: its     *)
(* types and locks, then the inductive invariant IInv of ChanInv and with  *)
(* it NoThrow, NoMissedRendezvous and QueuedInScope, and at the end the    *)
(* refinement of ChanAbs.                                                  *)
(***************************************************************************)
EXTENDS ChanInv, FiniteSetTheorems, SequenceTheorems, WellFoundedInduction, TLAPS

(***************************************************************************)
(* Lemmas about the wait queues.                                           *)
(***************************************************************************)
(* Every non-empty set of naturals has a least element.                    *)
LEMMA LeastNat ==
    ASSUME NEW S \in SUBSET Nat, S # {}
    PROVE  \E k \in S : \A j \in S : k <= j
<1> DEFINE R == OpToRel(<, Nat)
<1>1. \E x \in S : \A y \in S : ~(<<y, x>> \in R)
  <2>1. IsWellFoundedOn(R, Nat)
    BY NatLessThanWellFounded
  <2> HIDE DEF R
  <2> QED BY <2>1, WFMin
<1>2. \A x, y \in Nat : ~(<<y, x>> \in R) => x <= y
  BY DEF OpToRel
<1> QED BY <1>1, <1>2

(* dequeue finds the first live SudoG, when there is one.                  *)
LEMMA FirstLive ==
    ASSUME NEW q \in Seq(Sudog), LiveAt(q) # {}
    PROVE  /\ First(q) \in 1 .. Len(q) /\ Live(q[First(q)]) /\ q[First(q)] \in Sudog
           /\ \A j \in LiveAt(q) : First(q) <= j
<1>1. LiveAt(q) \in SUBSET Nat
  BY DEF LiveAt
<1>2. \E k \in LiveAt(q) : \A j \in LiveAt(q) : k <= j
  BY <1>1, LeastNat
<1>3. First(q) \in LiveAt(q) /\ \A j \in LiveAt(q) : First(q) <= j
  BY <1>2 DEF First
<1> DEFINE n == First(q)
<1>4. n \in 1 .. Len(q) /\ Live(q[n])
  BY <1>3 DEF LiveAt
<1> HIDE DEF n
<1>5. q[n] \in Sudog
  BY <1>4
<1> QED BY <1>3, <1>4, <1>5 DEF n

(* dequeueg finds the first SudoG of g within the queue.                   *)
LEMMA FirstOwned ==
    ASSUME NEW q \in Seq(Sudog), NEW g, OwnAt(q, g) # {}
    PROVE  FirstOwn(q, g) \in 1 .. Len(q) /\ FirstOwn(q, g) \in OwnAt(q, g)
<1>1. OwnAt(q, g) \in SUBSET Nat
  BY DEF OwnAt
<1>2. \E k \in OwnAt(q, g) : \A j \in OwnAt(q, g) : k <= j
  BY <1>1, LeastNat
<1> QED BY <1>2 DEF FirstOwn, OwnAt

(* Queue a is queue b with some SudoGs unlinked.                           *)
SubQueue(a, b) ==
    \E f \in [1 .. Len(a) -> 1 .. Len(b)] :
        /\ \A j, k \in 1 .. Len(a) : j # k => f[j] # f[k]
        /\ \A k \in 1 .. Len(a) : a[k] = b[f[k]]

(* Queue a is queue b with some SudoGs unlinked, the n-th one for sure.    *)
SubQueueBut(a, b, n) ==
    \E f \in [1 .. Len(a) -> 1 .. Len(b)] :
        /\ \A j, k \in 1 .. Len(a) : j # k => f[j] # f[k]
        /\ \A k \in 1 .. Len(a) : a[k] = b[f[k]] /\ f[k] # n

(* A queue left alone is a part of itself.                                 *)
LEMMA SubQueueSelf ==
    ASSUME NEW q \in Seq(Sudog)
    PROVE  SubQueue(q, q)
<1> DEFINE f == [k \in 1 .. Len(q) |-> k]
<1>1. f \in [1 .. Len(q) -> 1 .. Len(q)]
  OBVIOUS
<1> QED BY <1>1 DEF SubQueue

(* The empty queue is a part of every queue.                               *)
LEMMA SubQueueEmpty ==
    ASSUME NEW q \in Seq(Sudog)
    PROVE  <<>> \in Seq(Sudog) /\ SubQueue(<<>>, q)
<1> DEFINE f == [k \in 1 .. Len(<<>>) |-> k]
<1>1. Len(<<>>) = 0 /\ <<>> \in Seq(Sudog)
  BY EmptySeq
<1>2. f \in [1 .. Len(<<>>) -> 1 .. Len(q)]
  BY <1>1
<1>3. \A k \in 1 .. Len(<<>>) : FALSE
  BY <1>1
<1> QED BY <1>1, <1>2, <1>3 DEF SubQueue

(* dequeue returns a live SudoG of the queue and leaves a part of the      *)
(* queue behind.                                                           *)
LEMMA DequeuedQueue ==
    ASSUME NEW q \in Seq(Sudog)
    PROVE  /\ Dequeued(q) \in Seq(Sudog)
           /\ SubQueue(Dequeued(q), q)
           /\ LiveAt(q) # {} =>
                \A k \in 1 .. Len(Dequeued(q)) :
                    k + First(q) \in 1 .. Len(q) /\ Dequeued(q)[k] = q[k + First(q)]
<1>1. CASE LiveAt(q) = {}
  BY <1>1, SubQueueEmpty DEF Dequeued
<1>2. CASE LiveAt(q) # {}
  <2> DEFINE n == First(q)
             r == SubSeq(q, n + 1, Len(q))
             f == [k \in 1 .. Len(r) |-> k + n]
  <2>1. n \in 1 .. Len(q)
    BY <1>2, FirstLive
  <2>2. Dequeued(q) = r
    BY <1>2 DEF Dequeued
  <2> HIDE DEF n
  <2>3. r \in Seq(Sudog) /\ Len(r) = Len(q) - n
    BY <2>1
  <2>4. \A k \in 1 .. Len(r) : k + n \in 1 .. Len(q) /\ r[k] = q[k + n]
    BY <2>1, <2>3
  <2>5. f \in [1 .. Len(r) -> 1 .. Len(q)]
    BY <2>4
  <2>6. \A j, k \in 1 .. Len(r) : j # k => f[j] # f[k]
    BY <2>1, <2>3
  <2>7. SubQueue(r, q)
    BY <2>4, <2>5, <2>6 DEF SubQueue
  <2> QED BY <2>2, <2>3, <2>4, <2>7 DEF n
<1> QED BY <1>1, <1>2

(* dequeueg leaves a part of the queue behind.                             *)
LEMMA DequeueGQueue ==
    ASSUME NEW q \in Seq(Sudog), NEW g
    PROVE  /\ DequeueG(q, g) \in Seq(Sudog) /\ SubQueue(DequeueG(q, g), q)
           /\ OwnAt(q, g) # {} => SubQueueBut(DequeueG(q, g), q, FirstOwn(q, g))
<1>1. CASE OwnAt(q, g) = {}
  BY <1>1, SubQueueSelf DEF DequeueG
<1>2. CASE OwnAt(q, g) # {}
  <2> DEFINE n == FirstOwn(q, g)
             a == SubSeq(q, 1, n - 1)
             b == SubSeq(q, n + 1, Len(q))
             r == a \o b
             f == [k \in 1 .. Len(r) |-> IF k < n THEN k ELSE k + 1]
  <2>1. n \in 1 .. Len(q)
    BY <1>2, FirstOwned
  <2>2. DequeueG(q, g) = r
    BY <1>2 DEF DequeueG, Without
  <2> HIDE DEF n
  <2>3. a \in Seq(Sudog) /\ Len(a) = n - 1 /\ \A k \in 1 .. n - 1 : a[k] = q[k]
    BY <2>1
  <2>4. b \in Seq(Sudog) /\ Len(b) = Len(q) - n /\ \A k \in 1 .. Len(q) - n : b[k] = q[k + n]
    BY <2>1
  <2> HIDE DEF a, b
  <2>5. /\ r \in Seq(Sudog) /\ Len(r) = Len(q) - 1
        /\ \A k \in 1 .. Len(r) : r[k] = IF k <= n - 1 THEN a[k] ELSE b[k - (n - 1)]
    <3>1. /\ r \in Seq(Sudog) /\ Len(r) = Len(a) + Len(b)
          /\ \A k \in 1 .. Len(a) + Len(b) : r[k] = IF k <= Len(a) THEN a[k] ELSE b[k - Len(a)]
      BY <2>3, <2>4, ConcatProperties
    <3> HIDE DEF r
    <3> QED BY <3>1, <2>1, <2>3, <2>4
  <2> HIDE DEF r
  <2>6. ASSUME NEW k \in 1 .. Len(r)
        PROVE  f[k] \in 1 .. Len(q) /\ r[k] = q[f[k]]
    <3>1. r[k] = IF k < n THEN a[k] ELSE b[k - (n - 1)]
      BY <2>1, <2>5
    <3>2. CASE k < n
      BY <3>1, <3>2, <2>1, <2>3, <2>5
    <3>3. CASE ~(k < n)
      <4>1. k - (n - 1) \in 1 .. Len(q) - n
        BY <3>3, <2>1, <2>5
      <4>2. b[k - (n - 1)] = q[k + 1]
        BY <4>1, <2>1, <2>4
      <4> QED BY <3>1, <3>3, <4>1, <4>2, <2>1, <2>5
    <3> QED BY <3>2, <3>3
  <2>7. f \in [1 .. Len(r) -> 1 .. Len(q)]
    BY <2>6
  <2>8. \A j, k \in 1 .. Len(r) : j # k => f[j] # f[k]
    BY <2>1, <2>5
  <2>9. \A k \in 1 .. Len(r) : f[k] # n
    BY <2>1, <2>5
  <2> HIDE DEF f
  <2>10. SubQueue(r, q)
    BY <2>6, <2>7, <2>8 DEF SubQueue
  <2>11. SubQueueBut(r, q, n)
    BY <2>6, <2>7, <2>8, <2>9 DEF SubQueueBut
  <2> QED BY <2>2, <2>5, <2>10, <2>11 DEF n
<1> QED BY <1>1, <1>2

(***************************************************************************)
(* Types.                                                                  *)
(***************************************************************************)
(* A select is built from the cases on channels that are not nil.          *)
LEMMA CompetingCases ==
    ASSUME NEW s \in Seq(Case), NEW t \in Competing(s)
    PROVE  t \in Seq(Case) /\ \A i \in 1 .. Len(t) : t[i].ch \in Chan
<1> DEFINE S == {k \in 1 .. Len(s) : s[k].ch # Nil}
<1>1. PICK n \in 0 .. Len(s) : \E f \in Increasing(n, S) : t = [i \in 1 .. n |-> s[f[i]]]
  BY DEF Competing
<1>2. PICK f \in [1 .. n -> S] : t = [i \in 1 .. n |-> s[f[i]]]
  BY <1>1 DEF Increasing
<1>3. \A i \in 1 .. n : s[f[i]] \in Case /\ s[f[i]].ch # Nil
  BY <1>2
<1>4. \A i \in 1 .. n : t[i] \in Case /\ t[i].ch \in Chan
  BY <1>2, <1>3 DEF Case
<1>5. t \in Seq(Case) /\ Len(t) = n
  BY <1>2, <1>4
<1> QED BY <1>4, <1>5

(* A communication keeps the types of what it changes: counts and indices  *)
(* stay within the buffer.                                                 *)
LEMMA CommunicateType ==
    ASSUME TypeOK, NEW g \in G, NEW c \in Chan, NEW d \in Dir, NEW i \in Nat,
           Communicate(g, c, d, i)
    PROVE  /\ qcount' \in [Chan -> Nat] /\ \A x \in Chan : qcount'[x] <= Cap[x]
           /\ sendx' \in [Chan -> Nat] /\ recvx' \in [Chan -> Nat]
           /\ \A x \in Chan : Cap[x] > 0 => sendx'[x] \in Slots(x) /\ recvx'[x] \in Slots(x)
           /\ DOMAIN buf' = Chan
           /\ \A x \in Chan : buf'[x] \in [Slots(x) -> Val \cup {NoVal}]
           /\ waitq' \in [Chan \X Dir -> Seq(Sudog)]
           /\ selgen' \in [G -> Nat]
           /\ hand' \in [G -> SUBSET Sudog]
           /\ out' \in [G -> Outcome]
           /\ ep' \in [G -> Val \cup {NoVal}]
<1> USE CapAssumption
<1> DEFINE q == waitq[<<c, Opp(d)>>]
<1>1. <<c, Opp(d)>> \in Chan \X Dir /\ q \in Seq(Sudog)
  BY DEF TypeOK, Opp, Dir
<1>2. waitq' \in [Chan \X Dir -> Seq(Sudog)]
  BY <1>1, DequeuedQueue DEF Communicate, DequeueInto, TypeOK
<1>3. selgen' \in [G -> Nat] /\ hand' \in [G -> SUBSET Sudog]
  <2>1. CASE LiveAt(q) = {}
    BY <2>1 DEF Communicate, DequeueInto, TypeOK
  <2>2. CASE LiveAt(q) # {}
    <3> DEFINE sg == q[First(q)]
    <3>1. DequeueInto(g, c, Opp(d))
      BY DEF Communicate
    <3>2. hand' = [hand EXCEPT ![g] = {sg}] /\ selgen' = Claim(sg)
      BY <2>2, <3>1 DEF DequeueInto
    <3> HIDE DEF q
    <3>3. sg \in Sudog
      BY <2>2, <1>1, FirstLive
    <3> HIDE DEF sg
    <3>4. hand' \in [G -> SUBSET Sudog]
      BY <3>2, <3>3 DEF TypeOK
    <3>5. sg.g \in G /\ sg.selgen \in Nat /\ selgen \in [G -> Nat]
      BY <3>3 DEF Sudog, TypeOK
    <3>6. selgen' \in [G -> Nat]
      BY <3>2, <3>5 DEF Claim
    <3> QED BY <3>4, <3>6
  <2> QED BY <2>1, <2>2
<1>4. out' \in [G -> Outcome]
  BY DEF Communicate, Finish, TypeOK, Outcome
<1>5. CASE Cap[c] = 0
  BY <1>2, <1>3, <1>4, <1>5 DEF Communicate, TypeOK, hchan
<1>6. CASE Cap[c] > 0 /\ d = "send"
  <2>1. BufSend(g, c) /\ qcount[c] < Cap[c]
    BY <1>6 DEF Communicate, Proceeds
  <2>2. Elem(g) \in Val
    BY DEF Elem, Val, TypeOK
  <2>3. /\ qcount' \in [Chan -> Nat] /\ \A x \in Chan : qcount'[x] <= Cap[x]
        /\ sendx' \in [Chan -> Nat] /\ recvx' \in [Chan -> Nat]
        /\ \A x \in Chan : Cap[x] > 0 => sendx'[x] \in Slots(x) /\ recvx'[x] \in Slots(x)
    <3>1. qcount' \in [Chan -> Nat] /\ \A x \in Chan : qcount'[x] <= Cap[x]
      BY <2>1, <1>6 DEF TypeOK, BufSend
    <3>2. sendx[c] \in Slots(c) /\ Wrap(sendx[c], c) \in Slots(c) /\ Slots(c) \subseteq Nat
      <4>1. sendx[c] \in Slots(c)
        BY <1>6 DEF TypeOK
      <4> QED BY <1>6, <4>1 DEF Wrap, Slots
    <3>3. sendx' \in [Chan -> Nat] /\ recvx' \in [Chan -> Nat]
      BY <2>1, <3>2 DEF TypeOK, BufSend
    <3>4. \A x \in Chan : Cap[x] > 0 => sendx'[x] \in Slots(x) /\ recvx'[x] \in Slots(x)
      BY <2>1, <3>2 DEF TypeOK, BufSend
    <3> QED BY <3>1, <3>3, <3>4
  <2>4. DOMAIN buf' = Chan /\ \A x \in Chan : buf'[x] \in [Slots(x) -> Val \cup {NoVal}]
    BY <2>1, <2>2 DEF TypeOK, BufSend
  <2>5. ep' \in [G -> Val \cup {NoVal}]
    BY <2>1 DEF TypeOK, BufSend
  <2> QED BY <2>3, <2>4, <2>5, <1>2, <1>3, <1>4
<1>7. CASE Cap[c] > 0 /\ d = "recv"
  <2>1. BufRecv(g, c) /\ qcount[c] > 0
    BY <1>7 DEF Communicate, Proceeds
  <2>2. buf[c][recvx[c]] \in Val \cup {NoVal}
    BY <1>7 DEF TypeOK
  <2>3. /\ qcount' \in [Chan -> Nat] /\ \A x \in Chan : qcount'[x] <= Cap[x]
        /\ sendx' \in [Chan -> Nat] /\ recvx' \in [Chan -> Nat]
        /\ \A x \in Chan : Cap[x] > 0 => sendx'[x] \in Slots(x) /\ recvx'[x] \in Slots(x)
    <3>1. qcount' \in [Chan -> Nat] /\ \A x \in Chan : qcount'[x] <= Cap[x]
      BY <2>1, <1>7 DEF TypeOK, BufRecv
    <3>2. recvx[c] \in Slots(c) /\ Wrap(recvx[c], c) \in Slots(c) /\ Slots(c) \subseteq Nat
      <4>1. recvx[c] \in Slots(c)
        BY <1>7 DEF TypeOK
      <4> QED BY <1>7, <4>1 DEF Wrap, Slots
    <3>3. sendx' \in [Chan -> Nat] /\ recvx' \in [Chan -> Nat]
      BY <2>1, <3>2 DEF TypeOK, BufRecv
    <3>4. \A x \in Chan : Cap[x] > 0 => sendx'[x] \in Slots(x) /\ recvx'[x] \in Slots(x)
      BY <2>1, <3>2 DEF TypeOK, BufRecv
    <3> QED BY <3>1, <3>3, <3>4
  <2>4. DOMAIN buf' = Chan /\ \A x \in Chan : buf'[x] \in [Slots(x) -> Val \cup {NoVal}]
    BY <2>1 DEF TypeOK, BufRecv
  <2>5. ep' \in [G -> Val \cup {NoVal}]
    BY <2>1, <2>2 DEF TypeOK, BufRecv
  <2> QED BY <2>3, <2>4, <2>5, <1>2, <1>3, <1>4
<1>8. Cap[c] \in Nat
  OBVIOUS
<1> QED BY <1>5, <1>6, <1>7, <1>8 DEF Dir

(* ready() leaves every goroutine parked or runnable.                      *)
LEMMA ReadyType ==
    ASSUME NEW gp \in G, Ready(gp), status \in [G -> {"Gwaiting", "Grunnable"}]
    PROVE  status' \in [G -> {"Gwaiting", "Grunnable"}]
BY DEF Ready

(* In selectgo every case is on a real channel and pollorder only names    *)
(* cases.                                                                  *)
LEMMA CaseType ==
    ASSUME TypeOK, OpShape, NEW g \in G, pc[g] \in SelPC
    PROVE  /\ NCase(g) \in Nat
           /\ \A i \in 1 .. NCase(g) : Ch(g, i) \in Chan /\ CaseDir(g, i) \in Dir
           /\ idx[g] <= NCase(g) => idx[g] \in 1 .. NCase(g) /\ pollorder[g][idx[g]] \in 1 .. NCase(g)
<1>1. op[g].cases \in Seq(Case) /\ idx[g] \in Nat
  BY DEF TypeOK, Op
<1>2. NCase(g) \in Nat
  BY <1>1 DEF NCase
<1>3. ASSUME NEW i \in 1 .. NCase(g)
      PROVE  Ch(g, i) \in Chan /\ CaseDir(g, i) \in Dir
  <2>1. op[g].cases[i] \in Case
    BY <1>1 DEF NCase
  <2> QED BY <2>1 DEF CaseDir, Case, OpShape, ShapeOf
<1> QED BY <1>1, <1>2, <1>3 DEF OpShape, ShapeOf

(* Every step preserves TypeOK.                                            *)
LEMMA TypeStep ==
    ASSUME TypeOK, OpShape, LockInv, NEW g \in G,
           PlainStep(g) \/ CloseStep(g) \/ SelectStep(g)
    PROVE  TypeOK'
<1> USE DEF Goto, Park, Finish, Outcome, PC
<1>1. CASE Invoke(g)
  <2>1. PICK o \in Menu[g] : op' = [op EXCEPT ![g] = o] /\ Goto(g, IF o.fn = "closechan" THEN "closer" ELSE "chanop")
    BY <1>1 DEF Invoke
  <2>2. o \in Op
    BY <2>1, MenuAssumption
  <2>3. op' \in [G -> Op] /\ pc' \in [G -> PC]
    BY <2>1, <2>2 DEF TypeOK
  <2> QED BY <1>1, <2>3, SMTT(60) DEF Invoke, TypeOK, Pending, hchan, sel
<1>2. CASE NilChan(g)
  <2>1. CASE op[g].block
    BY <1>2, <2>1 DEF NilChan, TypeOK, hchan, sel
  <2>2. CASE ~op[g].block
    <3>1. Goto(g, "idle") /\ Finish(g, "default", 0) /\ UNCHANGED status
      BY <1>2, <2>2, Zenon DEF NilChan
    <3>2. out' \in [G -> Outcome] /\ pc' \in [G -> PC]
      BY <3>1 DEF TypeOK
    <3> QED BY <1>2, <3>1, <3>2 DEF NilChan, TypeOK, hchan, sel
  <2> QED BY <2>1, <2>2
<1>3. CASE ChanClosed(g)
  <2>1. ep' \in [G -> Val \cup {NoVal}]
    <3>1. ep \in [G -> Val \cup {NoVal}]
      BY DEF TypeOK
    <3> QED BY <1>3, <3>1 DEF ChanClosed, FinishClosed
  <2>2. out' \in [G -> Outcome]
    BY <1>3 DEF ChanClosed, FinishClosed, TypeOK
  <2> QED BY <1>3, <2>1, <2>2 DEF ChanClosed, TypeOK, hchan, sel
<1>4. CASE ChanComm(g)
  <2> DEFINE c == Ch(g, 1)  d == CaseDir(g, 1)
  <2>1. pc[g] \in PlainPC /\ c # Nil
    BY <1>4 DEF ChanComm, InSection, PlainPC
  <2>2. c \in Chan /\ d \in Dir
    <3>1. 1 \in 1 .. NCase(g)
      BY <2>1 DEF OpShape, ShapeOf
    <3>2. op[g].cases \in Seq(Case)
      BY DEF TypeOK, Op
    <3>3. op[g].cases[1] \in Case
      BY <3>1, <3>2 DEF NCase
    <3> QED BY <3>3, <2>1 DEF Case, Ch, CaseDir
  <2>3. Communicate(g, c, d, 1)
    BY <1>4 DEF ChanComm
  <2> HIDE DEF c, d
  <2>4. UNCHANGED <<closed, held, unl, status, param, op, nops, sel, thrown>> /\ pc' \in [G -> PC]
    BY <1>4 DEF ChanComm, TypeOK
  <2> QED BY <2>2, <2>3, <2>4, CommunicateType DEF TypeOK, sel
<1>5. CASE ChanNotReady(g)
  BY <1>5, EmptySeq DEF ChanNotReady, PopStale, TypeOK, hchan, sel
<1>6. CASE ChanPark(g)
  <2> DEFINE w == [g |-> g, cas |-> 1, selgen |-> NOSELGEN]
  <2>1. w \in Sudog
    BY DEF Sudog, NOSELGEN
  <2>2. \A x \in Chan \X Dir : waitq'[x] \in {Append(waitq[x], w), <<>>, waitq[x]}
    BY <1>6 DEF ChanPark
  <2>3. DOMAIN waitq' = Chan \X Dir /\ waitq' = [x \in Chan \X Dir |-> waitq'[x]]
    BY <1>6 DEF ChanPark
  <2> HIDE DEF w
  <2>4. \A x \in Chan \X Dir : waitq'[x] \in Seq(Sudog)
    <3>1. \A x \in Chan \X Dir : waitq[x] \in Seq(Sudog)
      BY DEF TypeOK
    <3>2. \A x \in Chan \X Dir : Append(waitq[x], w) \in Seq(Sudog)
      BY <2>1, <3>1, AppendProperties
    <3> QED BY <2>2, <3>1, <3>2, EmptySeq
  <2>5. waitq' \in [Chan \X Dir -> Seq(Sudog)]
    BY <2>3, <2>4
  <2> QED BY <1>6, <2>5 DEF ChanPark, TypeOK, hchan, sel
<1>7. CASE SyncWake(g)
  <2>1. ep' \in [G -> Val \cup {NoVal}]
    <3>1. ep \in [G -> Val \cup {NoVal}]
      BY DEF TypeOK
    <3> QED BY <1>7, <3>1 DEF SyncWake, FinishClosed
  <2>2. out' \in [G -> Outcome]
    <3>1. out \in [G -> Outcome]
      BY DEF TypeOK
    <3>2. \/ UNCHANGED out
          \/ \E st \in {"done", "panic", "closed"} : out' = [out EXCEPT ![g] = [st |-> st, cas |-> 1]]
      BY <1>7 DEF SyncWake, FinishClosed
    <3> QED BY <3>1, <3>2
  <2> QED BY <1>7, <2>1, <2>2 DEF SyncWake, TypeOK, hchan, sel
<1>8. CASE Wakeup(g)
  <2>1. PICK sg \in hand[g] :
          /\ Ready(sg.g)
          /\ param' = IF Cap[Ch(sg.g, sg.cas)] = 0 THEN [param EXCEPT ![sg.g] = sg.cas] ELSE param
          /\ ep' \in {ep, [ep EXCEPT ![sg.g] = Elem(g)], [ep EXCEPT ![g] = Elem(sg.g)]}
    BY <1>8 DEF Wakeup
  <2>2. sg.g \in G /\ sg.cas \in Nat
    BY <2>1 DEF TypeOK, Sudog
  <2>3. Elem(g) \in Val /\ Elem(sg.g) \in Val
    BY <2>2 DEF Elem, Val, TypeOK
  <2>4. ep' \in [G -> Val \cup {NoVal}] /\ param' \in [G -> Nat]
    <3>1. ep \in [G -> Val \cup {NoVal}] /\ param \in [G -> Nat]
      BY DEF TypeOK
    <3>2. ep' \in [G -> Val \cup {NoVal}]
      BY <2>1, <2>2, <2>3, <3>1
    <3>3. param' \in [G -> Nat]
      BY <2>1, <2>2, <3>1
    <3> QED BY <3>2, <3>3
  <2>5. status' \in [G -> {"Gwaiting", "Grunnable"}]
    BY <2>1, <2>2, ReadyType DEF TypeOK
  <2> QED BY <1>8, <2>4, <2>5 DEF Wakeup, TypeOK, hchan, sel
<1>9. CASE ClosePanic(g)
  BY <1>9 DEF ClosePanic, TypeOK, hchan, sel
<1>10. CASE CloseBegin(g)
  <2>1. pc[g] \in PlainPC /\ Ch(g, 1) # Nil
    BY <1>10 DEF CloseBegin, PlainPC
  <2>2. Ch(g, 1) \in Chan
    <3>1. 1 \in 1 .. NCase(g)
      BY <2>1 DEF OpShape, ShapeOf
    <3>2. op[g].cases \in Seq(Case)
      BY DEF TypeOK, Op
    <3>3. op[g].cases[1] \in Case
      BY <3>1, <3>2 DEF NCase
    <3> QED BY <3>3, <2>1 DEF Case, Ch
  <2> QED BY <1>10, <2>2 DEF CloseBegin, TypeOK, hchan, sel
<1>11. CASE CloseRelease(g)
  <2> DEFINE c == Ch(g, 1)
             d == IF pc[g] = "closer" THEN "recv" ELSE "send"
             q == waitq[<<c, d>>]
             sg == q[First(q)]
  <2>1. c \in Chan /\ d \in Dir
    BY <1>11 DEF CloseRelease, LockInv, LocksOf, Dir
  <2>2. waitq' = [waitq EXCEPT ![<<c, d>>] = Dequeued(q)]
    BY <1>11 DEF CloseRelease
  <2>3. <<c, d>> \in Chan \X Dir /\ q \in Seq(Sudog)
    BY <2>1 DEF TypeOK
  <2>4. waitq' \in [Chan \X Dir -> Seq(Sudog)]
    BY <2>2, <2>3, DequeuedQueue DEF TypeOK
  <2>5. CASE LiveAt(q) # {}
    <3>1. /\ selgen' = Claim(sg) /\ param' = [param EXCEPT ![sg.g] = 0]
          /\ Ready(sg.g) /\ UNCHANGED <<pc, held, out>>
      BY <1>11, <2>5 DEF CloseRelease
    <3> HIDE DEF q
    <3>2. sg \in Sudog
      BY <2>3, <2>5, FirstLive
    <3> HIDE DEF sg
    <3>3. sg.g \in G /\ sg.selgen \in Nat /\ selgen \in [G -> Nat]
      BY <3>2 DEF Sudog, TypeOK
    <3>4. selgen' \in [G -> Nat] /\ param' \in [G -> Nat]
      <4>1. selgen' \in [G -> Nat]
        BY <3>1, <3>3 DEF Claim
      <4> QED BY <4>1, <3>1 DEF TypeOK
    <3>5. status' \in [G -> {"Gwaiting", "Grunnable"}]
      BY <3>1, <3>3, ReadyType DEF TypeOK
    <3> QED BY <1>11, <2>4, <3>1, <3>4, <3>5 DEF CloseRelease, TypeOK, hchan, sel
  <2>6. CASE LiveAt(q) = {}
    <3>1. UNCHANGED <<selgen, param, status>>
      BY <1>11, <2>6 DEF CloseRelease
    <3>2. held' \in [G -> SUBSET Chan] /\ out' \in [G -> Outcome] /\ pc' \in [G -> PC]
      <4>1. held \in [G -> SUBSET Chan] /\ out \in [G -> Outcome] /\ pc \in [G -> PC]
        BY DEF TypeOK
      <4>2. CASE d = "recv"
        BY <1>11, <2>6, <4>1, <4>2 DEF CloseRelease
      <4>3. CASE d # "recv"
        BY <1>11, <2>6, <4>1, <4>3, SMTT(60) DEF CloseRelease
      <4> QED BY <4>2, <4>3
    <3> QED BY <1>11, <2>4, <3>1, <3>2 DEF CloseRelease, TypeOK, hchan, sel
  <2> QED BY <2>5, <2>6
<1>12. CASE SelInvoke(g)
  <2>1. PICK o \in Menu[g] : \E cases \in Competing(o.cases) :
            /\ op' = [op EXCEPT ![g] = [o EXCEPT !.cases = cases]]
            /\ Goto(g, IF cases = <<>> THEN "pass1" ELSE "sellock")
    BY <1>12 DEF SelInvoke
  <2>2. PICK cases \in Competing(o.cases) :
            /\ op' = [op EXCEPT ![g] = [o EXCEPT !.cases = cases]]
            /\ Goto(g, IF cases = <<>> THEN "pass1" ELSE "sellock")
    BY <2>1
  <2>3. o \in Op /\ o.cases \in Seq(Case)
    BY MenuAssumption DEF Op
  <2>4. cases \in Seq(Case)
    BY <2>3, CompetingCases
  <2>5. [o EXCEPT !.cases = cases] \in Op
    BY <2>3, <2>4 DEF Op
  <2>6. op' \in [G -> Op] /\ pc' \in [G -> PC]
    BY <2>2, <2>5 DEF TypeOK
  <2>7. pollorder' \in [G -> Seq(Nat)]
    <3>1. PICK o2 \in Menu[g] : \E cs \in Competing(o2.cases) :
            \E p \in Permutation(Len(cs)) : pollorder' = [pollorder EXCEPT ![g] = p]
      BY <1>12 DEF SelInvoke
    <3>2. PICK cs \in Competing(o2.cases) :
            \E p \in Permutation(Len(cs)) : pollorder' = [pollorder EXCEPT ![g] = p]
      BY <3>1
    <3>3. o2.cases \in Seq(Case)
      BY MenuAssumption DEF Op
    <3>4. Len(cs) \in Nat
      BY <3>3, CompetingCases
    <3>5. PICK p \in [1 .. Len(cs) -> 1 .. Len(cs)] : pollorder' = [pollorder EXCEPT ![g] = p]
      BY <3>2 DEF Permutation
    <3>6. p \in Seq(Nat)
      BY <3>4, <3>5
    <3> QED BY <3>5, <3>6 DEF TypeOK
  <2> QED BY <1>12, <2>6, <2>7, SMTT(60) DEF SelInvoke, TypeOK, Pending, hchan
<1>13. CASE SelLock(g)
  <2>1. PICK c \in SelChans(g) :
          /\ held' = [held EXCEPT ![g] = @ \cup {c}]
          /\ pc' \in {[pc EXCEPT ![g] = l] : l \in {pc[g], "pass1", "pass3"}}
    BY <1>13 DEF SelLock
  <2>2. c \in Chan
    BY <1>13, <2>1 DEF SelLock, SelChans, OpShape, ShapeOf, SelPC
  <2>3. pc[g] \in PC
    BY DEF TypeOK
  <2>4. held' \in [G -> SUBSET Chan] /\ pc' \in [G -> PC]
    BY <2>1, <2>2, <2>3 DEF TypeOK
  <2> QED BY <1>13, <2>4 DEF SelLock, TypeOK, hchan
<1>14. CASE PollComm(g)
  <2> DEFINE i == pollorder[g][idx[g]]  c == Ch(g, i)  d == CaseDir(g, i)
  <2>1. i \in 1 .. NCase(g) /\ c \in Chan /\ d \in Dir
    BY <1>14, CaseType DEF PollComm, Polling, SelPC
  <2>2. Communicate(g, c, d, i)
    BY <1>14 DEF PollComm
  <2>3. i \in Nat
    BY <2>1
  <2> HIDE DEF i, c, d
  <2>4. UNCHANGED <<closed, held, unl, status, param, op, nops, sel, thrown>> /\ pc' \in [G -> PC]
    BY <1>14 DEF PollComm, TypeOK
  <2> QED BY <2>1, <2>2, <2>3, <2>4, CommunicateType DEF TypeOK, sel
<1>15. CASE PollClosed(g)
  <2> DEFINE i == pollorder[g][idx[g]]  c == Ch(g, i)  d == CaseDir(g, i)
  <2>1. i \in 1 .. NCase(g)
    BY <1>15, CaseType DEF PollClosed, Polling, SelPC
  <2>2. FinishClosed(g, d, i) /\ i \in Nat
    BY <1>15, <2>1 DEF PollClosed
  <2>3. waitq' \in {waitq, [waitq EXCEPT ![<<c, "send">>] = <<>>]}
    BY <1>15 DEF PollClosed
  <2> HIDE DEF i, c, d
  <2>4. ep' \in [G -> Val \cup {NoVal}] /\ out' \in [G -> Outcome]
    <3>1. ep \in [G -> Val \cup {NoVal}] /\ out \in [G -> Outcome]
      BY DEF TypeOK
    <3> QED BY <2>2, <3>1 DEF FinishClosed
  <2>5. waitq' \in [Chan \X Dir -> Seq(Sudog)]
    <3>1. <<>> \in Seq(Sudog) /\ waitq \in [Chan \X Dir -> Seq(Sudog)]
      BY EmptySeq DEF TypeOK
    <3> QED BY <2>3, <3>1
  <2> QED BY <1>15, <2>4, <2>5 DEF PollClosed, TypeOK, hchan, sel
<1>16. CASE PollNext(g)
  <2>1. <<>> \in Seq(Sudog) /\ waitq \in [Chan \X Dir -> Seq(Sudog)]
    BY EmptySeq DEF TypeOK
  <2>2. waitq' \in [Chan \X Dir -> Seq(Sudog)]
    BY <1>16, <2>1 DEF PollNext, PopStale
  <2> QED BY <1>16, <2>2 DEF PollNext, TypeOK, hchan
<1>17. CASE SelDefault(g)
  BY <1>17 DEF SelDefault, TypeOK, hchan, sel
<1>18. CASE SelBlock(g)
  BY <1>18, SMTT(30) DEF SelBlock, TypeOK, hchan
<1>19. CASE SelEnqueue(g)
  <2> DEFINE i == pollorder[g][idx[g]]
             sg == [g |-> g, cas |-> i, selgen |-> selgen[g]]
             x == <<Ch(g, i), CaseDir(g, i)>>
  <2>1. i \in Nat
    BY <1>19, CaseType DEF SelEnqueue, SelPC
  <2>2. sg \in Sudog
    BY <2>1 DEF Sudog, TypeOK
  <2>3. waitq' = [waitq EXCEPT ![x] = Append(waitq[x], sg)]
    BY <1>19 DEF SelEnqueue, Enqueue
  <2> HIDE DEF sg, x
  <2>4. waitq' \in [Chan \X Dir -> Seq(Sudog)]
    BY <2>2, <2>3, AppendProperties DEF TypeOK
  <2> QED BY <1>19, <2>4, SMTT(60) DEF SelEnqueue, TypeOK, hchan
<1>20. CASE SelPark(g)
  BY <1>20 DEF SelPark, TypeOK, hchan, sel
<1>21. CASE ParkUnlock(g)
  BY <1>21, SMTT(30) DEF ParkUnlock, TypeOK, hchan, sel
<1>22. CASE SelDequeue(g)
  <2> DEFINE x == <<Ch(g, idx[g]), CaseDir(g, idx[g])>>
  <2>1. waitq' \in {waitq, [waitq EXCEPT ![x] = DequeueG(waitq[x], g)]}
    BY <1>22 DEF SelDequeue
  <2>2. x \in Chan \X Dir
    BY <1>22, CaseType DEF SelDequeue, SelPC
  <2> HIDE DEF x
  <2>3. waitq' \in [Chan \X Dir -> Seq(Sudog)]
    <3>1. waitq \in [Chan \X Dir -> Seq(Sudog)]
      BY DEF TypeOK
    <3>2. DequeueG(waitq[x], g) \in Seq(Sudog)
      BY <2>2, <3>1, DequeueGQueue
    <3> QED BY <2>1, <3>1, <3>2
  <2>4. idx' \in [G -> Nat]
    BY <1>22 DEF SelDequeue, TypeOK
  <2> QED BY <1>22, <2>3, <2>4, SMTT(30) DEF SelDequeue, TypeOK, hchan
<1>23. CASE SelRetry(g)
  BY <1>23 DEF SelRetry, TypeOK, hchan
<1>24. CASE SelFired(g)
  BY <1>24 DEF SelFired, TypeOK, hchan, sel
<1>25. CASE SelUnlock(g)
  <2>1. pc' \in {[pc EXCEPT ![g] = l] : l \in {"selunlock", "ready", "idle"}}
    BY <1>25 DEF SelUnlock
  <2>2. pc' \in [G -> PC]
    BY <2>1 DEF TypeOK
  <2>3. held' \in [G -> SUBSET Chan]
    <3>1. held \in [G -> SUBSET Chan]
      BY DEF TypeOK
    <3>2. \E c : held' = [held EXCEPT ![g] = held[g] \ {c}]
      BY <1>25 DEF SelUnlock
    <3> QED BY <3>1, <3>2
  <2> QED BY <1>25, <2>2, <2>3 DEF SelUnlock, TypeOK, hchan, sel
<1> QED BY <1>1, <1>2, <1>3, <1>4, <1>5, <1>6, <1>7, <1>8, <1>9, <1>10, <1>11, <1>12,
           <1>13, <1>14, <1>15, <1>16, <1>17, <1>18, <1>19, <1>20, <1>21, <1>22, <1>23,
           <1>24, <1>25
        DEF PlainStep, CloseStep, SelectStep

(***************************************************************************)
(* What a step of g leaves alone.                                          *)
(***************************************************************************)
LEMMA Frame ==
    ASSUME TypeOK, NEW g \in G, NEW h \in G, h # g,
           PlainStep(g) \/ CloseStep(g) \/ SelectStep(g)
    PROVE  /\ pc'[h] = pc[h] /\ op'[h] = op[h] /\ nops'[h] = nops[h]
           /\ pollorder'[h] = pollorder[h] /\ idx'[h] = idx[h]
           /\ held'[h] = held[h] /\ unl'[h] = unl[h] /\ hand'[h] = hand[h]
           /\ status'[h] = "Gwaiting" => status[h] = "Gwaiting"
<1> USE DEF Goto, Park, Ready, hchan, sel
<1>1. CASE Invoke(g)
  BY <1>1 DEF Invoke, TypeOK
<1>2. CASE NilChan(g)
  BY <1>2 DEF NilChan, TypeOK
<1>3. CASE ChanClosed(g)
  BY <1>3 DEF ChanClosed, TypeOK, FinishClosed
<1>4. CASE ChanComm(g)
  BY <1>4 DEF ChanComm, TypeOK, Communicate, DequeueInto, BufSend, BufRecv
<1>5. CASE ChanNotReady(g)
  BY <1>5 DEF ChanNotReady, TypeOK
<1>6. CASE ChanPark(g)
  BY <1>6 DEF ChanPark, TypeOK
<1>7. CASE SyncWake(g)
  BY <1>7 DEF SyncWake, TypeOK, FinishClosed
<1>8. CASE Wakeup(g)
  BY <1>8 DEF Wakeup, TypeOK
<1>9. CASE ClosePanic(g)
  BY <1>9 DEF ClosePanic, TypeOK
<1>10. CASE CloseBegin(g)
  BY <1>10 DEF CloseBegin, TypeOK
<1>11. CASE CloseRelease(g)
  BY <1>11 DEF CloseRelease, TypeOK
<1>12. CASE SelInvoke(g)
  BY <1>12 DEF SelInvoke, TypeOK
<1>13. CASE SelLock(g)
  BY <1>13 DEF SelLock, TypeOK
<1>14. CASE PollComm(g)
  BY <1>14 DEF PollComm, TypeOK, Communicate, DequeueInto, BufSend, BufRecv
<1>15. CASE PollClosed(g)
  BY <1>15 DEF PollClosed, TypeOK, FinishClosed
<1>16. CASE PollNext(g)
  BY <1>16 DEF PollNext, TypeOK
<1>17. CASE SelDefault(g)
  BY <1>17 DEF SelDefault, TypeOK
<1>18. CASE SelBlock(g)
  BY <1>18 DEF SelBlock, TypeOK
<1>19. CASE SelEnqueue(g)
  BY <1>19 DEF SelEnqueue, TypeOK
<1>20. CASE SelPark(g)
  BY <1>20 DEF SelPark, TypeOK
<1>21. CASE ParkUnlock(g)
  BY <1>21 DEF ParkUnlock, TypeOK
<1>22. CASE SelDequeue(g)
  BY <1>22 DEF SelDequeue, TypeOK
<1>23. CASE SelRetry(g)
  BY <1>23 DEF SelRetry, TypeOK
<1>24. CASE SelFired(g)
  BY <1>24 DEF SelFired, TypeOK
<1>25. CASE SelUnlock(g)
  BY <1>25 DEF SelUnlock, TypeOK
<1> QED BY <1>1, <1>2, <1>3, <1>4, <1>5, <1>6, <1>7, <1>8, <1>9, <1>10, <1>11,
           <1>12, <1>13, <1>14, <1>15, <1>16, <1>17, <1>18, <1>19, <1>20,
           <1>21, <1>22, <1>23, <1>24, <1>25
        DEF PlainStep, CloseStep, SelectStep

(***************************************************************************)
(* The shape of operations.                                                *)
(***************************************************************************)
(* The channel of a plain operation.                                       *)
LEMMA PlainChan ==
    ASSUME TypeOK, OpShape, NEW g \in G, pc[g] \in PlainPC, Ch(g, 1) # Nil
    PROVE  Ch(g, 1) \in Chan /\ CaseDir(g, 1) \in Dir /\ <<Ch(g, 1), CaseDir(g, 1)>> \in Chan \X Dir
<1>1. 1 \in 1 .. NCase(g)
  BY DEF OpShape, ShapeOf
<1>2. op[g].cases \in Seq(Case)
  BY DEF TypeOK, Op
<1>3. op[g].cases[1] \in Case
  BY <1>1, <1>2 DEF NCase
<1> QED BY <1>3 DEF Case, Ch, CaseDir

(* Every step preserves OpShape.                                           *)
LEMMA ShapeStep ==
    ASSUME TypeOK, OpShape, LockInv, NEW g \in G,
           PlainStep(g) \/ CloseStep(g) \/ SelectStep(g)
    PROVE  OpShape'
<1> USE DEF Goto, Park, hchan, sel, PlainPC, SelPC
<1>0. ShapeOf(g)
  BY DEF OpShape
<1>a. \A h \in G : h # g => ShapeOf(h)'
  <2> SUFFICES ASSUME NEW h \in G, h # g PROVE ShapeOf(h)'
    OBVIOUS
  <2>1. ShapeOf(h)
    BY DEF OpShape
  <2>2. /\ pc'[h] = pc[h] /\ op'[h] = op[h] /\ pollorder'[h] = pollorder[h] /\ idx'[h] = idx[h]
        /\ status'[h] = "Gwaiting" => status[h] = "Gwaiting"
    BY Frame
  <2> QED BY <2>1, <2>2 DEF ShapeOf, NCase, Ch
<1>b. SUFFICES ShapeOf(g)'
  BY <1>a DEF OpShape
<1>c. /\ pc \in [G -> PC] /\ status \in [G -> {"Gwaiting", "Grunnable"}] /\ idx \in [G -> Nat]
      /\ op \in [G -> Op] /\ pollorder \in [G -> Seq(Nat)]
  BY DEF TypeOK
<1> USE DEF ShapeOf, NCase, Ch
<1>1. CASE Invoke(g)
  <2>1. PICK o \in Menu[g] : o.fn # "selectgo" /\ op' = [op EXCEPT ![g] = o]
    BY <1>1 DEF Invoke
  <2>2. Len(o.cases) = 1
    BY <2>1, MenuAssumption
  <2>3. op'[g] = o
    BY <2>1, <1>c
  <2>4. pc'[g] \in {"closer", "chanop"} /\ pc[g] = "idle" /\ UNCHANGED <<status, idx>>
    BY <1>1, <1>c DEF Invoke
  <2>5. NCase(g)' = 1
    BY <2>2, <2>3
  <2>6. 1 \in 1 .. NCase(g)'
    BY <2>5
  <2> QED BY <1>0, <2>4, <2>6
<1>2. CASE NilChan(g)
  BY <1>2, <1>0, <1>c DEF NilChan
<1>3. CASE ChanClosed(g)
  BY <1>3, <1>0, <1>c DEF ChanClosed, InSection
<1>4. CASE ChanComm(g)
  BY <1>4, <1>0, <1>c DEF ChanComm, InSection
<1>5. CASE ChanNotReady(g)
  BY <1>5, <1>0, <1>c DEF ChanNotReady, InSection
<1>6. CASE ChanPark(g)
  <2>1. Ch(g, 1) \in Chan
    BY <1>6, PlainChan DEF ChanPark, InSection
  <2>2. /\ pc'[g] = IF Cap[Ch(g, 1)] = 0 THEN "syncwait" ELSE "asyncwait"
        /\ pc[g] \in PlainPC /\ UNCHANGED <<op, idx>>
    BY <1>6, <1>c DEF ChanPark, InSection
  <2>3. Cap[Ch(g, 1)] \in Nat
    BY <2>1, CapAssumption
  <2> QED BY <1>0, <2>1, <2>2, <2>3
<1>7. CASE SyncWake(g)
  BY <1>7, <1>0, <1>c DEF SyncWake
<1>8. CASE Wakeup(g)
  <2>1. status'[g] = "Gwaiting" => status[g] = "Gwaiting"
    BY <1>8, <1>c DEF Wakeup, Ready
  <2>2. pc'[g] = "idle" /\ idx' = idx
    BY <1>8, <1>c DEF Wakeup
  <2>3. pc[g] = "ready"
    BY <1>8 DEF Wakeup
  <2> QED BY <1>0, <2>1, <2>2, <2>3
<1>9. CASE ClosePanic(g)
  BY <1>9, <1>0, <1>c DEF ClosePanic
<1>10. CASE CloseBegin(g)
  BY <1>10, <1>0, <1>c DEF CloseBegin
<1>11. CASE CloseRelease(g)
  <2>1. status'[g] = "Gwaiting" => status[g] = "Gwaiting"
    BY <1>11, <1>c DEF CloseRelease, Ready
  <2>2. pc[g] \in {"closer", "closew"} /\ pc'[g] \in {"closer", "closew", "idle"}
    BY <1>11, <1>c DEF CloseRelease
  <2>3. UNCHANGED <<op, idx, pollorder>>
    BY <1>11 DEF CloseRelease
  <2> QED BY <1>0, <2>1, <2>2, <2>3
<1>12. CASE SelInvoke(g)
  <2>1. PICK o \in Menu[g] : \E cases \in Competing(o.cases) :
            /\ op' = [op EXCEPT ![g] = [o EXCEPT !.cases = cases]]
            /\ \E p \in Permutation(Len(cases)) : pollorder' = [pollorder EXCEPT ![g] = p]
    BY <1>12 DEF SelInvoke
  <2>2. PICK cases \in Competing(o.cases) :
            /\ op' = [op EXCEPT ![g] = [o EXCEPT !.cases = cases]]
            /\ \E p \in Permutation(Len(cases)) : pollorder' = [pollorder EXCEPT ![g] = p]
    BY <2>1
  <2>3. o.cases \in Seq(Case)
    BY MenuAssumption DEF Op
  <2>4. \A i \in 1 .. Len(cases) : cases[i].ch \in Chan
    BY <2>3, CompetingCases
  <2>5. op'[g].cases = cases /\ pollorder'[g] \in [1 .. Len(cases) -> 1 .. Len(cases)]
    <3>1. o \in Op
      BY MenuAssumption
    <3>2. op'[g] = [o EXCEPT !.cases = cases] /\ pollorder'[g] \in Permutation(Len(cases))
      BY <2>2, <1>c
    <3>3. [o EXCEPT !.cases = cases].cases = cases
      BY <3>1 DEF Op
    <3> QED BY <3>2, <3>3 DEF Permutation
  <2>6. pc[g] = "idle" /\ pc'[g] \in {"pass1", "sellock"} /\ idx'[g] = 1 /\ UNCHANGED status
    BY <1>12, <1>c DEF SelInvoke
  <2> QED BY <1>0, <2>4, <2>5, <2>6
<1>13. CASE SelLock(g)
  BY <1>13, <1>0, <1>c DEF SelLock
<1>14. CASE PollComm(g)
  BY <1>14, <1>0, <1>c DEF PollComm, Polling
<1>15. CASE PollClosed(g)
  BY <1>15, <1>0, <1>c DEF PollClosed, Polling
<1>16. CASE PollNext(g)
  BY <1>16, <1>0, <1>c, SMTT(60) DEF PollNext, Polling
<1>17. CASE SelDefault(g)
  BY <1>17, <1>0, <1>c DEF SelDefault
<1>18. CASE SelBlock(g)
  BY <1>18, <1>0, <1>c DEF SelBlock
<1>19. CASE SelEnqueue(g)
  BY <1>19, <1>0, <1>c DEF SelEnqueue
<1>20. CASE SelPark(g)
  BY <1>20, <1>0, <1>c DEF SelPark
<1>21. CASE ParkUnlock(g)
  BY <1>21, <1>0, <1>c DEF ParkUnlock
<1>22. CASE SelDequeue(g)
  BY <1>22, <1>0, <1>c DEF SelDequeue
<1>23. CASE SelRetry(g)
  BY <1>23, <1>0, <1>c DEF SelRetry
<1>24. CASE SelFired(g)
  BY <1>24, <1>0, <1>c DEF SelFired
<1>25. CASE SelUnlock(g)
  BY <1>25, <1>0, <1>c DEF SelUnlock
<1> QED BY <1>1, <1>2, <1>3, <1>4, <1>5, <1>6, <1>7, <1>8, <1>9, <1>10, <1>11,
           <1>12, <1>13, <1>14, <1>15, <1>16, <1>17, <1>18, <1>19, <1>20,
           <1>21, <1>22, <1>23, <1>24, <1>25
        DEF PlainStep, CloseStep, SelectStep

(***************************************************************************)
(* Locks.                                                                  *)
(***************************************************************************)
(* A step acquires only locks that nobody holds.                           *)
LEMMA AcquireFree ==
    ASSUME TypeOK, NEW g \in G, PlainStep(g) \/ CloseStep(g) \/ SelectStep(g)
    PROVE  \A c : c \in held'[g] \cup unl'[g] => c \in held[g] \cup unl[g] \/ LockFree(c)
<1>c. held \in [G -> SUBSET Chan] /\ unl \in [G -> SUBSET Chan]
  BY DEF TypeOK
<1>1. CASE Invoke(g)
  BY <1>1, <1>c DEF Invoke
<1>2. CASE NilChan(g)
  BY <1>2, <1>c DEF NilChan
<1>3. CASE ChanClosed(g)
  BY <1>3, <1>c DEF ChanClosed
<1>4. CASE ChanComm(g)
  BY <1>4, <1>c DEF ChanComm
<1>5. CASE ChanNotReady(g)
  BY <1>5, <1>c DEF ChanNotReady
<1>6. CASE ChanPark(g)
  BY <1>6, <1>c DEF ChanPark
<1>7. CASE SyncWake(g)
  BY <1>7, <1>c DEF SyncWake
<1>8. CASE Wakeup(g)
  BY <1>8, <1>c DEF Wakeup
<1>9. CASE ClosePanic(g)
  BY <1>9, <1>c DEF ClosePanic
<1>10. CASE CloseBegin(g)
  BY <1>10, <1>c DEF CloseBegin
<1>11. CASE CloseRelease(g)
  BY <1>11, <1>c DEF CloseRelease
<1>12. CASE SelInvoke(g)
  BY <1>12, <1>c DEF SelInvoke
<1>13. CASE SelLock(g)
  BY <1>13, <1>c DEF SelLock
<1>14. CASE PollComm(g)
  BY <1>14, <1>c DEF PollComm
<1>15. CASE PollClosed(g)
  BY <1>15, <1>c DEF PollClosed
<1>16. CASE PollNext(g)
  BY <1>16, <1>c DEF PollNext
<1>17. CASE SelDefault(g)
  BY <1>17, <1>c DEF SelDefault
<1>18. CASE SelBlock(g)
  BY <1>18, <1>c DEF SelBlock
<1>19. CASE SelEnqueue(g)
  BY <1>19, <1>c DEF SelEnqueue
<1>20. CASE SelPark(g)
  BY <1>20, <1>c DEF SelPark
<1>21. CASE ParkUnlock(g)
  BY <1>21, <1>c DEF ParkUnlock
<1>22. CASE SelDequeue(g)
  BY <1>22, <1>c DEF SelDequeue
<1>23. CASE SelRetry(g)
  BY <1>23, <1>c DEF SelRetry
<1>24. CASE SelFired(g)
  BY <1>24, <1>c DEF SelFired
<1>25. CASE SelUnlock(g)
  BY <1>25, <1>c DEF SelUnlock
<1> QED BY <1>1, <1>2, <1>3, <1>4, <1>5, <1>6, <1>7, <1>8, <1>9, <1>10, <1>11,
           <1>12, <1>13, <1>14, <1>15, <1>16, <1>17, <1>18, <1>19, <1>20,
           <1>21, <1>22, <1>23, <1>24, <1>25
        DEF PlainStep, CloseStep, SelectStep

(* A closed channel is never opened again.                                 *)
LEMMA ClosedStays ==
    ASSUME TypeOK, NEW g \in G, PlainStep(g) \/ CloseStep(g) \/ SelectStep(g), NEW c \in Chan, closed[c]
    PROVE  closed'[c]
<1>1. closed' = closed \/ \E x : closed' = [closed EXCEPT ![x] = TRUE]
  <2>1. CASE Invoke(g)
    BY <2>1 DEF Invoke
  <2>2. CASE NilChan(g)
    BY <2>2 DEF NilChan
  <2>3. CASE ChanClosed(g)
    BY <2>3 DEF ChanClosed
  <2>4. CASE ChanComm(g)
    BY <2>4 DEF ChanComm
  <2>5. CASE ChanNotReady(g)
    BY <2>5 DEF ChanNotReady
  <2>6. CASE ChanPark(g)
    BY <2>6 DEF ChanPark
  <2>7. CASE SyncWake(g)
    BY <2>7 DEF SyncWake
  <2>8. CASE Wakeup(g)
    BY <2>8 DEF Wakeup
  <2>9. CASE ClosePanic(g)
    BY <2>9 DEF ClosePanic
  <2>10. CASE CloseBegin(g)
    BY <2>10 DEF CloseBegin
  <2>11. CASE CloseRelease(g)
    BY <2>11 DEF CloseRelease
  <2>12. CASE SelInvoke(g)
    BY <2>12 DEF SelInvoke
  <2>13. CASE SelLock(g)
    BY <2>13 DEF SelLock
  <2>14. CASE PollComm(g)
    BY <2>14 DEF PollComm
  <2>15. CASE PollClosed(g)
    BY <2>15 DEF PollClosed
  <2>16. CASE PollNext(g)
    BY <2>16 DEF PollNext
  <2>17. CASE SelDefault(g)
    BY <2>17 DEF SelDefault
  <2>18. CASE SelBlock(g)
    BY <2>18 DEF SelBlock
  <2>19. CASE SelEnqueue(g)
    BY <2>19 DEF SelEnqueue
  <2>20. CASE SelPark(g)
    BY <2>20 DEF SelPark
  <2>21. CASE ParkUnlock(g)
    BY <2>21 DEF ParkUnlock
  <2>22. CASE SelDequeue(g)
    BY <2>22 DEF SelDequeue
  <2>23. CASE SelRetry(g)
    BY <2>23 DEF SelRetry
  <2>24. CASE SelFired(g)
    BY <2>24 DEF SelFired
  <2>25. CASE SelUnlock(g)
    BY <2>25 DEF SelUnlock
  <2> QED BY <2>1, <2>2, <2>3, <2>4, <2>5, <2>6, <2>7, <2>8, <2>9, <2>10, <2>11,
             <2>12, <2>13, <2>14, <2>15, <2>16, <2>17, <2>18, <2>19, <2>20,
             <2>21, <2>22, <2>23, <2>24, <2>25
          DEF PlainStep, CloseStep, SelectStep
<1> QED BY <1>1 DEF TypeOK

(* Every step preserves LockInv: a lock is taken only when nobody holds    *)
(* it, and released by its holder.                                         *)
LEMMA LockStep ==
    ASSUME TypeOK, OpShape, LockInv, NEW g \in G,
           PlainStep(g) \/ CloseStep(g) \/ SelectStep(g)
    PROVE  LockInv'
<1> USE DEF Goto, Park, SelPC
<1>0. LocksOf(g)
  BY DEF LockInv
<1>a. \A h \in G : h # g => LocksOf(h)'
  <2> SUFFICES ASSUME NEW h \in G, h # g PROVE LocksOf(h)'
    OBVIOUS
  <2>1. LocksOf(h)
    BY DEF LockInv
  <2>2. pc'[h] = pc[h] /\ op'[h] = op[h] /\ held'[h] = held[h] /\ unl'[h] = unl[h]
    BY Frame
  <2>3. \A c \in Chan : closed[c] => closed'[c]
    BY ClosedStays
  <2> QED BY <2>1, <2>2, <2>3 DEF LocksOf, SelChans, NCase, Ch
<1>b. \A h \in G : h # g => (held'[g] \cup unl'[g]) \cap (held'[h] \cup unl'[h]) = {}
  <2> SUFFICES ASSUME NEW h \in G, h # g,
                      NEW c, c \in held'[g] \cup unl'[g], c \in held[h] \cup unl[h]
               PROVE  FALSE
    BY Frame
  <2>1. c \in held[g] \cup unl[g] \/ LockFree(c)
    BY AcquireFree
  <2> QED BY <2>1 DEF LockFree, LockInv
<1>c. \A h1, h2 \in G : h1 # h2 => (held'[h1] \cup unl'[h1]) \cap (held'[h2] \cup unl'[h2]) = {}
  <2> SUFFICES ASSUME NEW h1 \in G, NEW h2 \in G, h1 # h2
               PROVE  (held'[h1] \cup unl'[h1]) \cap (held'[h2] \cup unl'[h2]) = {}
    OBVIOUS
  <2>1. CASE h1 = g
    BY <2>1, <1>b
  <2>2. CASE h2 = g
    BY <2>2, <1>b
  <2>3. CASE h1 # g /\ h2 # g
    BY <2>3, Frame DEF LockInv
  <2> QED BY <2>1, <2>2, <2>3
<1>d. SUFFICES LocksOf(g)'
  BY <1>a, <1>c DEF LockInv
<1>e. /\ pc \in [G -> PC] /\ held \in [G -> SUBSET Chan] /\ unl \in [G -> SUBSET Chan]
      /\ op \in [G -> Op] /\ closed \in [Chan -> BOOLEAN]
  BY DEF TypeOK
<1> USE DEF LocksOf, SelChans, NCase, Ch
<1>1. CASE Invoke(g)
  BY <1>1, <1>0, <1>e DEF Invoke
<1>2. CASE NilChan(g)
  BY <1>2, <1>0, <1>e DEF NilChan
<1>3. CASE ChanClosed(g)
  BY <1>3, <1>0, <1>e DEF ChanClosed, InSection
<1>4. CASE ChanComm(g)
  BY <1>4, <1>0, <1>e DEF ChanComm, InSection
<1>5. CASE ChanNotReady(g)
  BY <1>5, <1>0, <1>e DEF ChanNotReady, InSection
<1>6. CASE ChanPark(g)
  BY <1>6, <1>0, <1>e DEF ChanPark, InSection
<1>7. CASE SyncWake(g)
  BY <1>7, <1>0, <1>e DEF SyncWake
<1>8. CASE Wakeup(g)
  BY <1>8, <1>0, <1>e DEF Wakeup
<1>9. CASE ClosePanic(g)
  BY <1>9, <1>0, <1>e DEF ClosePanic
<1>10. CASE CloseBegin(g)
  <2>1. ShapeOf(g)
    BY DEF OpShape
  <2>2. Ch(g, 1) \in Chan
    BY <1>10, <2>1, PlainChan DEF CloseBegin, ShapeOf, PlainPC
  <2>3. pc[g] = "closer" /\ Ch(g, 1) \notin unl[g]
    BY <1>10 DEF CloseBegin, LockFree
  <2>4. held'[g] = {Ch(g, 1)} /\ unl' = unl /\ pc' = pc /\ op' = op /\ closed'[Ch(g, 1)]
    BY <1>10, <1>e, <2>2 DEF CloseBegin
  <2> QED BY <2>2, <2>3, <2>4, <1>0, <1>e
<1>11. CASE CloseRelease(g)
  BY <1>11, <1>0, <1>e DEF CloseRelease
<1>12. CASE SelInvoke(g)
  BY <1>12, <1>0, <1>e DEF SelInvoke
<1>13. CASE SelLock(g)
  <2>1. PICK c \in SelChans(g) :
          /\ LockOrder(g, c) /\ LockFree(c)
          /\ held' = [held EXCEPT ![g] = @ \cup {c}]
          /\ Goto(g, CASE held[g] \cup {c} # SelChans(g) -> pc[g]
                       [] held[g] \cup {c} = SelChans(g) /\ pc[g] = "sellock" -> "pass1"
                       [] held[g] \cup {c} = SelChans(g) /\ pc[g] = "selpark" -> "pass3")
    BY <1>13 DEF SelLock
  <2>2. c \notin unl[g] /\ unl' = unl /\ op' = op /\ pc[g] \in {"sellock", "selpark"}
    BY <1>13, <2>1 DEF SelLock, LockFree
  <2>3. held'[g] = held[g] \cup {c} /\ SelChans(g)' = SelChans(g)
    BY <2>1, <2>2, <1>e
  <2>4. CASE held[g] \cup {c} # SelChans(g)
    <3>1. pc'[g] = pc[g]
      BY <2>1, <2>4, <1>e
    <3> QED BY <3>1, <2>2, <2>3, <1>0, <1>e
  <2>5. CASE held[g] \cup {c} = SelChans(g)
    <3>1. pc'[g] \in {"pass1", "pass3"}
      BY <2>1, <2>2, <2>5, <1>e
    <3>2. unl[g] = {}
      BY <2>2, <2>5, <1>0
    <3> QED BY <3>1, <3>2, <2>2, <2>3, <2>5, <1>0, <1>e
  <2> QED BY <2>4, <2>5
<1>14. CASE PollComm(g)
  BY <1>14, <1>0, <1>e, SMTT(30) DEF PollComm, Polling
<1>15. CASE PollClosed(g)
  BY <1>15, <1>0, <1>e, SMTT(30) DEF PollClosed, Polling
<1>16. CASE PollNext(g)
  <2>1. UNCHANGED <<held, unl, pc, op, closed>>
    BY <1>16, Zenon DEF PollNext
  <2>2. UNCHANGED <<held, unl, pc, op, closed>> => (LocksOf(g) => LocksOf(g)')
    OBVIOUS
  <2> QED BY <1>0, <2>1, <2>2
<1>17. CASE SelDefault(g)
  BY <1>17, <1>0, <1>e DEF SelDefault
<1>18. CASE SelBlock(g)
  BY <1>18, <1>0, <1>e DEF SelBlock
<1>19. CASE SelEnqueue(g)
  BY <1>19, <1>0, <1>e DEF SelEnqueue
<1>20. CASE SelPark(g)
  BY <1>20, <1>0, <1>e DEF SelPark
<1>21. CASE ParkUnlock(g)
  BY <1>21, <1>0, <1>e DEF ParkUnlock
<1>22. CASE SelDequeue(g)
  BY <1>22, <1>0, <1>e DEF SelDequeue
<1>23. CASE SelRetry(g)
  BY <1>23, <1>0, <1>e DEF SelRetry
<1>24. CASE SelFired(g)
  BY <1>24, <1>0, <1>e DEF SelFired
<1>25. CASE SelUnlock(g)
  BY <1>25, <1>0, <1>e DEF SelUnlock
<1> QED BY <1>1, <1>2, <1>3, <1>4, <1>5, <1>6, <1>7, <1>8, <1>9, <1>10, <1>11,
           <1>12, <1>13, <1>14, <1>15, <1>16, <1>17, <1>18, <1>19, <1>20,
           <1>21, <1>22, <1>23, <1>24, <1>25
        DEF PlainStep, CloseStep, SelectStep

(***************************************************************************)
(* The theorems.                                                           *)
(***************************************************************************)
(* The part of IInv that types and locks need by themselves.               *)
LockIInv == TypeOK /\ OpShape /\ LockInv

(* Every channel starts empty and unlocked, every goroutine idle.          *)
LEMMA InitLockIInv ==
    Init => LockIInv
<1> SUFFICES ASSUME Init PROVE LockIInv
  OBVIOUS
<1> USE CapAssumption DEF Init
<1>1. OpShape
  BY DEF OpShape, ShapeOf, PlainPC, SelPC
<1>2. LockInv
  BY DEF LockInv, LocksOf, SelPC
<1>3. NoOp \in Op /\ <<>> \in Seq(Sudog) /\ <<>> \in Seq(Nat)
  BY EmptySeq DEF NoOp, Op, Fn
<1>4. /\ \A c \in Chan : buf[c] \in [Slots(c) -> Val \cup {NoVal}]
      /\ \A c \in Chan : Cap[c] > 0 => 0 \in Slots(c)
  BY DEF Slots
<1>5. TypeOK
  BY <1>3, <1>4 DEF TypeOK, PC, Outcome
<1> QED BY <1>1, <1>2, <1>5 DEF LockIInv

(* Every step of every goroutine keeps types, shapes and lock ownership.   *)
LEMMA LockIInvStep ==
    LockIInv /\ [Next]_vars => LockIInv'
<1> SUFFICES ASSUME LockIInv, [Next]_vars PROVE LockIInv'
  OBVIOUS
<1>1. CASE UNCHANGED vars
  <2> USE <1>1 DEF LockIInv, vars, hchan, sel
  <2>1. TypeOK'
    BY DEF TypeOK
  <2>2. OpShape'
    BY DEF OpShape, ShapeOf, Ch, NCase
  <2>3. LockInv'
    BY DEF LockInv, LocksOf, Ch, NCase, SelChans
  <2> QED BY <2>1, <2>2, <2>3
<1>2. CASE Next
  <2>1. PICK g \in G : PlainStep(g) \/ CloseStep(g) \/ SelectStep(g)
    BY <1>2 DEF Next
  <2> QED BY <2>1, TypeStep, ShapeStep, LockStep DEF LockIInv
<1> QED BY <1>1, <1>2

(* Types, shapes and lock ownership hold in every reachable state.         *)
LEMMA LockIInvAlways ==
    Spec => []LockIInv
<1>1. Init => LockIInv
  BY InitLockIInv
<1>2. LockIInv /\ [Next]_vars => LockIInv'
  BY LockIInvStep
<1> QED BY <1>1, <1>2, PTL DEF Spec

(* Type correctness of the channel code, for any number of goroutines and  *)
(* channels of any capacity: qcount, sendx and recvx of every Hchan stay   *)
(* within its buffer, whatever sends, receives, selects and closes do.     *)
THEOREM TypeCorrect ==
    Spec => []TypeOK
<1>1. LockIInv => TypeOK
  BY DEF LockIInv
<1> QED BY <1>1, LockIInvAlways, PTL

(* The comment in selunlock: the M that parked a select may touch sel->     *)
(* lockorder until its last unlock, because the select cannot complete (and *)
(* free sel) before it has taken every one of its locks again.             *)
THEOREM SelNotFreedEarlyAlways ==
    Spec => []SelNotFreedEarly
<1>1. LockIInv => SelNotFreedEarly
  <2> SUFFICES ASSUME LockIInv, NEW g \in G, unl[g] # {}
               PROVE  pc[g] = "selpark" /\ held[g] # SelChans(g)
    BY DEF SelNotFreedEarly
  <2>1. LocksOf(g)
    BY DEF LockIInv, LockInv
  <2> QED BY <2>1 DEF LocksOf
<1> QED BY <1>1, LockIInvAlways, PTL

(***************************************************************************)
(* NoThrow: ready() only ever meets a parked goroutine.  The argument is   *)
(* about claims.  A live SudoG in a queue is a goroutine that waits there; *)
(* whoever dequeues one kills all other SudoGs of the same goroutine with  *)
(* it, so nobody else can dequeue the goroutine before it has been readied *)
(* and waits again.                                                        *)
(*                                                                         *)
(* Two partners of an unbuffered channel never both wait: a select that    *)
(* has polled its cases without finding a partner keeps all locks until it *)
(* is enqueued everywhere.  No queue points into an operation that has     *)
(* returned: the SudoGs of a select are counted, as many as pass 3 has yet *)
(* to dequeue may be queued, although dequeueg does not look which of two  *)
(* cases on one channel it unlinks.                                        *)
(***************************************************************************)
(***************************************************************************)
(* Queues.                                                                 *)
(***************************************************************************)
(* An entry of a wait queue is a SudoG.                                    *)
LEMMA EntryType ==
    ASSUME TypeOK, NEW x \in Chan \X Dir
    PROVE  /\ waitq[x] \in Seq(Sudog)
           /\ Len(waitq[x]) \in Nat
           /\ \A k \in 1 .. Len(waitq[x]) :
                /\ waitq[x][k] \in Sudog
                /\ waitq[x][k].g \in G /\ waitq[x][k].cas \in Nat /\ waitq[x][k].selgen \in Nat
<1>1. waitq[x] \in Seq(Sudog)
  BY DEF TypeOK
<1>2. \A k \in 1 .. Len(waitq[x]) : waitq[x][k] \in Sudog
  BY <1>1
<1>3. Len(waitq[x]) \in Nat
  BY <1>1
<1> QED BY <1>1, <1>2, <1>3 DEF Sudog

(* What dequeue pops never comes back, the claimed SudoG least of all.     *)
LEMMA DequeuedBut ==
    ASSUME NEW q \in Seq(Sudog), LiveAt(q) # {}
    PROVE  SubQueueBut(Dequeued(q), q, First(q))
<1> DEFINE n == First(q)
           r == Dequeued(q)
           f == [k \in 1 .. Len(r) |-> k + n]
<1>1. n \in 1 .. Len(q)
  BY FirstLive
<1>2. r \in Seq(Sudog) /\ \A k \in 1 .. Len(r) : k + n \in 1 .. Len(q) /\ r[k] = q[k + n]
  BY DequeuedQueue
<1> HIDE DEF n, r
<1>3. f \in [1 .. Len(r) -> 1 .. Len(q)]
  BY <1>2
<1>4. \A j, k \in 1 .. Len(r) : j # k => f[j] # f[k]
  BY <1>1, <1>2
<1>5. \A k \in 1 .. Len(r) : r[k] = q[f[k]] /\ f[k] # n
  BY <1>1, <1>2
<1> HIDE DEF f
<1>6. SubQueueBut(r, q, n)
  BY <1>3, <1>4, <1>5 DEF SubQueueBut
<1> QED BY <1>6 DEF n, r

(***************************************************************************)
(* Claims.                                                                 *)
(***************************************************************************)
(* The SudoG sg is live after the step.                                    *)
LiveNext(sg) == sg.selgen = NOSELGEN \/ sg.selgen = selgen'[sg.g]

(* Two entries of one goroutine: claiming a live one kills the other.      *)
LEMMA ClaimDead ==
    ASSUME TypeOK, LiveInv,
           NEW x \in Chan \X Dir, NEW k \in 1 .. Len(waitq[x]), Live(waitq[x][k]),
           NEW y \in Chan \X Dir, NEW j \in 1 .. Len(waitq[y]),
           waitq[x][k].g = waitq[y][j].g, x # y \/ j # k,
           selgen' = Claim(waitq[x][k])
    PROVE  ~LiveNext(waitq[y][j])
<1> DEFINE s0 == waitq[x][k]
           s1 == waitq[y][j]
           g == s0.g
<1>1. /\ s0 \in Sudog /\ s0.g \in G /\ s0.selgen \in Nat
      /\ s1 \in Sudog /\ s1.g \in G /\ s1.selgen \in Nat
  BY EntryType
<1>2. WaitsAt(s0, x) /\ (Live(s1) => WaitsAt(s1, y))
  BY DEF LiveInv, WaitInv
<1>3. s1.selgen # NOSELGEN => s1.selgen <= selgen[g]
  BY DEF LiveInv, GenInv
<1>4. x = y => ~(s0.selgen = NOSELGEN /\ s1.selgen = NOSELGEN)
  BY DEF LiveInv, PlainOnce
<1>5. g = s0.g /\ g = s1.g /\ Live(s0) /\ selgen' = Claim(s0) /\ selgen \in [G -> Nat]
  BY DEF TypeOK
<1>6. SUFFICES ASSUME s1.selgen = NOSELGEN \/ s1.selgen = selgen'[g] PROVE FALSE
  BY <1>5 DEF LiveNext
<1> HIDE DEF s0, s1, g
<1>7. CASE s0.selgen = NOSELGEN
  <2>1. pc[g] \in {"syncwait", "asyncwait"} /\ s0.cas = 1 /\ Ch(g, 1) = x[1] /\ CaseDir(g, 1) = x[2]
    BY <1>2, <1>5, <1>7 DEF WaitsAt
  <2>2. selgen' = selgen
    BY <1>5, <1>7 DEF Claim
  <2>3. Live(s1)
    BY <1>5, <1>6, <2>2 DEF Live
  <2>4. WaitsAt(s1, y)
    BY <1>2, <2>3
  <2>5. s1.selgen = NOSELGEN /\ s1.cas = 1 /\ Ch(g, 1) = y[1] /\ CaseDir(g, 1) = y[2]
    BY <2>1, <2>4, <1>5 DEF WaitsAt
  <2>6. x = y
    BY <2>1, <2>5
  <2> QED BY <2>5, <2>6, <1>4, <1>7
<1>8. CASE s0.selgen # NOSELGEN
  <2>1. pc[g] \in {"pass2", "selpark"}
    BY <1>2, <1>5, <1>8 DEF WaitsAt
  <2>2. s1.selgen # NOSELGEN
    <3> SUFFICES ASSUME s1.selgen = NOSELGEN PROVE FALSE
      OBVIOUS
    <3>1. WaitsAt(s1, y)
      BY <1>2 DEF Live
    <3> QED BY <3>1, <2>1, <1>5 DEF WaitsAt
  <2>3. s0.selgen = selgen[g]
    BY <1>5, <1>8 DEF Live
  <2>4. selgen'[g] = selgen[g] + 2
    BY <1>1, <1>5, <1>8, <2>3 DEF Claim
  <2>5. selgen[g] \in Nat
    BY <1>1, <1>5
  <2> QED BY <1>3, <1>6, <2>2, <2>4, <2>5
<1> QED BY <1>7, <1>8

(* Claiming moves generations forward, in steps of two.                    *)
LEMMA ClaimMono ==
    ASSUME TypeOK, LiveInv,
           NEW x \in Chan \X Dir, NEW k \in 1 .. Len(waitq[x]), Live(waitq[x][k]),
           selgen' = Claim(waitq[x][k])
    PROVE  \A h \in G : selgen'[h] >= selgen[h] /\ selgen'[h] % 2 = 0
<1> DEFINE s0 == waitq[x][k]
<1>1. s0.g \in G /\ s0.selgen \in Nat /\ Live(s0) /\ selgen' = Claim(s0)
  BY EntryType
<1>2. selgen \in [G -> Nat] /\ \A h \in G : selgen[h] % 2 = 0
  BY DEF TypeOK, LiveInv, GenInv
<1> HIDE DEF s0
<1>3. CASE s0.selgen = NOSELGEN
  BY <1>1, <1>2, <1>3 DEF Claim
<1>4. CASE s0.selgen # NOSELGEN
  <2>1. selgen' = [selgen EXCEPT ![s0.g] = selgen[s0.g] + 2]
    BY <1>1, <1>4 DEF Claim, Live
  <2>2. \A n \in Nat : n % 2 = 0 => (n + 2) % 2 = 0
    OBVIOUS
  <2> QED BY <1>1, <1>2, <2>1, <2>2
<1> QED BY <1>3, <1>4

(* Who is dead stays dead: generations only grow.                          *)
LEMMA LiveBefore ==
    ASSUME TypeOK, LiveInv, selgen' \in [G -> Nat], \A h \in G : selgen'[h] >= selgen[h],
           NEW x \in Chan \X Dir, NEW k \in 1 .. Len(waitq[x]),
           NEW sg, sg = waitq[x][k], LiveNext(sg)
    PROVE  Live(sg)
<1>1. sg.g \in G /\ sg.selgen \in Nat
  BY EntryType
<1>2. sg.selgen # NOSELGEN => sg.selgen <= selgen[sg.g]
  BY DEF LiveInv, GenInv
<1>3. selgen[sg.g] \in Nat /\ selgen'[sg.g] \in Nat /\ selgen'[sg.g] >= selgen[sg.g]
  BY <1>1 DEF TypeOK
<1> QED BY <1>1, <1>2, <1>3 DEF Live, LiveNext

(***************************************************************************)
(* What a step does to queues and generations.                             *)
(***************************************************************************)
(* The step claims the first live SudoG of queue y.                        *)
Claims(y) ==
    /\ y \in Chan \X Dir /\ LiveAt(waitq[y]) # {}
    /\ selgen' = Claim(waitq[y][First(waitq[y])])
    /\ waitq' = [waitq EXCEPT ![y] = Dequeued(@)]

(* The step claims nobody and only unlinks SudoGs.                         *)
Unlinks == selgen' = selgen /\ \A x \in Chan \X Dir : SubQueue(waitq'[x], waitq[x])

CloseQueue(g) == <<Ch(g, 1), IF pc[g] = "closer" THEN "recv" ELSE "send">>

(* Communication on case i dequeues from the opposite queue.               *)
LEMMA CommStep ==
    ASSUME TypeOK, NEW g \in G, NEW i, Ch(g, i) \in Chan, CaseDir(g, i) \in Dir,
           Communicate(g, Ch(g, i), CaseDir(g, i), i)
    PROVE  \/ Unlinks /\ hand' = hand /\ LiveAt(waitq[CommQueue(g, i)]) = {}
           \/ /\ Claims(CommQueue(g, i))
              /\ hand' = [hand EXCEPT ![g] = {waitq[CommQueue(g, i)][First(waitq[CommQueue(g, i)])]}]
<1> DEFINE y == CommQueue(g, i)
<1>1. y \in Chan \X Dir
  BY DEF CommQueue, Opp, Dir
<1>2. DequeueInto(g, Ch(g, i), Opp(CaseDir(g, i))) /\ y = <<Ch(g, i), Opp(CaseDir(g, i))>>
  BY DEF Communicate, CommQueue
<1>3. waitq' = [waitq EXCEPT ![y] = Dequeued(@)]
  BY <1>2 DEF DequeueInto
<1> HIDE DEF y
<1>4. CASE LiveAt(waitq[y]) = {}
  <2>1. selgen' = selgen /\ hand' = hand
    BY <1>2, <1>4 DEF DequeueInto
  <2>2. ASSUME NEW x \in Chan \X Dir PROVE SubQueue(waitq'[x], waitq[x])
    <3>1. waitq \in [Chan \X Dir -> Seq(Sudog)]
      BY DEF TypeOK
    <3>2. waitq[x] \in Seq(Sudog) /\ waitq'[x] = IF x = y THEN Dequeued(waitq[x]) ELSE waitq[x]
      BY <1>3, <3>1
    <3> QED BY <3>2, DequeuedQueue, SubQueueSelf
  <2> QED BY <2>1, <2>2, <1>4 DEF Unlinks, y
<1>5. CASE LiveAt(waitq[y]) # {}
  <2>1. /\ hand' = [hand EXCEPT ![g] = {waitq[y][First(waitq[y])]}]
        /\ selgen' = Claim(waitq[y][First(waitq[y])])
    BY <1>2, <1>5 DEF DequeueInto
  <2>2. Claims(y)
    BY <1>1, <1>3, <1>5, <2>1 DEF Claims
  <2> QED BY <2>1, <2>2 DEF y
<1> QED BY <1>4, <1>5

(* Emptying or unlinking in one queue only unlinks.                        *)
LEMMA UnlinkOne ==
    ASSUME TypeOK, NEW y \in Chan \X Dir, NEW q, SubQueue(q, waitq[y]), selgen' = selgen,
           waitq' = [waitq EXCEPT ![y] = q]
    PROVE  Unlinks
<1>1. waitq \in [Chan \X Dir -> Seq(Sudog)]
  BY DEF TypeOK
<1>2. ASSUME NEW x \in Chan \X Dir PROVE SubQueue(waitq'[x], waitq[x])
  <2>1. waitq[x] \in Seq(Sudog) /\ waitq'[x] = IF x = y THEN q ELSE waitq[x]
    BY <1>1
  <2> QED BY <2>1, SubQueueSelf
<1> QED BY <1>2 DEF Unlinks

(* Leaving the queues alone only unlinks.                                  *)
LEMMA UnlinkNone ==
    ASSUME TypeOK, selgen' = selgen, waitq' = waitq
    PROVE  Unlinks
<1>1. \A x \in Chan \X Dir : waitq[x] \in Seq(Sudog)
  BY DEF TypeOK
<1> QED BY <1>1, SubQueueSelf DEF Unlinks

(* The stale SudoGs that an unsuccessful dequeue pops.                     *)
LEMMA PopStaleUnlinks ==
    ASSUME TypeOK, NEW c \in Chan, NEW d \in Dir, PopStale(c, d), selgen' = selgen
    PROVE  Unlinks
<1>1. <<c, Opp(d)>> \in Chan \X Dir
  BY DEF Opp, Dir
<1>2. SubQueue(<<>>, waitq[<<c, Opp(d)>>])
  BY <1>1, EntryType, SubQueueEmpty
<1>3. CASE Cap[c] = 0
  BY <1>1, <1>2, <1>3, UnlinkOne DEF PopStale
<1>4. CASE Cap[c] # 0
  BY <1>4, UnlinkNone DEF PopStale
<1> QED BY <1>3, <1>4

(* Every step enqueues, only unlinks, or claims one SudoG.                 *)
LEMMA QueueStep ==
    ASSUME TypeOK, OpShape, LockInv, NEW g \in G,
           PlainStep(g) \/ CloseStep(g) \/ SelectStep(g)
    PROVE  \/ ChanPark(g) \/ SelEnqueue(g) \/ Unlinks
           \/ ChanComm(g) /\ Claims(CommQueue(g, 1))
           \/ PollComm(g) /\ Claims(CommQueue(g, pollorder[g][idx[g]]))
           \/ CloseRelease(g) /\ Claims(CloseQueue(g))
<1>1. CASE Invoke(g)
  BY <1>1, UnlinkNone DEF Invoke
<1>2. CASE NilChan(g)
  BY <1>2, UnlinkNone DEF NilChan
<1>3. CASE ChanClosed(g)
  BY <1>3, UnlinkNone DEF ChanClosed
<1>4. CASE ChanComm(g)
  <2>1. Ch(g, 1) \in Chan /\ CaseDir(g, 1) \in Dir
    BY <1>4, PlainChan DEF ChanComm, InSection, PlainPC
  <2>2. Communicate(g, Ch(g, 1), CaseDir(g, 1), 1)
    BY <1>4 DEF ChanComm
  <2> QED BY <1>4, <2>1, <2>2, CommStep
<1>5. CASE ChanNotReady(g)
  <2>1. Ch(g, 1) \in Chan /\ CaseDir(g, 1) \in Dir
    BY <1>5, PlainChan DEF ChanNotReady, InSection, PlainPC
  <2>2. PopStale(Ch(g, 1), CaseDir(g, 1)) /\ selgen' = selgen
    BY <1>5 DEF ChanNotReady
  <2> QED BY <2>1, <2>2, PopStaleUnlinks
<1>6. CASE ChanPark(g)
  BY <1>6
<1>7. CASE SyncWake(g)
  BY <1>7, UnlinkNone DEF SyncWake
<1>8. CASE Wakeup(g)
  BY <1>8, UnlinkNone DEF Wakeup
<1>9. CASE ClosePanic(g)
  BY <1>9, UnlinkNone DEF ClosePanic
<1>10. CASE CloseBegin(g)
  BY <1>10, UnlinkNone DEF CloseBegin
<1>11. CASE CloseRelease(g)
  <2> DEFINE y == CloseQueue(g)
  <2>1. LocksOf(g)
    BY DEF LockInv
  <2>2. Ch(g, 1) \in Chan
    BY <1>11, <2>1 DEF CloseRelease, LocksOf
  <2>3. y \in Chan \X Dir
    BY <2>2 DEF CloseQueue, Dir
  <2>4. /\ waitq' = [waitq EXCEPT ![y] = Dequeued(waitq[y])]
        /\ LiveAt(waitq[y]) # {} => selgen' = Claim(waitq[y][First(waitq[y])])
        /\ LiveAt(waitq[y]) = {} => selgen' = selgen
    BY <1>11 DEF CloseRelease, CloseQueue
  <2> HIDE DEF y
  <2>5. CASE LiveAt(waitq[y]) = {}
    <3>1. SubQueue(Dequeued(waitq[y]), waitq[y])
      BY <2>3, EntryType, DequeuedQueue
    <3> QED BY <2>3, <2>4, <2>5, <3>1, UnlinkOne
  <2>6. CASE LiveAt(waitq[y]) # {}
    <3>1. Claims(y)
      BY <2>3, <2>4, <2>6 DEF Claims
    <3> QED BY <1>11, <3>1 DEF y
  <2> QED BY <2>5, <2>6
<1>12. CASE SelInvoke(g)
  BY <1>12, UnlinkNone DEF SelInvoke
<1>13. CASE SelLock(g)
  BY <1>13, UnlinkNone DEF SelLock
<1>14. CASE PollComm(g)
  <2> DEFINE i == pollorder[g][idx[g]]
  <2>1. i \in 1 .. NCase(g)
    BY <1>14, CaseType DEF PollComm, Polling, SelPC
  <2>2. Ch(g, i) \in Chan /\ CaseDir(g, i) \in Dir
    BY <1>14, <2>1, CaseType DEF PollComm, Polling, SelPC
  <2>3. Communicate(g, Ch(g, i), CaseDir(g, i), i)
    BY <1>14 DEF PollComm
  <2> QED BY <1>14, <2>2, <2>3, CommStep
<1>15. CASE PollClosed(g)
  <2> DEFINE i == pollorder[g][idx[g]]
             c == Ch(g, i)
  <2>1. i \in 1 .. NCase(g)
    BY <1>15, CaseType DEF PollClosed, Polling, SelPC
  <2>2. c \in Chan
    BY <1>15, <2>1, CaseType DEF PollClosed, Polling, SelPC
  <2>3. selgen' = selgen /\ (waitq' = waitq \/ waitq' = [waitq EXCEPT ![<<c, "send">>] = <<>>])
    BY <1>15 DEF PollClosed
  <2> HIDE DEF c
  <2>4. <<c, "send">> \in Chan \X Dir
    BY <2>2 DEF Dir
  <2>5. SubQueue(<<>>, waitq[<<c, "send">>])
    BY <2>4, EntryType, SubQueueEmpty
  <2> QED BY <2>3, <2>4, <2>5, UnlinkOne, UnlinkNone
<1>16. CASE PollNext(g)
  <2> DEFINE i == pollorder[g][idx[g]]
  <2>1. i \in 1 .. NCase(g)
    BY <1>16, CaseType DEF PollNext, Polling, SelPC
  <2>2. Ch(g, i) \in Chan /\ CaseDir(g, i) \in Dir
    BY <1>16, <2>1, CaseType DEF PollNext, Polling, SelPC
  <2>3. PopStale(Ch(g, i), CaseDir(g, i)) /\ selgen' = selgen
    BY <1>16 DEF PollNext
  <2> QED BY <2>2, <2>3, PopStaleUnlinks
<1>17. CASE SelDefault(g)
  BY <1>17, UnlinkNone DEF SelDefault
<1>18. CASE SelBlock(g)
  BY <1>18, UnlinkNone DEF SelBlock
<1>19. CASE SelEnqueue(g)
  BY <1>19
<1>20. CASE SelPark(g)
  BY <1>20, UnlinkNone DEF SelPark
<1>21. CASE ParkUnlock(g)
  BY <1>21, UnlinkNone DEF ParkUnlock
<1>22. CASE SelDequeue(g)
  <2> DEFINE i == idx[g]
             y == <<Ch(g, i), CaseDir(g, i)>>
  <2>1. i \in 1 .. NCase(g)
    BY <1>22, CaseType DEF SelDequeue, SelPC
  <2>2. y \in Chan \X Dir
    BY <1>22, <2>1, CaseType DEF SelDequeue, SelPC
  <2>3. selgen' = selgen /\ (waitq' = waitq \/ waitq' = [waitq EXCEPT ![y] = DequeueG(waitq[y], g)])
    BY <1>22 DEF SelDequeue
  <2> HIDE DEF y
  <2>4. SubQueue(DequeueG(waitq[y], g), waitq[y])
    BY <2>2, EntryType, DequeueGQueue
  <2> QED BY <2>2, <2>3, <2>4, UnlinkOne, UnlinkNone
<1>23. CASE SelRetry(g)
  BY <1>23, UnlinkNone DEF SelRetry
<1>24. CASE SelFired(g)
  BY <1>24, UnlinkNone DEF SelFired
<1>25. CASE SelUnlock(g)
  BY <1>25, UnlinkNone DEF SelUnlock
<1> QED BY <1>1, <1>2, <1>3, <1>4, <1>5, <1>6, <1>7, <1>8, <1>9, <1>10, <1>11,
           <1>12, <1>13, <1>14, <1>15, <1>16, <1>17, <1>18, <1>19, <1>20,
           <1>21, <1>22, <1>23, <1>24, <1>25
        DEF PlainStep, CloseStep, SelectStep

(***************************************************************************)
(* Who changes whose status.                                               *)
(***************************************************************************)
(* The status of another goroutine changes only when it is readied: by the *)
(* goroutine that holds it in its hand, or by a close that claimed it.     *)
LEMMA StatusStep ==
    ASSUME TypeOK, NEW g \in G, NEW h \in G, h # g, status'[h] # status[h],
           PlainStep(g) \/ CloseStep(g) \/ SelectStep(g)
    PROVE  \/ Wakeup(g) /\ \E sg \in hand[g] : sg.g = h
           \/ /\ CloseRelease(g) /\ LiveAt(waitq[CloseQueue(g)]) # {}
              /\ waitq[CloseQueue(g)][First(waitq[CloseQueue(g)])].g = h
<1>0. status \in [G -> {"Gwaiting", "Grunnable"}]
  BY DEF TypeOK
<1> USE DEF Goto, Park
<1>1. CASE Invoke(g)
  BY <1>1, <1>0 DEF Invoke
<1>2. CASE NilChan(g)
  BY <1>2, <1>0 DEF NilChan
<1>3. CASE ChanClosed(g)
  BY <1>3, <1>0 DEF ChanClosed
<1>4. CASE ChanComm(g)
  BY <1>4, <1>0 DEF ChanComm
<1>5. CASE ChanNotReady(g)
  BY <1>5, <1>0 DEF ChanNotReady
<1>6. CASE ChanPark(g)
  BY <1>6, <1>0 DEF ChanPark
<1>7. CASE SyncWake(g)
  BY <1>7, <1>0 DEF SyncWake
<1>8. CASE Wakeup(g)
  <2>1. PICK sg \in hand[g] : Ready(sg.g)
    BY <1>8 DEF Wakeup
  <2>2. sg.g = h
    BY <2>1, <1>0 DEF Ready
  <2> QED BY <1>8, <2>2
<1>9. CASE ClosePanic(g)
  BY <1>9, <1>0 DEF ClosePanic
<1>10. CASE CloseBegin(g)
  BY <1>10, <1>0 DEF CloseBegin
<1>11. CASE CloseRelease(g)
  <2> DEFINE q == waitq[CloseQueue(g)]
  <2>1. CASE LiveAt(q) = {}
    BY <1>11, <2>1 DEF CloseRelease, CloseQueue
  <2>2. CASE LiveAt(q) # {}
    <3>1. Ready(q[First(q)].g)
      BY <1>11, <2>2 DEF CloseRelease, CloseQueue
    <3>2. q[First(q)].g = h
      BY <3>1, <1>0 DEF Ready
    <3> QED BY <1>11, <2>2, <3>2
  <2> QED BY <2>1, <2>2
<1>12. CASE SelInvoke(g)
  BY <1>12, <1>0 DEF SelInvoke
<1>13. CASE SelLock(g)
  BY <1>13, <1>0 DEF SelLock
<1>14. CASE PollComm(g)
  BY <1>14, <1>0 DEF PollComm
<1>15. CASE PollClosed(g)
  BY <1>15, <1>0 DEF PollClosed
<1>16. CASE PollNext(g)
  BY <1>16, <1>0 DEF PollNext
<1>17. CASE SelDefault(g)
  BY <1>17, <1>0 DEF SelDefault
<1>18. CASE SelBlock(g)
  BY <1>18, <1>0 DEF SelBlock
<1>19. CASE SelEnqueue(g)
  BY <1>19, <1>0 DEF SelEnqueue
<1>20. CASE SelPark(g)
  BY <1>20, <1>0 DEF SelPark
<1>21. CASE ParkUnlock(g)
  BY <1>21, <1>0 DEF ParkUnlock
<1>22. CASE SelDequeue(g)
  BY <1>22, <1>0 DEF SelDequeue
<1>23. CASE SelRetry(g)
  BY <1>23, <1>0 DEF SelRetry
<1>24. CASE SelFired(g)
  BY <1>24, <1>0 DEF SelFired
<1>25. CASE SelUnlock(g)
  BY <1>25, <1>0 DEF SelUnlock
<1> QED BY <1>1, <1>2, <1>3, <1>4, <1>5, <1>6, <1>7, <1>8, <1>9, <1>10, <1>11,
           <1>12, <1>13, <1>14, <1>15, <1>16, <1>17, <1>18, <1>19, <1>20,
           <1>21, <1>22, <1>23, <1>24, <1>25
        DEF PlainStep, CloseStep, SelectStep

(* A goroutine that waits takes no step but to go on enqueuing, to park,   *)
(* or (its M) to unlock.                                                   *)
LEMMA ActorWaits ==
    ASSUME NEW g \in G, PlainStep(g) \/ CloseStep(g) \/ SelectStep(g),
           pc[g] = "pass2" \/ Parked(g)
    PROVE  SelEnqueue(g) \/ SelPark(g) \/ ParkUnlock(g)
<1>0. \/ pc[g] = "pass2"
      \/ pc[g] \in {"syncwait", "asyncwait", "selpark"} /\ status[g] # "Grunnable"
  BY DEF Parked
<1>1. CASE Invoke(g)
  BY <1>1, <1>0 DEF Invoke
<1>2. CASE NilChan(g)
  BY <1>2, <1>0 DEF NilChan
<1>3. CASE ChanClosed(g)
  BY <1>3, <1>0 DEF ChanClosed, InSection
<1>4. CASE ChanComm(g)
  BY <1>4, <1>0 DEF ChanComm, InSection
<1>5. CASE ChanNotReady(g)
  BY <1>5, <1>0 DEF ChanNotReady, InSection
<1>6. CASE ChanPark(g)
  BY <1>6, <1>0 DEF ChanPark, InSection
<1>7. CASE SyncWake(g)
  BY <1>7, <1>0 DEF SyncWake
<1>8. CASE Wakeup(g)
  BY <1>8, <1>0 DEF Wakeup
<1>9. CASE ClosePanic(g)
  BY <1>9, <1>0 DEF ClosePanic
<1>10. CASE CloseBegin(g)
  BY <1>10, <1>0 DEF CloseBegin
<1>11. CASE CloseRelease(g)
  BY <1>11, <1>0 DEF CloseRelease
<1>12. CASE SelInvoke(g)
  BY <1>12, <1>0 DEF SelInvoke
<1>13. CASE SelLock(g)
  BY <1>13, <1>0 DEF SelLock
<1>14. CASE PollComm(g)
  BY <1>14, <1>0 DEF PollComm, Polling
<1>15. CASE PollClosed(g)
  BY <1>15, <1>0 DEF PollClosed, Polling
<1>16. CASE PollNext(g)
  BY <1>16, <1>0 DEF PollNext, Polling
<1>17. CASE SelDefault(g)
  BY <1>17, <1>0 DEF SelDefault
<1>18. CASE SelBlock(g)
  BY <1>18, <1>0 DEF SelBlock
<1>19. CASE SelEnqueue(g)
  BY <1>19
<1>20. CASE SelPark(g)
  BY <1>20
<1>21. CASE ParkUnlock(g)
  BY <1>21
<1>22. CASE SelDequeue(g)
  BY <1>22, <1>0 DEF SelDequeue
<1>23. CASE SelRetry(g)
  BY <1>23, <1>0 DEF SelRetry
<1>24. CASE SelFired(g)
  BY <1>24, <1>0 DEF SelFired
<1>25. CASE SelUnlock(g)
  BY <1>25, <1>0 DEF SelUnlock
<1> QED BY <1>1, <1>2, <1>3, <1>4, <1>5, <1>6, <1>7, <1>8, <1>9, <1>10, <1>11,
           <1>12, <1>13, <1>14, <1>15, <1>16, <1>17, <1>18, <1>19, <1>20,
           <1>21, <1>22, <1>23, <1>24, <1>25
        DEF PlainStep, CloseStep, SelectStep

(* A close that finds a live SudoG claims it.                              *)
LEMMA CloseClaims ==
    ASSUME TypeOK, LockInv, NEW g \in G, CloseRelease(g), LiveAt(waitq[CloseQueue(g)]) # {}
    PROVE  Claims(CloseQueue(g))
<1>1. LocksOf(g)
  BY DEF LockInv
<1>2. Ch(g, 1) \in Chan
  BY <1>1 DEF CloseRelease, LocksOf
<1>3. CloseQueue(g) \in Chan \X Dir
  BY <1>2 DEF CloseQueue, Dir
<1> QED BY <1>3 DEF Claims, CloseRelease, CloseQueue

(* Generations stay even and never go back.                                *)
LEMMA GenStep ==
    ASSUME TypeOK, OpShape, LockInv, LiveInv, NEW g \in G,
           PlainStep(g) \/ CloseStep(g) \/ SelectStep(g)
    PROVE  \A h \in G : selgen'[h] >= selgen[h] /\ selgen'[h] % 2 = 0
<1>0. selgen \in [G -> Nat] /\ \A h \in G : selgen[h] % 2 = 0
  BY DEF TypeOK, LiveInv, GenInv
<1>1. CASE selgen' = selgen
  BY <1>0, <1>1
<1>2. ASSUME NEW y, Claims(y) PROVE \A h \in G : selgen'[h] >= selgen[h] /\ selgen'[h] % 2 = 0
  <2>1. y \in Chan \X Dir /\ waitq[y] \in Seq(Sudog) /\ LiveAt(waitq[y]) # {}
    BY <1>2, EntryType DEF Claims
  <2>2. First(waitq[y]) \in 1 .. Len(waitq[y]) /\ Live(waitq[y][First(waitq[y])])
    BY <2>1, FirstLive
  <2> QED BY <1>2, <2>1, <2>2, ClaimMono DEF Claims
<1>3. CASE ChanPark(g) \/ SelEnqueue(g)
  BY <1>1, <1>3 DEF ChanPark, SelEnqueue
<1> QED BY <1>1, <1>2, <1>3, QueueStep DEF Unlinks

(* A SudoG that is live after the step (and was not the one a close just   *)
(* claimed) is of a goroutine that still waits.                            *)
LEMMA KeepWaiting ==
    ASSUME TypeOK, OpShape, LockInv, LiveInv, HandInv, TypeOK', NEW g \in G,
           PlainStep(g) \/ CloseStep(g) \/ SelectStep(g),
           NEW x \in Chan \X Dir, NEW k \in 1 .. Len(waitq[x]), NEW sg, sg = waitq[x][k],
           LiveNext(sg),
           CloseRelease(g) /\ Claims(x) => k # First(waitq[x])
    PROVE  Live(sg) /\ WaitsAt(sg, x)'
<1>1. Live(sg)
  <2>1. selgen' \in [G -> Nat] /\ \A h \in G : selgen'[h] >= selgen[h]
    BY GenStep DEF TypeOK
  <2> QED BY <2>1, LiveBefore
<1>2. WaitsAt(sg, x)
  BY <1>1 DEF LiveInv, WaitInv
<1>3. sg.g \in G
  BY EntryType
<1>4. CASE sg.g # g
  <2>1. pc'[sg.g] = pc[sg.g] /\ op'[sg.g] = op[sg.g]
    BY <1>3, <1>4, Frame
  <2>2. status'[sg.g] = status[sg.g]
    <3> SUFFICES ASSUME status'[sg.g] # status[sg.g] PROVE FALSE
      OBVIOUS
    <3>1. CASE \E s \in hand[g] : s.g = sg.g
      BY <3>1, <1>1 DEF HandInv, NoneLive
    <3>2. CASE /\ CloseRelease(g) /\ LiveAt(waitq[CloseQueue(g)]) # {}
               /\ waitq[CloseQueue(g)][First(waitq[CloseQueue(g)])].g = sg.g
      <4> DEFINE y == CloseQueue(g)
      <4>1. Claims(y)
        BY <3>2, CloseClaims
      <4>2. y \in Chan \X Dir /\ LiveAt(waitq[y]) # {} /\ selgen' = Claim(waitq[y][First(waitq[y])])
        BY <4>1 DEF Claims
      <4>3. waitq[y][First(waitq[y])].g = sg.g
        BY <3>2
      <4> HIDE DEF y
      <4>4. First(waitq[y]) \in 1 .. Len(waitq[y]) /\ Live(waitq[y][First(waitq[y])])
        BY <4>2, EntryType, FirstLive
      <4>5. x # y \/ k # First(waitq[y])
        BY <4>1, <3>2
      <4> QED BY <4>2, <4>3, <4>4, <4>5, ClaimDead
    <3> QED BY <3>1, <3>2, <1>3, <1>4, StatusStep
  <2> QED BY <1>1, <1>2, <2>1, <2>2 DEF WaitsAt, NCase, Ch, CaseDir
<1>5. CASE sg.g = g
  <2>1. pc[g] = "pass2" \/ Parked(g)
    BY <1>2, <1>5 DEF WaitsAt, Parked
  <2>2. CASE SelEnqueue(g) \/ ParkUnlock(g)
    BY <1>1, <1>2, <1>5, <2>2 DEF WaitsAt, NCase, Ch, CaseDir, SelEnqueue, ParkUnlock
  <2>3. CASE SelPark(g)
    <3>1. pc[g] = "pass2" /\ pc'[g] = "selpark" /\ status'[g] = "Gwaiting" /\ op' = op
      BY <2>3 DEF SelPark, Park, Goto, TypeOK
    <3> QED BY <1>1, <1>2, <1>5, <3>1 DEF WaitsAt, NCase, Ch, CaseDir
  <2> QED BY <2>1, <2>2, <2>3, ActorWaits
<1> QED BY <1>1, <1>4, <1>5

(***************************************************************************)
(* LiveInv is preserved.                                                   *)
(***************************************************************************)
(* Where nothing is enqueued, the SudoGs in a queue were there before, and *)
(* a claimed one is gone.                                                  *)
LEMMA Survivors ==
    ASSUME TypeOK, OpShape, LockInv, NEW g \in G,
           PlainStep(g) \/ CloseStep(g) \/ SelectStep(g),
           ~ChanPark(g), ~SelEnqueue(g), NEW x \in Chan \X Dir
    PROVE  \E f \in [1 .. Len(waitq'[x]) -> 1 .. Len(waitq[x])] :
             /\ \A j, k \in 1 .. Len(waitq'[x]) : j # k => f[j] # f[k]
             /\ \A k \in 1 .. Len(waitq'[x]) :
                  waitq'[x][k] = waitq[x][f[k]] /\ (Claims(x) => f[k] # First(waitq[x]))
<1>0. waitq[x] \in Seq(Sudog) /\ waitq \in [Chan \X Dir -> Seq(Sudog)]
  BY DEF TypeOK
<1>1. CASE Claims(x)
  <2>1. SubQueueBut(waitq'[x], waitq[x], First(waitq[x]))
    BY <1>0, <1>1, DequeuedBut DEF Claims
  <2> QED BY <2>1 DEF SubQueueBut
<1>2. CASE ~Claims(x)
  <2>1. SubQueue(waitq'[x], waitq[x])
    <3>1. CASE Unlinks
      BY <3>1 DEF Unlinks
    <3>2. ASSUME NEW y, Claims(y) PROVE SubQueue(waitq'[x], waitq[x])
      <4>1. waitq'[x] = waitq[x]
        BY <1>0, <1>2, <3>2 DEF Claims
      <4> QED BY <1>0, <4>1, SubQueueSelf
    <3> QED BY <3>1, <3>2, QueueStep
  <2> QED BY <1>2, <2>1 DEF SubQueue
<1> QED BY <1>1, <1>2

(* The invariant of one entry of a queue after the step.                   *)
EntryOk(sg, x) ==
    /\ sg.selgen # NOSELGEN => sg.selgen <= selgen'[sg.g]
    /\ LiveNext(sg) => WaitsAt(sg, x)'

(* An entry that was in the queue before the step.                         *)
LEMMA OldEntry ==
    ASSUME TypeOK, OpShape, LockInv, LiveInv, HandInv, TypeOK', NEW g \in G,
           PlainStep(g) \/ CloseStep(g) \/ SelectStep(g),
           NEW x \in Chan \X Dir, NEW k \in 1 .. Len(waitq[x]), NEW sg, sg = waitq[x][k],
           CloseRelease(g) /\ Claims(x) => k # First(waitq[x])
    PROVE  EntryOk(sg, x)
<1>1. sg.g \in G /\ sg.selgen \in Nat
  BY EntryType
<1>2. sg.selgen # NOSELGEN => sg.selgen <= selgen[sg.g]
  BY DEF LiveInv, GenInv
<1>3. selgen[sg.g] \in Nat /\ selgen'[sg.g] \in Nat /\ selgen'[sg.g] >= selgen[sg.g]
  BY <1>1, GenStep DEF TypeOK
<1>4. LiveNext(sg) => WaitsAt(sg, x)'
  BY KeepWaiting
<1> QED BY <1>1, <1>2, <1>3, <1>4 DEF EntryOk

(* LiveInv after the step, from its entries.                               *)
LEMMA LiveFromEntries ==
    ASSUME TypeOK', \A h \in G : selgen'[h] % 2 = 0, PlainOnce',
           \A x \in Chan \X Dir : \A k \in 1 .. Len(waitq'[x]) :
             \A sg : sg = waitq'[x][k] => EntryOk(sg, x)
    PROVE  LiveInv'
<1>1. GenInv'
  BY DEF GenInv, EntryOk
<1>2. WaitInv'
  <2> SUFFICES ASSUME NEW x \in Chan \X Dir, NEW k \in 1 .. Len(waitq'[x]), Live(waitq[x][k])'
               PROVE  WaitsAt(waitq[x][k], x)'
    BY DEF WaitInv
  <2>1. PICK sg : sg = waitq'[x][k]
    OBVIOUS
  <2>2. EntryOk(sg, x) /\ LiveNext(sg)
    BY <2>1 DEF Live, LiveNext
  <2>3. WaitsAt(sg, x)'
    BY <2>2 DEF EntryOk
  <2> QED BY <2>1, <2>3 DEF WaitsAt
<1> QED BY <1>1, <1>2 DEF LiveInv

(* Steps that enqueue nothing.                                             *)
LEMMA LiveStepUnlink ==
    ASSUME TypeOK, OpShape, LockInv, LiveInv, HandInv, TypeOK', NEW g \in G,
           PlainStep(g) \/ CloseStep(g) \/ SelectStep(g),
           ~ChanPark(g), ~SelEnqueue(g)
    PROVE  LiveInv'
<1>1. ASSUME NEW x \in Chan \X Dir, NEW k \in 1 .. Len(waitq'[x]), NEW sg, sg = waitq'[x][k]
      PROVE  EntryOk(sg, x)
  <2>1. PICK f \in [1 .. Len(waitq'[x]) -> 1 .. Len(waitq[x])] :
          \A n \in 1 .. Len(waitq'[x]) :
             waitq'[x][n] = waitq[x][f[n]] /\ (Claims(x) => f[n] # First(waitq[x]))
    BY Survivors
  <2>2. f[k] \in 1 .. Len(waitq[x]) /\ sg = waitq[x][f[k]]
    BY <1>1, <2>1
  <2>3. Claims(x) => f[k] # First(waitq[x])
    BY <2>1
  <2> QED BY <2>2, <2>3, OldEntry
<1>2. PlainOnce'
  <2> SUFFICES ASSUME NEW x \in Chan \X Dir, NEW j \in 1 .. Len(waitq'[x]),
                      NEW k \in 1 .. Len(waitq'[x]), j # k,
                      waitq'[x][j].g = waitq'[x][k].g, waitq'[x][j].selgen = NOSELGEN
               PROVE  waitq'[x][k].selgen # NOSELGEN
    BY DEF PlainOnce
  <2>1. PICK f \in [1 .. Len(waitq'[x]) -> 1 .. Len(waitq[x])] :
          /\ \A m, n \in 1 .. Len(waitq'[x]) : m # n => f[m] # f[n]
          /\ \A n \in 1 .. Len(waitq'[x]) : waitq'[x][n] = waitq[x][f[n]]
    BY Survivors
  <2>2. /\ f[j] \in 1 .. Len(waitq[x]) /\ f[k] \in 1 .. Len(waitq[x]) /\ f[j] # f[k]
        /\ waitq'[x][j] = waitq[x][f[j]] /\ waitq'[x][k] = waitq[x][f[k]]
    BY <2>1
  <2> QED BY <2>2 DEF LiveInv, PlainOnce
<1> QED BY <1>1, <1>2, GenStep, LiveFromEntries

(* An entry appended to queue x0 is new; the others were there before.     *)
LEMMA Appended ==
    ASSUME TypeOK, OpShape, LockInv, LiveInv, HandInv, TypeOK', NEW g \in G,
           PlainStep(g) \/ CloseStep(g) \/ SelectStep(g), ~CloseRelease(g),
           NEW x \in Chan \X Dir, NEW w \in Sudog,
           waitq'[x] = Append(waitq[x], w), EntryOk(w, x),
           NEW k \in 1 .. Len(waitq'[x]), NEW sg, sg = waitq'[x][k]
    PROVE  EntryOk(sg, x)
<1>1. waitq[x] \in Seq(Sudog)
  BY EntryType
<1>2. Len(waitq'[x]) = Len(waitq[x]) + 1 /\ Len(waitq[x]) \in Nat
  BY <1>1, AppendProperties
<1>3. CASE k = Len(waitq[x]) + 1
  BY <1>1, <1>3, AppendProperties
<1>4. CASE k # Len(waitq[x]) + 1
  <2>1. k \in 1 .. Len(waitq[x]) /\ waitq'[x][k] = waitq[x][k]
    BY <1>1, <1>2, <1>4, AppendProperties
  <2> QED BY <2>1, OldEntry
<1> QED BY <1>3, <1>4

(* chansend and chanrecv enqueue mysg and park.                            *)
LEMMA LiveStepPark ==
    ASSUME TypeOK, OpShape, LockInv, LiveInv, HandInv, TypeOK', NEW g \in G, ChanPark(g)
    PROVE  LiveInv'
<1>a. PICK c, d : c = Ch(g, 1) /\ d = CaseDir(g, 1)
  OBVIOUS
<1>b. PICK y, w : y = <<c, d>> /\ w = [g |-> g, cas |-> 1, selgen |-> NOSELGEN]
  OBVIOUS
<1>1. c \in Chan /\ d \in Dir /\ y \in Chan \X Dir
  BY <1>a, <1>b, PlainChan DEF ChanPark, InSection, PlainPC
<1>2. waitq' = [x \in Chan \X Dir |->
                   CASE x = y                    -> Append(waitq[x], w)
                     [] x = <<c, Opp(d)>> /\ Cap[c] = 0 -> <<>>
                     [] OTHER                           -> waitq[x]]
  BY <1>a, <1>b DEF ChanPark
<1>3. w \in Sudog
  BY <1>b DEF Sudog, NOSELGEN
<1>4. PlainStep(g) /\ ~CloseRelease(g) /\ pc[g] \in {"chanop", "asyncwait"}
  BY DEF PlainStep, ChanPark, CloseRelease, InSection
<1>5. 1 \in 1 .. NCase(g)
  BY <1>4 DEF OpShape, ShapeOf, PlainPC
<1>6. /\ status'[g] = "Gwaiting" /\ pc'[g] \in {"syncwait", "asyncwait"}
      /\ op' = op /\ selgen' = selgen
  BY DEF ChanPark, Park, Goto, TypeOK
<1>7. EntryOk(w, y)
  <2>1. w.g = g /\ w.cas = 1 /\ w.selgen = NOSELGEN
    BY <1>b
  <2>2. NCase(g)' = NCase(g) /\ op'[g].cases[1].ch = y[1] /\ op'[g].cases[1].dir = y[2]
    BY <1>6, <1>a, <1>b DEF NCase, Ch, CaseDir
  <2> QED BY <2>1, <2>2, <1>5, <1>6 DEF EntryOk, WaitsAt, Ch, CaseDir
<1>8. \A k \in 1 .. Len(waitq[y]) : waitq[y][k].g = g => waitq[y][k].selgen # NOSELGEN
  <2> SUFFICES ASSUME NEW k \in 1 .. Len(waitq[y]), waitq[y][k].g = g,
                      waitq[y][k].selgen = NOSELGEN
               PROVE  FALSE
    OBVIOUS
  <2>1. WaitsAt(waitq[y][k], y)
    BY <1>1 DEF LiveInv, WaitInv, Live
  <2>2. status[g] = "Gwaiting" /\ pc[g] # "chanop"
    BY <2>1 DEF WaitsAt
  <2> QED BY <2>2 DEF ChanPark, InSection
<1>9. waitq'[y] = Append(waitq[y], w)
  <2> DEFINE F(x) == CASE x = y -> Append(waitq[x], w)
                       [] x = <<c, Opp(d)>> /\ Cap[c] = 0 -> <<>>
                       [] OTHER -> waitq[x]
  <2>1. y # <<c, Opp(d)>>
    BY <1>1, <1>b DEF Opp, Dir
  <2>2. F(y) = Append(waitq[y], w)
    BY <2>1
  <2>3. waitq' = [x \in Chan \X Dir |-> F(x)]
    BY <1>2
  <2> HIDE DEF F
  <2> QED BY <1>1, <2>2, <2>3
<1>10. \A x \in Chan \X Dir : x # y => waitq'[x] = waitq[x] \/ waitq'[x] = <<>>
  BY <1>2
<1>11. ASSUME NEW x \in Chan \X Dir, NEW k \in 1 .. Len(waitq'[x]), NEW sg, sg = waitq'[x][k]
       PROVE  EntryOk(sg, x)
  <2>1. CASE x = y
    BY <1>3, <1>4, <1>7, <1>9, <1>11, <2>1, Appended
  <2>2. CASE waitq'[x] = waitq[x]
    BY <1>4, <1>11, <2>2, OldEntry
  <2>3. CASE waitq'[x] = <<>>
    BY <2>3, EmptySeq
  <2> QED BY <2>1, <2>2, <2>3, <1>10
<1>12. PlainOnce'
  <2> SUFFICES ASSUME NEW x \in Chan \X Dir, NEW j \in 1 .. Len(waitq'[x]),
                      NEW k \in 1 .. Len(waitq'[x]), j # k,
                      waitq'[x][j].g = waitq'[x][k].g, waitq'[x][j].selgen = NOSELGEN
               PROVE  waitq'[x][k].selgen # NOSELGEN
    BY DEF PlainOnce
  <2>1. CASE waitq'[x] = waitq[x]
    BY <2>1 DEF LiveInv, PlainOnce
  <2>2. CASE waitq'[x] = <<>>
    BY <2>2, EmptySeq
  <2>3. CASE x = y
    <3> DEFINE n == Len(waitq[y]) + 1
    <3>0. waitq[y] \in Seq(Sudog) /\ n - 1 \in Nat
      BY <1>1, EntryType
    <3>1. /\ Len(waitq'[y]) = n /\ waitq'[y][n] = w
          /\ \A i \in 1 .. Len(waitq'[y]) : i # n => i \in 1 .. Len(waitq[y]) /\ waitq'[y][i] = waitq[y][i]
      BY <1>9, <3>0, AppendProperties
    <3>2. w.g = g
      BY <1>b
    <3> HIDE DEF n
    <3>3. CASE k = n
      BY <2>3, <3>1, <3>2, <3>3, <1>8
    <3>4. CASE j = n
      BY <2>3, <3>1, <3>2, <3>4, <1>8
    <3>5. CASE j # n /\ k # n
      BY <2>3, <3>1, <3>5 DEF LiveInv, PlainOnce
    <3> QED BY <3>3, <3>4, <3>5
  <2> QED BY <2>1, <2>2, <2>3, <1>10
<1>13. \A h \in G : selgen'[h] % 2 = 0
  BY <1>6 DEF LiveInv, GenInv
<1> QED BY <1>11, <1>12, <1>13, LiveFromEntries

(* pass 2 of a select enqueues its cases one by one.                       *)
LEMMA LiveStepEnqueue ==
    ASSUME TypeOK, OpShape, LockInv, LiveInv, HandInv, TypeOK', NEW g \in G, SelEnqueue(g)
    PROVE  LiveInv'
<1>a. PICK i : i = pollorder[g][idx[g]]
  OBVIOUS
<1>b. PICK y : y = <<Ch(g, i), CaseDir(g, i)>>
  OBVIOUS
<1>c. PICK w : w = [g |-> g, cas |-> i, selgen |-> selgen[g]]
  OBVIOUS
<1>1. i \in 1 .. NCase(g) /\ NCase(g) \in Nat
  BY <1>a, CaseType DEF SelEnqueue, SelPC
<1>2. y \in Chan \X Dir
  BY <1>1, <1>b, CaseType DEF SelEnqueue, SelPC
<1>3. waitq' = [waitq EXCEPT ![y] = Append(@, w)]
  BY <1>a, <1>b, <1>c DEF SelEnqueue, Enqueue
<1>4. SelectStep(g) /\ ~CloseRelease(g) /\ pc[g] = "pass2"
  BY DEF SelectStep, SelEnqueue, CloseRelease
<1>5. pc' = pc /\ op' = op /\ selgen' = selgen
  BY DEF SelEnqueue
<1>6. selgen[g] \in Nat /\ selgen[g] % 2 = 0 /\ \A h \in G : selgen'[h] % 2 = 0
  BY <1>5 DEF TypeOK, LiveInv, GenInv
<1>7. selgen[g] # NOSELGEN
  BY <1>6 DEF NOSELGEN
<1>8. w \in Sudog
  BY <1>1, <1>6, <1>c DEF Sudog
<1>9. EntryOk(w, y)
  <2>1. w.g = g /\ w.cas = i /\ w.selgen = selgen[g]
    BY <1>c
  <2>2. NCase(g)' = NCase(g) /\ op'[g].cases[i].ch = y[1] /\ op'[g].cases[i].dir = y[2]
    BY <1>5, <1>b DEF NCase, Ch, CaseDir
  <2> QED BY <2>1, <2>2, <1>1, <1>4, <1>5, <1>6, <1>7 DEF EntryOk, WaitsAt, Ch, CaseDir
<1>10. w.selgen # NOSELGEN
  BY <1>7, <1>c
<1>11. waitq'[y] = Append(waitq[y], w) /\ \A x \in Chan \X Dir : x # y => waitq'[x] = waitq[x]
  BY <1>2, <1>3 DEF TypeOK
<1>12. ASSUME NEW x \in Chan \X Dir, NEW k \in 1 .. Len(waitq'[x]), NEW sg, sg = waitq'[x][k]
       PROVE  EntryOk(sg, x)
  <2>1. CASE x = y
    BY <1>4, <1>8, <1>9, <1>11, <1>12, <2>1, Appended
  <2>2. CASE x # y
    BY <1>4, <1>11, <1>12, <2>2, OldEntry
  <2> QED BY <2>1, <2>2
<1>13. PlainOnce'
  <2> SUFFICES ASSUME NEW x \in Chan \X Dir, NEW j \in 1 .. Len(waitq'[x]),
                      NEW k \in 1 .. Len(waitq'[x]), j # k,
                      waitq'[x][j].g = waitq'[x][k].g, waitq'[x][j].selgen = NOSELGEN
               PROVE  waitq'[x][k].selgen # NOSELGEN
    BY DEF PlainOnce
  <2>1. CASE x # y
    BY <2>1, <1>11 DEF LiveInv, PlainOnce
  <2>2. CASE x = y
    <3> DEFINE n == Len(waitq[y]) + 1
    <3>0. waitq[y] \in Seq(Sudog) /\ n - 1 \in Nat
      BY <1>2, EntryType
    <3>1. /\ Len(waitq'[y]) = n /\ waitq'[y][n] = w
          /\ \A m \in 1 .. Len(waitq'[y]) : m # n => m \in 1 .. Len(waitq[y]) /\ waitq'[y][m] = waitq[y][m]
      BY <1>11, <3>0, AppendProperties
    <3> HIDE DEF n
    <3>2. CASE k = n
      BY <2>2, <3>1, <3>2, <1>10
    <3>3. CASE j = n
      BY <2>2, <3>1, <3>3, <1>10
    <3>4. CASE j # n /\ k # n
      BY <2>2, <3>1, <3>4 DEF LiveInv, PlainOnce
    <3> QED BY <3>2, <3>3, <3>4
  <2> QED BY <2>1, <2>2
<1> QED BY <1>6, <1>12, <1>13, LiveFromEntries

(* Every step preserves LiveInv.                                           *)
LEMMA LiveStep ==
    ASSUME TypeOK, OpShape, LockInv, LiveInv, HandInv, TypeOK', NEW g \in G,
           PlainStep(g) \/ CloseStep(g) \/ SelectStep(g)
    PROVE  LiveInv'
BY LiveStepUnlink, LiveStepPark, LiveStepEnqueue

(***************************************************************************)
(* HandInv is preserved.                                                   *)
(***************************************************************************)
(* A queued SudoG of another goroutine was in the queue before.            *)
LEMMA OthersOld ==
    ASSUME TypeOK, OpShape, LockInv, NEW g \in G,
           PlainStep(g) \/ CloseStep(g) \/ SelectStep(g),
           NEW x \in Chan \X Dir, NEW k \in 1 .. Len(waitq'[x]), waitq'[x][k].g # g
    PROVE  \E j \in 1 .. Len(waitq[x]) : waitq'[x][k] = waitq[x][j]
<1>0. waitq[x] \in Seq(Sudog) /\ waitq \in [Chan \X Dir -> Seq(Sudog)] /\ Len(waitq[x]) \in Nat
  BY EntryType DEF TypeOK
<1>1. CASE ~ChanPark(g) /\ ~SelEnqueue(g)
  BY <1>1, Survivors
<1>2. ASSUME NEW w, w.g = g, waitq'[x] = Append(waitq[x], w), w \in Sudog
      PROVE  \E j \in 1 .. Len(waitq[x]) : waitq'[x][k] = waitq[x][j]
  <2>1. /\ Len(waitq'[x]) = Len(waitq[x]) + 1
        /\ waitq'[x][Len(waitq[x]) + 1] = w
        /\ \A i \in 1 .. Len(waitq[x]) : waitq'[x][i] = waitq[x][i]
    BY <1>0, <1>2, AppendProperties
  <2>2. k # Len(waitq[x]) + 1
    BY <1>2, <2>1
  <2>3. k \in 1 .. Len(waitq[x])
    BY <1>0, <2>1, <2>2
  <2> QED BY <2>1, <2>3
<1>3. CASE ChanPark(g)
  <2> DEFINE w == [g |-> g, cas |-> 1, selgen |-> NOSELGEN]
  <2>1. waitq'[x] = Append(waitq[x], w) \/ waitq'[x] = <<>> \/ waitq'[x] = waitq[x]
    BY <1>3 DEF ChanPark
  <2>2. w.g = g /\ w \in Sudog
    BY DEF Sudog, NOSELGEN
  <2> HIDE DEF w
  <2>3. CASE waitq'[x] = <<>>
    BY <2>3, EmptySeq
  <2> QED BY <2>1, <2>2, <2>3, <1>2
<1>4. CASE SelEnqueue(g)
  <2> DEFINE i == pollorder[g][idx[g]]
             w == [g |-> g, cas |-> i, selgen |-> selgen[g]]
  <2>1. waitq'[x] = Append(waitq[x], w) \/ waitq'[x] = waitq[x]
    BY <1>0, <1>4 DEF SelEnqueue, Enqueue
  <2>2. i \in 1 .. NCase(g) /\ NCase(g) \in Nat
    BY <1>4, CaseType DEF SelEnqueue, SelPC
  <2>3. w.g = g /\ w \in Sudog
    BY <2>2 DEF Sudog, TypeOK
  <2> HIDE DEF w
  <2> QED BY <2>1, <2>3, <1>2
<1> QED BY <1>1, <1>3, <1>4

(* Who could not be claimed before another goroutine's step still cannot.  *)
LEMMA NoneLiveKept ==
    ASSUME TypeOK, OpShape, LockInv, LiveInv, TypeOK', NEW g \in G,
           PlainStep(g) \/ CloseStep(g) \/ SelectStep(g),
           NEW h \in G, h # g, NoneLive(h)
    PROVE  NoneLive(h)'
<1> SUFFICES ASSUME NEW x \in Chan \X Dir, NEW k \in 1 .. Len(waitq'[x]),
                    waitq'[x][k].g = h, Live(waitq[x][k])'
             PROVE  FALSE
  BY DEF NoneLive
<1>1. PICK j \in 1 .. Len(waitq[x]) : waitq'[x][k] = waitq[x][j]
  BY OthersOld
<1>2. PICK sg : sg = waitq[x][j]
  OBVIOUS
<1>3. LiveNext(sg)
  BY <1>1, <1>2 DEF Live, LiveNext
<1>4. selgen' \in [G -> Nat] /\ \A p \in G : selgen'[p] >= selgen[p]
  BY GenStep DEF TypeOK
<1>5. Live(sg)
  BY <1>2, <1>3, <1>4, LiveBefore
<1> QED BY <1>1, <1>2, <1>5 DEF NoneLive

(* A step leaves the actor's hand alone, empties it, or puts into it whom  *)
(* its communication claimed.                                              *)
LEMMA HandCases ==
    ASSUME TypeOK, OpShape, NEW g \in G,
           PlainStep(g) \/ CloseStep(g) \/ SelectStep(g)
    PROVE  \/ hand' = hand \/ hand' = [hand EXCEPT ![g] = {}]
           \/ \E i \in 1 .. NCase(g) :
                /\ Ch(g, i) \in Chan /\ CaseDir(g, i) \in Dir
                /\ \/ ChanComm(g) /\ i = 1
                   \/ PollComm(g) /\ i = pollorder[g][idx[g]]
                /\ Claims(CommQueue(g, i))
                /\ hand' = [hand EXCEPT ![g] = {waitq[CommQueue(g, i)][First(waitq[CommQueue(g, i)])]}]
<1>1. CASE Invoke(g)
  BY <1>1 DEF Invoke
<1>2. CASE NilChan(g)
  BY <1>2 DEF NilChan
<1>3. CASE ChanClosed(g)
  BY <1>3 DEF ChanClosed
<1>4. CASE ChanComm(g)
  <2>1. Ch(g, 1) \in Chan /\ CaseDir(g, 1) \in Dir
    BY <1>4, PlainChan DEF ChanComm, InSection, PlainPC
  <2>2. 1 \in 1 .. NCase(g)
    BY <1>4 DEF ChanComm, InSection, PlainPC, OpShape, ShapeOf
  <2>3. Communicate(g, Ch(g, 1), CaseDir(g, 1), 1)
    BY <1>4 DEF ChanComm
  <2> QED BY <1>4, <2>1, <2>2, <2>3, CommStep
<1>5. CASE ChanNotReady(g)
  BY <1>5 DEF ChanNotReady
<1>6. CASE ChanPark(g)
  BY <1>6 DEF ChanPark
<1>7. CASE SyncWake(g)
  BY <1>7 DEF SyncWake
<1>8. CASE Wakeup(g)
  BY <1>8 DEF Wakeup
<1>9. CASE ClosePanic(g)
  BY <1>9 DEF ClosePanic
<1>10. CASE CloseBegin(g)
  BY <1>10 DEF CloseBegin
<1>11. CASE CloseRelease(g)
  BY <1>11 DEF CloseRelease
<1>12. CASE SelInvoke(g)
  BY <1>12 DEF SelInvoke
<1>13. CASE SelLock(g)
  BY <1>13 DEF SelLock
<1>14. CASE PollComm(g)
  <2> DEFINE i == pollorder[g][idx[g]]
  <2>1. i \in 1 .. NCase(g)
    BY <1>14, CaseType DEF PollComm, Polling, SelPC
  <2>2. Ch(g, i) \in Chan /\ CaseDir(g, i) \in Dir
    BY <1>14, <2>1, CaseType DEF PollComm, Polling, SelPC
  <2>3. Communicate(g, Ch(g, i), CaseDir(g, i), i)
    BY <1>14 DEF PollComm
  <2> QED BY <1>14, <2>1, <2>2, <2>3, CommStep
<1>15. CASE PollClosed(g)
  BY <1>15 DEF PollClosed
<1>16. CASE PollNext(g)
  BY <1>16 DEF PollNext
<1>17. CASE SelDefault(g)
  BY <1>17 DEF SelDefault
<1>18. CASE SelBlock(g)
  BY <1>18 DEF SelBlock
<1>19. CASE SelEnqueue(g)
  BY <1>19 DEF SelEnqueue
<1>20. CASE SelPark(g)
  BY <1>20 DEF SelPark
<1>21. CASE ParkUnlock(g)
  BY <1>21 DEF ParkUnlock
<1>22. CASE SelDequeue(g)
  BY <1>22 DEF SelDequeue
<1>23. CASE SelRetry(g)
  BY <1>23 DEF SelRetry
<1>24. CASE SelFired(g)
  BY <1>24 DEF SelFired
<1>25. CASE SelUnlock(g)
  BY <1>25 DEF SelUnlock
<1> QED BY <1>1, <1>2, <1>3, <1>4, <1>5, <1>6, <1>7, <1>8, <1>9, <1>10, <1>11,
           <1>12, <1>13, <1>14, <1>15, <1>16, <1>17, <1>18, <1>19, <1>20,
           <1>21, <1>22, <1>23, <1>24, <1>25
        DEF PlainStep, CloseStep, SelectStep

(* A goroutine with somebody in its hand readies him or goes on unlocking. *)
LEMMA HandActor ==
    ASSUME NEW g \in G, PlainStep(g) \/ CloseStep(g) \/ SelectStep(g), LocksOf(g), TypeOK,
           pc[g] \in {"selunlock", "ready"}, hand'[g] # {}
    PROVE  SelUnlock(g)
<1>1. CASE Invoke(g)
  BY <1>1 DEF Invoke
<1>2. CASE NilChan(g)
  BY <1>2 DEF NilChan
<1>3. CASE ChanClosed(g)
  BY <1>3 DEF ChanClosed, InSection
<1>4. CASE ChanComm(g)
  BY <1>4 DEF ChanComm, InSection
<1>5. CASE ChanNotReady(g)
  BY <1>5 DEF ChanNotReady, InSection
<1>6. CASE ChanPark(g)
  BY <1>6 DEF ChanPark, InSection
<1>7. CASE SyncWake(g)
  BY <1>7 DEF SyncWake
<1>8. CASE Wakeup(g)
  BY <1>8 DEF Wakeup, TypeOK
<1>9. CASE ClosePanic(g)
  BY <1>9 DEF ClosePanic
<1>10. CASE CloseBegin(g)
  BY <1>10 DEF CloseBegin
<1>11. CASE CloseRelease(g)
  BY <1>11 DEF CloseRelease
<1>12. CASE SelInvoke(g)
  BY <1>12 DEF SelInvoke
<1>13. CASE SelLock(g)
  BY <1>13 DEF SelLock
<1>14. CASE PollComm(g)
  BY <1>14 DEF PollComm, Polling
<1>15. CASE PollClosed(g)
  BY <1>15 DEF PollClosed, Polling
<1>16. CASE PollNext(g)
  BY <1>16 DEF PollNext, Polling
<1>17. CASE SelDefault(g)
  BY <1>17 DEF SelDefault
<1>18. CASE SelBlock(g)
  BY <1>18 DEF SelBlock
<1>19. CASE SelEnqueue(g)
  BY <1>19 DEF SelEnqueue
<1>20. CASE SelPark(g)
  BY <1>20 DEF SelPark
<1>21. CASE ParkUnlock(g)
  BY <1>21 DEF ParkUnlock, LocksOf
<1>22. CASE SelDequeue(g)
  BY <1>22 DEF SelDequeue
<1>23. CASE SelRetry(g)
  BY <1>23 DEF SelRetry
<1>24. CASE SelFired(g)
  BY <1>24 DEF SelFired
<1>25. CASE SelUnlock(g)
  BY <1>25 DEF SelUnlock
<1> QED BY <1>1, <1>2, <1>3, <1>4, <1>5, <1>6, <1>7, <1>8, <1>9, <1>10, <1>11,
           <1>12, <1>13, <1>14, <1>15, <1>16, <1>17, <1>18, <1>19, <1>20,
           <1>21, <1>22, <1>23, <1>24, <1>25
        DEF PlainStep, CloseStep, SelectStep

(* Whoever was in a hand and still is, is still parked and unclaimed.      *)
LEMMA HandKept ==
    ASSUME TypeOK, OpShape, LockInv, LiveInv, HandInv, TypeOK', NEW g \in G,
           PlainStep(g) \/ CloseStep(g) \/ SelectStep(g),
           NEW h \in G, NEW sg \in hand[h], hand'[h] = hand[h]
    PROVE  InHand(h, sg)' /\ NoneLive(sg.g)'
<1>1. InHand(h, sg) /\ NoneLive(sg.g) /\ sg.g \in G
  <2>1. sg \in Sudog
    BY DEF TypeOK
  <2> QED BY <2>1 DEF HandInv, Sudog
<1>2. hand'[h] = {sg}
  BY <1>1 DEF InHand
<1>3. pc'[h] \in {"selunlock", "ready"}
  <2>1. CASE h # g
    BY <2>1, <1>1, Frame DEF InHand
  <2>2. CASE h = g
    <3>1. pc[g] \in {"selunlock", "ready"} /\ hand[g] = {sg} /\ hand'[g] = {sg}
      BY <2>2, <1>1, <1>2 DEF InHand
    <3>2. LocksOf(g)
      BY DEF LockInv
    <3>3. SelUnlock(g)
      BY <3>1, <3>2, HandActor
    <3>4. PICK c : pc' = [pc EXCEPT ![g] = CASE held[g] # {c}                  -> "selunlock"
                                              [] held[g] = {c} /\ hand[g] # {}  -> "ready"
                                              [] held[g] = {c} /\ hand[g] = {}  -> "idle"]
      BY <3>3 DEF SelUnlock, Goto
    <3>5. pc \in [G -> PC] /\ hand[g] # {}
      BY <3>1 DEF TypeOK
    <3> QED BY <2>2, <3>4, <3>5
  <2> QED BY <2>1, <2>2
<1>4. CASE sg.g = g
  <2>1. Parked(g)
    BY <1>1, <1>4 DEF InHand
  <2>2. ParkUnlock(g)
    BY <2>1, ActorWaits DEF Parked, SelEnqueue, SelPark
  <2>3. pc' = pc /\ status' = status /\ op' = op /\ waitq' = waitq /\ selgen' = selgen
    BY <2>2 DEF ParkUnlock
  <2> QED BY <1>1, <1>2, <1>3, <2>3 DEF InHand, Parked, NoneLive, Live, NCase, Ch
<1>5. CASE sg.g # g
  <2>1. pc'[sg.g] = pc[sg.g] /\ op'[sg.g] = op[sg.g]
    BY <1>1, <1>5, Frame
  <2>2. NoneLive(sg.g)'
    BY <1>1, <1>5, NoneLiveKept
  <2>3. status'[sg.g] = status[sg.g]
    <3> SUFFICES ASSUME status'[sg.g] # status[sg.g] PROVE FALSE
      OBVIOUS
    <3>1. CASE Wakeup(g) /\ \E s \in hand[g] : s.g = sg.g
      <4>1. h = g
        BY <3>1 DEF HandInv
      <4>2. hand'[g] = {}
        BY <3>1 DEF Wakeup, TypeOK
      <4> QED BY <4>1, <4>2, <1>2
    <3>2. CASE /\ CloseRelease(g) /\ LiveAt(waitq[CloseQueue(g)]) # {}
               /\ waitq[CloseQueue(g)][First(waitq[CloseQueue(g)])].g = sg.g
      <4> DEFINE y == CloseQueue(g)
      <4>1. y \in Chan \X Dir /\ LiveAt(waitq[y]) # {}
        BY <3>2, CloseClaims DEF Claims
      <4>2. First(waitq[y]) \in 1 .. Len(waitq[y]) /\ Live(waitq[y][First(waitq[y])])
        BY <4>1, EntryType, FirstLive
      <4> QED BY <3>2, <4>1, <4>2, <1>1 DEF NoneLive
    <3> QED BY <3>1, <3>2, <1>1, <1>5, StatusStep
  <2> QED BY <1>1, <1>2, <1>3, <2>1, <2>2, <2>3 DEF InHand, Parked, NCase, Ch
<1> QED BY <1>4, <1>5

(* Whom a communication claims is parked: a select still enqueuing itself  *)
(* holds the lock that the claimer holds, and the claimer is running.      *)
LEMMA HandNew ==
    ASSUME TypeOK, OpShape, LockInv, LiveInv, HandInv, TypeOK', NEW g \in G,
           PlainStep(g) \/ CloseStep(g) \/ SelectStep(g),
           NEW i \in 1 .. NCase(g), Ch(g, i) \in Chan, CaseDir(g, i) \in Dir,
           \/ ChanComm(g) /\ i = 1
           \/ PollComm(g) /\ i = pollorder[g][idx[g]],
           NEW y, y = CommQueue(g, i), Claims(y),
           NEW sg, sg = waitq[y][First(waitq[y])],
           hand' = [hand EXCEPT ![g] = {sg}]
    PROVE  InHand(g, sg)' /\ NoneLive(sg.g)' /\ Live(sg) /\ sg.g # g
<1>1. /\ y \in Chan \X Dir /\ LiveAt(waitq[y]) # {}
      /\ y[1] = Ch(g, i)
      /\ selgen' = Claim(sg)
  BY DEF Claims, CommQueue
<1>2. First(waitq[y]) \in 1 .. Len(waitq[y]) /\ Live(sg)
  BY <1>1, EntryType, FirstLive
<1>3. sg.g \in G
  BY <1>1, <1>2, EntryType
<1>4. WaitsAt(sg, y)
  BY <1>1, <1>2 DEF LiveInv, WaitInv
<1>5. /\ \/ pc[g] = "chanop"
         \/ pc[g] = "asyncwait" /\ status[g] = "Grunnable"
         \/ pc[g] = "pass1"
      /\ status' = status
      /\ ~ChanPark(g) /\ ~SelEnqueue(g)
  <2>1. CASE ChanComm(g)
    BY <2>1 DEF ChanComm, InSection, Communicate, ChanPark, SelEnqueue
  <2>2. CASE PollComm(g)
    BY <2>2 DEF PollComm, Polling, ChanPark, SelEnqueue, InSection
  <2> QED BY <2>1, <2>2
<1>6. sg.g # g
  BY <1>4, <1>5 DEF WaitsAt
<1>7. pc[sg.g] # "pass2"
  <2> SUFFICES ASSUME pc[sg.g] = "pass2" PROVE FALSE
    OBVIOUS
  <2>1. held[sg.g] = SelChans(sg.g)
    BY <1>3 DEF LockInv, LocksOf
  <2>2. Ch(g, i) \in held[sg.g]
    BY <1>1, <1>4, <2>1 DEF WaitsAt, SelChans
  <2>3. CASE ChanComm(g) /\ i = 1
    BY <2>2, <2>3, <1>3 DEF ChanComm, InSection, LockFree
  <2>4. CASE PollComm(g)
    <3>1. held[g] = SelChans(g)
      BY <2>4 DEF PollComm, Polling, LockInv, LocksOf
    <3>2. Ch(g, i) \in held[g]
      BY <3>1 DEF SelChans
    <3> QED BY <2>2, <3>2, <1>3, <1>6 DEF LockInv
  <2> QED BY <2>3, <2>4
<1>8. Parked(sg.g) /\ (pc[sg.g] # "selpark" => sg.cas = 1)
  BY <1>4, <1>7 DEF WaitsAt, Parked
<1>9. pc'[sg.g] = pc[sg.g] /\ op'[sg.g] = op[sg.g]
  BY <1>3, <1>6, Frame
<1>10. hand'[g] = {sg}
  BY DEF TypeOK
<1>11. pc'[g] \in {"selunlock", "ready"}
  <2>1. pc \in [G -> PC]
    BY DEF TypeOK
  <2>2. CASE ChanComm(g) /\ i = 1
    <3>1. pc' = [pc EXCEPT ![g] = "ready"]
      BY <2>2, <1>1 DEF ChanComm, Goto, CommQueue
    <3> QED BY <2>1, <3>1
  <2>3. CASE PollComm(g)
    BY <2>1, <2>3 DEF PollComm, Goto
  <2> QED BY <2>2, <2>3
<1>12. InHand(g, sg)'
  BY <1>1, <1>4, <1>5, <1>8, <1>9, <1>10, <1>11 DEF InHand, Parked, WaitsAt, NCase, Ch
<1>13. NoneLive(sg.g)'
  <2> SUFFICES ASSUME NEW x \in Chan \X Dir, NEW k \in 1 .. Len(waitq'[x]),
                      waitq'[x][k].g = sg.g, Live(waitq[x][k])'
               PROVE  FALSE
    BY DEF NoneLive
  <2>1. PICK f \in [1 .. Len(waitq'[x]) -> 1 .. Len(waitq[x])] :
          \A n \in 1 .. Len(waitq'[x]) :
             waitq'[x][n] = waitq[x][f[n]] /\ (Claims(x) => f[n] # First(waitq[x]))
    BY <1>5, Survivors
  <2>2. PICK j \in 1 .. Len(waitq[x]) : waitq'[x][k] = waitq[x][j] /\ (x = y => j # First(waitq[y]))
    BY <2>1
  <2>3. LiveNext(waitq[x][j])
    BY <2>2 DEF Live, LiveNext
  <2> QED BY <2>2, <2>3, <1>1, <1>2, ClaimDead
<1> QED BY <1>2, <1>6, <1>12, <1>13

(* Every step preserves HandInv.                                           *)
LEMMA HandStep ==
    ASSUME TypeOK, OpShape, LockInv, LiveInv, HandInv, TypeOK', NEW g \in G,
           PlainStep(g) \/ CloseStep(g) \/ SelectStep(g)
    PROVE  HandInv'
<1>0. hand \in [G -> SUBSET Sudog]
  BY DEF TypeOK
<1>1. CASE hand' = hand \/ hand' = [hand EXCEPT ![g] = {}]
  <2>1. \A h \in G : hand'[h] = {} \/ hand'[h] = hand[h]
    BY <1>0, <1>1
  <2>2. ASSUME NEW h \in G, NEW sg \in hand'[h] PROVE InHand(h, sg)' /\ NoneLive(sg.g)'
    BY <2>1, <2>2, HandKept
  <2>3. \A h1, h2 \in G : \A s1 \in hand'[h1], s2 \in hand'[h2] : s1.g = s2.g => h1 = h2
    BY <2>1 DEF HandInv
  <2> QED BY <2>2, <2>3 DEF HandInv
<1>2. ASSUME NEW i \in 1 .. NCase(g), Ch(g, i) \in Chan, CaseDir(g, i) \in Dir,
             \/ ChanComm(g) /\ i = 1
             \/ PollComm(g) /\ i = pollorder[g][idx[g]],
             Claims(CommQueue(g, i)),
             hand' = [hand EXCEPT ![g] = {waitq[CommQueue(g, i)][First(waitq[CommQueue(g, i)])]}]
      PROVE  HandInv'
  <2>1. PICK y : y = CommQueue(g, i)
    OBVIOUS
  <2>2. PICK sg : sg = waitq[y][First(waitq[y])]
    OBVIOUS
  <2>3. Claims(y) /\ hand' = [hand EXCEPT ![g] = {sg}]
    BY <1>2, <2>1, <2>2
  <2>4. InHand(g, sg)' /\ NoneLive(sg.g)' /\ Live(sg)
    BY <1>2, <2>1, <2>2, <2>3, HandNew
  <2>5. hand'[g] = {sg} /\ \A h \in G : h # g => hand'[h] = hand[h]
    BY <2>3, <1>0
  <2>6. ASSUME NEW h \in G, NEW s \in hand'[h] PROVE InHand(h, s)' /\ NoneLive(s.g)'
    <3>1. CASE h = g
      <4>1. s = sg
        BY <2>5, <2>6, <3>1
      <4> QED BY <2>4, <3>1, <4>1
    <3>2. CASE h # g
      BY <2>5, <2>6, <3>2, HandKept
    <3> QED BY <3>1, <3>2
  <2>7. \A h \in G : \A s \in hand[h] : s.g # sg.g
    <3>1. y \in Chan \X Dir /\ waitq[y] \in Seq(Sudog) /\ LiveAt(waitq[y]) # {}
      BY <2>3, EntryType DEF Claims
    <3>2. First(waitq[y]) \in 1 .. Len(waitq[y])
      BY <3>1, FirstLive
    <3> QED BY <2>2, <2>4, <3>1, <3>2 DEF HandInv, NoneLive
  <2>8. \A h1, h2 \in G : \A s1 \in hand'[h1], s2 \in hand'[h2] : s1.g = s2.g => h1 = h2
    <3> SUFFICES ASSUME NEW h1 \in G, NEW h2 \in G, NEW s1 \in hand'[h1], NEW s2 \in hand'[h2],
                        s1.g = s2.g, h1 # h2
                 PROVE  FALSE
      OBVIOUS
    <3>1. CASE h1 = g
      BY <2>5, <2>7, <3>1
    <3>2. CASE h2 = g
      BY <2>5, <2>7, <3>2
    <3>3. CASE h1 # g /\ h2 # g
      BY <2>5, <3>3 DEF HandInv
    <3> QED BY <3>1, <3>2, <3>3
  <2> QED BY <2>6, <2>8 DEF HandInv
<1> QED BY <1>1, <1>2, HandCases

(***************************************************************************)
(* ParamInv is preserved, and nothing is thrown.                           *)
(***************************************************************************)
(* The goroutine that a close claims is parked.                            *)
LEMMA CloseMeetsParked ==
    ASSUME TypeOK, OpShape, LockInv, LiveInv, NEW g \in G, CloseRelease(g),
           LiveAt(waitq[CloseQueue(g)]) # {},
           NEW sg, sg = waitq[CloseQueue(g)][First(waitq[CloseQueue(g)])]
    PROVE  /\ sg.g \in G /\ sg.g # g /\ status[sg.g] = "Gwaiting"
           /\ pc[sg.g] = "syncwait" => Ch(sg.g, 1) = Ch(g, 1)
           /\ closed[Ch(g, 1)] /\ Ch(g, 1) \in Chan
<1> DEFINE y == CloseQueue(g)
<1>1. LocksOf(g)
  BY DEF LockInv
<1>2. Ch(g, 1) \in Chan /\ held[g] = {Ch(g, 1)} /\ closed[Ch(g, 1)]
  BY <1>1 DEF CloseRelease, LocksOf
<1>3. y \in Chan \X Dir /\ y[1] = Ch(g, 1) /\ LiveAt(waitq[y]) # {} /\ sg = waitq[y][First(waitq[y])]
  BY <1>2 DEF CloseQueue, Dir
<1> HIDE DEF y
<1>4. First(waitq[y]) \in 1 .. Len(waitq[y]) /\ Live(sg)
  BY <1>3, EntryType, FirstLive
<1>5. sg.g \in G /\ WaitsAt(sg, y)
  BY <1>3, <1>4, EntryType DEF LiveInv, WaitInv
<1>6. sg.g # g
  BY <1>5 DEF WaitsAt, CloseRelease
<1>7. pc[sg.g] # "pass2"
  <2> SUFFICES ASSUME pc[sg.g] = "pass2" PROVE FALSE
    OBVIOUS
  <2>1. Ch(g, 1) \in held[sg.g]
    BY <1>3, <1>5 DEF LockInv, LocksOf, WaitsAt, SelChans
  <2> QED BY <1>2, <1>5, <1>6, <2>1 DEF LockInv
<1> QED BY <1>2, <1>3, <1>5, <1>6, <1>7 DEF WaitsAt

(* g is the actor of a step that readies nobody.                           *)
LEMMA ParamActor ==
    ASSUME TypeOK, OpShape, LockInv, ParamInv, NEW g \in G,
           PlainStep(g) \/ CloseStep(g) \/ SelectStep(g), ~Wakeup(g), ~CloseRelease(g)
    PROVE  ParamOf(g)' /\ \A h \in G : h # g => param'[h] = param[h]
<1>0. /\ ParamOf(g) /\ LocksOf(g) /\ pc \in [G -> PC] /\ param \in [G -> Nat]
      /\ status \in [G -> {"Gwaiting", "Grunnable"}]
  BY DEF ParamInv, LockInv, TypeOK
<1> USE DEF Goto, Park
<1>1. CASE Invoke(g)
  BY <1>1, <1>0 DEF Invoke, ParamOf, Ch, NCase
<1>2. CASE NilChan(g)
  BY <1>2, <1>0 DEF NilChan, ParamOf, Ch, NCase
<1>3. CASE ChanClosed(g)
  BY <1>3, <1>0 DEF ChanClosed, ParamOf, Ch, NCase, InSection
<1>4. CASE ChanComm(g)
  BY <1>4, <1>0 DEF ChanComm, ParamOf, Ch, NCase, InSection
<1>5. CASE ChanNotReady(g)
  BY <1>5, <1>0 DEF ChanNotReady, ParamOf, Ch, NCase, InSection
<1>6. CASE ChanPark(g)
  BY <1>6, <1>0 DEF ChanPark, ParamOf, Ch, NCase, InSection
<1>7. CASE SyncWake(g)
  BY <1>7, <1>0 DEF SyncWake, ParamOf, Ch, NCase
<1>8. CASE Wakeup(g)
  BY <1>8
<1>9. CASE ClosePanic(g)
  BY <1>9, <1>0 DEF ClosePanic, ParamOf, Ch, NCase
<1>10. CASE CloseBegin(g)
  BY <1>10, <1>0 DEF CloseBegin, ParamOf, Ch, NCase
<1>11. CASE CloseRelease(g)
  BY <1>11
<1>12. CASE SelInvoke(g)
  BY <1>12, <1>0 DEF SelInvoke, ParamOf, Ch, NCase
<1>13. CASE SelLock(g)
  <2>1. PICK c : pc' = [pc EXCEPT ![g] = CASE held[g] \cup {c} # SelChans(g) -> pc[g]
                      [] held[g] \cup {c} = SelChans(g) /\ pc[g] = "sellock" -> "pass1"
                      [] held[g] \cup {c} = SelChans(g) /\ pc[g] = "selpark" -> "pass3"]
    BY <1>13 DEF SelLock
  <2>2. pc[g] \in {"sellock", "selpark"} /\ param' = param /\ op' = op
    BY <1>13 DEF SelLock
  <2>3. pc'[g] \in {"sellock", "selpark", "pass1", "pass3"} /\ (pc'[g] \in {"selpark", "pass3"} => pc[g] = "selpark")
    BY <2>1, <2>2, <1>0
  <2> QED BY <2>2, <2>3, <1>0 DEF ParamOf, Ch, NCase
<1>14. CASE PollComm(g)
  BY <1>14, <1>0 DEF PollComm, ParamOf, Ch, NCase, Polling
<1>15. CASE PollClosed(g)
  BY <1>15, <1>0 DEF PollClosed, ParamOf, Ch, NCase, Polling
<1>16. CASE PollNext(g)
  BY <1>16, <1>0 DEF PollNext, ParamOf, Ch, NCase, Polling
<1>17. CASE SelDefault(g)
  BY <1>17, <1>0 DEF SelDefault, ParamOf, Ch, NCase
<1>18. CASE SelBlock(g)
  BY <1>18, <1>0 DEF SelBlock, ParamOf, Ch, NCase
<1>19. CASE SelEnqueue(g)
  BY <1>19, <1>0 DEF SelEnqueue, ParamOf, Ch, NCase
<1>20. CASE SelPark(g)
  BY <1>20, <1>0 DEF SelPark, ParamOf, Ch, NCase
<1>21. CASE ParkUnlock(g)
  BY <1>21, <1>0 DEF ParkUnlock, ParamOf, Ch, NCase, LocksOf
<1>22. CASE SelDequeue(g)
  BY <1>22, <1>0 DEF SelDequeue, ParamOf, Ch, NCase
<1>23. CASE SelRetry(g)
  BY <1>23, <1>0 DEF SelRetry, ParamOf, Ch, NCase
<1>24. CASE SelFired(g)
  BY <1>24, <1>0 DEF SelFired, ParamOf, Ch, NCase
<1>25. CASE SelUnlock(g)
  BY <1>25, <1>0 DEF SelUnlock, ParamOf, Ch, NCase
<1> QED BY <1>1, <1>2, <1>3, <1>4, <1>5, <1>6, <1>7, <1>8, <1>9, <1>10, <1>11,
           <1>12, <1>13, <1>14, <1>15, <1>16, <1>17, <1>18, <1>19, <1>20,
           <1>21, <1>22, <1>23, <1>24, <1>25
        DEF PlainStep, CloseStep, SelectStep

(* Whoever a step leaves alone keeps its reading of param.                 *)
LEMMA ParamKept ==
    ASSUME TypeOK, OpShape, LockInv, ParamInv, NEW g \in G,
           PlainStep(g) \/ CloseStep(g) \/ SelectStep(g),
           NEW h \in G, pc'[h] = pc[h], op'[h] = op[h],
           param'[h] = param[h], status'[h] = status[h]
    PROVE  ParamOf(h)'
<1>1. ParamOf(h) /\ ShapeOf(h)
  BY DEF ParamInv, OpShape
<1>2. pc[h] = "syncwait" /\ closed[Ch(h, 1)] => closed'[Ch(h, 1)]
  BY <1>1, ClosedStays DEF ShapeOf
<1> QED BY <1>1, <1>2 DEF ParamOf, Ch, NCase

(* A goroutine readied by its partner learns the case that fired.          *)
LEMMA ParamWakeup ==
    ASSUME TypeOK, OpShape, LockInv, HandInv, ParamInv, NEW g \in G,
           PlainStep(g) \/ CloseStep(g) \/ SelectStep(g), Wakeup(g), NEW h \in G
    PROVE  ParamOf(h)'
<1>0. /\ pc \in [G -> PC] /\ param \in [G -> Nat]
      /\ status \in [G -> {"Gwaiting", "Grunnable"}] /\ hand \in [G -> SUBSET Sudog]
  BY DEF TypeOK
<1>1. PICK sg \in hand[g] :
        /\ Ready(sg.g)
        /\ param' = IF Cap[Ch(sg.g, sg.cas)] = 0 THEN [param EXCEPT ![sg.g] = sg.cas] ELSE param
  BY DEF Wakeup
<1>2. InHand(g, sg) /\ sg.g \in G /\ ShapeOf(sg.g) /\ ParamOf(sg.g)
  BY <1>0 DEF HandInv, Sudog, OpShape, ParamInv
<1>3. status' = [status EXCEPT ![sg.g] = "Grunnable"]
  BY <1>1, <1>2 DEF InHand, Parked, Ready
<1>4. pc[g] = "ready" /\ pc' = [pc EXCEPT ![g] = "idle"] /\ op' = op
  BY DEF Wakeup, Goto
<1>5. CASE h = g
  BY <1>0, <1>4, <1>5 DEF ParamOf
<1>6. CASE h # g /\ h # sg.g
  <2>1. pc'[h] = pc[h] /\ op'[h] = op[h] /\ status'[h] = status[h]
    BY <1>0, <1>3, <1>4, <1>6
  <2>2. param'[h] = param[h]
    BY <1>0, <1>1, <1>6
  <2> QED BY <2>1, <2>2, ParamKept
<1>7. CASE h # g /\ h = sg.g
  <2>1. pc'[h] = pc[h] /\ op'[h] = op[h] /\ Parked(h)
    BY <1>0, <1>2, <1>4, <1>7 DEF InHand
  <2>2. sg.cas \in 1 .. NCase(h) /\ Ch(h, sg.cas) \in Chan /\ (pc[h] # "selpark" => sg.cas = 1)
    BY <1>2, <1>7 DEF InHand
  <2>3. CASE Cap[Ch(h, sg.cas)] = 0
    <3>1. param'[h] = sg.cas
      BY <1>0, <1>1, <1>7, <2>3
    <3>2. param'[h] \in 1 .. NCase(h) /\ Cap[Ch(h, param'[h])] = 0 /\ param'[h] # 0
      BY <2>2, <2>3, <3>1
    <3> QED BY <2>1, <3>2 DEF ParamOf, Ch, NCase
  <2>4. CASE Cap[Ch(h, sg.cas)] # 0
    <3>1. param'[h] = param[h]
      BY <1>1, <1>7, <2>4
    <3>2. pc[h] # "syncwait"
      BY <1>2, <1>7, <2>2, <2>4 DEF ShapeOf
    <3> QED BY <1>2, <1>7, <2>1, <3>1, <3>2 DEF ParamOf, Ch, NCase
  <2> QED BY <2>3, <2>4
<1> QED BY <1>5, <1>6, <1>7

(* A goroutine released by a close learns nothing but that it was woken.   *)
LEMMA ParamClose ==
    ASSUME TypeOK, OpShape, LockInv, LiveInv, ParamInv, NEW g \in G,
           PlainStep(g) \/ CloseStep(g) \/ SelectStep(g), CloseRelease(g), NEW h \in G
    PROVE  ParamOf(h)'
<1>0. /\ pc \in [G -> PC] /\ param \in [G -> Nat]
      /\ status \in [G -> {"Gwaiting", "Grunnable"}]
  BY DEF TypeOK
<1>1. op' = op /\ closed' = closed /\ pc[g] \in {"closer", "closew"}
  BY DEF CloseRelease
<1>2. CASE LiveAt(waitq[CloseQueue(g)]) = {}
  <2>1. param' = param /\ status' = status
    BY <1>2 DEF CloseRelease, CloseQueue
  <2>2. \/ pc' = [pc EXCEPT ![g] = "closew"]
        \/ pc' = [pc EXCEPT ![g] = "idle"]
    BY <1>2 DEF CloseRelease, CloseQueue, Goto
  <2>3. CASE h = g
    BY <1>0, <2>2, <2>3 DEF ParamOf
  <2>4. CASE h # g
    BY <1>0, <1>1, <2>1, <2>2, <2>4, ParamKept
  <2> QED BY <2>3, <2>4
<1>3. CASE LiveAt(waitq[CloseQueue(g)]) # {}
  <2>1. PICK sg : sg = waitq[CloseQueue(g)][First(waitq[CloseQueue(g)])]
    OBVIOUS
  <2>2. /\ sg.g \in G /\ sg.g # g /\ status[sg.g] = "Gwaiting"
        /\ pc[sg.g] = "syncwait" => Ch(sg.g, 1) = Ch(g, 1)
        /\ closed[Ch(g, 1)] /\ Ch(g, 1) \in Chan
    BY <1>3, <2>1, CloseMeetsParked
  <2>3. param' = [param EXCEPT ![sg.g] = 0] /\ Ready(sg.g) /\ pc' = pc
    BY <1>3, <2>1 DEF CloseRelease, CloseQueue
  <2>4. status' = [status EXCEPT ![sg.g] = "Grunnable"]
    BY <2>2, <2>3 DEF Ready
  <2>5. CASE h = sg.g
    <3>1. param'[h] = 0 /\ pc'[h] = pc[h]
      BY <1>0, <2>2, <2>3, <2>5
    <3>2. pc[h] = "syncwait" => closed'[Ch(h, 1)]
      BY <1>1, <2>2, <2>5
    <3> QED BY <1>1, <3>1, <3>2 DEF ParamOf, Ch
  <2>6. CASE h # sg.g
    BY <1>0, <1>1, <2>2, <2>3, <2>4, <2>6, ParamKept
  <2> QED BY <2>5, <2>6
<1> QED BY <1>2, <1>3

(* Every step preserves ParamInv.                                          *)
LEMMA ParamStep ==
    ASSUME TypeOK, OpShape, LockInv, LiveInv, HandInv, ParamInv, NEW g \in G,
           PlainStep(g) \/ CloseStep(g) \/ SelectStep(g)
    PROVE  ParamInv'
<1> SUFFICES ASSUME NEW h \in G PROVE ParamOf(h)'
  BY DEF ParamInv
<1>1. CASE Wakeup(g)
  BY <1>1, ParamWakeup
<1>2. CASE CloseRelease(g)
  BY <1>2, ParamClose
<1>3. CASE ~Wakeup(g) /\ ~CloseRelease(g)
  <2>1. CASE h = g
    BY <1>3, <2>1, ParamActor
  <2>2. CASE h # g
    <3>1. param'[h] = param[h]
      BY <1>3, <2>2, ParamActor
    <3>2. pc'[h] = pc[h] /\ op'[h] = op[h]
      BY <2>2, Frame
    <3>3. status'[h] = status[h]
      BY <1>3, <2>2, StatusStep
    <3> QED BY <3>1, <3>2, <3>3, ParamKept
  <2> QED BY <2>1, <2>2
<1> QED BY <1>1, <1>2, <1>3


(* No step throws: ready() meets a parked goroutine, and a woken goroutine *)
(* finds what its param promises.                                          *)
LEMMA ThrowStep ==
    ASSUME TypeOK, OpShape, LockInv, LiveInv, HandInv, ParamInv, NoThrow, NEW g \in G,
           PlainStep(g) \/ CloseStep(g) \/ SelectStep(g)
    PROVE  NoThrow'
<1>0. ParamOf(g) /\ thrown = "none"
  BY DEF ParamInv, NoThrow
<1> USE DEF NoThrow
<1>1. CASE Invoke(g)
  BY <1>1, <1>0 DEF Invoke
<1>2. CASE NilChan(g)
  BY <1>2, <1>0 DEF NilChan
<1>3. CASE ChanClosed(g)
  BY <1>3, <1>0 DEF ChanClosed
<1>4. CASE ChanComm(g)
  BY <1>4, <1>0 DEF ChanComm
<1>5. CASE ChanNotReady(g)
  BY <1>5, <1>0 DEF ChanNotReady
<1>6. CASE ChanPark(g)
  BY <1>6, <1>0 DEF ChanPark
<1>7. CASE SyncWake(g)
  BY <1>7, <1>0 DEF SyncWake, ParamOf
<1>8. CASE Wakeup(g)
  <2>1. PICK sg \in hand[g] : Ready(sg.g)
    BY <1>8 DEF Wakeup
  <2>2. status[sg.g] = "Gwaiting"
    BY <2>1 DEF HandInv, InHand, Parked
  <2> QED BY <1>0, <2>1, <2>2 DEF Ready
<1>9. CASE ClosePanic(g)
  BY <1>9, <1>0 DEF ClosePanic
<1>10. CASE CloseBegin(g)
  BY <1>10, <1>0 DEF CloseBegin
<1>11. CASE CloseRelease(g)
  <2>1. CASE LiveAt(waitq[CloseQueue(g)]) = {}
    BY <1>11, <1>0, <2>1 DEF CloseRelease, CloseQueue
  <2>2. CASE LiveAt(waitq[CloseQueue(g)]) # {}
    <3>1. PICK sg : sg = waitq[CloseQueue(g)][First(waitq[CloseQueue(g)])]
      OBVIOUS
    <3>2. status[sg.g] = "Gwaiting"
      BY <1>11, <2>2, <3>1, CloseMeetsParked
    <3>3. Ready(sg.g)
      BY <1>11, <2>2, <3>1 DEF CloseRelease, CloseQueue
    <3> QED BY <1>0, <3>2, <3>3 DEF Ready
  <2> QED BY <2>1, <2>2
<1>12. CASE SelInvoke(g)
  BY <1>12, <1>0 DEF SelInvoke
<1>13. CASE SelLock(g)
  BY <1>13, <1>0 DEF SelLock
<1>14. CASE PollComm(g)
  BY <1>14, <1>0 DEF PollComm
<1>15. CASE PollClosed(g)
  BY <1>15, <1>0 DEF PollClosed
<1>16. CASE PollNext(g)
  BY <1>16, <1>0 DEF PollNext
<1>17. CASE SelDefault(g)
  BY <1>17, <1>0 DEF SelDefault
<1>18. CASE SelBlock(g)
  BY <1>18, <1>0 DEF SelBlock
<1>19. CASE SelEnqueue(g)
  BY <1>19, <1>0 DEF SelEnqueue
<1>20. CASE SelPark(g)
  BY <1>20, <1>0 DEF SelPark
<1>21. CASE ParkUnlock(g)
  BY <1>21, <1>0 DEF ParkUnlock
<1>22. CASE SelDequeue(g)
  BY <1>22, <1>0 DEF SelDequeue
<1>23. CASE SelRetry(g)
  BY <1>23, <1>0 DEF SelRetry
<1>24. CASE SelFired(g)
  <2>1. Cap[Ch(g, param[g])] = 0
    BY <1>24, <1>0 DEF SelFired, ParamOf
  <2>2. ~(Cap[Ch(g, param[g])] > 0)
    BY <2>1
  <2> QED BY <1>24, <1>0, <2>2 DEF SelFired
<1>25. CASE SelUnlock(g)
  BY <1>25, <1>0 DEF SelUnlock
<1> QED BY <1>1, <1>2, <1>3, <1>4, <1>5, <1>6, <1>7, <1>8, <1>9, <1>10, <1>11,
           <1>12, <1>13, <1>14, <1>15, <1>16, <1>17, <1>18, <1>19, <1>20,
           <1>21, <1>22, <1>23, <1>24, <1>25
        DEF PlainStep, CloseStep, SelectStep

(***************************************************************************)
(* The invariant holds in every reachable state.                           *)
(***************************************************************************)
(* At the start nobody waits anywhere and nothing is in a hand.            *)
LEMMA InitIInv ==
    Init => IInv
<1> SUFFICES ASSUME Init PROVE IInv
  OBVIOUS
<1>1. TypeOK /\ OpShape /\ LockInv
  BY InitLockIInv DEF LockIInv
<1>2. LiveInv
  BY DEF Init, LiveInv, GenInv, WaitInv, PlainOnce
<1>3. HandInv /\ ParamInv /\ NoThrow
  BY DEF Init, HandInv, ParamInv, ParamOf, NoThrow
<1> QED BY <1>1, <1>2, <1>3 DEF IInv

(* Every step of every goroutine preserves the inductive invariant.        *)
LEMMA IInvStep ==
    IInv /\ [Next]_vars => IInv'
<1> SUFFICES ASSUME IInv, [Next]_vars PROVE IInv'
  OBVIOUS
<1>0. TypeOK /\ OpShape /\ LockInv /\ LiveInv /\ HandInv /\ ParamInv /\ NoThrow
  BY DEF IInv
<1>1. TypeOK' /\ OpShape' /\ LockInv'
  BY <1>0, LockIInvStep DEF LockIInv
<1>2. CASE UNCHANGED vars
  <2> USE <1>0, <1>2 DEF vars, hchan, sel
  <2>1. GenInv'
    BY DEF LiveInv, GenInv
  <2>2. WaitInv'
    <3>1. ASSUME NEW sg, NEW x PROVE Live(sg)' = Live(sg) /\ WaitsAt(sg, x)' = WaitsAt(sg, x)
      BY DEF WaitsAt, Live, Ch, CaseDir, NCase
    <3> QED BY <3>1 DEF LiveInv, WaitInv
  <2>3. PlainOnce'
    BY DEF LiveInv, PlainOnce
  <2>4. HandInv'
    BY DEF HandInv, InHand, NoneLive, Parked, Live, Ch, NCase
  <2>5. ParamInv'
    BY DEF ParamInv, ParamOf, Ch, NCase
  <2>6. NoThrow'
    BY DEF NoThrow
  <2> QED BY <1>1, <2>1, <2>2, <2>3, <2>4, <2>5, <2>6 DEF IInv, LiveInv
<1>3. CASE Next
  <2>1. PICK g \in G : PlainStep(g) \/ CloseStep(g) \/ SelectStep(g)
    BY <1>3 DEF Next
  <2> QED BY <1>0, <1>1, <2>1, LiveStep, HandStep, ParamStep, ThrowStep DEF IInv
<1> QED BY <1>2, <1>3

(* The invariant that explains the wakeups holds for any number of         *)
(* goroutines and channels: a live SudoG is a parked goroutine (or a       *)
(* select still enqueuing under the lock), and each is claimed once.       *)
THEOREM IInvAlways ==
    Spec => []IInv
<1>1. Init => IInv
  BY InitIInv
<1>2. IInv /\ [Next]_vars => IInv'
  BY IInvStep
<1> QED BY <1>1, <1>2, PTL DEF Spec

(* None of the runtime's assertions in the channel code can fire: not      *)
(* "bad g->status in ready", not "spurious wakeup", not "selectgo:         *)
(* shouldn't happen", however sends, receives, selects and closes of any   *)
(* number of goroutines interleave.                                        *)
THEOREM NoThrowAlways ==
    Spec => []NoThrow
<1>1. IInv => NoThrow
  BY DEF IInv
<1> QED BY <1>1, IInvAlways, PTL

StepOf(g) == PlainStep(g) \/ CloseStep(g) \/ SelectStep(g)

(***************************************************************************)
(* What a step does to the queues of a channel.                            *)
(***************************************************************************)
(* A lock protects the queues of its channel.                              *)
LEMMA LockedQueue ==
    ASSUME TypeOK, OpShape, LockInv, NEW g \in G, NEW h \in G, h # g, StepOf(g),
           NEW c \in held[h], NEW d \in Dir
    PROVE  waitq'[<<c, d>>] = waitq[<<c, d>>]
<1>0. /\ c \in Chan /\ c \notin held[g] /\ ~LockFree(c) /\ <<c, d>> \in Chan \X Dir
      /\ waitq \in [Chan \X Dir -> Seq(Sudog)]
  BY DEF TypeOK, LockInv, LockFree
<1>1. CASE waitq' = waitq
  BY <1>1
<1>2. CASE InSection(g) /\ (ChanComm(g) \/ ChanNotReady(g) \/ ChanPark(g))
  <2>1. Ch(g, 1) # c
    BY <1>0, <1>2 DEF InSection
  <2>2. \A e : <<c, d>> # <<Ch(g, 1), e>>
    BY <2>1
  <2>3. CASE ChanComm(g)
    BY <1>0, <2>2, <2>3 DEF ChanComm, Communicate, DequeueInto
  <2>4. CASE ChanNotReady(g)
    BY <1>0, <2>2, <2>4 DEF ChanNotReady, PopStale
  <2>5. CASE ChanPark(g)
    BY <1>0, <2>2, <2>5 DEF ChanPark
  <2> QED BY <1>2, <2>3, <2>4, <2>5
<1>3. CASE CloseRelease(g)
  <2>1. held[g] = {Ch(g, 1)}
    BY <1>3 DEF CloseRelease, LockInv, LocksOf
  <2>2. \A e : <<c, d>> # <<Ch(g, 1), e>>
    BY <1>0, <2>1
  <2> QED BY <1>0, <1>3, <2>2 DEF CloseRelease
<1>4. CASE pc[g] \in {"pass1", "pass2", "pass3"} /\ (PollComm(g) \/ PollClosed(g) \/ PollNext(g) \/ SelEnqueue(g) \/ SelDequeue(g))
  <2> DEFINE i == IF pc[g] = "pass3" THEN idx[g] ELSE pollorder[g][idx[g]]
  <2>1. held[g] = SelChans(g)
    BY <1>4 DEF LockInv, LocksOf
  <2>2. idx[g] <= NCase(g)
    BY <1>4 DEF PollComm, PollClosed, PollNext, Polling, SelEnqueue, SelDequeue
  <2>3. i \in 1 .. NCase(g)
    BY <1>4, <2>2, CaseType DEF SelPC
  <2>4. Ch(g, i) # c
    BY <1>0, <2>1, <2>3 DEF SelChans
  <2>5. \A e : <<c, d>> # <<Ch(g, i), e>>
    BY <2>4
  <2>6. CASE PollComm(g)
    <3>1. DequeueInto(g, Ch(g, i), Opp(CaseDir(g, i)))
      BY <2>6 DEF PollComm, Communicate, Polling
    <3> QED BY <1>0, <2>5, <3>1 DEF DequeueInto
  <2>7. CASE PollClosed(g)
    <3>1. waitq' = waitq \/ waitq' = [waitq EXCEPT ![<<Ch(g, i), "send">>] = <<>>]
      BY <2>7 DEF PollClosed, Polling
    <3> QED BY <1>0, <2>5, <3>1
  <2>8. CASE PollNext(g)
    <3>1. PopStale(Ch(g, i), CaseDir(g, i))
      BY <2>8 DEF PollNext, Polling
    <3> QED BY <1>0, <2>5, <3>1 DEF PopStale
  <2>9. CASE SelEnqueue(g)
    <3>1. Enqueue(g, Ch(g, i), CaseDir(g, i), i, selgen[g])
      BY <2>9 DEF SelEnqueue
    <3> QED BY <1>0, <2>5, <3>1 DEF Enqueue
  <2>10. CASE SelDequeue(g)
    <3>1. waitq' = waitq \/ waitq' = [waitq EXCEPT ![<<Ch(g, i), CaseDir(g, i)>>] = DequeueG(@, g)]
      BY <2>10 DEF SelDequeue
    <3> QED BY <1>0, <2>5, <3>1
  <2> QED BY <1>4, <2>6, <2>7, <2>8, <2>9, <2>10
<1>5. \/ waitq' = waitq
      \/ InSection(g) /\ (ChanComm(g) \/ ChanNotReady(g) \/ ChanPark(g))
      \/ CloseRelease(g)
      \/ pc[g] \in {"pass1", "pass2", "pass3"} /\ (PollComm(g) \/ PollClosed(g) \/ PollNext(g) \/ SelEnqueue(g) \/ SelDequeue(g))
  BY DEF StepOf, PlainStep, CloseStep, SelectStep, Invoke, NilChan, ChanClosed, ChanComm, ChanNotReady,
         ChanPark, SyncWake, Wakeup, ClosePanic, CloseBegin, SelInvoke, SelLock, PollComm, PollClosed,
         PollNext, Polling, SelDefault, SelBlock, SelEnqueue, SelPark, ParkUnlock, SelDequeue, SelRetry,
         SelFired, SelUnlock
<1> QED BY <1>1, <1>2, <1>3, <1>4, <1>5

(* The SudoG that g's step enqueues, if it does.                           *)
NewEntry(g, x, sg) ==
    \/ ChanPark(g) /\ x = OwnQueue(g, 1) /\ sg = [g |-> g, cas |-> 1, selgen |-> NOSELGEN]
    \/ LET i == pollorder[g][idx[g]] IN
       SelEnqueue(g) /\ x = OwnQueue(g, i) /\ sg = [g |-> g, cas |-> i, selgen |-> selgen[g]]

(* Whatever is in a queue was there before, or has just been enqueued.     *)
LEMMA OldOrNew ==
    ASSUME TypeOK, OpShape, LockInv, NEW g \in G, StepOf(g),
           NEW x \in Chan \X Dir, NEW k \in 1 .. Len(waitq'[x])
    PROVE  \/ \E j \in 1 .. Len(waitq[x]) : waitq'[x][k] = waitq[x][j]
           \/ k = Len(waitq[x]) + 1 /\ NewEntry(g, x, waitq'[x][k])
<1>0. waitq[x] \in Seq(Sudog) /\ waitq \in [Chan \X Dir -> Seq(Sudog)] /\ Len(waitq[x]) \in Nat
  BY EntryType DEF TypeOK
<1>1. CASE ~ChanPark(g) /\ ~SelEnqueue(g)
  <2>1. PICK f \in [1 .. Len(waitq'[x]) -> 1 .. Len(waitq[x])] :
          \A n \in 1 .. Len(waitq'[x]) : waitq'[x][n] = waitq[x][f[n]]
    BY <1>1, Survivors DEF StepOf
  <2> QED BY <2>1
<1>2. ASSUME NEW w, waitq'[x] = Append(waitq[x], w)
      PROVE  (\E j \in 1 .. Len(waitq[x]) : waitq'[x][k] = waitq[x][j]) \/ (k = Len(waitq[x]) + 1 /\ waitq'[x][k] = w)
  BY <1>0, <1>2
<1>3. CASE ChanPark(g)
  <2> DEFINE w == [g |-> g, cas |-> 1, selgen |-> NOSELGEN]
  <2>1. (waitq'[x] = Append(waitq[x], w) /\ x = OwnQueue(g, 1)) \/ waitq'[x] = <<>> \/ waitq'[x] = waitq[x]
    BY <1>0, <1>3 DEF ChanPark, OwnQueue
  <2>2. CASE waitq'[x] = Append(waitq[x], w) /\ x = OwnQueue(g, 1)
    BY <1>2, <1>3, <2>2 DEF NewEntry
  <2>3. CASE waitq'[x] = <<>>
    BY <2>3
  <2> QED BY <2>1, <2>2, <2>3
<1>4. CASE SelEnqueue(g)
  <2> DEFINE i == pollorder[g][idx[g]]
             w == [g |-> g, cas |-> i, selgen |-> selgen[g]]
  <2>1. waitq' = [waitq EXCEPT ![OwnQueue(g, i)] = Append(@, w)]
    BY <1>4 DEF SelEnqueue, Enqueue, OwnQueue
  <2>2. (waitq'[x] = Append(waitq[x], w) /\ x = OwnQueue(g, i)) \/ waitq'[x] = waitq[x]
    BY <1>0, <2>1
  <2>3. CASE waitq'[x] = Append(waitq[x], w) /\ x = OwnQueue(g, i)
    BY <1>2, <1>4, <2>3 DEF NewEntry
  <2> QED BY <2>2, <2>3
<1> QED BY <1>1, <1>3, <1>4

(***************************************************************************)
(* NoMissedRendezvous.                                                     *)
(***************************************************************************)
(* A SudoG that is live after the step was live before.                    *)
LEMMA WasLive ==
    ASSUME TypeOK, OpShape, LockInv, LiveInv, TypeOK', NEW g \in G, StepOf(g),
           NEW x \in Chan \X Dir, NEW j \in 1 .. Len(waitq[x]), NEW sg, sg = waitq[x][j], LiveNext(sg)
    PROVE  j \in LiveAt(waitq[x])
<1>1. \A h \in G : selgen'[h] >= selgen[h]
  BY GenStep DEF StepOf
<1>2. selgen' \in [G -> Nat]
  BY DEF TypeOK
<1>3. Live(waitq[x][j])
  BY <1>1, <1>2, LiveBefore
<1> QED BY <1>3 DEF LiveAt

(* A goroutine that holds the lock of a case gets no partner for it.       *)
LEMMA PartnerKept ==
    ASSUME TypeOK, OpShape, LockInv, LiveInv, TypeOK', NEW g \in G, StepOf(g),
           NEW h \in G, NEW i, Ch(h, i) \in Chan, CaseDir(h, i) \in Dir, op'[h] = op[h],
           h = g \/ Ch(h, i) \in held[h],
           NoPartner(h, i)
    PROVE  NoPartner(h, i)'
<1> DEFINE y == CommQueue(h, i)
<1>1. Ch(h, i)' = Ch(h, i) /\ CaseDir(h, i)' = CaseDir(h, i) /\ CommQueue(h, i)' = y
  BY DEF Ch, CaseDir, CommQueue, Opp
<1>2. y \in Chan \X Dir
  BY DEF CommQueue, Opp, Dir
<1>3. SUFFICES ASSUME Cap[Ch(h, i)] = 0, NEW k \in 1 .. Len(waitq'[y]), LiveNext(waitq'[y][k])
               PROVE  waitq'[y][k].g = h
  BY <1>1 DEF NoPartner, LiveAt, Live, LiveNext
<1>4. \A n \in LiveAt(waitq[y]) : waitq[y][n].g = h
  BY <1>3 DEF NoPartner
<1>5. CASE \E j \in 1 .. Len(waitq[y]) : waitq'[y][k] = waitq[y][j]
  <2>1. PICK j \in 1 .. Len(waitq[y]) : waitq'[y][k] = waitq[y][j]
    BY <1>5
  <2>2. j \in LiveAt(waitq[y])
    BY <1>2, <1>3, <2>1, WasLive
  <2> QED BY <1>4, <2>1, <2>2
<1>6. CASE h # g
  <2>1. waitq'[y] = waitq[y]
    BY <1>2, <1>6, LockedQueue DEF CommQueue, Opp, Dir
  <2> QED BY <2>1, <1>5
<1>7. CASE h = g /\ NewEntry(g, y, waitq'[y][k])
  BY <1>7 DEF NewEntry
<1> QED BY <1>2, <1>5, <1>6, <1>7, OldOrNew

(* The polled cases of the others.                                         *)
LEMMA PolledOther ==
    ASSUME TypeOK, OpShape, LockInv, LiveInv, TypeOK', NEW g \in G, StepOf(g),
           NEW h \in G, h # g, PolledOf(h)
    PROVE  PolledOf(h)'
<1>1. /\ pc'[h] = pc[h] /\ op'[h] = op[h] /\ pollorder'[h] = pollorder[h] /\ idx'[h] = idx[h]
      /\ NCase(h)' = NCase(h)
  BY Frame DEF StepOf, NCase
<1>2. ASSUME pc[h] \in {"pass1", "pass2"}, NEW j \in 1 .. NCase(h), NoPartner(h, pollorder[h][j])
      PROVE  NoPartner(h, pollorder[h][j])'
  <2>0. PICK i : i = pollorder[h][j]
    OBVIOUS
  <2>1. i \in 1 .. NCase(h) /\ Ch(h, i) \in Chan /\ CaseDir(h, i) \in Dir
    <3>1. pollorder[h] \in [1 .. NCase(h) -> 1 .. NCase(h)]
      BY <1>2 DEF OpShape, ShapeOf, SelPC
    <3> QED BY <1>2, <2>0, <3>1, CaseType DEF SelPC
  <2>2. Ch(h, i) \in held[h]
    BY <1>2, <2>1 DEF LockInv, LocksOf, SelChans
  <2>3. NoPartner(h, i)'
    BY <1>1, <1>2, <2>0, <2>1, <2>2, PartnerKept
  <2> QED BY <1>1, <2>0, <2>3
<1>3. pc[h] = "pass1" => \A j \in 1 .. NCase(h) : j < idx[h] => NoPartner(h, pollorder[h][j])'
  BY <1>2 DEF PolledOf
<1>4. pc[h] = "pass2" => \A j \in 1 .. NCase(h) : NoPartner(h, pollorder[h][j])'
  BY <1>2 DEF PolledOf
<1> QED BY <1>1, <1>3, <1>4 DEF PolledOf

(* Which steps of g have polled something.                                 *)
LEMMA PollingSteps ==
    ASSUME TypeOK, OpShape, LockInv, NEW g \in G, StepOf(g), pc'[g] \in {"pass1", "pass2"}
    PROVE  \/ pc'[g] = "pass1" /\ idx'[g] = 1
           \/ pc'[g] = "pass1" /\ NCase(g)' = 0
           \/ PollNext(g) \/ SelBlock(g) \/ SelEnqueue(g)
<1> USE DEF Goto, TypeOK
<1>1. CASE PlainStep(g)
  BY <1>1, ZenonT(60) DEF PlainStep, Invoke, NilChan, ChanClosed, ChanComm, ChanNotReady, ChanPark, SyncWake, Wakeup, Park,
              InSection
<1>2. CASE CloseStep(g)
  BY <1>2 DEF CloseStep, ClosePanic, CloseBegin, CloseRelease
<1>3. CASE SelInvoke(g)
  <2>0. PICK o \in Menu[g] : \E cases \in Competing(o.cases) :
           /\ op' = [op EXCEPT ![g] = [o EXCEPT !.cases = cases]]
           /\ pc' = [pc EXCEPT ![g] = IF cases = <<>> THEN "pass1" ELSE "sellock"]
    BY <1>3 DEF SelInvoke
  <2>1. PICK cases \in Competing(o.cases) :
           /\ op' = [op EXCEPT ![g] = [o EXCEPT !.cases = cases]]
           /\ pc' = [pc EXCEPT ![g] = IF cases = <<>> THEN "pass1" ELSE "sellock"]
    BY <2>0
  <2>2. cases = <<>> /\ pc'[g] = "pass1"
    BY <2>1
  <2>3. o \in Op
    BY MenuAssumption
  <2>4. op'[g].cases = <<>>
    BY <2>1, <2>2, <2>3 DEF Op
  <2> QED BY <2>2, <2>4 DEF NCase
<1>4. CASE SelLock(g)
  BY <1>4 DEF SelLock
<1>5. CASE PollComm(g) \/ PollClosed(g) \/ SelDefault(g) \/ SelPark(g) \/ SelFired(g) \/ SelUnlock(g)
  BY <1>5 DEF PollComm, PollClosed, SelDefault, SelPark, Park, SelFired, SelUnlock
<1>6. CASE ParkUnlock(g)
  <2>1. unl[g] # {} /\ pc' = pc
    BY <1>6 DEF ParkUnlock
  <2> QED BY <2>1 DEF LockInv, LocksOf
<1>7. CASE SelDequeue(g)
  BY <1>7 DEF SelDequeue
<1>8. CASE SelRetry(g)
  BY <1>8 DEF SelRetry
<1>9. CASE PollNext(g) \/ SelBlock(g) \/ SelEnqueue(g)
  BY <1>9
<1> QED BY <1>1, <1>2, <1>3, <1>4, <1>5, <1>6, <1>7, <1>8, <1>9 DEF StepOf, SelectStep

(* The polled cases of g itself.                                           *)
LEMMA PolledActor ==
    ASSUME TypeOK, OpShape, LockInv, LiveInv, TypeOK', NEW g \in G, StepOf(g), PolledOf(g)
    PROVE  PolledOf(g)'
<1> SUFFICES ASSUME pc'[g] \in {"pass1", "pass2"} PROVE PolledOf(g)'
  BY DEF PolledOf
<1>1. CASE pc'[g] = "pass1" /\ idx'[g] = 1
  <2>1. \A j \in 1 .. NCase(g)' : ~(j < 1)
    BY DEF NCase
  <2> QED BY <1>1, <2>1 DEF PolledOf
<1>2. CASE pc'[g] = "pass1" /\ NCase(g)' = 0
  BY <1>2 DEF PolledOf
<1>3. CASE PollNext(g) \/ SelBlock(g) \/ SelEnqueue(g)
  <2>1. pc[g] \in {"pass1", "pass2"} /\ op' = op /\ pollorder' = pollorder
    BY <1>3 DEF PollNext, Polling, SelBlock, SelEnqueue
  <2>2. /\ pollorder[g] \in [1 .. NCase(g) -> 1 .. NCase(g)] /\ NCase(g) \in Nat /\ idx[g] \in Nat
        /\ \A i \in 1 .. NCase(g) : Ch(g, i) \in Chan /\ CaseDir(g, i) \in Dir
    BY <2>1, CaseType DEF OpShape, ShapeOf, SelPC, TypeOK
  <2>3. ASSUME NEW j \in 1 .. NCase(g), NoPartner(g, pollorder[g][j])
        PROVE  NoPartner(g, pollorder[g][j])'
    <3>0. PICK i : i = pollorder[g][j]
      OBVIOUS
    <3>1. i \in 1 .. NCase(g)
      BY <2>2, <3>0
    <3>2. Ch(g, i) \in Chan /\ CaseDir(g, i) \in Dir /\ op'[g] = op[g]
      BY <2>1, <2>2, <3>1
    <3>3. NoPartner(g, i)'
      BY <2>3, <3>0, <3>1, <3>2, PartnerKept
    <3> QED BY <2>1, <3>0, <3>3
  <2>4. NCase(g)' = NCase(g)
    BY <2>1 DEF NCase
  <2>5. CASE PollNext(g)
    <3>1. pc[g] = "pass1" /\ pc' = pc /\ idx'[g] = idx[g] + 1 /\ idx[g] <= NCase(g)
      BY <2>5 DEF PollNext, Polling, TypeOK
    <3>2. NoPartner(g, pollorder[g][idx[g]])
      <4> DEFINE i == pollorder[g][idx[g]]
      <4>1. ~Proceeds(Ch(g, i), CaseDir(g, i))
        BY <2>5 DEF PollNext
      <4> QED BY <4>1 DEF Proceeds, NoPartner, CommQueue
    <3>3. idx[g] \in 1 .. NCase(g)
      BY <2>1, <3>1, CaseType DEF SelPC
    <3>4. \A j \in 1 .. NCase(g) : j < idx[g] => NoPartner(g, pollorder[g][j])
      BY <3>1 DEF PolledOf
    <3>5. \A j \in 1 .. NCase(g) : j < idx[g] + 1 => NoPartner(g, pollorder[g][j])
      BY <2>2, <3>2, <3>3, <3>4
    <3> QED BY <2>3, <2>4, <3>1, <3>5 DEF PolledOf
  <2>6. CASE SelBlock(g)
    <3>1. pc[g] = "pass1" /\ pc'[g] = "pass2" /\ idx[g] > NCase(g)
      BY <2>6 DEF SelBlock, Goto, TypeOK
    <3>2. \A j \in 1 .. NCase(g) : NoPartner(g, pollorder[g][j])
      BY <2>2, <3>1 DEF PolledOf
    <3> QED BY <2>3, <2>4, <3>1, <3>2 DEF PolledOf
  <2>7. CASE SelEnqueue(g)
    <3>1. pc[g] = "pass2" /\ pc' = pc
      BY <2>7 DEF SelEnqueue
    <3> QED BY <2>3, <2>4, <3>1 DEF PolledOf
  <2> QED BY <1>3, <2>5, <2>6, <2>7
<1> QED BY <1>1, <1>2, <1>3, PollingSteps

(* Two that could be paired: one of them has just come, and the other one  *)
(* would have been found before.                                           *)
LEMMA RendezvousStep ==
    ASSUME TypeOK, OpShape, LockInv, LiveInv, TypeOK', NEW g \in G, StepOf(g),
           PolledInv, NoMissedRendezvous
    PROVE  NoMissedRendezvous'
<1>1. ASSUME NEW c \in Chan, Cap[c] = 0, NEW d \in Dir,
             NEW s \in 1 .. Len(waitq'[<<c, d>>]), LiveNext(waitq'[<<c, d>>][s]),
             NEW r \in 1 .. Len(waitq'[<<c, Opp(d)>>]), LiveNext(waitq'[<<c, Opp(d)>>][r]),
             NewEntry(g, <<c, d>>, waitq'[<<c, d>>][s])
      PROVE  waitq'[<<c, d>>][s].g = waitq'[<<c, Opp(d)>>][r].g
  <2>0. <<c, Opp(d)>> \in Chan \X Dir /\ waitq \in [Chan \X Dir -> Seq(Sudog)] /\ d # Opp(d)
    BY DEF Opp, Dir, TypeOK
  <2>1. waitq'[<<c, d>>][s].g = g
    BY <1>1 DEF NewEntry
  <2>2. CASE ChanPark(g) /\ <<c, d>> = OwnQueue(g, 1)
    <3>1. Ch(g, 1) = c /\ CaseDir(g, 1) = d
      BY <2>2 DEF OwnQueue
    <3>2. waitq'[<<c, Opp(d)>>] = <<>>
      BY <1>1, <2>0, <2>2, <3>1 DEF ChanPark
    <3> QED BY <3>2
  <2>3. CASE SelEnqueue(g) /\ <<c, d>> = OwnQueue(g, pollorder[g][idx[g]])
    <3> DEFINE i == pollorder[g][idx[g]]
    <3>1. pc[g] = "pass2" /\ idx[g] <= NCase(g)
      BY <2>3 DEF SelEnqueue
    <3>2. idx[g] \in 1 .. NCase(g)
      BY <3>1, CaseType DEF SelPC
    <3>3. NoPartner(g, i)
      BY <3>1, <3>2 DEF PolledInv, PolledOf
    <3>4. Ch(g, i) = c /\ CaseDir(g, i) = d
      BY <2>3 DEF OwnQueue
    <3>5. \A k \in LiveAt(waitq[<<c, Opp(d)>>]) : waitq[<<c, Opp(d)>>][k].g = g
      BY <1>1, <3>3, <3>4 DEF NoPartner, CommQueue
    <3>6. CASE \E j \in 1 .. Len(waitq[<<c, Opp(d)>>]) : waitq'[<<c, Opp(d)>>][r] = waitq[<<c, Opp(d)>>][j]
      <4>1. PICK j \in 1 .. Len(waitq[<<c, Opp(d)>>]) : waitq'[<<c, Opp(d)>>][r] = waitq[<<c, Opp(d)>>][j]
        BY <3>6
      <4>2. j \in LiveAt(waitq[<<c, Opp(d)>>])
        BY <1>1, <2>0, <4>1, WasLive
      <4> QED BY <2>1, <3>5, <4>1, <4>2
    <3>7. CASE NewEntry(g, <<c, Opp(d)>>, waitq'[<<c, Opp(d)>>][r])
      BY <2>1, <3>7 DEF NewEntry
    <3> QED BY <2>0, <3>6, <3>7, OldOrNew
  <2> QED BY <1>1, <2>2, <2>3 DEF NewEntry
<1>2. SUFFICES ASSUME NEW c \in Chan, Cap[c] = 0,
                      NEW s \in 1 .. Len(waitq'[<<c, "send">>]), LiveNext(waitq'[<<c, "send">>][s]),
                      NEW r \in 1 .. Len(waitq'[<<c, "recv">>]), LiveNext(waitq'[<<c, "recv">>][r])
               PROVE  waitq'[<<c, "send">>][s].g = waitq'[<<c, "recv">>][r].g
  BY DEF NoMissedRendezvous, LiveAt, Live, LiveNext
<1>3. /\ <<c, "send">> \in Chan \X Dir /\ <<c, "recv">> \in Chan \X Dir
      /\ "send" \in Dir /\ "recv" \in Dir /\ Opp("send") = "recv" /\ Opp("recv") = "send"
  BY DEF Dir, Opp
<1>4. CASE NewEntry(g, <<c, "send">>, waitq'[<<c, "send">>][s])
  BY <1>1, <1>2, <1>3, <1>4
<1>5. CASE NewEntry(g, <<c, "recv">>, waitq'[<<c, "recv">>][r])
  BY <1>1, <1>2, <1>3, <1>5
<1>6. CASE /\ \E j \in 1 .. Len(waitq[<<c, "send">>]) : waitq'[<<c, "send">>][s] = waitq[<<c, "send">>][j]
           /\ \E j \in 1 .. Len(waitq[<<c, "recv">>]) : waitq'[<<c, "recv">>][r] = waitq[<<c, "recv">>][j]
  <2>1. PICK j \in 1 .. Len(waitq[<<c, "send">>]) : waitq'[<<c, "send">>][s] = waitq[<<c, "send">>][j]
    BY <1>6
  <2>2. PICK k \in 1 .. Len(waitq[<<c, "recv">>]) : waitq'[<<c, "recv">>][r] = waitq[<<c, "recv">>][k]
    BY <1>6
  <2>3. j \in LiveAt(waitq[<<c, "send">>]) /\ k \in LiveAt(waitq[<<c, "recv">>])
    BY <1>2, <1>3, <2>1, <2>2, WasLive
  <2> QED BY <1>2, <2>1, <2>2, <2>3 DEF NoMissedRendezvous
<1> QED BY <1>3, <1>4, <1>5, <1>6, OldOrNew

(***************************************************************************)
(* QueuedInScope.                                                          *)
(***************************************************************************)
(* A goroutine with a SudoG in a queue only takes steps of its select.     *)
LEMMA ScopeActor ==
    ASSUME TypeOK, OpShape, LockInv, LiveInv, NEW g \in G, StepOf(g),
           NEW x \in Chan \X Dir, NEW k \in 1 .. Len(waitq[x]), waitq[x][k].g = g,
           EntryScope(waitq[x][k], x)
    PROVE  /\ waitq[x][k].selgen # NOSELGEN /\ pc[g] \in {"pass2", "selpark", "pass3"}
           /\ \/ SelEnqueue(g) \/ SelPark(g) \/ ParkUnlock(g) \/ SelLock(g) \/ SelDequeue(g)
              \/ SelRetry(g) \/ SelFired(g)
<1> DEFINE sg == waitq[x][k]
<1>1. ~(Parked(g) /\ pc[g] \in {"syncwait", "asyncwait"})
  <2>1. ASSUME Parked(g), pc[g] \in {"syncwait", "asyncwait"} PROVE FALSE
    <3>1. SelEnqueue(g) \/ SelPark(g) \/ ParkUnlock(g)
      BY <2>1, ActorWaits DEF StepOf
    <3>2. ParkUnlock(g) => unl[g] # {}
      BY DEF ParkUnlock
    <3>3. unl[g] # {} => pc[g] = "selpark"
      BY DEF LockInv, LocksOf
    <3> QED BY <2>1, <3>1, <3>2, <3>3 DEF SelEnqueue, SelPark
  <2> QED BY <2>1
<1>2. sg.selgen # NOSELGEN
  <2>1. ASSUME sg.selgen = NOSELGEN PROVE FALSE
    <3>1. Live(sg) /\ WaitsAt(sg, x)
      BY <2>1 DEF Live, LiveInv, WaitInv
    <3>2. Parked(g) /\ pc[g] \in {"syncwait", "asyncwait"}
      BY <2>1, <3>1 DEF WaitsAt, Parked
    <3> QED BY <1>1, <3>2
  <2> QED BY <2>1
<1>3. pc[g] \in {"pass2", "selpark", "pass3"}
  BY <1>2 DEF EntryScope
<1>4. ~PlainStep(g)
  BY <1>3 DEF PlainStep, Invoke, NilChan, ChanClosed, ChanComm, ChanNotReady, ChanPark, InSection, SyncWake, Wakeup
<1>5. ~CloseStep(g)
  BY <1>3 DEF CloseStep, ClosePanic, CloseBegin, CloseRelease
<1>6. ~SelInvoke(g) /\ ~PollComm(g) /\ ~PollClosed(g) /\ ~PollNext(g) /\ ~SelDefault(g) /\ ~SelBlock(g) /\ ~SelUnlock(g)
  BY <1>3 DEF SelInvoke, PollComm, PollClosed, PollNext, Polling, SelDefault, SelBlock, SelUnlock
<1> QED BY <1>2, <1>3, <1>4, <1>5, <1>6 DEF StepOf, SelectStep

(* At the end of pass 3 no SudoG of the select is left.                    *)
LEMMA Pass3Done ==
    ASSUME TypeOK, OpShape, NEW g \in G, DequeuingOf(g), pc[g] = "pass3", idx[g] > NCase(g),
           NEW x \in Chan \X Dir
    PROVE  OwnAt(waitq[x], g) = {}
<1>1. NCase(g) \in Nat /\ idx[g] \in Nat /\ Len(waitq[x]) \in Nat
  BY CaseType, EntryType DEF SelPC, TypeOK
<1>2. ToDequeue(g, x) = {}
  BY <1>1 DEF ToDequeue
<1>3. IsFiniteSet(OwnAt(waitq[x], g))
  <2>1. OwnAt(waitq[x], g) \in SUBSET (1 .. Len(waitq[x]))
    BY DEF OwnAt
  <2>2. IsFiniteSet(1 .. Len(waitq[x]))
    BY <1>1, FS_Interval
  <2> QED BY <2>1, <2>2, FS_Subset
<1>4. Cardinality(OwnAt(waitq[x], g)) <= 0
  BY <1>2, FS_EmptySet DEF DequeuingOf
<1>5. Cardinality(OwnAt(waitq[x], g)) \in Nat
  BY <1>3, FS_CardinalityType
<1>6. Cardinality(OwnAt(waitq[x], g)) = 0
  BY <1>4, <1>5
<1> QED BY <1>3, <1>6, FS_EmptySet

(* A step that enqueues appends to its own queue and may empty another.    *)
LEMMA EnqueueShape ==
    ASSUME TypeOK, OpShape, LockInv, NEW g \in G, StepOf(g), ChanPark(g) \/ SelEnqueue(g),
           NEW x \in Chan \X Dir
    PROVE  \/ \E w : waitq'[x] = Append(waitq[x], w) /\ NewEntry(g, x, w)
           \/ waitq'[x] = <<>> \/ waitq'[x] = waitq[x]
<1>0. waitq \in [Chan \X Dir -> Seq(Sudog)]
  BY DEF TypeOK
<1>1. CASE ChanPark(g)
  <2>1. \/ waitq'[x] = Append(waitq[x], [g |-> g, cas |-> 1, selgen |-> NOSELGEN]) /\ x = OwnQueue(g, 1)
        \/ waitq'[x] = <<>> \/ waitq'[x] = waitq[x]
    BY <1>0, <1>1 DEF ChanPark, OwnQueue
  <2> QED BY <1>1, <2>1 DEF NewEntry
<1>2. CASE SelEnqueue(g)
  <2> DEFINE i == pollorder[g][idx[g]]
             w == [g |-> g, cas |-> i, selgen |-> selgen[g]]
  <2>1. waitq' = [waitq EXCEPT ![OwnQueue(g, i)] = Append(@, w)]
    BY <1>2 DEF SelEnqueue, Enqueue, OwnQueue
  <2>2. (waitq'[x] = Append(waitq[x], w) /\ x = OwnQueue(g, i)) \/ waitq'[x] = waitq[x]
    BY <1>0, <2>1
  <2> QED BY <1>2, <2>2 DEF NewEntry
<1> QED BY <1>1, <1>2

(* A SudoG that was queued and is queued still has its operation running.  *)
LEMMA ScopeOld ==
    ASSUME TypeOK, OpShape, LockInv, LiveInv, NEW g \in G, StepOf(g), DequeuingOf(g),
           NEW x \in Chan \X Dir, NEW k \in 1 .. Len(waitq[x]), NEW sg, sg = waitq[x][k],
           EntryScope(sg, x)
    PROVE  EntryScope(sg, x)'
<1>0. sg.g \in G
  BY EntryType
<1>1. ASSUME op'[sg.g] = op[sg.g],
             pc'[sg.g] = pc[sg.g] \/ (sg.selgen # NOSELGEN /\ pc'[sg.g] \in {"pass2", "selpark", "pass3"})
      PROVE  EntryScope(sg, x)'
  BY <1>1 DEF EntryScope, OwnQueue, Ch, CaseDir, NCase
<1>2. CASE sg.g # g
  <2>1. pc'[sg.g] = pc[sg.g] /\ op'[sg.g] = op[sg.g]
    BY <1>0, <1>2, Frame DEF StepOf
  <2> QED BY <2>1 DEF EntryScope, OwnQueue, Ch, CaseDir, NCase
<1>3. CASE sg.g = g
  <2>1. /\ sg.selgen # NOSELGEN /\ pc[g] \in {"pass2", "selpark", "pass3"}
        /\ \/ SelEnqueue(g) \/ SelPark(g) \/ ParkUnlock(g) \/ SelLock(g) \/ SelDequeue(g)
           \/ SelRetry(g) \/ SelFired(g)
    BY <1>3, ScopeActor
  <2>2. CASE SelRetry(g) \/ SelFired(g)
    <3>1. pc[g] = "pass3" /\ idx[g] > NCase(g)
      BY <2>2 DEF SelRetry, SelFired
    <3>2. OwnAt(waitq[x], g) = {}
      BY <3>1, Pass3Done
    <3> QED BY <1>3, <3>2 DEF OwnAt
  <2>3. CASE SelEnqueue(g) \/ SelPark(g) \/ ParkUnlock(g) \/ SelLock(g) \/ SelDequeue(g)
    <3>1. op' = op
      BY <2>3 DEF SelEnqueue, SelPark, ParkUnlock, SelLock, SelDequeue
    <3>2. pc'[g] \in {"pass2", "selpark", "pass3"}
      BY <2>1, <2>3 DEF SelEnqueue, SelPark, ParkUnlock, SelLock, SelDequeue, Goto, Park, TypeOK
    <3> QED BY <1>1, <1>3, <2>1, <3>1, <3>2
  <2> QED BY <2>1, <2>2, <2>3
<1> QED BY <1>2, <1>3

(* The one that is new is of the operation that enqueues it.               *)
LEMMA ScopeNew ==
    ASSUME TypeOK, OpShape, LockInv, LiveInv, NEW g \in G, StepOf(g),
           NEW x \in Chan \X Dir, NEW sg, NewEntry(g, x, sg)
    PROVE  EntryScope(sg, x)' /\ sg.g = g
<1>1. CASE ChanPark(g) /\ x = OwnQueue(g, 1) /\ sg = [g |-> g, cas |-> 1, selgen |-> NOSELGEN]
  <2>1. op' = op /\ pc'[g] \in {"syncwait", "asyncwait"} /\ pc[g] \in PlainPC
    BY <1>1 DEF ChanPark, InSection, Park, Goto, PlainPC, TypeOK
  <2>2. 1 \in 1 .. NCase(g)
    BY <2>1 DEF OpShape, ShapeOf
  <2>3. sg.g = g /\ sg.cas = 1 /\ sg.selgen = NOSELGEN
    BY <1>1
  <2> QED BY <1>1, <2>1, <2>2, <2>3 DEF EntryScope, OwnQueue, Ch, CaseDir, NCase
<1>2. CASE LET i == pollorder[g][idx[g]] IN
           SelEnqueue(g) /\ x = OwnQueue(g, i) /\ sg = [g |-> g, cas |-> i, selgen |-> selgen[g]]
  <2>0. PICK i : i = pollorder[g][idx[g]]
    OBVIOUS
  <2>1. SelEnqueue(g) /\ x = OwnQueue(g, i) /\ sg.g = g /\ sg.cas = i /\ sg.selgen = selgen[g]
    BY <1>2, <2>0
  <2>2. op' = op /\ pc' = pc /\ pc[g] = "pass2" /\ idx[g] <= NCase(g)
    BY <2>1 DEF SelEnqueue
  <2>3. i \in 1 .. NCase(g)
    BY <2>0, <2>2, CaseType DEF SelPC
  <2>4. selgen[g] # NOSELGEN
    BY DEF LiveInv, GenInv, NOSELGEN, TypeOK
  <2> QED BY <2>1, <2>2, <2>3, <2>4 DEF EntryScope, OwnQueue, Ch, CaseDir, NCase
<1> QED BY <1>1, <1>2 DEF NewEntry

(* So every SudoG in a queue belongs to a running operation.               *)
LEMMA ScopeStep ==
    ASSUME TypeOK, OpShape, LockInv, LiveInv, NEW g \in G, StepOf(g), DequeuingOf(g), ScopeInv
    PROVE  ScopeInv'
<1> SUFFICES ASSUME NEW x \in Chan \X Dir, NEW k \in 1 .. Len(waitq'[x])
             PROVE  EntryScope(waitq[x][k], x)'
  BY DEF ScopeInv
<1>0. PICK sg : sg = waitq'[x][k]
  OBVIOUS
<1>1. CASE \E j \in 1 .. Len(waitq[x]) : waitq'[x][k] = waitq[x][j]
  <2>1. PICK j \in 1 .. Len(waitq[x]) : sg = waitq[x][j]
    BY <1>0, <1>1
  <2>2. EntryScope(sg, x)
    BY <2>1 DEF ScopeInv
  <2>3. EntryScope(sg, x)'
    BY <2>1, <2>2, ScopeOld
  <2> QED BY <1>0, <2>3
<1>2. CASE NewEntry(g, x, waitq'[x][k])
  <2>1. NewEntry(g, x, sg)
    BY <1>0, <1>2
  <2>2. EntryScope(sg, x)'
    BY <2>1, ScopeNew
  <2> QED BY <1>0, <2>2
<1> QED BY <1>1, <1>2, OldOrNew

(* What pass 2 and park enqueue is not yet in the queue.                   *)
LEMMA NewIsFresh ==
    ASSUME TypeOK, OpShape, LockInv, LiveInv, NEW g \in G, StepOf(g), ScopeInv, EnqueuedOf(g),
           NEW x \in Chan \X Dir, NEW w, NewEntry(g, x, w),
           NEW j \in 1 .. Len(waitq[x]), waitq[x][j].g = g
    PROVE  waitq[x][j].cas # w.cas
<1>1. EntryScope(waitq[x][j], x)
  BY DEF ScopeInv
<1>2. pc[g] \in {"pass2", "selpark", "pass3"}
  BY <1>1, ScopeActor
<1>3. ~ChanPark(g)
  BY <1>2 DEF ChanPark, InSection
<1>4. SelEnqueue(g) /\ w.cas = pollorder[g][idx[g]]
  BY <1>3 DEF NewEntry
<1>5. pc[g] = "pass2" /\ idx[g] <= NCase(g)
  BY <1>4 DEF SelEnqueue
<1>6. idx[g] \in 1 .. NCase(g) /\ NCase(g) \in Nat
  BY <1>5, CaseType DEF SelPC
<1>7. PICK n \in 1 .. NCase(g) : n < idx[g] /\ waitq[x][j].cas = pollorder[g][n]
  BY <1>5 DEF EnqueuedOf
<1>8. n # idx[g]
  BY <1>6, <1>7
<1> QED BY <1>4, <1>5, <1>6, <1>7, <1>8 DEF EnqueuedOf, SelPC

(* No case is queued twice.                                                *)
LEMMA OnceStep ==
    ASSUME TypeOK, OpShape, LockInv, LiveInv, NEW g \in G, StepOf(g), ScopeInv, EnqueuedOf(g), CaseOnce
    PROVE  CaseOnce'
<1> SUFFICES ASSUME NEW x \in Chan \X Dir, NEW j \in 1 .. Len(waitq'[x]), NEW k \in 1 .. Len(waitq'[x]),
                    j # k, waitq'[x][j].g = waitq'[x][k].g
             PROVE  waitq'[x][j].cas # waitq'[x][k].cas
  BY DEF CaseOnce
<1>0. waitq[x] \in Seq(Sudog) /\ Len(waitq[x]) \in Nat
  BY EntryType
<1>1. CASE ~ChanPark(g) /\ ~SelEnqueue(g)
  <2>1. PICK f \in [1 .. Len(waitq'[x]) -> 1 .. Len(waitq[x])] :
             /\ \A m, n \in 1 .. Len(waitq'[x]) : m # n => f[m] # f[n]
             /\ \A n \in 1 .. Len(waitq'[x]) : waitq'[x][n] = waitq[x][f[n]]
    BY <1>1, Survivors DEF StepOf
  <2>2. f[j] # f[k] /\ waitq[x][f[j]].g = waitq[x][f[k]].g
    BY <2>1
  <2>3. waitq[x][f[j]].cas # waitq[x][f[k]].cas
    BY <2>2 DEF CaseOnce
  <2> QED BY <2>1, <2>3
<1>2. CASE ChanPark(g) \/ SelEnqueue(g)
  <2>1. CASE \E w : waitq'[x] = Append(waitq[x], w) /\ NewEntry(g, x, w)
    <3>1. PICK w : waitq'[x] = Append(waitq[x], w) /\ NewEntry(g, x, w)
      BY <2>1
    <3>2. w.g = g
      BY <3>1 DEF NewEntry
    <3>3. \A n \in 1 .. Len(waitq'[x]) : \/ n \in 1 .. Len(waitq[x]) /\ waitq'[x][n] = waitq[x][n]
                                         \/ n = Len(waitq[x]) + 1 /\ waitq'[x][n] = w
      BY <1>0, <3>1
    <3>4. \A n \in 1 .. Len(waitq[x]) : waitq[x][n].g = g => waitq[x][n].cas # w.cas
      BY <3>1, NewIsFresh
    <3> QED BY <3>2, <3>3, <3>4 DEF CaseOnce
  <2>2. CASE waitq'[x] = <<>>
    BY <2>2
  <2>3. CASE waitq'[x] = waitq[x]
    BY <2>3 DEF CaseOnce
  <2> QED BY <1>2, <2>1, <2>2, <2>3, EnqueueShape
<1> QED BY <1>1, <1>2

(* A select that is about to poll, or has polled, has nothing queued.      *)
LEMMA NoneQueued ==
    ASSUME TypeOK, ScopeInv, NEW g \in G, pc[g] \notin {"syncwait", "asyncwait", "pass2", "selpark", "pass3"},
           NEW x \in Chan \X Dir, NEW k \in 1 .. Len(waitq[x])
    PROVE  waitq[x][k].g # g
BY DEF ScopeInv, EntryScope

(* Where a select can have come from.                                      *)
LEMMA InSelect ==
    ASSUME TypeOK, NEW g \in G, StepOf(g), pc'[g] \in SelPC
    PROVE  \/ SelInvoke(g)
           \/ pc[g] \in SelPC /\ op' = op /\ pollorder' = pollorder
<1> USE DEF Goto, TypeOK, SelPC
<1>1. CASE PlainStep(g)
  <2>1. CASE Invoke(g) \/ NilChan(g) \/ ChanClosed(g) \/ ChanNotReady(g) \/ ChanPark(g)
    BY <2>1 DEF Invoke, NilChan, ChanClosed, ChanNotReady, ChanPark, Park
  <2>2. CASE ChanComm(g) \/ SyncWake(g) \/ Wakeup(g)
    <3>1. pc'[g] \in {"idle", "ready"}
      BY <2>2 DEF ChanComm, SyncWake, Wakeup
    <3> QED BY <3>1
  <2> QED BY <1>1, <2>1, <2>2 DEF PlainStep
<1>2. CASE CloseStep(g)
  BY <1>2 DEF CloseStep, ClosePanic, CloseBegin, CloseRelease
<1>3. CASE SelDefault(g) \/ SelBlock(g) \/ SelEnqueue(g) \/ SelPark(g) \/ ParkUnlock(g)
  BY <1>3 DEF SelDefault, SelBlock, SelEnqueue, SelPark, ParkUnlock, Park, sel
<1>5. CASE SelLock(g)
  <2>1. pc[g] \in {"sellock", "selpark"} /\ op' = op /\ pollorder' = pollorder
    BY <1>5 DEF SelLock
  <2> QED BY <2>1
<1>4. CASE PollComm(g) \/ PollClosed(g) \/ PollNext(g) \/ SelDequeue(g) \/ SelRetry(g) \/ SelFired(g) \/ SelUnlock(g)
  BY <1>4 DEF PollComm, PollClosed, PollNext, Polling, SelDequeue, SelRetry, SelFired, SelUnlock, sel
<1> QED BY <1>1, <1>2, <1>3, <1>4, <1>5 DEF StepOf, SelectStep

(* pollorder stays a permutation.                                          *)
LEMMA PermutationStep ==
    ASSUME TypeOK, NEW g \in G, StepOf(g), EnqueuedOf(g), pc'[g] \in SelPC
    PROVE  \A i, j \in 1 .. NCase(g)' : i # j => pollorder'[g][i] # pollorder'[g][j]
<1>1. CASE SelInvoke(g)
  <2>1. PICK o \in Menu[g] : \E cases \in Competing(o.cases) :
           /\ op' = [op EXCEPT ![g] = [o EXCEPT !.cases = cases]]
           /\ \E p \in Permutation(Len(cases)) : pollorder' = [pollorder EXCEPT ![g] = p]
    BY <1>1 DEF SelInvoke
  <2>2. PICK cases \in Competing(o.cases) :
           /\ op' = [op EXCEPT ![g] = [o EXCEPT !.cases = cases]]
           /\ \E p \in Permutation(Len(cases)) : pollorder' = [pollorder EXCEPT ![g] = p]
    BY <2>1
  <2>3. PICK p \in Permutation(Len(cases)) : pollorder' = [pollorder EXCEPT ![g] = p]
    BY <2>2
  <2>4. o \in Op
    BY MenuAssumption
  <2>5. op'[g].cases = cases
    BY <2>2, <2>4 DEF Op, TypeOK
  <2>6. pollorder'[g] = p /\ NCase(g)' = Len(cases)
    BY <2>3, <2>5 DEF TypeOK, NCase
  <2> QED BY <2>6 DEF Permutation
<1>2. CASE pc[g] \in SelPC /\ op' = op /\ pollorder' = pollorder
  BY <1>2 DEF EnqueuedOf, NCase
<1> QED BY <1>1, <1>2, InSelect

(* What pass 2 has enqueued.                                               *)
LEMMA EnqueuedStep ==
    ASSUME TypeOK, OpShape, LockInv, LiveInv, NEW g \in G, StepOf(g), ScopeInv, NEW h \in G, EnqueuedOf(h)
    PROVE  EnqueuedOf(h)'
<1>1. CASE h # g
  <2>1. /\ pc'[h] = pc[h] /\ op'[h] = op[h] /\ pollorder'[h] = pollorder[h] /\ idx'[h] = idx[h]
        /\ NCase(h)' = NCase(h)
    BY <1>1, Frame DEF StepOf, NCase
  <2>2. ASSUME NEW x \in Chan \X Dir, NEW k \in 1 .. Len(waitq'[x]), waitq'[x][k].g = h, pc[h] = "pass2"
        PROVE  \E j \in 1 .. NCase(h) : j < idx[h] /\ waitq'[x][k].cas = pollorder[h][j]
    <3>1. PICK n \in 1 .. Len(waitq[x]) : waitq'[x][k] = waitq[x][n]
      BY <1>1, <2>2, OthersOld DEF StepOf
    <3> QED BY <2>2, <3>1 DEF EnqueuedOf
  <2> QED BY <2>1, <2>2 DEF EnqueuedOf
<1>2. CASE h = g
  <2>1. pc'[g] \in SelPC => \A i, j \in 1 .. NCase(g)' : i # j => pollorder'[g][i] # pollorder'[g][j]
    BY <1>2, PermutationStep
  <2>2. ASSUME pc'[g] = "pass2", NEW x \in Chan \X Dir, NEW k \in 1 .. Len(waitq'[x]), waitq'[x][k].g = g
        PROVE  \E j \in 1 .. NCase(g)' : j < idx'[g] /\ waitq'[x][k].cas = pollorder'[g][j]
    <3>1. SelBlock(g) \/ SelEnqueue(g)
      <4>1. PollNext(g) => pc'[g] = "pass1"
        BY DEF PollNext, Polling
      <4> QED BY <2>2, <4>1, PollingSteps
    <3>2. CASE SelBlock(g)
      <4>1. waitq' = waitq /\ pc[g] = "pass1"
        BY <3>2 DEF SelBlock
      <4> QED BY <2>2, <4>1, NoneQueued
    <3>3. CASE SelEnqueue(g)
      <4>1. /\ pc[g] = "pass2" /\ idx[g] <= NCase(g) /\ idx'[g] = idx[g] + 1 /\ pollorder' = pollorder
            /\ NCase(g)' = NCase(g)
        BY <3>3 DEF SelEnqueue, TypeOK, NCase
      <4>2. idx[g] \in 1 .. NCase(g) /\ NCase(g) \in Nat
        BY <4>1, CaseType DEF SelPC
      <4>3. CASE \E n \in 1 .. Len(waitq[x]) : waitq'[x][k] = waitq[x][n]
        <5>1. PICK j \in 1 .. NCase(g) : j < idx[g] /\ waitq'[x][k].cas = pollorder[g][j]
          BY <1>2, <2>2, <4>1, <4>3 DEF EnqueuedOf
        <5>2. j < idx[g] + 1
          BY <4>2, <5>1
        <5> QED BY <4>1, <5>1, <5>2
      <4>4. CASE NewEntry(g, x, waitq'[x][k])
        <5>1. ~ChanPark(g)
          BY <4>1 DEF ChanPark, InSection
        <5>2. waitq'[x][k].cas = pollorder[g][idx[g]]
          BY <4>4, <5>1 DEF NewEntry
        <5>3. idx[g] < idx[g] + 1
          BY <4>2
        <5> QED BY <4>1, <4>2, <5>2, <5>3
      <4> QED BY <4>3, <4>4, OldOrNew
    <3> QED BY <3>1, <3>2, <3>3
  <2> QED BY <1>2, <2>1, <2>2 DEF EnqueuedOf
<1> QED BY <1>1, <1>2

(* A case that is gone stays gone.                                         *)
LEMMA GoneKept ==
    ASSUME TypeOK, OpShape, LockInv, NEW g \in G, StepOf(g), NEW h \in G, NEW i, CaseGone(h, i),
           h # g \/ (~ChanPark(g) /\ ~SelEnqueue(g))
    PROVE  CaseGone(h, i)'
<1> SUFFICES ASSUME NEW x \in Chan \X Dir, NEW k \in 1 .. Len(waitq'[x]), waitq'[x][k].g = h
             PROVE  waitq'[x][k].cas # i
  BY DEF CaseGone
<1>1. CASE \E j \in 1 .. Len(waitq[x]) : waitq'[x][k] = waitq[x][j]
  BY <1>1 DEF CaseGone
<1>2. CASE NewEntry(g, x, waitq'[x][k])
  BY <1>2 DEF NewEntry
<1> QED BY <1>1, <1>2, OldOrNew

(* The case that a step claims is gone.                                    *)
LEMMA GoneClaimed ==
    ASSUME TypeOK, OpShape, LockInv, LiveInv, ScopeInv, CaseOnce, NEW g \in G, StepOf(g),
           ~ChanPark(g), ~SelEnqueue(g),
           NEW y \in Chan \X Dir, Claims(y), NEW sg, sg = waitq[y][First(waitq[y])]
    PROVE  CaseGone(sg.g, sg.cas)'
<1> SUFFICES ASSUME NEW x \in Chan \X Dir, NEW k \in 1 .. Len(waitq'[x]), waitq'[x][k].g = sg.g
             PROVE  waitq'[x][k].cas # sg.cas
  BY DEF CaseGone
<1>1. PICK f \in [1 .. Len(waitq'[x]) -> 1 .. Len(waitq[x])] :
         \A n \in 1 .. Len(waitq'[x]) : waitq'[x][n] = waitq[x][f[n]] /\ (Claims(x) => f[n] # First(waitq[x]))
  BY Survivors DEF StepOf
<1>2. f[k] \in 1 .. Len(waitq[x]) /\ waitq'[x][k] = waitq[x][f[k]]
  BY <1>1
<1>3. waitq[y] \in Seq(Sudog) /\ LiveAt(waitq[y]) # {}
  BY EntryType DEF Claims
<1>4. First(waitq[y]) \in 1 .. Len(waitq[y])
  BY <1>3, FirstLive
<1>5. CASE x = y
  <2>1. f[k] # First(waitq[y])
    BY <1>1, <1>5
  <2> QED BY <1>2, <1>4, <1>5, <2>1, SMTT(60) DEF CaseOnce
<1>6. CASE x # y
  <2>1. EntryScope(waitq[x][f[k]], x) /\ EntryScope(sg, y)
    BY <1>2, <1>4 DEF ScopeInv
  <2> QED BY <1>2, <1>6, <2>1 DEF EntryScope
<1> QED BY <1>5, <1>6

(* How a goroutine can be parked in a select after a step of its own.      *)
LEMMA StaysParked ==
    ASSUME TypeOK, NEW g \in G, StepOf(g), pc'[g] = "selpark"
    PROVE  \/ param'[g] = 0
           \/ pc[g] = "selpark" /\ param' = param /\ ~ChanPark(g) /\ ~SelEnqueue(g)
<1>1. SelInvoke(g) => pc'[g] \in {"pass1", "sellock"}
  BY DEF SelInvoke, Goto, TypeOK
<1>2. pc[g] \in SelPC
  BY <1>1, InSelect DEF SelPC
<1>3. \A l : Goto(g, l) => pc'[g] = l
  BY DEF Goto, TypeOK
<1>4. ~PlainStep(g) /\ ~CloseStep(g)
  BY <1>2 DEF PlainStep, Invoke, NilChan, ChanClosed, ChanComm, ChanNotReady, ChanPark, InSection, SyncWake, Wakeup,
              CloseStep, ClosePanic, CloseBegin, CloseRelease, SelPC
<1>5. CASE SelPark(g)
  BY <1>5 DEF SelPark, TypeOK
<1>6. CASE SelLock(g) \/ ParkUnlock(g)
  <2>1. (param' = param /\ ~SelEnqueue(g)) \/ pc[g] = "pass2"
    BY <1>6 DEF SelLock, ParkUnlock, SelEnqueue
  <2>2. pc[g] = "selpark"
    <3>1. CASE ParkUnlock(g)
      BY <3>1 DEF ParkUnlock
    <3>2. CASE SelLock(g) /\ pc[g] = "sellock"
      BY <1>3, <3>2 DEF SelLock
    <3> QED BY <1>6, <3>1, <3>2 DEF SelLock
  <2>3. ~ChanPark(g)
    BY <2>2 DEF ChanPark, InSection
  <2> QED BY <2>1, <2>2, <2>3
<1>7. ~PollComm(g) /\ ~PollClosed(g) /\ ~SelDefault(g) /\ ~SelBlock(g) /\ ~SelRetry(g) /\ ~SelFired(g) /\ ~SelUnlock(g)
  BY <1>2, <1>3 DEF PollComm, PollClosed, SelDefault, SelBlock, SelRetry, SelFired, SelUnlock, SelPC
<1>8. ~PollNext(g) /\ ~SelEnqueue(g) /\ ~SelDequeue(g)
  BY DEF PollNext, Polling, SelEnqueue, SelDequeue
<1>9. ~SelInvoke(g)
  BY <1>1
<1> QED BY <1>4, <1>5, <1>6, <1>7, <1>8, <1>9 DEF StepOf, SelectStep

(* The claimed cases are gone.                                             *)
LEMMA GoneStep ==
    ASSUME TypeOK, OpShape, LockInv, LiveInv, HandInv, ParamInv, NEW g \in G, StepOf(g),
           ScopeInv, CaseOnce, GoneInv
    PROVE  GoneInv'
<1>0. hand \in [G -> SUBSET Sudog] /\ param \in [G -> Nat]
  BY DEF TypeOK
<1>1. ASSUME NEW h \in G, NEW sg \in hand[h] PROVE CaseGone(sg.g, sg.cas)' /\ sg.g \in G
  <2>1. sg.g \in G /\ CaseGone(sg.g, sg.cas) /\ Parked(sg.g)
    BY <1>0, <1>1 DEF GoneInv, HandInv, InHand, Sudog
  <2>2. sg.g # g \/ (~ChanPark(g) /\ ~SelEnqueue(g))
    BY <2>1 DEF Parked, ChanPark, InSection, SelEnqueue
  <2> QED BY <2>1, <2>2, GoneKept
<1>2. ASSUME NEW h \in G, NEW sg \in hand'[h] PROVE CaseGone(sg.g, sg.cas)'
  <2>1. CASE hand' = hand \/ hand' = [hand EXCEPT ![g] = {}]
    <3>1. sg \in hand[h]
      BY <1>0, <1>2, <2>1
    <3> QED BY <1>1, <3>1
  <2>2. ASSUME NEW i \in 1 .. NCase(g), Ch(g, i) \in Chan, CaseDir(g, i) \in Dir,
               \/ ChanComm(g) /\ i = 1
               \/ PollComm(g) /\ i = pollorder[g][idx[g]],
               Claims(CommQueue(g, i)),
               hand' = [hand EXCEPT ![g] = {waitq[CommQueue(g, i)][First(waitq[CommQueue(g, i)])]}]
        PROVE  CaseGone(sg.g, sg.cas)'
    <3>1. PICK y : y = CommQueue(g, i)
      OBVIOUS
    <3>2. y \in Chan \X Dir /\ Claims(y)
      BY <2>2, <3>1 DEF Claims
    <3>3. CASE h # g
      BY <1>0, <1>1, <1>2, <2>2, <3>3
    <3>4. CASE h = g
      <4>1. sg = waitq[y][First(waitq[y])]
        BY <1>0, <1>2, <2>2, <3>1, <3>4
      <4>2. ~ChanPark(g) /\ ~SelEnqueue(g)
        <5>1. ChanComm(g) => ~ChanPark(g)
          BY DEF ChanComm, Communicate, ChanPark
        <5> QED BY <2>2, <5>1 DEF ChanComm, InSection, PollComm, Polling, ChanPark, SelEnqueue
      <4> QED BY <3>2, <4>1, <4>2, GoneClaimed
    <3> QED BY <3>3, <3>4
  <2> QED BY <2>1, <2>2, HandCases DEF StepOf
<1>3. ASSUME NEW h \in G, pc'[h] = "selpark", param'[h] # 0 PROVE CaseGone(h, param[h])'
  <2>0. PICK i : i = param'[h]
    OBVIOUS
  <2>1. CASE h = g
    <3>1. pc[g] = "selpark" /\ param' = param /\ ~ChanPark(g) /\ ~SelEnqueue(g)
      BY <1>3, <2>1, StaysParked
    <3>2. CaseGone(g, i)
      BY <1>3, <2>0, <2>1, <3>1 DEF GoneInv
    <3>3. CaseGone(g, i)'
      BY <3>1, <3>2, GoneKept
    <3> QED BY <2>0, <2>1, <3>3
  <2>2. CASE h # g /\ param'[h] = param[h]
    <3>1. pc[h] = "selpark"
      BY <1>3, <2>2, Frame DEF StepOf
    <3>2. CaseGone(h, i)
      BY <1>3, <2>0, <2>2, <3>1 DEF GoneInv
    <3>3. CaseGone(h, i)'
      BY <2>2, <3>2, GoneKept
    <3> QED BY <2>0, <3>3
  <2>3. CASE h # g /\ param'[h] # param[h]
    <3>1. Wakeup(g) \/ CloseRelease(g)
      BY <2>3, ParamActor DEF StepOf
    <3>2. CASE CloseRelease(g)
      <4>1. param'[h] \in {0, param[h]}
        BY <1>0, <3>2 DEF CloseRelease
      <4> QED BY <1>3, <2>3, <4>1
    <3>3. CASE Wakeup(g)
      <4>1. PICK sg \in hand[g] : param' = IF Cap[Ch(sg.g, sg.cas)] = 0 THEN [param EXCEPT ![sg.g] = sg.cas] ELSE param
        BY <3>3 DEF Wakeup
      <4>2. sg.g = h /\ sg.cas = i
        BY <1>0, <2>0, <2>3, <4>1
      <4>3. CaseGone(h, i)'
        BY <1>1, <4>2
      <4> QED BY <2>0, <4>3
    <3> QED BY <3>1, <3>2, <3>3
  <2> QED BY <2>1, <2>2, <2>3
<1> QED BY <1>2, <1>3 DEF GoneInv

(* Counting by injection.                                                  *)
LEMMA InjectionBound ==
    ASSUME NEW S, NEW T, IsFiniteSet(T), NEW f \in [S -> T], \A a, b \in S : a # b => f[a] # f[b]
    PROVE  Cardinality(S) <= Cardinality(T)
<1>1. f \in Injection(S, T)
  BY DEF Injection, IsInjective
<1> QED BY <1>1, FS_Injection

(* The sets that are counted are finite.                                   *)
LEMMA CountedFinite ==
    ASSUME TypeOK, NEW g \in G, NEW x \in Chan \X Dir
    PROVE  /\ IsFiniteSet(OwnAt(waitq[x], g)) /\ Cardinality(OwnAt(waitq[x], g)) \in Nat
           /\ IsFiniteSet(ToDequeue(g, x)) /\ Cardinality(ToDequeue(g, x)) \in Nat
<1>1. Len(waitq[x]) \in Nat /\ NCase(g) \in Nat
  BY EntryType DEF TypeOK, NCase, Op
<1>2. OwnAt(waitq[x], g) \in SUBSET (1 .. Len(waitq[x])) /\ ToDequeue(g, x) \in SUBSET (1 .. NCase(g))
  BY DEF OwnAt, ToDequeue
<1>3. IsFiniteSet(1 .. Len(waitq[x])) /\ IsFiniteSet(1 .. NCase(g))
  BY <1>1, FS_Interval
<1>4. IsFiniteSet(OwnAt(waitq[x], g)) /\ IsFiniteSet(ToDequeue(g, x))
  BY <1>2, <1>3, FS_Subset
<1> QED BY <1>4, FS_CardinalityType

(* dequeueg unlinks one SudoG if there is any.                             *)
LEMMA OneLess ==
    ASSUME NEW q \in Seq(Sudog), NEW g, IsFiniteSet(OwnAt(q, g)), OwnAt(q, g) # {}
    PROVE  Cardinality(OwnAt(DequeueG(q, g), g)) <= Cardinality(OwnAt(q, g)) - 1
<1> DEFINE r == DequeueG(q, g)
           n == FirstOwn(q, g)
           T == OwnAt(q, g) \ {n}
<1>1. n \in OwnAt(q, g)
  BY FirstOwned
<1>2. IsFiniteSet(T) /\ Cardinality(T) = Cardinality(OwnAt(q, g)) - 1
  BY <1>1, FS_RemoveElement
<1>3. PICK f \in [1 .. Len(r) -> 1 .. Len(q)] :
         /\ \A j, k \in 1 .. Len(r) : j # k => f[j] # f[k]
         /\ \A k \in 1 .. Len(r) : r[k] = q[f[k]] /\ f[k] # n
  BY DequeueGQueue DEF SubQueueBut
<1> DEFINE e == [k \in OwnAt(r, g) |-> f[k]]
<1>4. \A k \in OwnAt(r, g) : k \in 1 .. Len(r) /\ f[k] \in T
  BY <1>3 DEF OwnAt
<1>5. e \in [OwnAt(r, g) -> T] /\ \A a, b \in OwnAt(r, g) : a # b => e[a] # e[b]
  BY <1>3, <1>4
<1> HIDE DEF e, T, r, n
<1>6. Cardinality(OwnAt(r, g)) <= Cardinality(T)
  BY <1>2, <1>5, InjectionBound
<1> QED BY <1>2, <1>6 DEF r

(* When a select comes to pass 3, each of its SudoGs is one that pass 3 is *)
(* going to dequeue.                                                       *)
LEMMA AllToDequeue ==
    ASSUME TypeOK, OpShape, LockInv, LiveInv, ScopeInv, CaseOnce, GoneInv, NEW g \in G,
           SelLock(g), pc[g] = "selpark", TypeOK', NEW x \in Chan \X Dir
    PROVE  Cardinality(OwnAt(waitq'[x], g)) <= Cardinality(ToDequeue(g, x)')
<1>1. waitq' = waitq /\ op' = op /\ param' = param /\ idx'[g] = 1
  BY DEF SelLock, TypeOK
<1> DEFINE S == OwnAt(waitq[x], g)
           T == ToDequeue(g, x)'
           f == [k \in S |-> waitq[x][k].cas]
<1>2. T = {i \in 1 .. NCase(g) : i >= 1 /\ i # param[g] /\ OwnQueue(g, i) = x}
  BY <1>1 DEF ToDequeue, NCase, OwnQueue, Ch, CaseDir
<1>3. IsFiniteSet(T)
  <2>1. NCase(g) \in Nat
    BY CaseType DEF SelPC
  <2>2. IsFiniteSet(1 .. NCase(g)) /\ T \in SUBSET (1 .. NCase(g))
    BY <1>2, <2>1, FS_Interval
  <2> QED BY <2>2, FS_Subset
<1>4. ASSUME NEW k \in S PROVE waitq[x][k].cas \in T
  <2>1. k \in 1 .. Len(waitq[x]) /\ waitq[x][k].g = g
    BY <1>4 DEF OwnAt
  <2>2. waitq[x][k].cas \in 1 .. NCase(g) /\ OwnQueue(g, waitq[x][k].cas) = x
    BY <2>1 DEF ScopeInv, EntryScope
  <2>3. waitq[x][k].cas # param[g]
    <3>1. CASE param[g] = 0
      BY <2>2, <3>1
    <3>2. CASE param[g] # 0
      BY <2>1, <3>2 DEF GoneInv, CaseGone
    <3> QED BY <3>1, <3>2
  <2> QED BY <1>2, <2>2, <2>3
<1>5. f \in [S -> T]
  BY <1>4
<1>6. \A a, b \in S : a # b => f[a] # f[b]
  BY DEF CaseOnce, OwnAt
<1> HIDE DEF f, T, S
<1>7. Cardinality(S) <= Cardinality(T)
  BY <1>3, <1>5, <1>6, InjectionBound
<1> QED BY <1>1, <1>7 DEF S, T

(* Each dequeueg of pass 3 accounts for one case.                          *)
LEMMA OneDequeued ==
    ASSUME TypeOK, OpShape, NEW g \in G, SelDequeue(g), DequeuingOf(g), NEW x \in Chan \X Dir
    PROVE  Cardinality(OwnAt(waitq'[x], g)) <= Cardinality(ToDequeue(g, x)')
<1> DEFINE i == idx[g]
           y == OwnQueue(g, i)
           T == ToDequeue(g, x)
<1>1. /\ pc[g] = "pass3" /\ i <= NCase(g) /\ op' = op /\ param' = param /\ idx'[g] = i + 1
      /\ waitq' = IF i = param[g] THEN waitq ELSE [waitq EXCEPT ![y] = DequeueG(@, g)]
  BY DEF SelDequeue, OwnQueue, TypeOK
<1>2. i \in 1 .. NCase(g) /\ NCase(g) \in Nat /\ y \in Chan \X Dir
  BY <1>1, CaseType DEF SelPC, OwnQueue
<1>3. Cardinality(OwnAt(waitq[x], g)) <= Cardinality(T)
  BY <1>1 DEF DequeuingOf
<1>4. ToDequeue(g, x)' = {n \in 1 .. NCase(g) : n >= i + 1 /\ n # param[g] /\ OwnQueue(g, n) = x}
  BY <1>1 DEF ToDequeue, NCase, OwnQueue, Ch, CaseDir
<1>5. T = {n \in 1 .. NCase(g) : n >= i /\ n # param[g] /\ OwnQueue(g, n) = x}
  BY DEF ToDequeue
<1>6. /\ IsFiniteSet(OwnAt(waitq[x], g)) /\ Cardinality(OwnAt(waitq[x], g)) \in Nat
      /\ IsFiniteSet(T) /\ Cardinality(T) \in Nat
  BY CountedFinite
<1>7. waitq \in [Chan \X Dir -> Seq(Sudog)]
  BY DEF TypeOK
<1>8. CASE i = param[g] \/ x # y
  <2>1. ToDequeue(g, x)' = T
    <3>1. \A n \in 1 .. NCase(g) : n >= i /\ n # param[g] /\ OwnQueue(g, n) = x => n >= i + 1
      BY <1>2, <1>8
    <3> HIDE DEF i, y
    <3> QED BY <1>2, <1>4, <1>5, <3>1
  <2>2. waitq'[x] = waitq[x]
    BY <1>1, <1>2, <1>7, <1>8
  <2> QED BY <1>3, <2>1, <2>2
<1>9. CASE i # param[g] /\ x = y
  <2>1. ToDequeue(g, x)' = T \ {i} /\ i \in T
    <3>1. i \in T
      BY <1>2, <1>5, <1>9
    <3> HIDE DEF i, y, T
    <3> QED BY <1>2, <1>4, <1>5, <3>1
  <2>2. Cardinality(T \ {i}) = Cardinality(T) - 1
    BY <1>6, <2>1, FS_RemoveElement
  <2>3. waitq'[x] = DequeueG(waitq[x], g)
    BY <1>1, <1>2, <1>7, <1>9
  <2>4. CASE OwnAt(waitq[x], g) = {}
    <3>1. OwnAt(waitq'[x], g) = {}
      BY <2>3, <2>4 DEF DequeueG
    <3>2. Cardinality(OwnAt(waitq'[x], g)) = 0
      BY <3>1, FS_EmptySet
    <3>3. Cardinality(T \ {i}) \in Nat
      BY <1>6, FS_RemoveElement, FS_CardinalityType
    <3> QED BY <2>1, <3>2, <3>3
  <2>5. CASE OwnAt(waitq[x], g) # {}
    <3> DEFINE m == Cardinality(OwnAt(waitq'[x], g))
    <3>1. m <= Cardinality(OwnAt(waitq[x], g)) - 1
      BY <1>6, <1>7, <2>3, <2>5, OneLess
    <3>2. m \in Nat
      <4>1. waitq'[x] \in Seq(Sudog)
        BY <1>7, <2>3, DequeueGQueue
      <4>2. IsFiniteSet(1 .. Len(waitq'[x])) /\ OwnAt(waitq'[x], g) \in SUBSET (1 .. Len(waitq'[x]))
        BY <4>1, FS_Interval DEF OwnAt
      <4> QED BY <4>2, FS_Subset, FS_CardinalityType
    <3> HIDE DEF m
    <3>3. m <= Cardinality(T) - 1
      BY <1>3, <1>6, <3>1, <3>2
    <3> QED BY <2>1, <2>2, <3>3 DEF m
  <2> QED BY <2>4, <2>5
<1> QED BY <1>8, <1>9

(* A goroutine in pass 3 is not woken: nobody changes its param.           *)
LEMMA ParamInPass3 ==
    ASSUME TypeOK, OpShape, LockInv, LiveInv, HandInv, ParamInv, NEW g \in G, StepOf(g),
           NEW h \in G, h # g, pc[h] = "pass3"
    PROVE  param'[h] = param[h]
<1>0. param \in [G -> Nat]
  BY DEF TypeOK
<1>1. CASE ~Wakeup(g) /\ ~CloseRelease(g)
  BY <1>1, ParamActor DEF StepOf
<1>2. CASE Wakeup(g)
  <2>1. PICK sg \in hand[g] : param' = IF Cap[Ch(sg.g, sg.cas)] = 0 THEN [param EXCEPT ![sg.g] = sg.cas] ELSE param
    BY <1>2 DEF Wakeup
  <2>2. sg.g # h
    BY <2>1 DEF HandInv, InHand, Parked
  <2> QED BY <1>0, <2>1, <2>2
<1>3. CASE CloseRelease(g)
  <2>1. CASE LiveAt(waitq[CloseQueue(g)]) = {}
    BY <1>3, <2>1 DEF CloseRelease, CloseQueue
  <2>2. CASE LiveAt(waitq[CloseQueue(g)]) # {}
    <3>1. PICK sg : sg = waitq[CloseQueue(g)][First(waitq[CloseQueue(g)])]
      OBVIOUS
    <3>2. sg.g \in G /\ status[sg.g] = "Gwaiting"
      BY <1>3, <2>2, <3>1, CloseMeetsParked
    <3>3. sg.g # h
      BY <3>2 DEF OpShape, ShapeOf
    <3>4. param' = [param EXCEPT ![sg.g] = 0]
      BY <1>3, <2>2, <3>1 DEF CloseRelease, CloseQueue
    <3> QED BY <1>0, <3>3, <3>4
  <2> QED BY <2>1, <2>2
<1> QED BY <1>1, <1>2, <1>3

(* The account of pass 3 balances after every step.                        *)
LEMMA DequeuingStep ==
    ASSUME TypeOK, OpShape, LockInv, LiveInv, HandInv, ParamInv, TypeOK', NEW g \in G, StepOf(g),
           ScopeInv, CaseOnce, GoneInv, ScopeInv', NEW h \in G, DequeuingOf(h)
    PROVE  DequeuingOf(h)'
<1> SUFFICES ASSUME pc'[h] = "pass3", NEW x \in Chan \X Dir
             PROVE  Cardinality(OwnAt(waitq'[x], h)) <= Cardinality(ToDequeue(h, x)')
  BY DEF DequeuingOf
<1>1. CASE h # g
  <2>1. pc[h] = "pass3" /\ op'[h] = op[h] /\ idx'[h] = idx[h] /\ param'[h] = param[h]
    BY <1>1, Frame, ParamInPass3 DEF StepOf
  <2>2. CASE x[1] \in held[h]
    <3>1. waitq'[x] = waitq[x]
      BY <1>1, <2>2, LockedQueue
    <3>2. ToDequeue(h, x)' = ToDequeue(h, x)
      BY <2>1 DEF ToDequeue, NCase, OwnQueue, Ch, CaseDir
    <3> QED BY <2>1, <3>1, <3>2 DEF DequeuingOf
  <2>3. CASE x[1] \notin held[h]
    <3>1. x[1] \notin SelChans(h)
      BY <2>1, <2>3 DEF LockInv, LocksOf
    <3>2. ASSUME NEW k \in 1 .. Len(waitq'[x]), waitq'[x][k].g = h PROVE FALSE
      <4>1. EntryScope(waitq[x][k], x)'
        BY <3>2 DEF ScopeInv
      <4>2. PICK i : i = waitq'[x][k].cas
        OBVIOUS
      <4>3. i \in 1 .. NCase(h) /\ OwnQueue(h, i) = x
        BY <2>1, <3>2, <4>1, <4>2 DEF EntryScope, OwnQueue, NCase, Ch, CaseDir
      <4> QED BY <3>1, <4>3 DEF SelChans, OwnQueue
    <3>3. OwnAt(waitq'[x], h) = {}
      BY <3>2 DEF OwnAt
    <3>4. Cardinality(ToDequeue(h, x)') \in Nat
      <4>1. NCase(h) \in Nat /\ NCase(h)' = NCase(h)
        BY <2>1, CaseType DEF SelPC, NCase
      <4>2. IsFiniteSet(1 .. NCase(h)) /\ ToDequeue(h, x)' \in SUBSET (1 .. NCase(h))
        BY <4>1, FS_Interval DEF ToDequeue
      <4> QED BY <4>2, FS_Subset, FS_CardinalityType
    <3>5. Cardinality(OwnAt(waitq'[x], h)) = 0
      BY <3>3, FS_EmptySet
    <3> QED BY <3>4, <3>5
  <2> QED BY <2>2, <2>3
<1>2. CASE h = g
  <2>0. \A l : Goto(g, l) => pc'[g] = l
    BY DEF Goto, TypeOK
  <2>1. (SelLock(g) /\ pc[g] = "selpark") \/ SelDequeue(g)
    <3>1. ~SelInvoke(g)
      <4>1. SelInvoke(g) => pc'[g] \in {"pass1", "sellock"}
        BY DEF SelInvoke, Goto, TypeOK
      <4> QED BY <1>2, <4>1
    <3>2. pc[g] \in SelPC
      BY <1>2, <3>1, InSelect DEF SelPC
    <3>3. ~PlainStep(g) /\ ~CloseStep(g)
      BY <3>2 DEF PlainStep, Invoke, NilChan, ChanClosed, ChanComm, ChanNotReady, ChanPark, InSection, SyncWake, Wakeup,
              CloseStep, ClosePanic, CloseBegin, CloseRelease, SelPC
    <3>4. ~(SelLock(g) /\ pc[g] = "sellock")
      BY <1>2, <2>0 DEF SelLock
    <3>5. ~PollComm(g) /\ ~PollClosed(g) /\ ~SelDefault(g) /\ ~SelBlock(g) /\ ~SelRetry(g) /\ ~SelFired(g)
          /\ ~SelUnlock(g) /\ ~SelPark(g)
      BY <1>2, <2>0, <3>2 DEF PollComm, PollClosed, SelDefault, SelBlock, SelRetry, SelFired, SelUnlock, SelPark,
                              Park, SelPC
    <3>6. ~PollNext(g) /\ ~SelEnqueue(g)
      BY <1>2 DEF PollNext, Polling, SelEnqueue
    <3>7. ~ParkUnlock(g)
      <4>1. ASSUME ParkUnlock(g) PROVE FALSE
        <5>1. unl[g] # {} /\ pc' = pc
          BY <4>1 DEF ParkUnlock
        <5> QED BY <1>2, <5>1 DEF LockInv, LocksOf
      <4> QED BY <4>1
    <3> QED BY <3>1, <3>3, <3>4, <3>5, <3>6, <3>7 DEF StepOf, SelectStep, SelLock
  <2> QED BY <1>2, <2>1, AllToDequeue, OneDequeued
<1> QED BY <1>1, <1>2

(***************************************************************************)
(* The invariant holds in every reachable state.                           *)
(***************************************************************************)
(* At the start every queue is empty.                                      *)
LEMMA InitQueueInv ==
    Init => QueueInv
<1> SUFFICES ASSUME Init PROVE QueueInv
  OBVIOUS
<1>1. \A x \in Chan \X Dir : waitq[x] = <<>>
  BY DEF Init
<1>2. \A g \in G : pc[g] = "idle" /\ hand[g] = {}
  BY DEF Init
<1>3. \A c \in Chan : <<c, "send">> \in Chan \X Dir
  BY DEF Dir
<1>4. NoMissedRendezvous
  BY <1>1, <1>3 DEF NoMissedRendezvous, LiveAt
<1>5. ScopeInv /\ CaseOnce
  BY <1>1 DEF ScopeInv, CaseOnce
<1>6. PolledInv /\ GoneInv /\ \A g \in G : EnqueuedOf(g) /\ DequeuingOf(g)
  BY <1>2 DEF PolledInv, PolledOf, GoneInv, EnqueuedOf, DequeuingOf, SelPC
<1> QED BY <1>4, <1>5, <1>6 DEF QueueInv

(* Every step preserves it.                                                *)
LEMMA QueueInvStep ==
    IInv /\ IInv' /\ QueueInv /\ [Next]_vars => QueueInv'
<1> SUFFICES ASSUME IInv, IInv', QueueInv, [Next]_vars PROVE QueueInv'
  OBVIOUS
<1>1. TypeOK /\ OpShape /\ LockInv /\ LiveInv /\ HandInv /\ ParamInv /\ TypeOK'
  BY DEF IInv
<1>2. /\ PolledInv /\ NoMissedRendezvous /\ ScopeInv /\ CaseOnce /\ GoneInv
      /\ \A g \in G : EnqueuedOf(g) /\ DequeuingOf(g)
  BY DEF QueueInv
<1>3. CASE Next
  <2>1. PICK g \in G : StepOf(g)
    BY <1>3 DEF Next, StepOf
  <2>2. PolledInv'
    <3>1. ASSUME NEW h \in G PROVE PolledOf(h)'
      BY <1>1, <1>2, <2>1, <3>1, PolledOther, PolledActor DEF PolledInv
    <3> QED BY <3>1 DEF PolledInv
  <2>3. NoMissedRendezvous'
    BY <1>1, <1>2, <2>1, RendezvousStep
  <2>4. ScopeInv' /\ CaseOnce'
    BY <1>1, <1>2, <2>1, ScopeStep, OnceStep
  <2>5. GoneInv'
    BY <1>1, <1>2, <2>1, GoneStep
  <2>6. ASSUME NEW h \in G PROVE EnqueuedOf(h)' /\ DequeuingOf(h)'
    BY <1>1, <1>2, <2>1, <2>4, <2>6, EnqueuedStep, DequeuingStep
  <2> QED BY <2>2, <2>3, <2>4, <2>5, <2>6 DEF QueueInv
<1>4. CASE UNCHANGED vars
  <2>0. /\ waitq' = waitq /\ pc' = pc /\ op' = op /\ selgen' = selgen /\ param' = param /\ hand' = hand
        /\ idx' = idx /\ pollorder' = pollorder
    BY <1>4 DEF vars, sel
  <2>1. PolledInv' /\ NoMissedRendezvous'
    <3>2. PolledInv'
      <4>1. ASSUME NEW g \in G, NEW i, NoPartner(g, i) PROVE NoPartner(g, i)'
        BY <2>0, <4>1 DEF NoPartner, CommQueue, Ch, CaseDir, LiveAt, Live
      <4>2. ASSUME NEW g \in G, NEW j, NoPartner(g, pollorder[g][j]) PROVE NoPartner(g, pollorder[g][j])'
        <5>1. PICK i : i = pollorder[g][j]
          OBVIOUS
        <5>2. NoPartner(g, i)'
          BY <4>1, <4>2, <5>1
        <5> QED BY <2>0, <5>1, <5>2
      <4>3. ASSUME NEW g \in G PROVE PolledOf(g)'
        <5>1. PolledOf(g) /\ NCase(g)' = NCase(g)
          BY <1>2, <2>0 DEF PolledInv, NCase
        <5> QED BY <2>0, <4>2, <5>1 DEF PolledOf
      <4> QED BY <4>3 DEF PolledInv
    <3>3. NoMissedRendezvous'
      BY <1>2, <2>0, SMTT(60) DEF NoMissedRendezvous, LiveAt, Live
    <3> QED BY <3>2, <3>3
  <2>2. ScopeInv' /\ CaseOnce' /\ GoneInv'
    BY <1>2, <2>0, SMTT(60) DEF ScopeInv, EntryScope, OwnQueue, NCase, Ch, CaseDir, CaseOnce, GoneInv, CaseGone
  <2>3. ASSUME NEW g \in G PROVE EnqueuedOf(g)' /\ DequeuingOf(g)'
    BY <1>2, <2>0, <2>3 DEF EnqueuedOf, DequeuingOf, ToDequeue, OwnQueue, NCase, Ch, CaseDir, OwnAt
  <2> QED BY <2>1, <2>2, <2>3 DEF QueueInv
<1> QED BY <1>3, <1>4

(* Both invariants, for any number of goroutines and channels.             *)
LEMMA QueueInvAlways ==
    Spec => [](IInv /\ QueueInv)
<1>1. Init => IInv /\ QueueInv
  BY InitIInv, InitQueueInv
<1>2. (IInv /\ QueueInv) /\ [Next]_vars => (IInv /\ QueueInv)'
  BY IInvStep, QueueInvStep
<1> QED BY <1>1, <1>2, PTL DEF Spec

(* A waiting sender and a waiting receiver that could be paired are of one *)
(* goroutine: whoever comes second, in chansend, chanrecv or any pass of   *)
(* selectgo, finds the first.                                              *)
THEOREM NoRendezvousIsMissed ==
    Spec => []NoMissedRendezvous
<1>1. QueueInv => NoMissedRendezvous
  BY DEF QueueInv
<1> QED BY <1>1, QueueInvAlways, PTL

(* No wait queue ever points into the frame of an operation that returned: *)
(* pass 3 of selectgo and the dequeuers unlink every SudoG in time, also   *)
(* when a select names one channel in several cases.                       *)
THEOREM QueuesStayInScope ==
    Spec => []QueuedInScope
<1>1. IInv /\ QueueInv => QueuedInScope
  <2> SUFFICES ASSUME TypeOK, ScopeInv, NEW c \in Chan, NEW d \in Dir, NEW k \in 1 .. Len(waitq[<<c, d>>])
               PROVE  LET sg == waitq[<<c, d>>][k] IN
                      /\ pc[sg.g] \in {"syncwait", "asyncwait", "pass2", "selpark", "pass3"}
                      /\ sg.cas \in 1 .. NCase(sg.g)
                      /\ Ch(sg.g, sg.cas) = c /\ CaseDir(sg.g, sg.cas) = d
    BY DEF IInv, QueueInv, QueuedInScope
  <2>1. <<c, d>> \in Chan \X Dir
    OBVIOUS
  <2>2. EntryScope(waitq[<<c, d>>][k], <<c, d>>)
    BY <2>1 DEF ScopeInv
  <2> QED BY <2>2 DEF EntryScope, OwnQueue
<1> QED BY <1>1, QueueInvAlways, PTL

(***************************************************************************)
(* The runtime's channels implement the abstract ones of ChanAbs, for any  *)
(* goroutines, channels, capacities and operations: RefInv is invariant,   *)
(* and each step of chan.c and select.c is a step of ChanAbs or leaves its *)
(* state alone.                                                            *)
(***************************************************************************)

(***************************************************************************)
(* The ring buffer.                                                        *)
(***************************************************************************)
(* Case i of g communicates in this step.                                  *)
Comm(g, i) ==
    /\ \/ ChanComm(g) /\ i = 1
       \/ PollComm(g) /\ i = pollorder[g][idx[g]]
    /\ i \in 1 .. NCase(g) /\ Ch(g, i) \in Chan /\ CaseDir(g, i) \in Dir
    /\ Communicate(g, Ch(g, i), CaseDir(g, i), i)

(* A communication is that of one case of the goroutine's operation.       *)
LEMMA CommCase ==
    ASSUME TypeOK, OpShape, NEW g \in G, ChanComm(g) \/ PollComm(g)
    PROVE  \E i : Comm(g, i)
<1>1. CASE ChanComm(g)
  <2>1. pc[g] \in PlainPC /\ Ch(g, 1) # Nil
    BY <1>1 DEF ChanComm, InSection, PlainPC
  <2>2. 1 \in 1 .. NCase(g) /\ Ch(g, 1) \in Chan /\ CaseDir(g, 1) \in Dir
    BY <2>1, PlainChan DEF OpShape, ShapeOf
  <2>3. Communicate(g, Ch(g, 1), CaseDir(g, 1), 1)
    BY <1>1 DEF ChanComm
  <2> QED BY <1>1, <2>2, <2>3 DEF Comm
<1>2. CASE PollComm(g)
  <2>0. PICK i : i = pollorder[g][idx[g]]
    OBVIOUS
  <2>1. pc[g] \in SelPC /\ idx[g] <= NCase(g)
    BY <1>2 DEF PollComm, Polling, SelPC
  <2>2. i \in 1 .. NCase(g) /\ Ch(g, i) \in Chan /\ CaseDir(g, i) \in Dir
    BY <2>0, <2>1, CaseType
  <2>3. Communicate(g, Ch(g, i), CaseDir(g, i), i)
    BY <1>2, <2>0 DEF PollComm
  <2> QED BY <1>2, <2>0, <2>2, <2>3 DEF Comm
<1> QED BY <1>1, <1>2

(* Only a communication touches the buffer.                                *)
LEMMA BufferStep ==
    ASSUME TypeOK, OpShape, NEW g \in G, StepOf(g)
    PROVE  UNCHANGED hchan \/ \E i : Comm(g, i)
<1>1. CASE ChanComm(g) \/ PollComm(g)
  BY <1>1, CommCase
<1>2. CASE ~ChanComm(g) /\ ~PollComm(g)
  BY <1>2 DEF StepOf, PlainStep, CloseStep, SelectStep, Invoke, NilChan, ChanClosed, ChanNotReady,
         ChanPark, SyncWake, Wakeup, ClosePanic, CloseBegin, CloseRelease, SelInvoke, SelLock, PollClosed,
         PollNext, SelDefault, SelBlock, SelEnqueue, SelPark, ParkUnlock, SelDequeue, SelRetry,
         SelFired, SelUnlock
<1> QED BY <1>1, <1>2

(* What a communication does to the buffers.                               *)
LEMMA CommBuffer ==
    ASSUME TypeOK, NEW g \in G, NEW i, Comm(g, i)
    PROVE  \/ Cap[Ch(g, i)] = 0 /\ UNCHANGED <<hchan, ep>>
           \/ /\ Cap[Ch(g, i)] > 0 /\ CaseDir(g, i) = "send"
              /\ BufSend(g, Ch(g, i)) /\ qcount[Ch(g, i)] < Cap[Ch(g, i)]
           \/ /\ Cap[Ch(g, i)] > 0 /\ CaseDir(g, i) = "recv"
              /\ BufRecv(g, Ch(g, i)) /\ qcount[Ch(g, i)] > 0
<1> DEFINE c == Ch(g, i)
           d == CaseDir(g, i)
<1>1. c \in Chan /\ d \in Dir /\ Communicate(g, c, d, i) /\ Cap \in [Chan -> Nat]
  BY CapAssumption DEF Comm
<1> HIDE DEF c, d
<1>2. CASE Cap[c] = 0
  <2>1. UNCHANGED <<hchan, ep>>
    BY <1>1, <1>2 DEF Communicate
  <2> QED BY <1>2, <2>1 DEF c
<1>3. CASE Cap[c] > 0 /\ d = "send"
  <2>1. BufSend(g, c) /\ qcount[c] < Cap[c]
    BY <1>1, <1>3 DEF Communicate, Proceeds
  <2> QED BY <1>3, <2>1 DEF c, d
<1>4. CASE Cap[c] > 0 /\ d = "recv"
  <2>1. BufRecv(g, c) /\ qcount[c] > 0
    BY <1>1, <1>4 DEF Communicate, Proceeds
  <2> QED BY <1>4, <2>1 DEF c, d
<1> QED BY <1>1, <1>2, <1>3, <1>4 DEF Dir

(* sendx stays behind the last element.                                    *)
LEMMA RingStep ==
    ASSUME TypeOK, OpShape, NEW g \in G, StepOf(g), RingInv
    PROVE  RingInv'
<1>1. CASE UNCHANGED hchan
  BY <1>1 DEF hchan, RingInv, Slot
<1>2. ASSUME NEW i, Comm(g, i) PROVE RingInv'
  <2>1. PICK c : c = Ch(g, i)
    OBVIOUS
  <2>2. /\ c \in Chan /\ Cap \in [Chan -> Nat] /\ qcount \in [Chan -> Nat] /\ sendx \in [Chan -> Nat]
        /\ recvx \in [Chan -> Nat]
    BY <1>2, <2>1, CapAssumption DEF Comm, TypeOK
  <2>3. ASSUME NEW x \in Chan, Cap[x] > 0
        PROVE  /\ recvx[x] >= 0 /\ recvx[x] < Cap[x] /\ sendx[x] >= 0 /\ sendx[x] < Cap[x]
               /\ qcount[x] <= Cap[x] /\ sendx[x] = Slot(x, qcount[x])
    BY <2>2, <2>3 DEF TypeOK, Slots, RingInv
  <2>4. CASE UNCHANGED hchan
    BY <2>4 DEF hchan, RingInv, Slot
  <2> SUFFICES ASSUME NEW x \in Chan, Cap[x] > 0, ~UNCHANGED hchan
               PROVE  sendx'[x] = IF recvx'[x] + qcount'[x] < Cap[x] THEN recvx'[x] + qcount'[x]
                                  ELSE recvx'[x] + qcount'[x] - Cap[x]
    BY <2>4 DEF RingInv, Slot
  <2>a. sendx[x] = IF recvx[x] + qcount[x] < Cap[x] THEN recvx[x] + qcount[x]
                   ELSE recvx[x] + qcount[x] - Cap[x]
    BY <2>3 DEF Slot
  <2>b. /\ recvx[x] \in Nat /\ sendx[x] \in Nat /\ qcount[x] \in Nat /\ Cap[x] \in Nat
        /\ recvx[x] < Cap[x] /\ sendx[x] < Cap[x] /\ qcount[x] <= Cap[x]
    BY <2>2, <2>3
  <2>5. CASE Cap[c] > 0 /\ BufSend(g, c) /\ qcount[c] < Cap[c]
    <3>1. CASE x = c
      <4>1. /\ sendx'[x] = IF sendx[x] + 1 = Cap[x] THEN 0 ELSE sendx[x] + 1
            /\ qcount'[x] = qcount[x] + 1 /\ recvx'[x] = recvx[x]
        BY <2>2, <2>5, <3>1 DEF BufSend, Wrap
      <4> QED BY <2>a, <2>b, <2>5, <3>1, <4>1
    <3>2. CASE x # c
      BY <2>2, <2>a, <2>5, <3>2 DEF BufSend
    <3> QED BY <3>1, <3>2
  <2>6. CASE Cap[c] > 0 /\ BufRecv(g, c) /\ qcount[c] > 0
    <3>1. CASE x = c
      <4>1. /\ recvx'[x] = IF recvx[x] + 1 = Cap[x] THEN 0 ELSE recvx[x] + 1
            /\ qcount'[x] = qcount[x] - 1 /\ sendx'[x] = sendx[x]
        BY <2>2, <2>6, <3>1 DEF BufRecv, Wrap
      <4> QED BY <2>a, <2>b, <2>6, <3>1, <4>1
    <3>2. CASE x # c
      BY <2>2, <2>a, <2>6, <3>2 DEF BufRecv
    <3> QED BY <3>1, <3>2
  <2> QED BY <1>2, <2>1, <2>4, <2>5, <2>6, CommBuffer
<1> QED BY <1>1, <1>2, BufferStep

(* The queue that the buffer of a channel is.                              *)
QueueOf(c) ==
    /\ AbsQueue(c) \in Seq(Val \cup {NoVal})
    /\ Len(AbsQueue(c)) = qcount[c] /\ qcount[c] \in Nat
    /\ \A k \in 1 .. qcount[c] : AbsQueue(c)[k] = buf[c][Slot(c, k - 1)]
    /\ qcount[c] = 0 <=> AbsQueue(c) = << >>

LEMMA QueueType ==
    TypeOK => \A c \in Chan : QueueOf(c)
<1> SUFFICES ASSUME TypeOK, NEW c \in Chan PROVE QueueOf(c)
  OBVIOUS
<1>1. qcount[c] \in Nat /\ qcount[c] <= Cap[c] /\ Cap[c] \in Nat
  BY CapAssumption DEF TypeOK
<1>2. ASSUME NEW k \in 1 .. qcount[c] PROVE buf[c][Slot(c, k - 1)] \in Val \cup {NoVal}
  <2>1. Cap[c] > 0
    BY <1>1
  <2>2. recvx[c] \in 0 .. Cap[c] - 1
    BY <2>1 DEF TypeOK, Slots
  <2>3. Slot(c, k - 1) \in Slots(c)
    BY <1>1, <2>2 DEF Slot, Slots
  <2> QED BY <2>3 DEF TypeOK
<1> DEFINE V == Val \cup {NoVal}
<1> HIDE DEF V
<1>3. AbsQueue(c) \in Seq(V) /\ Len(AbsQueue(c)) = qcount[c]
  BY <1>1, <1>2 DEF AbsQueue, V
<1>4. qcount[c] = 0 <=> AbsQueue(c) = << >>
  BY <1>1, <1>3
<1> QED BY <1>1, <1>3, <1>4 DEF AbsQueue, V, QueueOf

LEMMA QueueTypeNext ==
    TypeOK' => (\A c \in Chan : QueueOf(c))'
BY QueueType, PTL

(* Nothing happens to the queue of a channel whose Hchan stays as it is.   *)
LEMMA QueueSame ==
    ASSUME NEW c, qcount'[c] = qcount[c], recvx'[c] = recvx[c], buf'[c] = buf[c]
    PROVE  AbsQueue(c)' = AbsQueue(c)
BY DEF AbsQueue, Slot

(* A buffered send appends an element.                                     *)
LEMMA SendAppends ==
    ASSUME TypeOK, TypeOK', RingInv, NEW g \in G, NEW c \in Chan, Cap[c] > 0,
           BufSend(g, c), qcount[c] < Cap[c]
    PROVE  /\ AbsQueue(c)' = Append(AbsQueue(c), Elem(g))
           /\ \A x \in Chan : x # c => AbsQueue(x)' = AbsQueue(x)
<1>0. /\ qcount \in [Chan -> Nat] /\ sendx \in [Chan -> Nat] /\ recvx \in [Chan -> Nat] /\ Cap \in [Chan -> Nat]
      /\ DOMAIN buf = Chan /\ buf[c] \in [Slots(c) -> Val \cup {NoVal}]
      /\ recvx[c] \in 0 .. Cap[c] - 1 /\ sendx[c] \in Slots(c)
  BY CapAssumption DEF TypeOK, Slots
<1>1. /\ buf'[c] = [buf[c] EXCEPT ![sendx[c]] = Elem(g)]
      /\ qcount'[c] = qcount[c] + 1 /\ recvx' = recvx
      /\ \A x \in Chan : x # c => buf'[x] = buf[x] /\ qcount'[x] = qcount[x]
  BY <1>0 DEF BufSend
<1>2. \A x \in Chan : x # c => AbsQueue(x)' = AbsQueue(x)
  BY <1>1, QueueSame
<1> DEFINE V == Val \cup {NoVal}
           s == Append(AbsQueue(c), Elem(g))
           t == AbsQueue(c)'
           n == qcount[c]
<1>3. /\ AbsQueue(c) \in Seq(V) /\ Len(AbsQueue(c)) = n /\ n \in Nat
      /\ \A k \in 1 .. n : AbsQueue(c)[k] = buf[c][Slot(c, k - 1)]
  BY QueueType DEF QueueOf
<1>4. t \in Seq(V) /\ Len(t) = n + 1 /\ \A k \in 1 .. n + 1 : t[k] = buf'[c][Slot(c, k - 1)']
  BY <1>1, QueueTypeNext DEF QueueOf
<1>5. Elem(g) \in V
  BY DEF Elem, Val, TypeOK
<1>6. \A k \in 1 .. n + 1 : Slot(c, k - 1)' = Slot(c, k - 1)
  BY <1>1 DEF Slot
<1>7. sendx[c] = Slot(c, n)
  BY DEF RingInv
<1>8. ASSUME NEW k \in 1 .. n PROVE Slot(c, k - 1) # Slot(c, n) /\ Slot(c, k - 1) \in Slots(c)
  <2>1. /\ n \in Nat /\ n < Cap[c] /\ k \in Nat /\ k >= 1 /\ k <= n
        /\ Cap[c] \in Nat /\ recvx[c] \in Nat /\ recvx[c] < Cap[c]
    BY <1>0, <1>3
  <2> QED BY <2>1 DEF Slot, Slots
<1>9. t[n + 1] = Elem(g)
  <2>1. n + 1 \in 1 .. n + 1 /\ (n + 1) - 1 = n
    BY <1>3
  <2>2. t[n + 1] = buf'[c][Slot(c, n)]
    BY <1>4, <1>6, <2>1
  <2> QED BY <1>0, <1>1, <1>7, <2>2
<1>10. ASSUME NEW k \in 1 .. n PROVE t[k] = AbsQueue(c)[k]
  <2>1. k \in 1 .. n + 1
    BY <1>3
  <2>2. t[k] = buf'[c][Slot(c, k - 1)]
    BY <1>4, <1>6, <2>1
  <2>3. buf'[c][Slot(c, k - 1)] = buf[c][Slot(c, k - 1)]
    BY <1>0, <1>1, <1>7, <1>8
  <2> QED BY <1>3, <2>2, <2>3
<1> HIDE DEF V, n
<1>11. s \in Seq(V) /\ Len(s) = n + 1 /\ s[n + 1] = Elem(g) /\ \A k \in 1 .. n : s[k] = AbsQueue(c)[k]
  BY <1>3, <1>5, AppendProperties
<1> HIDE DEF s, t
<1>12. \A k \in 1 .. Len(t) : t[k] = s[k]
  BY <1>3, <1>4, <1>9, <1>10, <1>11
<1>13. t = s
  BY <1>4, <1>11, <1>12, SeqEqual
<1> QED BY <1>2, <1>13 DEF s, t

(* A buffered receive takes the oldest element.                            *)
LEMMA RecvTakes ==
    ASSUME TypeOK, TypeOK', NEW g \in G, NEW c \in Chan, Cap[c] > 0,
           BufRecv(g, c), qcount[c] > 0
    PROVE  /\ AbsQueue(c) # << >>
           /\ AbsQueue(c)' = Tail(AbsQueue(c)) /\ ep'[g] = Head(AbsQueue(c))
           /\ \A x \in Chan : x # c => AbsQueue(x)' = AbsQueue(x)
<1>0. /\ qcount \in [Chan -> Nat] /\ sendx \in [Chan -> Nat] /\ recvx \in [Chan -> Nat] /\ Cap \in [Chan -> Nat]
      /\ DOMAIN buf = Chan /\ buf[c] \in [Slots(c) -> Val \cup {NoVal}] /\ qcount[c] <= Cap[c]
      /\ recvx[c] \in 0 .. Cap[c] - 1 /\ recvx[c] \in Slots(c) /\ ep \in [G -> Val \cup {NoVal}]
  BY CapAssumption DEF TypeOK, Slots
<1>1. /\ buf'[c] = [buf[c] EXCEPT ![recvx[c]] = NoVal] /\ ep'[g] = buf[c][recvx[c]]
      /\ qcount'[c] = qcount[c] - 1
      /\ recvx'[c] = IF recvx[c] + 1 = Cap[c] THEN 0 ELSE recvx[c] + 1
      /\ \A x \in Chan : x # c => buf'[x] = buf[x] /\ qcount'[x] = qcount[x] /\ recvx'[x] = recvx[x]
  BY <1>0 DEF BufRecv, Wrap
<1>2. \A x \in Chan : x # c => AbsQueue(x)' = AbsQueue(x)
  BY <1>1, QueueSame
<1> DEFINE V == Val \cup {NoVal}
           q == AbsQueue(c)
           t == AbsQueue(c)'
           n == qcount[c]
<1>3. /\ q \in Seq(V) /\ Len(q) = n /\ n \in Nat /\ n > 0 /\ q # << >>
      /\ \A k \in 1 .. n : q[k] = buf[c][Slot(c, k - 1)]
  BY QueueType DEF QueueOf
<1>4. t \in Seq(V) /\ Len(t) = n - 1 /\ \A k \in 1 .. n - 1 : t[k] = buf'[c][Slot(c, k - 1)']
  BY <1>1, QueueTypeNext DEF QueueOf
<1>5. ASSUME NEW k \in 1 .. n - 1
      PROVE  Slot(c, k - 1)' = Slot(c, k) /\ Slot(c, k) # recvx[c] /\ Slot(c, k) \in Slots(c)
  <2>1. /\ n \in Nat /\ n <= Cap[c] /\ k \in Nat /\ k >= 1 /\ k <= n - 1
        /\ Cap[c] \in Nat /\ recvx[c] \in Nat /\ recvx[c] < Cap[c]
    BY <1>0, <1>3
  <2> QED BY <1>1, <2>1 DEF Slot, Slots
<1>6. ASSUME NEW k \in 1 .. n - 1 PROVE t[k] = q[k + 1]
  <2>1. t[k] = buf'[c][Slot(c, k)]
    BY <1>4, <1>5
  <2>2. buf'[c][Slot(c, k)] = buf[c][Slot(c, k)]
    BY <1>0, <1>1, <1>5
  <2>3. k + 1 \in 1 .. n /\ (k + 1) - 1 = k
    BY <1>3
  <2> QED BY <1>3, <2>1, <2>2, <2>3
<1>7. q[1] = buf[c][recvx[c]]
  <2>1. 1 \in 1 .. n /\ 1 - 1 = 0
    BY <1>3
  <2>2. Slot(c, 0) = recvx[c]
    BY <1>0 DEF Slot
  <2> QED BY <1>3, <2>1, <2>2
<1> HIDE DEF V, n, q, t
<1>8. Head(q) = q[1]
  BY <1>3
<1>9. Tail(q) \in Seq(V) /\ Len(Tail(q)) = n - 1 /\ \A k \in 1 .. n - 1 : Tail(q)[k] = q[k + 1]
  BY <1>3, HeadTailProperties
<1>10. \A k \in 1 .. Len(t) : t[k] = Tail(q)[k]
  BY <1>4, <1>6, <1>9
<1>11. t = Tail(q)
  BY <1>4, <1>9, <1>10, SeqEqual
<1> QED BY <1>1, <1>2, <1>3, <1>7, <1>8, <1>11 DEF q, t

(***************************************************************************)
(* What pass 1 has seen.                                                   *)
(***************************************************************************)
(* The channel that g's step communicates on: locked by nobody else.       *)
LEMMA CommLocked ==
    ASSUME TypeOK, OpShape, LockInv, NEW g \in G, NEW i, Comm(g, i), NEW h \in G, h # g
    PROVE  Ch(g, i) \notin held[h] \cup unl[h]
<1>1. CASE ChanComm(g) /\ i = 1
  BY <1>1 DEF ChanComm, InSection, LockFree
<1>2. CASE PollComm(g)
  <2>1. pc[g] = "pass1"
    BY <1>2 DEF PollComm, Polling
  <2>2. held[g] = SelChans(g)
    BY <2>1 DEF LockInv, LocksOf
  <2>3. Ch(g, i) \in held[g]
    BY <2>2 DEF SelChans, Comm
  <2> QED BY <2>3 DEF LockInv
<1> QED BY <1>1, <1>2 DEF Comm

(* A channel is only closed by CloseBegin, under its lock.                 *)
LEMMA CloseOnly ==
    ASSUME NEW g \in G, StepOf(g)
    PROVE  UNCHANGED closed \/ CloseBegin(g)
BY DEF StepOf, PlainStep, CloseStep, SelectStep, Invoke, NilChan, ChanClosed, ChanComm, ChanNotReady,
       ChanPark, SyncWake, Wakeup, ClosePanic, CloseRelease, SelInvoke, SelLock, PollComm, PollClosed,
       PollNext, SelDefault, SelBlock, SelEnqueue, SelPark, ParkUnlock, SelDequeue, SelRetry,
       SelFired, SelUnlock

(* A lock protects the fields of its channel.                              *)
LEMMA LockedData ==
    ASSUME TypeOK, OpShape, LockInv, NEW g \in G, NEW h \in G, h # g, StepOf(g),
           NEW c \in held[h]
    PROVE  closed'[c] = closed[c] /\ qcount'[c] = qcount[c]
<1>0. c \in Chan /\ closed \in [Chan -> BOOLEAN] /\ qcount \in [Chan -> Nat]
  BY DEF TypeOK
<1>1. closed'[c] = closed[c]
  <2>1. CASE CloseBegin(g)
    <3>1. Ch(g, 1) # c /\ closed' = [closed EXCEPT ![Ch(g, 1)] = TRUE]
      BY <2>1 DEF CloseBegin, LockFree
    <3> QED BY <1>0, <3>1
  <2> QED BY <2>1, CloseOnly
<1>2. qcount'[c] = qcount[c]
  <2>1. ASSUME NEW i, Comm(g, i) PROVE qcount'[c] = qcount[c]
    <3>1. Ch(g, i) # c
      BY <2>1, CommLocked
    <3> QED BY <1>0, <2>1, <3>1, CommBuffer DEF BufSend, BufRecv, hchan
  <2> QED BY <2>1, BufferStep DEF hchan
<1> QED BY <1>1, <1>2

LEMMA SeenOther ==
    ASSUME TypeOK, OpShape, LockInv, NEW g \in G, StepOf(g),
           NEW h \in G, h # g, SeenOf(h)
    PROVE  SeenOf(h)'
<1>1. /\ pc'[h] = pc[h] /\ op'[h] = op[h] /\ pollorder'[h] = pollorder[h] /\ idx'[h] = idx[h]
      /\ NCase(h)' = NCase(h)
  BY Frame DEF StepOf, NCase
<1>2. ASSUME pc[h] \in {"pass1", "pass2"}, NEW j \in 1 .. NCase(h), NotReady(h, pollorder[h][j])
      PROVE  NotReady(h, pollorder[h][j])'
  <2>0. PICK i : i = pollorder[h][j]
    OBVIOUS
  <2>1. i \in 1 .. NCase(h)
    <3>1. pollorder[h] \in [1 .. NCase(h) -> 1 .. NCase(h)]
      BY <1>2 DEF OpShape, ShapeOf, SelPC
    <3> QED BY <1>2, <2>0, <3>1
  <2>2. Ch(h, i) \in held[h]
    BY <1>2, <2>1 DEF LockInv, LocksOf, SelChans
  <2>3. closed'[Ch(h, i)] = closed[Ch(h, i)] /\ qcount'[Ch(h, i)] = qcount[Ch(h, i)]
    BY <2>2, LockedData
  <2>4. NotReady(h, i)'
    BY <1>1, <1>2, <2>0, <2>3 DEF NotReady, Ch, CaseDir
  <2> QED BY <1>1, <2>0, <2>4
<1>3. pc[h] = "pass1" => \A j \in 1 .. NCase(h) : j < idx[h] => NotReady(h, pollorder[h][j])'
  BY <1>2 DEF SeenOf
<1>4. pc[h] = "pass2" => \A j \in 1 .. NCase(h) : NotReady(h, pollorder[h][j])'
  BY <1>2 DEF SeenOf
<1> QED BY <1>1, <1>3, <1>4 DEF SeenOf

(* An open channel on which case (c, d) cannot proceed is full or empty.   *)
LEMMA StuckBuffer ==
    ASSUME TypeOK, NEW c \in Chan, NEW d \in Dir, ~Proceeds(c, d)
    PROVE  qcount[c] = IF d = "send" THEN Cap[c] ELSE 0
<1>1. qcount[c] \in Nat /\ qcount[c] <= Cap[c] /\ Cap[c] \in Nat
  BY CapAssumption DEF TypeOK
<1>2. CASE Cap[c] = 0
  BY <1>1, <1>2
<1>3. CASE Cap[c] > 0 /\ d = "send"
  <2>1. ~(qcount[c] < Cap[c])
    BY <1>3, CapAssumption DEF Proceeds
  <2> QED BY <1>1, <1>3, <2>1
<1>4. CASE Cap[c] > 0 /\ d = "recv"
  <2>1. ~(qcount[c] > 0)
    BY <1>4, CapAssumption DEF Proceeds
  <2> QED BY <1>1, <1>4, <2>1
<1> QED BY <1>1, <1>2, <1>3, <1>4 DEF Dir

LEMMA SeenActor ==
    ASSUME TypeOK, OpShape, LockInv, NEW g \in G, StepOf(g), SeenOf(g)
    PROVE  SeenOf(g)'
<1> SUFFICES ASSUME pc'[g] \in {"pass1", "pass2"} PROVE SeenOf(g)'
  BY DEF SeenOf
<1>1. CASE pc'[g] = "pass1" /\ idx'[g] = 1
  <2>1. \A j \in 1 .. NCase(g)' : ~(j < 1)
    BY DEF NCase
  <2> QED BY <1>1, <2>1 DEF SeenOf
<1>2. CASE pc'[g] = "pass1" /\ NCase(g)' = 0
  BY <1>2 DEF SeenOf
<1>3. CASE PollNext(g) \/ SelBlock(g) \/ SelEnqueue(g)
  <2>1. pc[g] \in {"pass1", "pass2"} /\ op' = op /\ pollorder' = pollorder /\ closed' = closed /\ qcount' = qcount
    BY <1>3 DEF PollNext, Polling, SelBlock, SelEnqueue, hchan
  <2>2. /\ NCase(g) \in Nat /\ idx[g] \in Nat
        /\ \A i \in 1 .. NCase(g) : Ch(g, i) \in Chan /\ CaseDir(g, i) \in Dir
    BY <2>1, CaseType DEF SelPC, TypeOK
  <2>3. ASSUME NEW j, NotReady(g, pollorder[g][j]) PROVE NotReady(g, pollorder[g][j])'
    BY <2>1, <2>3 DEF NotReady, Ch, CaseDir
  <2>4. NCase(g)' = NCase(g)
    BY <2>1 DEF NCase
  <2>5. CASE PollNext(g)
    <3>1. pc[g] = "pass1" /\ pc' = pc /\ idx'[g] = idx[g] + 1 /\ idx[g] <= NCase(g)
      BY <2>5 DEF PollNext, Polling, TypeOK
    <3>3. idx[g] \in 1 .. NCase(g) /\ pollorder[g][idx[g]] \in 1 .. NCase(g)
      BY <2>1, <3>1, CaseType DEF SelPC
    <3>2. NotReady(g, pollorder[g][idx[g]])
      <4>0. PICK i : i = pollorder[g][idx[g]]
        OBVIOUS
      <4>1. ~closed[Ch(g, i)] /\ ~Proceeds(Ch(g, i), CaseDir(g, i))
        BY <2>5, <4>0 DEF PollNext
      <4>2. qcount[Ch(g, i)] = IF CaseDir(g, i) = "send" THEN Cap[Ch(g, i)] ELSE 0
        BY <2>2, <3>3, <4>0, <4>1, StuckBuffer
      <4> QED BY <4>0, <4>1, <4>2 DEF NotReady
    <3>4. \A j \in 1 .. NCase(g) : j < idx[g] => NotReady(g, pollorder[g][j])
      BY <3>1 DEF SeenOf
    <3>5. \A j \in 1 .. NCase(g) : j < idx[g] + 1 => NotReady(g, pollorder[g][j])
      BY <2>2, <3>2, <3>3, <3>4
    <3> QED BY <2>3, <2>4, <3>1, <3>5 DEF SeenOf
  <2>6. CASE SelBlock(g)
    <3>1. pc[g] = "pass1" /\ pc'[g] = "pass2" /\ idx[g] > NCase(g)
      BY <2>6 DEF SelBlock, Goto, TypeOK
    <3>2. \A j \in 1 .. NCase(g) : NotReady(g, pollorder[g][j])
      BY <2>2, <3>1 DEF SeenOf
    <3> QED BY <2>3, <2>4, <3>1, <3>2 DEF SeenOf
  <2>7. CASE SelEnqueue(g)
    <3>1. pc[g] = "pass2" /\ pc' = pc
      BY <2>7 DEF SelEnqueue
    <3> QED BY <2>3, <2>4, <3>1 DEF SeenOf
  <2> QED BY <1>3, <2>5, <2>6, <2>7
<1> QED BY <1>1, <1>2, <1>3, PollingSteps

(***************************************************************************)
(* Senders of a closed channel.                                            *)
(***************************************************************************)
LEMMA ClosingStep ==
    ASSUME TypeOK, OpShape, LockInv, LiveInv, TypeOK', SeenInv, ClosingInv, NEW g \in G, StepOf(g)
    PROVE  ClosingInv'
<1> SUFFICES ASSUME NEW c \in Chan, closed'[c], LiveAt(waitq[<<c, "send">>])' # {}
             PROVE  \E h \in G : pc'[h] \in {"closer", "closew"} /\ c \in held'[h]
  BY DEF ClosingInv
<1> DEFINE x == <<c, "send">>
<1>0. x \in Chan \X Dir /\ closed \in [Chan -> BOOLEAN] /\ pc \in [G -> PC] /\ held \in [G -> SUBSET Chan]
  BY DEF Dir, TypeOK
<1>1. PICK k \in 1 .. Len(waitq'[x]) : LiveNext(waitq'[x][k])
  BY DEF LiveAt, Live, LiveNext
<1>2. CASE ~closed[c]
  <2>1. CloseBegin(g) /\ Ch(g, 1) = c
    BY <1>0, <1>2, CloseOnly DEF CloseBegin
  <2> QED BY <1>0, <2>1 DEF CloseBegin
<1>3. CASE closed[c]
  <2>1. ~NewEntry(g, x, waitq'[x][k])
    <3>1. ASSUME ChanPark(g), x = OwnQueue(g, 1) PROVE FALSE
      BY <1>3, <3>1 DEF ChanPark, OwnQueue, SeesClosed
    <3>2. ASSUME SelEnqueue(g), x = OwnQueue(g, pollorder[g][idx[g]]) PROVE FALSE
      <4>1. pc[g] = "pass2" /\ idx[g] <= NCase(g)
        BY <3>2 DEF SelEnqueue
      <4>2. idx[g] \in 1 .. NCase(g)
        BY <4>1, CaseType DEF SelPC
      <4>3. NotReady(g, pollorder[g][idx[g]])
        BY <4>1, <4>2 DEF SeenInv, SeenOf
      <4> QED BY <1>3, <3>2, <4>3 DEF NotReady, OwnQueue
    <3> QED BY <3>1, <3>2 DEF NewEntry
  <2>2. PICK j \in 1 .. Len(waitq[x]) : waitq'[x][k] = waitq[x][j]
    BY <1>0, <2>1, OldOrNew
  <2>3. j \in LiveAt(waitq[x])
    BY <1>0, <1>1, <2>2, WasLive
  <2>4. PICK h \in G : pc[h] \in {"closer", "closew"} /\ c \in held[h]
    BY <1>3, <2>3 DEF ClosingInv
  <2>5. CASE h # g
    <3>1. pc'[h] = pc[h] /\ held'[h] = held[h]
      BY <2>5, Frame DEF StepOf
    <3> QED BY <2>4, <3>1
  <2>6. CASE h = g
    <3>1. held[g] = {c} /\ Ch(g, 1) = c
      BY <2>4, <2>6 DEF LockInv, LocksOf
    <3>2. CloseRelease(g)
      BY <2>4, <2>6 DEF StepOf, PlainStep, CloseStep, SelectStep, Invoke, NilChan, ChanClosed, ChanComm, ChanNotReady,
       ChanPark, SyncWake, Wakeup, ClosePanic, CloseBegin, SelInvoke, SelLock, PollComm, PollClosed,
       PollNext, SelDefault, SelBlock, SelEnqueue, SelPark, ParkUnlock, SelDequeue, SelRetry,
       SelFired, SelUnlock, InSection, Polling, LockInv, LocksOf
    <3>3. CASE pc[g] = "closer"
      BY <1>0, <2>4, <2>6, <3>2, <3>3 DEF CloseRelease, Goto
    <3>4. CASE pc[g] = "closew"
      <4>1. LiveAt(waitq[<<Ch(g, 1), "send">>]) # {}
        BY <2>3, <3>1
      <4> QED BY <2>4, <2>6, <3>2, <3>4, <4>1 DEF CloseRelease
    <3> QED BY <2>4, <2>6, <3>3, <3>4
  <2> QED BY <2>5, <2>6
<1> QED BY <1>0, <1>2, <1>3

(***************************************************************************)
(* How far an operation has come.                                          *)
(***************************************************************************)
(* What a step of g leaves alone in another goroutine h.                   *)
LEMMA OutFrame ==
    ASSUME TypeOK, OpShape, NEW g \in G, NEW h \in G, h # g, StepOf(g)
    PROVE  /\ out'[h] = out[h]
           /\ ~Wakeup(g) => ep'[h] = ep[h]
           /\ ~Wakeup(g) /\ ~CloseRelease(g) => param'[h] = param[h]
<1>0. out \in [G -> Outcome] /\ ep \in [G -> Val \cup {NoVal}] /\ param \in [G -> Nat]
  BY DEF TypeOK
<1> USE <1>0 DEF Finish
<1>1. CASE Wakeup(g)
  BY <1>1 DEF Wakeup
<1>2. CASE CloseRelease(g)
  BY <1>2 DEF CloseRelease
<1>3. CASE ChanComm(g) \/ PollComm(g)
  <2>1. PICK i : Comm(g, i)
    BY <1>3, CommCase
  <2>2. out' = [out EXCEPT ![g] = [st |-> "done", cas |-> i]]
    BY <2>1 DEF Comm, Communicate
  <2>3. ep'[h] = ep[h]
    BY <2>1, CommBuffer DEF BufSend, BufRecv
  <2>4. param' = param
    BY <1>3 DEF ChanComm, PollComm
  <2> QED BY <2>2, <2>3, <2>4
<1>4. CASE Invoke(g) \/ NilChan(g) \/ ChanClosed(g) \/ ChanNotReady(g) \/ ChanPark(g) \/ SyncWake(g)
  BY <1>4 DEF Invoke, NilChan, ChanClosed, ChanNotReady, ChanPark, SyncWake, FinishClosed
<1>5. CASE ClosePanic(g) \/ CloseBegin(g)
  BY <1>5 DEF ClosePanic, CloseBegin
<1>6. CASE SelectStep(g) /\ ~PollComm(g)
  BY <1>6 DEF SelectStep, SelInvoke, SelLock, PollClosed, FinishClosed, PollNext, SelDefault, SelBlock, SelEnqueue,
              SelPark, ParkUnlock, SelDequeue, SelRetry, SelFired, SelUnlock
<1> QED BY <1>1, <1>2, <1>3, <1>4, <1>5, <1>6 DEF StepOf, PlainStep, CloseStep

(* closechan sets g->param of the goroutines it releases to what it is.    *)
LEMMA CloseParam ==
    ASSUME TypeOK, OpShape, LockInv, LiveInv, ProgressInv, NEW g \in G, CloseRelease(g),
           NEW h \in G, h # g, pc[h] \in {"syncwait", "selpark", "pass3"}
    PROVE  param'[h] = param[h]
<1>0. param \in [G -> Nat]
  BY DEF TypeOK
<1>1. CASE LiveAt(waitq[CloseQueue(g)]) = {}
  BY <1>1 DEF CloseRelease, CloseQueue
<1>2. CASE LiveAt(waitq[CloseQueue(g)]) # {}
  <2>1. PICK sg : sg = waitq[CloseQueue(g)][First(waitq[CloseQueue(g)])]
    OBVIOUS
  <2>2. param' = [param EXCEPT ![sg.g] = 0]
    BY <1>2, <2>1 DEF CloseRelease, CloseQueue
  <2>3. sg.g \in G /\ status[sg.g] = "Gwaiting"
    BY <1>2, <2>1, CloseMeetsParked
  <2>4. CASE h = sg.g
    <3>1. pc[h] # "pass3"
      BY <2>3, <2>4 DEF OpShape, ShapeOf
    <3>2. param[h] = 0
      BY <2>3, <2>4, <3>1 DEF ProgressInv, ProgressOf
    <3> QED BY <1>0, <2>2, <2>4, <3>2
  <2> QED BY <1>0, <2>2, <2>4
<1> QED BY <1>1, <1>2

(* Wakeup: what it writes, and where.                                      *)
LEMMA WakeupWrites ==
    ASSUME TypeOK, OpShape, HandInv, ProgressInv, NEW g \in G, Wakeup(g)
    PROVE  \E sg \in hand[g] :
             /\ hand[g] = {sg} /\ InHand(g, sg) /\ sg.g \in G /\ sg.g # g /\ sg.cas \in Nat /\ sg.cas >= 1
             /\ Ready(sg.g)
             /\ CaseDir(sg.g, sg.cas) \in Dir
             /\ Sync(sg) => pc[sg.g] \in {"syncwait", "selpark"}
             /\ param' = IF Sync(sg) THEN [param EXCEPT ![sg.g] = sg.cas] ELSE param
             /\ ep' = IF Sync(sg)
                      THEN IF CaseDir(sg.g, sg.cas) = "recv" THEN [ep EXCEPT ![sg.g] = Elem(g)]
                           ELSE [ep EXCEPT ![g] = Elem(sg.g)]
                      ELSE ep
<1>1. PICK sg \in hand[g] :
         /\ Ready(sg.g)
         /\ param' = IF Cap[Ch(sg.g, sg.cas)] = 0 THEN [param EXCEPT ![sg.g] = sg.cas] ELSE param
         /\ ep' = CASE Cap[Ch(sg.g, sg.cas)] = 0 /\ CaseDir(sg.g, sg.cas) = "recv" -> [ep EXCEPT ![sg.g] = Elem(g)]
                    [] Cap[Ch(sg.g, sg.cas)] = 0 /\ CaseDir(sg.g, sg.cas) = "send" -> [ep EXCEPT ![g] = Elem(sg.g)]
                    [] OTHER -> ep
  BY DEF Wakeup
<1>2. InHand(g, sg) /\ sg \in Sudog /\ pc[g] = "ready"
  BY DEF HandInv, TypeOK, Wakeup
<1>3. sg.g \in G /\ sg.cas \in Nat /\ sg.cas \in 1 .. NCase(sg.g) /\ hand[g] = {sg} /\ Parked(sg.g)
  BY <1>2 DEF InHand, Sudog
<1>4. sg.g # g /\ sg.cas >= 1
  <2>1. NCase(sg.g) \in Nat
    BY <1>3 DEF TypeOK, Op, NCase
  <2> QED BY <1>2, <1>3, <2>1 DEF Parked
<1>5. CaseDir(sg.g, sg.cas) \in Dir
  <2>1. op[sg.g].cases \in Seq(Case)
    BY <1>3 DEF TypeOK, Op
  <2>2. op[sg.g].cases[sg.cas] \in Case
    BY <1>3, <2>1 DEF NCase
  <2> QED BY <2>2 DEF CaseDir, Case
<1>6. Sync(sg) => pc[sg.g] \in {"syncwait", "selpark"}
  <2>1. ShapeOf(sg.g)
    BY <1>3 DEF OpShape
  <2>2. pc[sg.g] = "asyncwait" => sg.cas = 1 /\ Cap[Ch(sg.g, 1)] > 0
    BY <1>2, <2>1 DEF InHand, ShapeOf
  <2> QED BY <1>3, <2>2 DEF Parked, Sync
<1>7. ep' = IF Sync(sg)
            THEN IF CaseDir(sg.g, sg.cas) = "recv" THEN [ep EXCEPT ![sg.g] = Elem(g)]
                 ELSE [ep EXCEPT ![g] = Elem(sg.g)]
            ELSE ep
  <2>1. CASE Sync(sg) /\ CaseDir(sg.g, sg.cas) = "recv"
    BY <1>1, <2>1 DEF Sync
  <2>2. CASE Sync(sg) /\ CaseDir(sg.g, sg.cas) = "send"
    BY <1>1, <2>2 DEF Sync
  <2>3. CASE ~Sync(sg)
    BY <1>1, <2>3 DEF Sync
  <2> QED BY <1>5, <2>1, <2>2, <2>3 DEF Dir
<1> QED BY <1>1, <1>2, <1>3, <1>4, <1>5, <1>6, <1>7 DEF Sync

LEMMA ProgressOther ==
    ASSUME TypeOK, OpShape, LockInv, LiveInv, HandInv, ProgressInv, NEW g \in G, StepOf(g), NEW h \in G, h # g
    PROVE  ProgressOf(h)'
<1>0. /\ ProgressOf(h) /\ ep \in [G -> Val \cup {NoVal}] /\ param \in [G -> Nat]
      /\ status \in [G -> {"Gwaiting", "Grunnable"}]
  BY DEF ProgressInv, TypeOK
<1>1. /\ pc'[h] = pc[h] /\ op'[h] = op[h] /\ out'[h] = out[h]
      /\ status'[h] = "Gwaiting" => status[h] = "Gwaiting"
  BY Frame, OutFrame DEF StepOf
<1>2. CASE ep'[h] = ep[h] /\ (pc[h] \in {"syncwait", "selpark", "pass3"} => param'[h] = param[h])
  BY <1>0, <1>1, <1>2 DEF ProgressOf, Told, NCase
<1>3. CASE ~Wakeup(g)
  <2>1. pc[h] \in {"syncwait", "selpark", "pass3"} => param'[h] = param[h]
    BY <1>3, CloseParam, OutFrame
  <2> QED BY <1>2, <1>3, <2>1, OutFrame
<1>4. CASE Wakeup(g)
  <2>1. PICK sg \in hand[g] :
             /\ hand[g] = {sg} /\ InHand(g, sg) /\ sg.g \in G /\ sg.g # g /\ sg.cas \in Nat /\ sg.cas >= 1
             /\ Ready(sg.g)
             /\ CaseDir(sg.g, sg.cas) \in Dir
             /\ Sync(sg) => pc[sg.g] \in {"syncwait", "selpark"}
             /\ param' = IF Sync(sg) THEN [param EXCEPT ![sg.g] = sg.cas] ELSE param
             /\ ep' = IF Sync(sg)
                      THEN IF CaseDir(sg.g, sg.cas) = "recv" THEN [ep EXCEPT ![sg.g] = Elem(g)]
                           ELSE [ep EXCEPT ![g] = Elem(sg.g)]
                      ELSE ep
    BY <1>4, WakeupWrites
  <2>2. CASE h # sg.g \/ ~Sync(sg)
    BY <1>0, <1>2, <2>1, <2>2
  <2>3. CASE h = sg.g /\ Sync(sg)
    <3>1. param'[h] = sg.cas /\ sg.cas # 0 /\ pc[h] \in {"syncwait", "selpark"}
      BY <1>0, <2>1, <2>3
    <3>2. status'[h] = "Grunnable"
      BY <1>0, <2>1, <2>3 DEF Ready, InHand, Parked
    <3>3. pc[h] = "syncwait" => param'[h] = 1
      BY <2>1, <2>3, <3>1 DEF InHand
    <3>4. Told(h)'
      BY <1>1, <3>1 DEF Told
    <3> QED BY <1>0, <1>1, <3>1, <3>2, <3>3, <3>4 DEF ProgressOf, NCase, Busy, PlainPC
  <2> QED BY <2>2, <2>3
<1> QED BY <1>3, <1>4

LEMMA ProgressActor ==
    ASSUME TypeOK, OpShape, LockInv, HandInv, ParamInv, ProgressInv, NEW g \in G, StepOf(g)
    PROVE  ProgressOf(g)'
<1>0. /\ ProgressOf(g) /\ LocksOf(g) /\ ShapeOf(g) /\ pc \in [G -> PC] /\ out \in [G -> Outcome]
      /\ ep \in [G -> Val \cup {NoVal}] /\ param \in [G -> Nat] /\ op \in [G -> Op]
      /\ status \in [G -> {"Gwaiting", "Grunnable"}]
  BY DEF ProgressInv, LockInv, OpShape, TypeOK
<1>p. Pending.st = "pending"
  BY DEF Pending
<1> USE <1>0, <1>p DEF Goto, Finish, ProgressOf, Told, Busy, PC, PlainPC
<1>1. CASE Invoke(g)
  <2>1. PICK o \in Menu[g] : /\ o.fn # "selectgo" /\ op' = [op EXCEPT ![g] = o]
                             /\ pc' = [pc EXCEPT ![g] = IF o.fn = "closechan" THEN "closer" ELSE "chanop"]
    BY <1>1 DEF Invoke
  <2>2. Len(o.cases) = 1
    BY <2>1, MenuAssumption
  <2>3. op'[g] = o /\ NCase(g)' = 1
    BY <2>1, <2>2 DEF NCase
  <2> QED BY <1>1, <2>1, <2>3 DEF Invoke
<1>2. CASE NilChan(g)
  BY <1>2 DEF NilChan, Park, NCase
<1>3. CASE ChanClosed(g)
  BY <1>3 DEF ChanClosed, FinishClosed
<1>4. CASE ChanComm(g)
  <2>1. pc[g] # "idle" /\ pc'[g] \in {"idle", "ready"} /\ op' = op /\ out'[g].st = "done"
    BY <1>4 DEF ChanComm, InSection, Communicate
  <2>2. pc[g] \notin {"closer", "closew"}
    BY <1>4 DEF ChanComm, InSection
  <2> QED BY <2>1, <2>2
<1>5. CASE ChanNotReady(g)
  BY <1>5 DEF ChanNotReady
<1>6. CASE ChanPark(g)
  <2>1. /\ pc[g] \in {"chanop", "asyncwait"} /\ op' = op /\ out' = out /\ ep' = ep
        /\ pc'[g] = IF Cap[Ch(g, 1)] = 0 THEN "syncwait" ELSE "asyncwait"
        /\ Cap[Ch(g, 1)] = 0 => param'[g] = 0
    BY <1>6 DEF ChanPark, InSection, Park
  <2> QED BY <2>1 DEF NCase
<1>7. CASE SyncWake(g)
  <2>1. param[g] = 0 => closed[Ch(g, 1)]
    BY <1>7 DEF SyncWake, ParamInv, ParamOf
  <2>2. pc'[g] = "idle"
    BY <1>7 DEF SyncWake
  <2>3. \E st \in {"done", "panic", "closed"} : out' = [out EXCEPT ![g] = [st |-> st, cas |-> 1]]
    BY <1>7, <2>1 DEF SyncWake, FinishClosed
  <2> QED BY <2>2, <2>3
<1>8. CASE Wakeup(g)
  BY <1>8 DEF Wakeup
<1>9. CASE ClosePanic(g)
  BY <1>9 DEF ClosePanic
<1>10. CASE CloseBegin(g)
  BY <1>10 DEF CloseBegin, NCase
<1>11. CASE CloseRelease(g)
  <2>1. /\ pc[g] \in {"closer", "closew"} /\ op' = op /\ ep' = ep
        /\ \/ pc'[g] \in {"closer", "closew"} /\ out' = out
           \/ pc'[g] = "idle" /\ out'[g].st = "done"
    BY <1>11 DEF CloseRelease
  <2> QED BY <2>1 DEF NCase
<1>12. CASE SelInvoke(g)
  <2>1. PICK o \in Menu[g] : o.fn = "selectgo" /\ \E cases \in Competing(o.cases) :
           /\ op' = [op EXCEPT ![g] = [o EXCEPT !.cases = cases]]
           /\ pc' = [pc EXCEPT ![g] = IF cases = <<>> THEN "pass1" ELSE "sellock"]
    BY <1>12 DEF SelInvoke
  <2>2. o \in Op
    BY MenuAssumption
  <2>3. op'[g].fn = "selectgo" /\ pc'[g] \in {"pass1", "sellock"}
    BY <2>1, <2>2 DEF Op
  <2>4. out'[g] = Pending /\ ep'[g] = NoVal
    BY <1>12 DEF SelInvoke
  <2> QED BY <2>3, <2>4
<1>13. CASE SelLock(g)
  <2>1. /\ op' = op /\ out' = out /\ ep' = ep /\ param' = param /\ status' = status
        /\ \/ pc[g] = "sellock" /\ pc'[g] \in {"sellock", "pass1"}
           \/ pc[g] = "selpark" /\ pc'[g] \in {"selpark", "pass3"}
    BY <1>13 DEF SelLock
  <2> QED BY <2>1
<1>14. CASE PollComm(g)
  <2>1. pc[g] = "pass1" /\ pc'[g] = "selunlock" /\ op' = op /\ out'[g].st = "done"
    BY <1>14 DEF PollComm, Polling, Communicate
  <2> QED BY <2>1
<1>15. CASE PollClosed(g)
  <2>1. pc[g] = "pass1" /\ pc'[g] = "selunlock" /\ op' = op /\ out'[g].st # "pending"
    BY <1>15 DEF PollClosed, Polling, FinishClosed
  <2> QED BY <2>1
<1>16. CASE PollNext(g)
  BY <1>16 DEF PollNext, Polling
<1>17. CASE SelDefault(g)
  BY <1>17 DEF SelDefault
<1>18. CASE SelBlock(g)
  BY <1>18 DEF SelBlock
<1>19. CASE SelEnqueue(g)
  BY <1>19 DEF SelEnqueue
<1>20. CASE SelPark(g)
  BY <1>20 DEF SelPark, Park
<1>21. CASE ParkUnlock(g)
  BY <1>21 DEF ParkUnlock, NCase
<1>22. CASE SelDequeue(g)
  BY <1>22 DEF SelDequeue
<1>23. CASE SelRetry(g)
  BY <1>23 DEF SelRetry
<1>24. CASE SelFired(g)
  BY <1>24 DEF SelFired
<1>25. CASE SelUnlock(g)
  <2>1. pc[g] = "selunlock" /\ pc'[g] \in {"selunlock", "ready", "idle"} /\ op' = op /\ out' = out
    BY <1>25 DEF SelUnlock
  <2> QED BY <2>1
<1> QED BY <1>1, <1>2, <1>3, <1>4, <1>5, <1>6, <1>7, <1>8, <1>9, <1>10, <1>11, <1>12, <1>13, <1>14, <1>15,
           <1>16, <1>17, <1>18, <1>19, <1>20, <1>21, <1>22, <1>23, <1>24, <1>25
        DEF StepOf, PlainStep, CloseStep, SelectStep

(***************************************************************************)
(* RefInv is an invariant.                                                 *)
(***************************************************************************)
LEMMA InitRefInv ==
    Init => RefInv
<1> SUFFICES ASSUME Init PROVE RefInv
  OBVIOUS
<1>1. ProgressInv
  BY DEF Init, ProgressInv, ProgressOf, Busy, PC, PlainPC, Told
<1>2. RingInv
  BY CapAssumption DEF Init, RingInv, Slot
<1>3. SeenInv
  BY DEF Init, SeenInv, SeenOf
<1>4. ClosingInv
  BY DEF Init, ClosingInv
<1> QED BY <1>1, <1>2, <1>3, <1>4 DEF RefInv

LEMMA RefInvStep ==
    IInv /\ RefInv /\ [Next]_vars => RefInv'
<1> SUFFICES ASSUME IInv, RefInv, [Next]_vars PROVE RefInv'
  OBVIOUS
<1>1. /\ TypeOK /\ OpShape /\ LockInv /\ LiveInv /\ HandInv /\ ParamInv
      /\ ProgressInv /\ RingInv /\ SeenInv /\ ClosingInv
  BY DEF IInv, RefInv
<1>2. TypeOK'
  BY IInvStep DEF IInv
<1>3. ASSUME NEW g \in G, StepOf(g) PROVE RefInv'
  <2>1. ProgressInv'
    BY <1>1, <1>3, ProgressActor, ProgressOther DEF ProgressInv
  <2>2. RingInv'
    BY <1>1, <1>3, RingStep
  <2>3. SeenInv'
    BY <1>1, <1>3, SeenActor, SeenOther DEF SeenInv
  <2>4. ClosingInv'
    BY <1>1, <1>2, <1>3, ClosingStep
  <2> QED BY <2>1, <2>2, <2>3, <2>4 DEF RefInv
<1>4. CASE UNCHANGED vars
  <2>0. /\ pc' = pc /\ op' = op /\ out' = out /\ ep' = ep /\ param' = param /\ status' = status /\ waitq' = waitq
        /\ sendx' = sendx /\ recvx' = recvx /\ qcount' = qcount /\ closed' = closed /\ held' = held
        /\ pollorder' = pollorder /\ idx' = idx /\ selgen' = selgen
    BY <1>4 DEF vars, hchan, sel
  <2>1. ProgressInv'
    BY <1>1, <2>0 DEF ProgressInv, ProgressOf, Told, NCase
  <2>2. RingInv'
    BY <1>1, <2>0 DEF RingInv, Slot
  <2>3. SeenInv'
    <3>1. ASSUME NEW g, NEW j, NotReady(g, pollorder[g][j]) PROVE NotReady(g, pollorder[g][j])'
      BY <2>0, <3>1 DEF NotReady, Ch, CaseDir
    <3>2. ASSUME NEW g \in G PROVE SeenOf(g)'
      <4>1. SeenOf(g) /\ NCase(g)' = NCase(g)
        BY <1>1, <2>0 DEF SeenInv, NCase
      <4> QED BY <2>0, <3>1, <4>1 DEF SeenOf
    <3> QED BY <3>2 DEF SeenInv
  <2>4. ClosingInv'
    BY <1>1, <2>0 DEF ClosingInv, LiveAt, Live
  <2> QED BY <2>1, <2>2, <2>3, <2>4 DEF RefInv
<1> QED BY <1>3, <1>4 DEF Next, StepOf

(* What the refinement rests on, in one.                                   *)
AllInv == IInv /\ QueueInv /\ RefInv

LEMMA AllInvAlways ==
    Spec => []AllInv
<1>1. Init => AllInv
  BY InitIInv, InitQueueInv, InitRefInv DEF AllInv
<1>2. AllInv /\ [Next]_vars => AllInv'
  BY IInvStep, QueueInvStep, RefInvStep DEF AllInv
<1> QED BY <1>1, <1>2, PTL DEF Spec

(***************************************************************************)
(* The abstract result of an operation.                                    *)
(***************************************************************************)
Res(st, i, v) == [st |-> st, cas |-> i, val |-> v]

(* A partner on an unbuffered channel has dequeued g.                      *)
Claimed(g) == \E h \in G : \E sg \in hand[h] : sg.g = g /\ Sync(sg)

(* g is to take the element of the sender in its hand.                     *)
Takes(g, sg) == sg \in hand[g] /\ Sync(sg) /\ CaseDir(sg.g, sg.cas) = "send"

(* g has closed its channel and is still releasing the waiters.            *)
Closing(g) == op[g].fn = "closechan" /\ held[g] # {}

(* AbsResult, case by case.                                                *)
ResultOf(g) ==
    /\ \A h \in G : \A sg \in hand[h] : sg.g = g /\ Sync(sg) =>
         AbsResult(g) = Res("done", sg.cas, IF CaseDir(g, sg.cas) = "recv" THEN Elem(h) ELSE NoVal)
    /\ ~Claimed(g) /\ Told(g) => AbsResult(g) = Res("done", param[g], ep[g])
    /\ ~Claimed(g) /\ ~Told(g) =>
         /\ \A sg : Takes(g, sg) => AbsResult(g) = Res(out[g].st, out[g].cas, Elem(sg.g))
         /\ (\A sg : ~Takes(g, sg)) =>
               AbsResult(g) = IF Closing(g) THEN Res("done", 1, NoVal) ELSE Res(out[g].st, out[g].cas, ep[g])

LEMMA Results ==
    IInv => \A g \in G : ResultOf(g)
<1> SUFFICES ASSUME IInv, NEW g \in G PROVE ResultOf(g)
  OBVIOUS
<1> DEFINE by == {h \in G : ClaimedBy(h, g) # {}}
           mine == {sg \in hand[g] : Sync(sg) /\ CaseDir(sg.g, sg.cas) = "send"}
<1>1. HandInv
  BY DEF IInv
<1>2. ASSUME NEW h \in G, NEW sg \in hand[h], sg.g = g, Sync(sg)
      PROVE  AbsResult(g) = Res("done", sg.cas, IF CaseDir(g, sg.cas) = "recv" THEN Elem(h) ELSE NoVal)
  <2>1. hand[h] = {sg}
    BY <1>1 DEF HandInv, InHand
  <2>2. ClaimedBy(h, g) = {sg}
    BY <1>2, <2>1 DEF ClaimedBy
  <2>3. by = {h}
    <3>1. ASSUME NEW k \in by PROVE k = h
      BY <1>1, <1>2 DEF HandInv, ClaimedBy
    <3> QED BY <2>2, <3>1
  <2>4. (CHOOSE k \in by : TRUE) = h /\ (CHOOSE s \in ClaimedBy(h, g) : TRUE) = sg
    BY <2>2, <2>3
  <2> QED BY <2>3, <2>4 DEF AbsResult, Res
<1>3. Claimed(g) <=> by # {}
  BY DEF Claimed, ClaimedBy
<1>4. ASSUME ~Claimed(g), Told(g) PROVE AbsResult(g) = Res("done", param[g], ep[g])
  BY <1>3, <1>4 DEF AbsResult, Res
<1>5. ASSUME ~Claimed(g), ~Told(g), NEW sg, Takes(g, sg)
      PROVE  AbsResult(g) = Res(out[g].st, out[g].cas, Elem(sg.g))
  <2>1. hand[g] = {sg}
    BY <1>1, <1>5 DEF HandInv, InHand, Takes
  <2>2. mine = {sg}
    BY <1>5, <2>1 DEF Takes
  <2>3. (CHOOSE s \in mine : TRUE) = sg
    BY <2>2
  <2> QED BY <1>3, <1>5, <2>2, <2>3 DEF AbsResult, Res
<1>6. ASSUME ~Claimed(g), ~Told(g), \A sg : ~Takes(g, sg)
      PROVE  AbsResult(g) = IF Closing(g) THEN Res("done", 1, NoVal) ELSE Res(out[g].st, out[g].cas, ep[g])
  <2>1. mine = {}
    BY <1>6 DEF Takes
  <2> QED BY <1>3, <1>6, <2>1 DEF AbsResult, Res, Closing
<1> QED BY <1>2, <1>4, <1>5, <1>6 DEF ResultOf

LEMMA ResultsNext ==
    IInv' => (\A g \in G : ResultOf(g))'
BY Results, PTL

(* The same by where g is in its operation: pending, closing, over.        *)
ViewOf(g) ==
    /\ Claimed(g) => Parked(g)
    /\ hand[g] # {} => pc[g] \in {"selunlock", "ready"}
    /\ Closing(g) => pc[g] \notin Busy \/ pc[g] \in {"closer", "closew"}
    /\ pc[g] \in Busy /\ ~Claimed(g) /\ ~Told(g) /\ ~Closing(g) => AbsResult(g) = Res("pending", 0, NoVal)
    /\ pc[g] \in {"closer", "closew"} /\ Closing(g) => AbsResult(g) = Res("done", 1, NoVal)
    /\ pc[g] \notin Busy =>
         /\ \A sg : Takes(g, sg) => AbsResult(g) = Res(out[g].st, out[g].cas, Elem(sg.g))
         /\ (\A sg : ~Takes(g, sg)) => AbsResult(g) = Res(out[g].st, out[g].cas, ep[g])

LEMMA Views ==
    AllInv => \A g \in G : ViewOf(g)
<1> SUFFICES ASSUME AllInv, NEW g \in G PROVE ViewOf(g)
  OBVIOUS
<1>1. ResultOf(g) /\ ProgressOf(g) /\ LocksOf(g) /\ HandInv /\ pc \in [G -> PC]
  BY Results DEF AllInv, IInv, RefInv, ProgressInv, LockInv, TypeOK
<1>2. Claimed(g) => Parked(g)
  BY <1>1 DEF Claimed, HandInv, InHand
<1>3. hand[g] # {} => pc[g] \in {"selunlock", "ready"}
  BY <1>1 DEF HandInv, InHand
<1>4. pc[g] \in Busy => \A sg : ~Takes(g, sg)
  BY <1>3 DEF Busy, Takes
<1>5. Closing(g) => pc[g] \notin Busy \/ pc[g] \in {"closer", "closew"}
  BY <1>1 DEF Closing, ProgressOf, Busy
<1>6. ASSUME pc[g] \in Busy, ~Claimed(g), ~Told(g), ~Closing(g) PROVE AbsResult(g) = Res("pending", 0, NoVal)
  <2>1. AbsResult(g) = Res(out[g].st, out[g].cas, ep[g])
    BY <1>1, <1>4, <1>6 DEF ResultOf
  <2>2. out[g].st = "pending" /\ out[g].cas = 0 /\ ep[g] = NoVal
    BY <1>1, <1>6 DEF ProgressOf, Pending
  <2> QED BY <2>1, <2>2
<1>7. ASSUME pc[g] \in {"closer", "closew"}, Closing(g) PROVE AbsResult(g) = Res("done", 1, NoVal)
  <2>1. pc[g] \in Busy /\ ~Told(g) /\ ~Claimed(g)
    BY <1>2, <1>7 DEF Busy, PC, Told, Parked
  <2> QED BY <1>1, <1>4, <1>7, <2>1 DEF ResultOf
<1>8. ASSUME pc[g] \notin Busy
      PROVE  /\ \A sg : Takes(g, sg) => AbsResult(g) = Res(out[g].st, out[g].cas, Elem(sg.g))
             /\ (\A sg : ~Takes(g, sg)) => AbsResult(g) = Res(out[g].st, out[g].cas, ep[g])
  <2>1. pc[g] \in {"idle", "selunlock", "ready"}
    BY <1>1, <1>8 DEF Busy
  <2>2. ~Told(g) /\ ~Claimed(g)
    BY <1>2, <2>1 DEF Told, Parked
  <2>3. ~Closing(g)
    BY <1>1, <2>1 DEF Closing, ProgressOf, LocksOf, SelPC
  <2> QED BY <1>1, <2>2, <2>3 DEF ResultOf
<1> QED BY <1>2, <1>3, <1>5, <1>6, <1>7, <1>8 DEF ViewOf

LEMMA ViewsNext ==
    AllInv' => (\A g \in G : ViewOf(g))'
BY Views, PTL

(* Operations only begin when a goroutine is idle.                         *)
LEMMA NopsKept ==
    ASSUME NEW g \in G, StepOf(g), pc[g] # "idle"
    PROVE  nops' = nops /\ op' = op
BY DEF StepOf, PlainStep, CloseStep, SelectStep, Invoke, NilChan, ChanClosed, ChanComm, ChanNotReady,
       ChanPark, SyncWake, Wakeup, ClosePanic, CloseBegin, CloseRelease, SelInvoke, SelLock, PollComm, PollClosed,
       PollNext, SelDefault, SelBlock, SelEnqueue, SelPark, ParkUnlock, SelDequeue, SelRetry,
       SelFired, SelUnlock

(* A step that touches nothing a result is made of.                        *)
LEMMA ResultSame ==
    ASSUME UNCHANGED <<hand, pc, param, out, ep, op, nops, held>>, NEW g
    PROVE  AbsResult(g)' = AbsResult(g)
BY DEF AbsResult, ClaimedBy, Sync, Ch, CaseDir, Told, Elem

(* A step of g leaves the result of h alone unless it claims h or wakes it.*)
LEMMA OtherSame ==
    ASSUME AllInv, AllInv', NEW g \in G, StepOf(g), NEW h \in G, h # g,
           \A sg : sg.g = h /\ Sync(sg) => (sg \in hand'[g] <=> sg \in hand[g]),
           ep'[h] = ep[h],
           pc[h] \in {"syncwait", "selpark", "pass3"} => param'[h] = param[h]
    PROVE  AbsResult(h)' = AbsResult(h)
<1>0. TypeOK /\ OpShape /\ HandInv /\ IInv /\ IInv' /\ hand \in [G -> SUBSET Sudog]
  BY DEF AllInv, IInv, TypeOK
<1>1. /\ pc'[h] = pc[h] /\ op'[h] = op[h] /\ nops'[h] = nops[h] /\ held'[h] = held[h]
      /\ hand'[h] = hand[h] /\ out'[h] = out[h]
  BY <1>0, Frame, OutFrame DEF StepOf
<1>2. ResultOf(h) /\ ResultOf(h)'
  BY <1>0, Results, ResultsNext
<1>3. \A i : Ch(h, i)' = Ch(h, i) /\ CaseDir(h, i)' = CaseDir(h, i)
  BY <1>1 DEF Ch, CaseDir
<1>4. \A sg : sg.g = h => Sync(sg)' = Sync(sg)
  BY <1>3 DEF Sync
<1>5. \A k \in G : k # g => hand'[k] = hand[k]
  BY <1>0, Frame DEF StepOf
<1>6. ASSUME NEW k \in G, NEW sg \in hand[k], sg.g = h, Sync(sg) PROVE AbsResult(h)' = AbsResult(h)
  <2>1. sg \in hand'[k] /\ Sync(sg)'
    BY <1>4, <1>5, <1>6
  <2>2. pc[k] # "idle"
    BY <1>0, <1>6 DEF HandInv, InHand
  <2>3. nops'[k] = nops[k]
    <3>1. CASE k = g
      BY <2>2, <3>1, NopsKept
    <3>2. CASE k # g
      BY <1>0, <3>2, Frame DEF StepOf
    <3> QED BY <3>1, <3>2
  <2>4. Elem(k)' = Elem(k)
    BY <2>3 DEF Elem
  <2>5. AbsResult(h) = Res("done", sg.cas, IF CaseDir(h, sg.cas) = "recv" THEN Elem(k) ELSE NoVal)
    BY <1>2, <1>6 DEF ResultOf
  <2>6. AbsResult(h)' = Res("done", sg.cas, IF CaseDir(h, sg.cas)' = "recv" THEN Elem(k)' ELSE NoVal)
    BY <1>2, <1>6, <2>1 DEF ResultOf, Res
  <2> QED BY <1>3, <2>4, <2>5, <2>6
<1>7. CASE ~Claimed(h)
  <2>1. ~Claimed(h)'
    <3>1. SUFFICES ASSUME NEW k \in G, NEW sg \in hand'[k], sg.g = h, Sync(sg)' PROVE FALSE
      BY DEF Claimed
    <3>2. sg \in hand[k] /\ Sync(sg)
      BY <1>4, <1>5, <3>1
    <3> QED BY <1>7, <3>1, <3>2 DEF Claimed
  <2>2. Told(h)' = Told(h)
    BY <1>1 DEF Told
  <2>3. CASE Told(h)
    <3>1. param'[h] = param[h]
      BY <2>3 DEF Told
    <3>2. AbsResult(h) = Res("done", param[h], ep[h])
      BY <1>2, <1>7, <2>3 DEF ResultOf
    <3>3. AbsResult(h)' = Res("done", param'[h], ep'[h])
      BY <1>2, <2>1, <2>2, <2>3 DEF ResultOf, Res
    <3> QED BY <3>1, <3>2, <3>3
  <2>4. CASE ~Told(h)
    <3>1. ASSUME NEW sg \in hand[h]
          PROVE  op'[sg.g] = op[sg.g] /\ nops'[sg.g] = nops[sg.g]
      <4>1. sg.g \in G /\ pc[sg.g] # "idle"
        BY <1>0, <3>1 DEF HandInv, InHand, Parked, Sudog
      <4>2. CASE sg.g = g
        BY <4>1, <4>2, NopsKept
      <4>3. CASE sg.g # g
        BY <1>0, <4>1, <4>3, Frame DEF StepOf
      <4> QED BY <4>2, <4>3
    <3>2. \A sg \in hand[h] : Elem(sg.g)' = <<sg.g, nops'[sg.g]>> /\ Elem(sg.g) = <<sg.g, nops[sg.g]>>
      BY DEF Elem
    <3>3. \A sg : Takes(h, sg)' <=> Takes(h, sg)
      BY <1>1, <3>1 DEF Takes, Sync, Ch, CaseDir
    <3>4. Closing(h)' = Closing(h)
      BY <1>1 DEF Closing
    <3>5. CASE \E sg : Takes(h, sg)
      <4>1. PICK sg : Takes(h, sg)
        BY <3>5
      <4>2. sg \in hand[h] /\ Takes(h, sg)'
        BY <3>3, <4>1 DEF Takes
      <4>3. AbsResult(h) = Res(out[h].st, out[h].cas, Elem(sg.g))
        BY <1>2, <1>7, <2>4, <4>1 DEF ResultOf
      <4>4. AbsResult(h)' = Res(out'[h].st, out'[h].cas, Elem(sg.g)')
        BY <1>2, <2>1, <2>2, <2>4, <4>2 DEF ResultOf, Res
      <4> QED BY <1>1, <3>1, <3>2, <4>2, <4>3, <4>4
    <3>6. CASE \A sg : ~Takes(h, sg)
      <4>1. AbsResult(h) = IF Closing(h) THEN Res("done", 1, NoVal) ELSE Res(out[h].st, out[h].cas, ep[h])
        BY <1>2, <1>7, <2>4, <3>6 DEF ResultOf
      <4>2. AbsResult(h)' = IF Closing(h)' THEN Res("done", 1, NoVal) ELSE Res(out'[h].st, out'[h].cas, ep'[h])
        BY <1>2, <2>1, <2>2, <2>4, <3>3, <3>6 DEF ResultOf, Res
      <4> QED BY <1>1, <3>4, <4>1, <4>2
    <3> QED BY <3>5, <3>6
  <2> QED BY <2>3, <2>4
<1> QED BY <1>6, <1>7 DEF Claimed

(* In particular when nobody comes into or leaves the hand of g.           *)
LEMMA OthersSame ==
    ASSUME AllInv, AllInv', NEW g \in G, StepOf(g), hand' = hand, ~Wakeup(g)
    PROVE  \A h \in G : h # g => AbsResult(h)' = AbsResult(h)
<1> SUFFICES ASSUME NEW h \in G, h # g PROVE AbsResult(h)' = AbsResult(h)
  OBVIOUS
<1>1. TypeOK /\ OpShape /\ LockInv /\ LiveInv /\ ProgressInv
  BY DEF AllInv, IInv, RefInv
<1>2. ep'[h] = ep[h]
  BY <1>1, OutFrame
<1>3. pc[h] \in {"syncwait", "selpark", "pass3"} => param'[h] = param[h]
  BY <1>1, CloseParam, OutFrame
<1> QED BY <1>2, <1>3, OtherSame

(***************************************************************************)
(* Steps that the abstract channel does not see.                           *)
(***************************************************************************)
LEMMA Stutter ==
    ASSUME UNCHANGED <<hchan, closed, op, nops>>, \A h \in G : AbsResult(h)' = AbsResult(h)
    PROVE  UNCHANGED Abs!vars
<1>1. \A c \in Chan : AbsQueue(c)' = AbsQueue(c)
  BY QueueSame DEF hchan
<1> QED BY <1>1 DEF Abs!vars

(* The steps that only look, queue and unlink.                             *)
LEMMA LooksOnly ==
    ASSUME NEW g \in G, ParkUnlock(g) \/ SelDequeue(g) \/ SelEnqueue(g) \/ PollNext(g)
    PROVE  UNCHANGED Abs!vars
<1>1. UNCHANGED <<hand, pc, param, out, ep, op, nops, held>> /\ UNCHANGED <<hchan, closed>>
  BY DEF ParkUnlock, SelDequeue, SelEnqueue, PollNext
<1> QED BY <1>1, ResultSame, Stutter

(* The steps between two points at which the operation is pending.         *)
LEMMA StaysPending ==
    ASSUME AllInv, AllInv', NEW g \in G, StepOf(g),
           \/ (NilChan(g) /\ op[g].block) \/ ChanPark(g) \/ SelBlock(g) \/ SelPark(g)
           \/ SelRetry(g) \/ (SelLock(g) /\ ~Told(g))
    PROVE  UNCHANGED Abs!vars
<1>1. /\ UNCHANGED <<hchan, closed, op, nops>> /\ hand' = hand /\ ~Wakeup(g)
      /\ pc[g] \in Busy \ {"closer", "closew"} /\ pc'[g] \in Busy \ {"closer", "closew"}
      /\ ~Parked(g) /\ ~Told(g) /\ ~Told(g)'
  <2>0. pc \in [G -> PC] /\ param \in [G -> Nat] /\ status \in [G -> {"Gwaiting", "Grunnable"}]
    BY DEF AllInv, IInv, TypeOK
  <2> USE <2>0 DEF Goto, Park, Busy, PC, Parked, Told
  <2>1. CASE NilChan(g) /\ op[g].block
    BY <2>1 DEF NilChan, Wakeup
  <2>2. CASE ChanPark(g)
    BY <2>2 DEF ChanPark, InSection, Wakeup
  <2>3. CASE SelBlock(g)
    BY <2>3 DEF SelBlock, Wakeup
  <2>4. CASE SelPark(g)
    BY <2>4 DEF SelPark, Wakeup
  <2>5. CASE SelRetry(g)
    BY <2>5 DEF SelRetry, Wakeup
  <2>6. CASE SelLock(g) /\ ~Told(g)
    <3>1. /\ UNCHANGED <<hchan, closed, op, nops>> /\ hand' = hand /\ param' = param
          /\ \/ pc[g] = "sellock" /\ pc'[g] \in {"sellock", "pass1"}
             \/ pc[g] = "selpark" /\ status[g] = "Grunnable" /\ pc'[g] \in {"selpark", "pass3"}
      BY <2>6 DEF SelLock
    <3> QED BY <2>6, <3>1 DEF Wakeup
  <2> QED BY <2>1, <2>2, <2>3, <2>4, <2>5, <2>6
<1>2. ViewOf(g) /\ ViewOf(g)'
  BY Views, ViewsNext
<1>3. ~Claimed(g)
  BY <1>1, <1>2 DEF ViewOf
<1>4. ~Claimed(g)'
  <2>1. op' = op /\ hand' = hand
    BY <1>1
  <2> QED BY <1>3, <2>1 DEF Claimed, Sync, Ch
<1>5. AbsResult(g) = Res("pending", 0, NoVal)
  BY <1>1, <1>2, <1>3 DEF ViewOf
<1>6. AbsResult(g)' = Res("pending", 0, NoVal)
  BY <1>1, <1>2, <1>4 DEF ViewOf, Res
<1>7. \A h \in G : AbsResult(h)' = AbsResult(h)
  BY <1>1, <1>5, <1>6, OthersSame
<1> QED BY <1>1, <1>7, Stutter

(* A goroutine that was told goes on with what it was told.                *)
LEMMA ActsOnTold ==
    ASSUME AllInv, AllInv', NEW g \in G, StepOf(g), Told(g),
           SelLock(g) \/ SelFired(g) \/ SyncWake(g)
    PROVE  UNCHANGED Abs!vars
<1>0. /\ pc \in [G -> PC] /\ param \in [G -> Nat] /\ status \in [G -> {"Gwaiting", "Grunnable"}]
      /\ out \in [G -> Outcome] /\ ProgressOf(g)
  BY DEF AllInv, IInv, TypeOK, RefInv, ProgressInv
<1>1. /\ UNCHANGED <<hchan, closed, op, nops>> /\ hand' = hand /\ ~Wakeup(g) /\ param' = param /\ ep' = ep
      /\ ~Parked(g) /\ \A sg : ~Takes(g, sg)'
      /\ \/ Told(g)' /\ pc'[g] \in Busy
         \/ pc'[g] \notin Busy /\ out'[g].st = "done" /\ out'[g].cas = param[g]
  <2>1. hand[g] = {}
    BY Views DEF ViewOf, Told
  <2> USE <1>0, <2>1 DEF Goto, Busy, PC, Parked, Told
  <2>2. CASE SelLock(g)
    <3>1. /\ UNCHANGED <<hchan, closed, op, nops>> /\ hand' = hand /\ param' = param /\ ep' = ep
          /\ pc[g] = "selpark" /\ status[g] = "Grunnable" /\ pc'[g] \in {"selpark", "pass3"}
      BY <2>2 DEF SelLock
    <3> QED BY <3>1 DEF Wakeup, Takes
  <2>3. CASE SelFired(g)
    BY <2>3 DEF SelFired, Wakeup, Finish, Takes
  <2>4. CASE SyncWake(g)
    <3>1. param[g] = 1
      BY <2>4 DEF SyncWake, ProgressOf
    <3> QED BY <2>4, <3>1 DEF SyncWake, Wakeup, Finish, Takes
  <2> QED BY <2>2, <2>3, <2>4
<1>2. ViewOf(g) /\ ViewOf(g)' /\ ResultOf(g) /\ ResultOf(g)'
  BY Views, ViewsNext, Results, ResultsNext DEF AllInv
<1>3. ~Claimed(g)
  BY <1>1, <1>2 DEF ViewOf
<1>4. ~Claimed(g)'
  <2>1. op' = op /\ hand' = hand
    BY <1>1
  <2> QED BY <1>3, <2>1 DEF Claimed, Sync, Ch
<1>5. AbsResult(g) = Res("done", param[g], ep[g])
  BY <1>2, <1>3 DEF ResultOf
<1>6. AbsResult(g)' = Res("done", param[g], ep[g])
  <2>1. CASE Told(g)'
    BY <1>1, <1>2, <1>4, <2>1 DEF ResultOf, Res
  <2>2. CASE pc'[g] \notin Busy /\ out'[g].st = "done" /\ out'[g].cas = param[g]
    BY <1>1, <1>2, <2>2 DEF ViewOf, Res
  <2> QED BY <1>1, <2>1, <2>2
<1>7. \A h \in G : AbsResult(h)' = AbsResult(h)
  BY <1>1, <1>5, <1>6, OthersSame
<1> QED BY <1>1, <1>7, Stutter

(* selunlock by the goroutine itself.                                      *)
LEMMA UnlocksOnly ==
    ASSUME AllInv, AllInv', NEW g \in G, StepOf(g), SelUnlock(g)
    PROVE  UNCHANGED Abs!vars
<1>0. pc \in [G -> PC]
  BY DEF AllInv, IInv, TypeOK
<1>1. /\ UNCHANGED <<hchan, closed, op, nops>> /\ hand' = hand /\ ~Wakeup(g) /\ ep' = ep /\ out' = out
      /\ pc[g] \notin Busy /\ pc'[g] \notin Busy
  BY <1>0 DEF SelUnlock, Goto, Busy, Wakeup
<1>2. ViewOf(g) /\ ViewOf(g)'
  BY Views, ViewsNext
<1>3. \A sg : (Takes(g, sg)' <=> Takes(g, sg)) /\ Elem(sg.g)' = Elem(sg.g)
  BY <1>1 DEF Takes, Sync, Ch, CaseDir, Elem
<1>4. AbsResult(g)' = AbsResult(g)
  <2>1. CASE \E sg : Takes(g, sg)
    <3>1. PICK sg : Takes(g, sg)
      BY <2>1
    <3>2. AbsResult(g) = Res(out[g].st, out[g].cas, Elem(sg.g))
      BY <1>1, <1>2, <3>1 DEF ViewOf
    <3>3. AbsResult(g)' = Res(out'[g].st, out'[g].cas, Elem(sg.g)')
      BY <1>1, <1>2, <1>3, <3>1 DEF ViewOf, Res
    <3> QED BY <1>1, <1>3, <3>2, <3>3
  <2>2. CASE \A sg : ~Takes(g, sg)
    <3>1. AbsResult(g) = Res(out[g].st, out[g].cas, ep[g])
      BY <1>1, <1>2, <2>2 DEF ViewOf
    <3>2. AbsResult(g)' = Res(out'[g].st, out'[g].cas, ep'[g])
      BY <1>1, <1>2, <1>3, <2>2 DEF ViewOf, Res
    <3> QED BY <1>1, <3>1, <3>2
  <2> QED BY <2>1, <2>2
<1>5. \A h \in G : AbsResult(h)' = AbsResult(h)
  BY <1>1, <1>4, OthersSame
<1> QED BY <1>1, <1>5, Stutter

(* closechan after it has set c->closed.                                   *)
LEMMA ReleasesOnly ==
    ASSUME AllInv, AllInv', NEW g \in G, StepOf(g), CloseRelease(g)
    PROVE  UNCHANGED Abs!vars
<1>0. pc \in [G -> PC] /\ out \in [G -> Outcome] /\ ProgressOf(g)
  BY DEF AllInv, IInv, TypeOK, RefInv, ProgressInv
<1>1. /\ UNCHANGED <<hchan, closed, op, nops>> /\ hand' = hand /\ ~Wakeup(g) /\ ep' = ep
      /\ pc[g] \in {"closer", "closew"} /\ held[g] # {}
      /\ \/ pc'[g] \in {"closer", "closew"} /\ held' = held
         \/ pc'[g] = "idle" /\ out'[g].st = "done" /\ out'[g].cas = 1
  BY <1>0 DEF CloseRelease, Goto, Finish, Wakeup
<1>2. ViewOf(g) /\ ViewOf(g)'
  BY Views, ViewsNext
<1>3. Closing(g) /\ ep[g] = NoVal
  BY <1>0, <1>1 DEF Closing, ProgressOf, Busy, PC, Told
<1>4. AbsResult(g) = Res("done", 1, NoVal)
  BY <1>1, <1>2, <1>3 DEF ViewOf
<1>5. AbsResult(g)' = Res("done", 1, NoVal)
  <2>1. CASE pc'[g] \in {"closer", "closew"} /\ held' = held
    <3>1. Closing(g)'
      BY <1>1, <1>3, <2>1 DEF Closing
    <3> QED BY <1>2, <2>1, <3>1 DEF ViewOf, Res
  <2>2. CASE pc'[g] = "idle" /\ out'[g].st = "done" /\ out'[g].cas = 1
    <3>1. pc'[g] \notin Busy
      BY <2>2 DEF Busy
    <3>2. \A sg : ~Takes(g, sg)'
      BY <1>2, <2>2 DEF ViewOf, Takes
    <3> QED BY <1>1, <1>2, <1>3, <2>2, <3>1, <3>2 DEF ViewOf, Res
  <2> QED BY <1>1, <2>1, <2>2
<1>6. \A h \in G : AbsResult(h)' = AbsResult(h)
  BY <1>1, <1>4, <1>5, OthersSame
<1> QED BY <1>1, <1>6, Stutter

(* The copy to the partner, gp->param = sg and ready(gp).                  *)
LEMMA WakesOnly ==
    ASSUME AllInv, AllInv', NEW g \in G, StepOf(g), Wakeup(g)
    PROVE  UNCHANGED Abs!vars
<1>0. /\ TypeOK /\ OpShape /\ HandInv /\ ProgressInv /\ pc \in [G -> PC] /\ ep \in [G -> Val \cup {NoVal}]
      /\ param \in [G -> Nat] /\ hand \in [G -> SUBSET Sudog]
  BY DEF AllInv, IInv, TypeOK, RefInv
<1>1. PICK sg \in hand[g] :
         /\ hand[g] = {sg} /\ InHand(g, sg) /\ sg.g \in G /\ sg.g # g /\ sg.cas \in Nat /\ sg.cas >= 1
         /\ Ready(sg.g)
         /\ CaseDir(sg.g, sg.cas) \in Dir
         /\ Sync(sg) => pc[sg.g] \in {"syncwait", "selpark"}
         /\ param' = IF Sync(sg) THEN [param EXCEPT ![sg.g] = sg.cas] ELSE param
         /\ ep' = IF Sync(sg)
                  THEN IF CaseDir(sg.g, sg.cas) = "recv" THEN [ep EXCEPT ![sg.g] = Elem(g)]
                       ELSE [ep EXCEPT ![g] = Elem(sg.g)]
                  ELSE ep
  BY <1>0, WakeupWrites
<1>2. /\ UNCHANGED <<hchan, closed, op, nops>> /\ out' = out /\ pc[g] = "ready"
      /\ hand' = [hand EXCEPT ![g] = {}] /\ pc' = [pc EXCEPT ![g] = "idle"]
  BY DEF Wakeup, Goto
<1>3. hand'[g] = {} /\ pc[g] \notin Busy /\ pc'[g] \notin Busy /\ pc'[sg.g] = pc[sg.g]
  BY <1>0, <1>1, <1>2 DEF Busy
<1>4. ASSUME NEW h \in G, h # g, h # sg.g \/ ~Sync(sg) PROVE AbsResult(h)' = AbsResult(h)
  <2>1. ep'[h] = ep[h] /\ param'[h] = param[h]
    BY <1>0, <1>1, <1>4
  <2>2. \A s : s.g = h /\ Sync(s) => (s \in hand'[g] <=> s \in hand[g])
    BY <1>1, <1>3, <1>4
  <2> QED BY <1>4, <2>1, <2>2, OtherSame
<1>5. ASSUME Sync(sg) PROVE AbsResult(sg.g)' = AbsResult(sg.g)
  <2>1. PICK h : h = sg.g
    OBVIOUS
  <2>2. h \in G /\ h # g /\ ResultOf(h) /\ ResultOf(h)' /\ ProgressOf(h)
    BY <1>0, <1>1, <2>1, Results, ResultsNext DEF AllInv, ProgressInv
  <2>3. AbsResult(h) = Res("done", sg.cas, IF CaseDir(h, sg.cas) = "recv" THEN Elem(g) ELSE NoVal)
    BY <1>5, <2>1, <2>2 DEF ResultOf
  <2>4. ~Claimed(h)'
    <3>1. SUFFICES ASSUME NEW k \in G, NEW s \in hand'[k], s.g = h PROVE FALSE
      BY DEF Claimed
    <3>2. k # g /\ s \in hand[k]
      BY <1>0, <1>2, <1>3, <3>1
    <3> QED BY <1>0, <2>1, <3>1, <3>2 DEF HandInv
  <2>5. param'[h] = sg.cas /\ Told(h)'
    BY <1>0, <1>1, <1>3, <1>5, <2>1, <2>2 DEF Told
  <2>6. ep[h] = NoVal
    <3>1. status[h] = "Gwaiting"
      BY <1>1, <2>1 DEF InHand, Parked
    <3>2. ~Told(h) /\ pc[h] \in Busy
      BY <1>1, <1>5, <2>1, <2>2, <3>1 DEF ProgressOf, Told, Busy, PC
    <3> QED BY <2>2, <3>2 DEF ProgressOf
  <2>7. ep'[h] = IF CaseDir(h, sg.cas) = "recv" THEN Elem(g) ELSE NoVal
    BY <1>0, <1>1, <1>5, <2>1, <2>2, <2>6
  <2>8. AbsResult(h)' = Res("done", param'[h], ep'[h])
    BY <2>2, <2>4, <2>5 DEF ResultOf, Res
  <2> QED BY <2>1, <2>3, <2>5, <2>7, <2>8
<1>6. AbsResult(g)' = AbsResult(g)
  <2>1. ViewOf(g) /\ ViewOf(g)'
    BY Views, ViewsNext
  <2>2. \A s : ~Takes(g, s)'
    BY <1>3 DEF Takes
  <2>3. AbsResult(g)' = Res(out[g].st, out[g].cas, ep'[g])
    BY <1>2, <1>3, <2>1, <2>2 DEF ViewOf, Res
  <2>4. CASE Takes(g, sg)
    <3>1. AbsResult(g) = Res(out[g].st, out[g].cas, Elem(sg.g))
      BY <1>3, <2>1, <2>4 DEF ViewOf
    <3>2. ep'[g] = Elem(sg.g)
      BY <1>0, <1>1, <2>4 DEF Takes
    <3> QED BY <2>3, <3>1, <3>2
  <2>5. CASE ~Takes(g, sg)
    <3>1. \A s : ~Takes(g, s)
      BY <1>1, <2>5 DEF Takes
    <3>2. AbsResult(g) = Res(out[g].st, out[g].cas, ep[g])
      BY <1>3, <2>1, <3>1 DEF ViewOf
    <3>3. ep'[g] = ep[g]
      BY <1>0, <1>1, <2>5 DEF Takes, Dir
    <3> QED BY <2>3, <3>2, <3>3
  <2> QED BY <2>4, <2>5
<1>7. \A h \in G : AbsResult(h)' = AbsResult(h)
  BY <1>4, <1>5, <1>6
<1> QED BY <1>2, <1>7, Stutter

(***************************************************************************)
(* Calls.                                                                  *)
(***************************************************************************)
LEMMA OneResult ==
    ASSUME NEW g \in G, \A h \in G : h # g => AbsResult(h)' = AbsResult(h), NEW r, AbsResult(g)' = r
    PROVE  [h \in G |-> AbsResult(h)]' = [[h \in G |-> AbsResult(h)] EXCEPT ![g] = r]
OBVIOUS

LEMMA SameQueues ==
    ASSUME UNCHANGED hchan
    PROVE  [c \in Chan |-> AbsQueue(c)]' = [c \in Chan |-> AbsQueue(c)]
<1>1. \A c \in Chan : AbsQueue(c)' = AbsQueue(c)
  BY QueueSame DEF hchan
<1> QED BY <1>1

LEMMA Calls ==
    ASSUME AllInv, AllInv', NEW g \in G, StepOf(g), Invoke(g) \/ SelInvoke(g)
    PROVE  Abs!Call(g)
<1>0. pc \in [G -> PC] /\ nops \in [G -> Nat] /\ op \in [G -> Op] /\ ProgressOf(g) /\ LocksOf(g)
  BY DEF AllInv, IInv, TypeOK, RefInv, ProgressInv, LockInv
<1>1. /\ pc[g] = "idle" /\ nops[g] < MaxOps[g] /\ nops' = [nops EXCEPT ![g] = @ + 1]
      /\ hand' = hand /\ held' = held /\ ~Wakeup(g) /\ UNCHANGED <<hchan, closed>>
      /\ pc'[g] \in {"closer", "chanop", "pass1", "sellock"}
  <2>1. CASE Invoke(g)
    BY <1>0, <2>1 DEF Invoke, Goto, Wakeup
  <2>2. CASE SelInvoke(g)
    BY <1>0, <2>2 DEF SelInvoke, Goto, Wakeup
  <2> QED BY <2>1, <2>2
<1>2. ViewOf(g) /\ ViewOf(g)'
  BY Views, ViewsNext
<1>3. held'[g] = {} /\ hand[g] = {}
  BY <1>0, <1>1, <1>2 DEF LocksOf, SelPC, ViewOf
<1>4. AbsResult(g) = Res(out[g].st, out[g].cas, ep[g]) /\ out[g].st # "pending"
  <2>1. pc[g] \notin Busy /\ \A sg : ~Takes(g, sg)
    BY <1>1, <1>3 DEF Busy, Takes
  <2> QED BY <1>0, <1>2, <2>1 DEF ViewOf, ProgressOf
<1>5. AbsResult(g)' = Res("pending", 0, NoVal)
  <2>1. pc'[g] \in Busy /\ ~Parked(g)' /\ ~Told(g)' /\ ~Closing(g)'
    BY <1>1, <1>3 DEF Busy, PC, Parked, Told, Closing
  <2> QED BY <1>2, <2>1 DEF ViewOf, Res
<1>6. [h \in G |-> AbsResult(h)]' = [[h \in G |-> AbsResult(h)] EXCEPT ![g] = Res("pending", 0, NoVal)]
  BY <1>1, <1>5, OthersSame, OneResult
<1>7. \E o \in Menu[g] : \/ o.fn # "selectgo" /\ op' = [op EXCEPT ![g] = o]
                         \/ /\ o.fn = "selectgo"
                            /\ \E cases \in Abs!NotNil(o.cases) : op' = [op EXCEPT ![g] = [o EXCEPT !.cases = cases]]
  <2>1. CASE Invoke(g)
    BY <2>1 DEF Invoke
  <2>2. CASE SelInvoke(g)
    <3>1. \E o \in Menu[g] : o.fn = "selectgo" /\ \E cases \in Competing(o.cases) : op' = [op EXCEPT ![g] = [o EXCEPT !.cases = cases]]
      BY <2>2 DEF SelInvoke
    <3>2. \A s : Abs!NotNil(s) = Competing(s)
      BY DEF Abs!NotNil, Competing, Abs!Increasing, Increasing, Nil
    <3> QED BY <3>1, <3>2
  <2> QED BY <2>1, <2>2
<1>8. ~Abs!Pending(g)
  BY <1>4 DEF Abs!Pending, Res
<1> QED BY <1>1, <1>6, <1>7, <1>8, SameQueues DEF Abs!Call, Abs!Result, Res

(***************************************************************************)
(* Operations that end alone.                                              *)
(***************************************************************************)
(* The step at which a pending operation of g ends, claiming nobody.       *)
Ends(g, st, i, v) ==
    /\ ~Wakeup(g) /\ hand' = hand
    /\ pc[g] \in Busy /\ ~Parked(g) /\ ~Told(g) /\ ~Closing(g)
    /\ pc'[g] \notin Busy
    /\ out'[g] = [st |-> st, cas |-> i] /\ ep'[g] = v

LEMMA Ending ==
    ASSUME AllInv, AllInv', NEW g \in G, StepOf(g), NEW st, NEW i, NEW v, Ends(g, st, i, v)
    PROVE  /\ AbsResult(g) = Res("pending", 0, NoVal) /\ Abs!Pending(g)
           /\ [h \in G |-> AbsResult(h)]' = [[h \in G |-> AbsResult(h)] EXCEPT ![g] = Res(st, i, v)]
<1>1. ViewOf(g) /\ ViewOf(g)'
  BY Views, ViewsNext
<1>2. AbsResult(g) = Res("pending", 0, NoVal)
  BY <1>1 DEF ViewOf, Ends
<1>3. \A sg : ~Takes(g, sg)'
  <2>1. hand'[g] = {}
    BY <1>1 DEF ViewOf, Ends, Busy
  <2> QED BY <2>1 DEF Takes
<1>4. AbsResult(g)' = Res(st, i, v)
  BY <1>1, <1>3 DEF ViewOf, Ends, Res
<1>5. [h \in G |-> AbsResult(h)]' = [[h \in G |-> AbsResult(h)] EXCEPT ![g] = Res(st, i, v)]
  BY <1>4, OthersSame, OneResult DEF Ends
<1>6. Abs!Pending(g)
  BY <1>2 DEF Abs!Pending, Res
<1> QED BY <1>2, <1>5, <1>6

(* Which case of g it is that wants what.                                  *)
LEMMA WantsCase ==
    ASSUME TypeOK, NEW g \in G, NEW i \in 1 .. NCase(g), Ch(g, i) \in Chan
    PROVE  /\ op[g].cases[i] = [dir |-> CaseDir(g, i), ch |-> Ch(g, i)]
           /\ DOMAIN op[g].cases = 1 .. NCase(g) /\ CaseDir(g, i) \in Dir
<1>1. op[g].cases \in Seq(Case)
  BY DEF TypeOK, Op
<1>2. op[g].cases[i] \in Case
  BY <1>1 DEF NCase
<1>3. DOMAIN op[g].cases = 1 .. NCase(g)
  BY <1>1 DEF NCase
<1> QED BY <1>2, <1>3 DEF Case, Ch, CaseDir

(* A non-blocking operation that nothing is ready for.                     *)
LEMMA GivesUp ==
    ASSUME AllInv, AllInv', NEW g \in G, StepOf(g), Ends(g, "default", 0, NoVal),
           UNCHANGED <<hchan, closed, op, nops>>, ~op[g].block, pc[g] \notin {"closer", "closew"},
           \A i \in 1 .. NCase(g) : Ch(g, i) \in Chan => NotReady(g, i)
    PROVE  Abs!GiveUp(g)
<1>0. TypeOK /\ op[g].fn # "closechan" /\ op[g].cases \in Seq(Case)
  <2>1. TypeOK /\ ProgressOf(g)
    BY DEF AllInv, IInv, RefInv, ProgressInv
  <2>2. pc[g] # "idle"
    BY DEF Ends, Busy
  <2> QED BY <2>1, <2>2 DEF ProgressOf, TypeOK, Op
<1>1. ASSUME NEW i \in DOMAIN op[g].cases, NEW c \in Chan
      PROVE  /\ Abs!Wants(g, i, "send", c) => ~closed[c] /\ Len(AbsQueue(c)) = Cap[c]
             /\ Abs!Wants(g, i, "recv", c) => ~closed[c] /\ AbsQueue(c) = << >>
  <2>1. i \in 1 .. NCase(g) /\ QueueOf(c)
    BY <1>0, QueueType DEF NCase
  <2>2. ASSUME NEW d, Abs!Wants(g, i, d, c) PROVE NotReady(g, i) /\ Ch(g, i) = c /\ CaseDir(g, i) = d
    <3>1. op[g].cases[i] = [dir |-> d, ch |-> c]
      BY <2>2 DEF Abs!Wants
    <3>2. Ch(g, i) = c /\ CaseDir(g, i) = d
      BY <3>1 DEF Ch, CaseDir
    <3> QED BY <2>1, <3>2
  <2>3. Abs!Wants(g, i, "send", c) => ~closed[c] /\ qcount[c] = Cap[c]
    BY <2>2 DEF NotReady
  <2>4. Abs!Wants(g, i, "recv", c) => ~closed[c] /\ qcount[c] = 0
    BY <2>2 DEF NotReady
  <2> QED BY <2>1, <2>3, <2>4 DEF QueueOf
<1>2. /\ Abs!Pending(g)
      /\ [h \in G |-> AbsResult(h)]' = [[h \in G |-> AbsResult(h)] EXCEPT ![g] = Res("default", 0, NoVal)]
  BY Ending
<1> QED BY <1>0, <1>1, <1>2, SameQueues DEF Abs!GiveUp, Abs!Result, Res

(* An operation that finds its channel closed.                             *)
LEMMA FindsClosed ==
    ASSUME AllInv, AllInv', NEW g \in G, StepOf(g), NEW i \in 1 .. NCase(g), Ch(g, i) \in Chan,
           closed[Ch(g, i)], CaseDir(g, i) = "recv" => qcount[Ch(g, i)] = 0,
           Ends(g, IF CaseDir(g, i) = "send" THEN "panic" ELSE "closed", i, NoVal),
           UNCHANGED <<hchan, closed, op, nops>>, pc[g] \notin {"closer", "closew"}
    PROVE  Abs!SendClosed(g, i, Ch(g, i)) \/ Abs!RecvClosed(g, i, Ch(g, i))
<1>0. TypeOK /\ op[g].fn # "closechan"
  <2>1. TypeOK /\ ProgressOf(g)
    BY DEF AllInv, IInv, RefInv, ProgressInv
  <2>2. pc[g] # "idle"
    BY DEF Ends, Busy
  <2> QED BY <2>1, <2>2 DEF ProgressOf
<1>1. PICK c, d : c = Ch(g, i) /\ d = CaseDir(g, i)
  OBVIOUS
<1>2. c \in Chan /\ d \in Dir /\ i \in DOMAIN op[g].cases /\ op[g].cases[i] = [dir |-> d, ch |-> c]
  BY <1>0, <1>1, WantsCase
<1>3. /\ Abs!Pending(g)
      /\ [h \in G |-> AbsResult(h)]' = [[h \in G |-> AbsResult(h)] EXCEPT ![g] =
                                           Res(IF d = "send" THEN "panic" ELSE "closed", i, NoVal)]
  BY <1>1, Ending
<1>4. Abs!Wants(g, i, d, c)
  BY <1>0, <1>2, <1>3 DEF Abs!Wants
<1>5. CASE d = "send"
  BY <1>1, <1>2, <1>3, <1>4, <1>5, SameQueues DEF Abs!SendClosed, Abs!Result, Res
<1>6. CASE d = "recv"
  <2>1. AbsQueue(c) = << >>
    BY <1>0, <1>1, <1>2, <1>6, QueueType DEF QueueOf
  <2> QED BY <1>1, <1>2, <1>3, <1>4, <1>6, <2>1, SameQueues DEF Abs!RecvClosed, Abs!Result, Res
<1> QED BY <1>1, <1>2, <1>5, <1>6 DEF Dir

(* What is known of g in the states that matter here.                      *)
LEMMA ActorFacts ==
    ASSUME AllInv, NEW g \in G
    PROVE  /\ TypeOK /\ OpShape /\ LockInv /\ LiveInv /\ HandInv /\ ParamInv
           /\ ProgressOf(g) /\ LocksOf(g) /\ ShapeOf(g) /\ SeenOf(g) /\ EnqueuedOf(g)
           /\ pc \in [G -> PC] /\ out \in [G -> Outcome] /\ ep \in [G -> Val \cup {NoVal}]
           /\ held \in [G -> SUBSET Chan] /\ closed \in [Chan -> BOOLEAN] /\ param \in [G -> Nat]
           /\ status \in [G -> {"Gwaiting", "Grunnable"}] /\ hand \in [G -> SUBSET Sudog]
BY DEF AllInv, IInv, RefInv, QueueInv, ProgressInv, LockInv, OpShape, SeenInv, TypeOK

(* c == nil and not block.                                                 *)
LEMMA NilGivesUp ==
    ASSUME AllInv, AllInv', NEW g \in G, StepOf(g), NilChan(g), ~op[g].block
    PROVE  Abs!GiveUp(g)
<1>0. /\ ProgressOf(g) /\ pc \in [G -> PC] /\ out \in [G -> Outcome] /\ LocksOf(g)
  BY ActorFacts
<1>1. /\ pc[g] = "chanop" /\ pc'[g] = "idle" /\ out'[g] = [st |-> "default", cas |-> 0] /\ ep' = ep
      /\ hand' = hand /\ UNCHANGED <<hchan, closed, op, nops>> /\ Ch(g, 1) = Nil
  BY <1>0 DEF NilChan, Goto, Finish
<1>2. held[g] = {} /\ ep[g] = NoVal /\ NCase(g) = 1
  BY <1>0, <1>1 DEF LocksOf, SelPC, ProgressOf, Busy, PC, PlainPC, Told
<1>3. Ends(g, "default", 0, NoVal)
  BY <1>1, <1>2 DEF Ends, Wakeup, Busy, PC, Parked, Told, Closing
<1>4. \A i \in 1 .. NCase(g) : Ch(g, i) \notin Chan
  BY <1>1, <1>2, ChanAddresses DEF Nil
<1> QED BY <1>1, <1>3, <1>4, GivesUp

(* chansend and chanrecv in their critical section.                        *)
LEMMA SectionFacts ==
    ASSUME AllInv, NEW g \in G, InSection(g)
    PROVE  /\ pc[g] \in Busy \ {"closer", "closew"} /\ pc[g] \in {"chanop", "asyncwait"}
           /\ ~Parked(g) /\ ~Told(g) /\ ~Closing(g) /\ held[g] = {} /\ hand[g] = {}
           /\ NCase(g) = 1 /\ 1 \in 1 .. NCase(g) /\ Ch(g, 1) \in Chan /\ CaseDir(g, 1) \in Dir
           /\ ep[g] = NoVal
<1>0. TypeOK /\ OpShape /\ ProgressOf(g) /\ LocksOf(g) /\ ShapeOf(g) /\ ViewOf(g)
  BY ActorFacts, Views
<1>1. pc[g] \in {"chanop", "asyncwait"} /\ (pc[g] = "asyncwait" => status[g] = "Grunnable") /\ Ch(g, 1) # Nil
  BY DEF InSection
<1>2. pc[g] \in Busy \ {"closer", "closew"} /\ ~Parked(g) /\ ~Told(g) /\ pc[g] \in PlainPC
  BY <1>1 DEF Busy, PC, Parked, Told, PlainPC
<1>3. held[g] = {} /\ NCase(g) = 1 /\ ep[g] = NoVal /\ hand[g] = {}
  BY <1>0, <1>1, <1>2 DEF LocksOf, SelPC, ProgressOf, ViewOf
<1>4. Ch(g, 1) \in Chan /\ CaseDir(g, 1) \in Dir
  BY <1>0, <1>1, <1>2, PlainChan
<1> QED BY <1>1, <1>2, <1>3, <1>4 DEF Closing

LEMMA PlainGivesUp ==
    ASSUME AllInv, AllInv', NEW g \in G, StepOf(g), ChanNotReady(g)
    PROVE  Abs!GiveUp(g)
<1>0. TypeOK /\ pc \in [G -> PC] /\ out \in [G -> Outcome]
  BY ActorFacts
<1>1. /\ InSection(g) /\ pc'[g] = "idle" /\ out'[g] = [st |-> "default", cas |-> 0] /\ ep' = ep /\ ~op[g].block
      /\ hand' = hand /\ UNCHANGED <<hchan, closed, op, nops>>
      /\ ~SeesClosed(Ch(g, 1), CaseDir(g, 1)) /\ ~Proceeds(Ch(g, 1), CaseDir(g, 1))
  BY <1>0 DEF ChanNotReady, Goto, Finish
<1>2. /\ pc[g] \in Busy \ {"closer", "closew"} /\ pc[g] \in {"chanop", "asyncwait"}
      /\ ~Parked(g) /\ ~Told(g) /\ ~Closing(g) /\ NCase(g) = 1 /\ Ch(g, 1) \in Chan /\ CaseDir(g, 1) \in Dir
      /\ ep[g] = NoVal
  BY <1>1, SectionFacts
<1>3. Ends(g, "default", 0, NoVal)
  BY <1>1, <1>2 DEF Ends, Wakeup, Busy
<1>4. qcount[Ch(g, 1)] = IF CaseDir(g, 1) = "send" THEN Cap[Ch(g, 1)] ELSE 0
  BY <1>0, <1>1, <1>2, StuckBuffer
<1>5. ~closed[Ch(g, 1)]
  BY <1>1, <1>2, <1>4 DEF SeesClosed, Dir
<1>6. \A i \in 1 .. NCase(g) : NotReady(g, i)
  BY <1>2, <1>4, <1>5 DEF NotReady
<1> QED BY <1>1, <1>2, <1>3, <1>6, GivesUp

(* pollorder names every case.                                             *)
LEMMA PollAll ==
    ASSUME TypeOK, OpShape, NEW g \in G, EnqueuedOf(g), pc[g] \in SelPC
    PROVE  \A i \in 1 .. NCase(g) : \E j \in 1 .. NCase(g) : pollorder[g][j] = i
<1> DEFINE n == NCase(g)
           f == pollorder[g]
<1>1. n \in Nat /\ f \in [1 .. n -> 1 .. n] /\ \A i, j \in 1 .. n : i # j => f[i] # f[j]
  BY CaseType DEF OpShape, ShapeOf, EnqueuedOf
<1> HIDE DEF n, f
<1>2. f \in Injection(1 .. n, 1 .. n)
  BY <1>1 DEF Injection, IsInjective
<1>3. IsFiniteSet(1 .. n)
  BY <1>1, FS_Interval
<1>4. f \in Surjection(1 .. n, 1 .. n)
  BY <1>2, <1>3, FS_Injection
<1>5. \A i \in 1 .. n : \E j \in 1 .. n : f[j] = i
  BY <1>4 DEF Surjection
<1> QED BY <1>5 DEF n, f

(* The default case of a select.                                           *)
LEMMA SelGivesUp ==
    ASSUME AllInv, AllInv', NEW g \in G, StepOf(g), SelDefault(g)
    PROVE  Abs!GiveUp(g)
<1>0. /\ TypeOK /\ OpShape /\ pc \in [G -> PC] /\ out \in [G -> Outcome] /\ ProgressOf(g) /\ SeenOf(g) /\ EnqueuedOf(g)
  BY ActorFacts
<1>1. /\ pc[g] = "pass1" /\ idx[g] > NCase(g)
      /\ pc'[g] \in {"idle", "selunlock"} /\ out'[g] = [st |-> "default", cas |-> 0] /\ ep' = ep /\ ~op[g].block
      /\ hand' = hand /\ UNCHANGED <<hchan, closed, op, nops>>
  BY <1>0 DEF SelDefault, Goto, Finish
<1>2. pc[g] \in Busy \ {"closer", "closew"} /\ ~Parked(g) /\ ~Told(g) /\ ~Closing(g) /\ ep[g] = NoVal
  BY <1>0, <1>1 DEF Busy, PC, Parked, Told, Closing, ProgressOf
<1>3. Ends(g, "default", 0, NoVal)
  BY <1>1, <1>2 DEF Ends, Wakeup, Busy
<1>4. NCase(g) \in Nat /\ idx[g] \in Nat
  BY <1>0, <1>1, CaseType DEF SelPC, TypeOK
<1>5. \A j \in 1 .. NCase(g) : NotReady(g, pollorder[g][j])
  BY <1>0, <1>1, <1>4 DEF SeenOf
<1>6. \A i \in 1 .. NCase(g) : \E j \in 1 .. NCase(g) : pollorder[g][j] = i
  BY <1>0, <1>1, PollAll DEF SelPC
<1>7. \A i \in 1 .. NCase(g) : NotReady(g, i)
  BY <1>5, <1>6
<1> QED BY <1>1, <1>2, <1>3, <1>7, GivesUp

(* chansend, chanrecv on a closed channel.                                 *)
LEMMA PlainFindsClosed ==
    ASSUME AllInv, AllInv', NEW g \in G, StepOf(g), ChanClosed(g)
    PROVE  Abs!SendClosed(g, 1, Ch(g, 1)) \/ Abs!RecvClosed(g, 1, Ch(g, 1))
<1>0. TypeOK /\ pc \in [G -> PC] /\ out \in [G -> Outcome] /\ ep \in [G -> Val \cup {NoVal}]
  BY ActorFacts
<1>1. /\ InSection(g) /\ pc'[g] = "idle" /\ hand' = hand /\ UNCHANGED <<hchan, closed, op, nops>>
      /\ SeesClosed(Ch(g, 1), CaseDir(g, 1)) /\ FinishClosed(g, CaseDir(g, 1), 1)
  BY <1>0 DEF ChanClosed, Goto
<1>2. /\ pc[g] \in Busy \ {"closer", "closew"} /\ pc[g] \in {"chanop", "asyncwait"}
      /\ ~Parked(g) /\ ~Told(g) /\ ~Closing(g) /\ 1 \in 1 .. NCase(g) /\ Ch(g, 1) \in Chan /\ CaseDir(g, 1) \in Dir
      /\ ep[g] = NoVal
  BY <1>1, SectionFacts
<1>3. /\ out'[g] = [st |-> IF CaseDir(g, 1) = "send" THEN "panic" ELSE "closed", cas |-> 1]
      /\ ep'[g] = NoVal
  BY <1>0, <1>1, <1>2 DEF FinishClosed, Finish
<1>4. Ends(g, IF CaseDir(g, 1) = "send" THEN "panic" ELSE "closed", 1, NoVal)
  BY <1>1, <1>2, <1>3 DEF Ends, Wakeup, Busy
<1>5. closed[Ch(g, 1)] /\ (CaseDir(g, 1) = "recv" => qcount[Ch(g, 1)] = 0)
  BY <1>1 DEF SeesClosed
<1> QED BY <1>1, <1>2, <1>4, <1>5, FindsClosed

(* Released by closechan on an unbuffered channel.                         *)
LEMMA WakesToClosed ==
    ASSUME AllInv, AllInv', NEW g \in G, StepOf(g), SyncWake(g), ~Told(g)
    PROVE  Abs!SendClosed(g, 1, Ch(g, 1)) \/ Abs!RecvClosed(g, 1, Ch(g, 1))
<1>0. /\ TypeOK /\ OpShape /\ pc \in [G -> PC] /\ out \in [G -> Outcome] /\ ep \in [G -> Val \cup {NoVal}]
      /\ ProgressOf(g) /\ ShapeOf(g) /\ ParamOf(g) /\ LocksOf(g)
  BY ActorFacts DEF ParamInv
<1>1. pc[g] = "syncwait" /\ status[g] = "Grunnable" /\ param[g] = 0
  BY DEF SyncWake, Told
<1>2. /\ pc[g] \in Busy \ {"closer", "closew"} /\ ~Parked(g) /\ 1 \in 1 .. NCase(g) /\ Ch(g, 1) \in Chan
      /\ ep[g] = NoVal /\ closed[Ch(g, 1)] /\ Cap[Ch(g, 1)] = 0 /\ held[g] = {}
  BY <1>0, <1>1 DEF Busy, PC, PlainPC, Parked, ShapeOf, ProgressOf, ParamOf, LocksOf, SelPC
<1>3. qcount[Ch(g, 1)] = 0
  BY <1>0, <1>2 DEF TypeOK
<1>4. pc'[g] = "idle" /\ hand' = hand /\ UNCHANGED <<hchan, closed, op, nops>> /\ FinishClosed(g, CaseDir(g, 1), 1)
  BY <1>0, <1>1, <1>2 DEF SyncWake, Goto
<1>5. /\ out'[g] = [st |-> IF CaseDir(g, 1) = "send" THEN "panic" ELSE "closed", cas |-> 1]
      /\ ep'[g] = NoVal
  BY <1>0, <1>2, <1>4 DEF FinishClosed, Finish
<1>6. Ends(g, IF CaseDir(g, 1) = "send" THEN "panic" ELSE "closed", 1, NoVal)
  BY <1>1, <1>2, <1>4, <1>5 DEF Ends, Wakeup, Busy, Closing
<1> QED BY <1>2, <1>3, <1>4, <1>6, FindsClosed

(* A select that polls a closed channel.                                   *)
LEMMA SelFindsClosed ==
    ASSUME AllInv, AllInv', NEW g \in G, StepOf(g), PollClosed(g)
    PROVE  \E i \in 1 .. NCase(g) : Ch(g, i) \in Chan /\ (Abs!SendClosed(g, i, Ch(g, i)) \/ Abs!RecvClosed(g, i, Ch(g, i)))
<1>0. /\ TypeOK /\ OpShape /\ pc \in [G -> PC] /\ out \in [G -> Outcome] /\ ep \in [G -> Val \cup {NoVal}]
      /\ ProgressOf(g)
  BY ActorFacts
<1>1. PICK i : i = pollorder[g][idx[g]]
  OBVIOUS
<1>2. /\ pc[g] = "pass1" /\ idx[g] <= NCase(g) /\ pc'[g] = "selunlock" /\ hand' = hand
      /\ UNCHANGED <<hchan, closed, op, nops>> /\ closed[Ch(g, i)]
      /\ CaseDir(g, i) = "recv" => ~Proceeds(Ch(g, i), CaseDir(g, i))
      /\ FinishClosed(g, CaseDir(g, i), i)
  BY <1>0, <1>1 DEF PollClosed, Polling, Goto
<1>3. i \in 1 .. NCase(g) /\ Ch(g, i) \in Chan /\ CaseDir(g, i) \in Dir
  BY <1>0, <1>1, <1>2, CaseType DEF SelPC
<1>4. pc[g] \in Busy \ {"closer", "closew"} /\ ~Parked(g) /\ ~Told(g) /\ ~Closing(g) /\ ep[g] = NoVal
  BY <1>0, <1>2 DEF Busy, PC, Parked, Told, Closing, ProgressOf
<1>5. CaseDir(g, i) = "recv" => qcount[Ch(g, i)] = 0
  BY <1>0, <1>2, <1>3, StuckBuffer
<1>6. /\ out'[g] = [st |-> IF CaseDir(g, i) = "send" THEN "panic" ELSE "closed", cas |-> i]
      /\ ep'[g] = NoVal
  BY <1>0, <1>2, <1>4 DEF FinishClosed, Finish
<1>7. Ends(g, IF CaseDir(g, i) = "send" THEN "panic" ELSE "closed", i, NoVal)
  BY <1>2, <1>4, <1>6 DEF Ends, Wakeup, Busy
<1> QED BY <1>2, <1>3, <1>4, <1>5, <1>7, FindsClosed

(* closechan of a nil or a closed channel.                                 *)
LEMMA ClosePanics ==
    ASSUME AllInv, AllInv', NEW g \in G, StepOf(g), ClosePanic(g)
    PROVE  Abs!ClosePanic(g)
<1>0. /\ TypeOK /\ OpShape /\ pc \in [G -> PC] /\ out \in [G -> Outcome] /\ ProgressOf(g)
  BY ActorFacts
<1>1. /\ pc[g] = "closer" /\ held[g] = {} /\ pc'[g] = "idle" /\ out'[g] = [st |-> "panic", cas |-> 1] /\ ep' = ep
      /\ hand' = hand /\ UNCHANGED <<hchan, closed, op, nops>> /\ (Ch(g, 1) = Nil \/ closed[Ch(g, 1)])
  BY <1>0 DEF ClosePanic, Goto, Finish
<1>2. op[g].fn = "closechan" /\ ep[g] = NoVal /\ (Ch(g, 1) # Nil => Ch(g, 1) \in Chan)
  BY <1>0, <1>1, PlainChan DEF ProgressOf, Busy, PC, Told, PlainPC
<1>3. Ends(g, "panic", 1, NoVal)
  BY <1>1, <1>2 DEF Ends, Wakeup, Busy, PC, Parked, Told, Closing
<1>4. /\ Abs!Pending(g)
      /\ [h \in G |-> AbsResult(h)]' = [[h \in G |-> AbsResult(h)] EXCEPT ![g] = Res("panic", 1, NoVal)]
  BY <1>3, Ending
<1> QED BY <1>1, <1>2, <1>4, SameQueues DEF Abs!ClosePanic, Abs!Result, Res, Ch, Nil

(* closechan, when it sets c->closed.                                      *)
LEMMA Closes ==
    ASSUME AllInv, AllInv', NEW g \in G, StepOf(g), CloseBegin(g)
    PROVE  Abs!Close(g)
<1>0. /\ TypeOK /\ OpShape /\ pc \in [G -> PC] /\ held \in [G -> SUBSET Chan] /\ ProgressOf(g)
  BY ActorFacts
<1>1. /\ pc[g] = "closer" /\ held[g] = {} /\ pc' = pc /\ Ch(g, 1) # Nil /\ ~closed[Ch(g, 1)]
      /\ held' = [held EXCEPT ![g] = {Ch(g, 1)}] /\ closed' = [closed EXCEPT ![Ch(g, 1)] = TRUE]
      /\ hand' = hand /\ UNCHANGED <<hchan, op, nops>> /\ ~Wakeup(g)
  BY <1>0 DEF CloseBegin, Wakeup
<1>2. op[g].fn = "closechan" /\ Ch(g, 1) \in Chan
  BY <1>0, <1>1, PlainChan DEF ProgressOf, PlainPC
<1>3. ViewOf(g) /\ ViewOf(g)'
  BY Views, ViewsNext
<1>4. AbsResult(g) = Res("pending", 0, NoVal)
  <2>1. pc[g] \in Busy /\ ~Parked(g) /\ ~Told(g) /\ ~Closing(g)
    BY <1>1 DEF Busy, PC, Parked, Told, Closing
  <2> QED BY <1>3, <2>1 DEF ViewOf
<1>5. AbsResult(g)' = Res("done", 1, NoVal)
  <2>1. Closing(g)' /\ pc'[g] \in {"closer", "closew"}
    BY <1>0, <1>1, <1>2 DEF Closing
  <2> QED BY <1>3, <2>1 DEF ViewOf, Res
<1>6. [h \in G |-> AbsResult(h)]' = [[h \in G |-> AbsResult(h)] EXCEPT ![g] = Res("done", 1, NoVal)]
  BY <1>1, <1>5, OthersSame, OneResult
<1>7. Abs!Pending(g)
  BY <1>4 DEF Abs!Pending, Res
<1> QED BY <1>1, <1>2, <1>6, <1>7, SameQueues DEF Abs!Close, Abs!Result, Res, Ch

(***************************************************************************)
(* Operations that communicate.                                            *)
(***************************************************************************)
(* The goroutine that communicates: its operation was pending and is over. *)
LEMMA CommActor ==
    ASSUME AllInv, NEW g \in G, NEW i, Comm(g, i)
    PROVE  /\ i \in 1 .. NCase(g) /\ Ch(g, i) \in Chan /\ CaseDir(g, i) \in Dir
           /\ pc[g] \in Busy \ {"closer", "closew"} /\ ~Parked(g) /\ ~Told(g) /\ ~Closing(g)
           /\ ep[g] = NoVal /\ hand[g] = {} /\ op[g].fn # "closechan"
           /\ pc'[g] \notin Busy /\ out'[g] = [st |-> "done", cas |-> i] /\ ~Wakeup(g)
           /\ UNCHANGED <<closed, op, nops, param, status>>
<1>0. TypeOK /\ pc \in [G -> PC] /\ out \in [G -> Outcome] /\ ProgressOf(g) /\ ViewOf(g)
  BY ActorFacts, Views
<1>1. /\ i \in 1 .. NCase(g) /\ Ch(g, i) \in Chan /\ CaseDir(g, i) \in Dir
      /\ Communicate(g, Ch(g, i), CaseDir(g, i), i)
  BY DEF Comm
<1>2. out'[g] = [st |-> "done", cas |-> i]
  BY <1>0, <1>1 DEF Communicate, Finish
<1>3. CASE ChanComm(g)
  <2>1. InSection(g) /\ UNCHANGED <<closed, op, nops, param, status>> /\ pc'[g] \in {"idle", "ready"}
    BY <1>0, <1>3 DEF ChanComm, Goto
  <2>2. /\ pc[g] \in Busy \ {"closer", "closew"} /\ ~Parked(g) /\ ~Told(g) /\ ~Closing(g)
        /\ ep[g] = NoVal /\ hand[g] = {} /\ pc[g] \in {"chanop", "asyncwait"}
    BY <2>1, SectionFacts
  <2> QED BY <1>0, <1>1, <1>2, <2>1, <2>2 DEF Busy, Wakeup, ProgressOf
<1>4. CASE PollComm(g)
  <2>1. pc[g] = "pass1" /\ UNCHANGED <<closed, op, nops, param, status>> /\ pc'[g] = "selunlock"
    BY <1>0, <1>4 DEF PollComm, Polling, Goto
  <2>2. op[g].fn # "closechan" /\ pc[g] \in Busy /\ ~Told(g) /\ ~Parked(g)
    BY <1>0, <2>1 DEF ProgressOf, Busy, PC, Told, Parked
  <2> QED BY <1>0, <1>1, <1>2, <2>1, <2>2 DEF Busy, Wakeup, ProgressOf, ViewOf, Closing
<1> QED BY <1>3, <1>4 DEF Comm

(* A send finds its channel open, and so does an unbuffered receive: the   *)
(* senders that wait on a closed channel are behind the closer's lock.     *)
LEMMA CommOpen ==
    ASSUME AllInv, NEW g \in G, NEW i, Comm(g, i), CaseDir(g, i) = "send" \/ Cap[Ch(g, i)] = 0
    PROVE  ~closed[Ch(g, i)]
<1> DEFINE c == Ch(g, i)
           d == CaseDir(g, i)
<1>0. /\ TypeOK /\ LockInv /\ ClosingInv /\ LocksOf(g) /\ Cap \in [Chan -> Nat]
      /\ closed \in [Chan -> BOOLEAN] /\ held \in [G -> SUBSET Chan]
  BY ActorFacts, CapAssumption DEF AllInv, RefInv
<1>1. /\ i \in 1 .. NCase(g) /\ c \in Chan /\ d \in Dir /\ Communicate(g, c, d, i)
  BY DEF Comm
<1>2. d = "send" \/ Cap[c] = 0
  OBVIOUS
<1>3. CASE ChanComm(g)
  <2>1. i = 1 /\ ~SeesClosed(c, d)
    <3>1. i = 1
      BY <1>3 DEF Comm, ChanComm, PollComm, InSection, Polling
    <3> QED BY <1>3, <3>1 DEF ChanComm
  <2>2. Cap[c] = 0 => qcount[c] = 0
    BY <1>0, <1>1 DEF TypeOK
  <2> QED BY <1>1, <1>2, <2>1, <2>2 DEF SeesClosed, Dir
<1>4. CASE PollComm(g)
  <2>1. i = pollorder[g][idx[g]] /\ (d = "send" => ~closed[c]) /\ pc[g] = "pass1"
    <3>1. i = pollorder[g][idx[g]] /\ pc[g] = "pass1"
      BY <1>4 DEF Comm, ChanComm, PollComm, InSection, Polling
    <3> QED BY <1>4, <3>1 DEF PollComm
  <2>2. ASSUME d = "recv", Cap[c] = 0, closed[c] PROVE FALSE
    <3> HIDE DEF c, d
    <3>1. LiveAt(waitq[<<c, "send">>]) # {}
      BY <1>0, <1>1, <2>2 DEF Communicate, Proceeds, Opp
    <3>2. PICK h \in G : pc[h] \in {"closer", "closew"} /\ c \in held[h]
      BY <1>0, <1>1, <2>2, <3>1 DEF ClosingInv
    <3>3. c \in held[g]
      BY <1>0, <1>1, <2>1 DEF LocksOf, SelChans, c
    <3>4. h # g
      BY <2>1, <3>2
    <3> QED BY <1>0, <3>2, <3>3, <3>4 DEF LockInv
  <2> QED BY <1>1, <1>2, <2>1, <2>2 DEF Dir
<1> QED BY <1>3, <1>4 DEF Comm

(* The partner: parked in a case on the same channel the other way round,  *)
(* and claimed by nobody before.                                           *)
LEMMA CommPartner ==
    ASSUME AllInv, AllInv', NEW g \in G, StepOf(g), NEW i, Comm(g, i),
           LiveAt(waitq[CommQueue(g, i)]) # {}
    PROVE  \E sg \in Sudog :
             /\ hand' = [hand EXCEPT ![g] = {sg}]
             /\ sg.g \in G /\ sg.g # g /\ Parked(sg.g) /\ ~Claimed(sg.g)
             /\ sg.cas \in 1 .. NCase(sg.g) /\ Ch(sg.g, sg.cas) = Ch(g, i)
             /\ CaseDir(sg.g, sg.cas) = Opp(CaseDir(g, i))
<1>0. /\ TypeOK /\ OpShape /\ LockInv /\ LiveInv /\ HandInv /\ TypeOK'
      /\ PlainStep(g) \/ CloseStep(g) \/ SelectStep(g)
  BY ActorFacts DEF AllInv, IInv, StepOf
<1>1. /\ i \in 1 .. NCase(g) /\ Ch(g, i) \in Chan /\ CaseDir(g, i) \in Dir
      /\ Communicate(g, Ch(g, i), CaseDir(g, i), i)
      /\ \/ ChanComm(g) /\ i = 1
         \/ PollComm(g) /\ i = pollorder[g][idx[g]]
  BY DEF Comm
<1>2. PICK y : y = CommQueue(g, i)
  OBVIOUS
<1>3. PICK sg : sg = waitq[y][First(waitq[y])]
  OBVIOUS
<1>4. Claims(y) /\ hand' = [hand EXCEPT ![g] = {sg}]
  BY <1>0, <1>1, <1>2, <1>3, CommStep
<1>5. InHand(g, sg)' /\ Live(sg) /\ sg.g # g
  BY <1>0, <1>1, <1>2, <1>3, <1>4, HandNew
<1>6. y \in Chan \X Dir /\ y = <<Ch(g, i), Opp(CaseDir(g, i))>>
  BY <1>1, <1>2 DEF CommQueue, Opp, Dir
<1>7. First(waitq[y]) \in 1 .. Len(waitq[y])
  BY <1>0, <1>2, <1>6, EntryType, FirstLive
<1>8. sg \in Sudog /\ sg.g \in G
  BY <1>0, <1>3, <1>6, <1>7, EntryType
<1>9. WaitsAt(sg, y)
  BY <1>0, <1>3, <1>5, <1>6, <1>7 DEF LiveInv, WaitInv
<1>10. Parked(sg.g)
  <2>1. pc'[sg.g] = pc[sg.g]
    BY <1>0, <1>5, <1>8, Frame
  <2>2. status' = status
    BY CommActor
  <2> QED BY <1>5, <2>1, <2>2 DEF InHand, Parked
<1>11. ~Claimed(sg.g)
  <2>1. SUFFICES ASSUME NEW h \in G, NEW s1 \in hand[h], s1.g = sg.g PROVE FALSE
    BY DEF Claimed
  <2>2. NoneLive(sg.g)
    BY <1>0, <2>1 DEF HandInv
  <2> QED BY <1>3, <1>5, <1>6, <1>7, <2>2 DEF NoneLive
<1> QED BY <1>4, <1>5, <1>6, <1>8, <1>9, <1>10, <1>11 DEF WaitsAt

(* A communication through a buffer changes nobody else's result: whom it  *)
(* takes from the wait queue will only retry.                              *)
LEMMA BufferedOthers ==
    ASSUME AllInv, AllInv', NEW g \in G, StepOf(g), NEW i, Comm(g, i), Cap[Ch(g, i)] > 0,
           \A h \in G : h # g => ep'[h] = ep[h]
    PROVE  /\ \A h \in G : h # g => AbsResult(h)' = AbsResult(h)
           /\ \A sg : ~Takes(g, sg)'
<1>0. /\ i \in 1 .. NCase(g) /\ Ch(g, i) \in Chan /\ CaseDir(g, i) \in Dir
      /\ hand[g] = {} /\ UNCHANGED <<closed, op, nops, param, status>> /\ hand \in [G -> SUBSET Sudog] /\ TypeOK
  BY CommActor, ActorFacts
<1>1. \A sg \in hand'[g] : ~Sync(sg)
  <2>1. CASE LiveAt(waitq[CommQueue(g, i)]) = {}
    <3>1. hand' = hand
      BY <1>0, <2>1, CommStep DEF Comm, Claims
    <3> QED BY <1>0, <3>1
  <2>2. CASE LiveAt(waitq[CommQueue(g, i)]) # {}
    <3>1. PICK sg \in Sudog : hand' = [hand EXCEPT ![g] = {sg}] /\ Ch(sg.g, sg.cas) = Ch(g, i)
      BY <2>2, CommPartner
    <3> QED BY <1>0, <3>1 DEF Sync
  <2> QED BY <2>1, <2>2
<1>2. ASSUME NEW h \in G, h # g PROVE AbsResult(h)' = AbsResult(h)
  <2>1. \A sg : sg.g = h /\ Sync(sg) => (sg \in hand'[g] <=> sg \in hand[g])
    BY <1>0, <1>1
  <2>2. ep'[h] = ep[h] /\ param'[h] = param[h]
    BY <1>0, <1>2
  <2> QED BY <1>2, <2>1, <2>2, OtherSame
<1>3. \A sg : Sync(sg)' = Sync(sg)
  BY <1>0 DEF Sync, Ch
<1>4. \A sg : ~Takes(g, sg)'
  BY <1>1, <1>3 DEF Takes
<1> QED BY <1>2, <1>4

LEMMA CommWants ==
    ASSUME AllInv, NEW g \in G, NEW i, Comm(g, i)
    PROVE  AbsResult(g) = Res("pending", 0, NoVal) /\ Abs!Wants(g, i, CaseDir(g, i), Ch(g, i))
<1>1. /\ i \in 1 .. NCase(g) /\ Ch(g, i) \in Chan /\ op[g].fn # "closechan"
      /\ pc[g] \in Busy /\ ~Parked(g) /\ ~Told(g) /\ ~Closing(g) /\ TypeOK /\ ViewOf(g)
  BY CommActor, ActorFacts, Views
<1>2. AbsResult(g) = Res("pending", 0, NoVal)
  BY <1>1 DEF ViewOf
<1>3. i \in DOMAIN op[g].cases /\ op[g].cases[i] = [dir |-> CaseDir(g, i), ch |-> Ch(g, i)]
  BY <1>1, WantsCase
<1> QED BY <1>1, <1>2, <1>3 DEF Abs!Wants, Abs!Pending, Res

(* A send to a buffer with room.                                           *)
LEMMA SendsBuffered ==
    ASSUME AllInv, AllInv', NEW g \in G, StepOf(g), NEW i, Comm(g, i),
           Cap[Ch(g, i)] > 0, CaseDir(g, i) = "send"
    PROVE  Abs!SendBuffered(g, i, Ch(g, i))
<1>0. /\ TypeOK /\ TypeOK' /\ RingInv /\ Ch(g, i) \in Chan /\ ep[g] = NoVal /\ ep \in [G -> Val \cup {NoVal}]
      /\ pc'[g] \notin Busy /\ out'[g] = [st |-> "done", cas |-> i] /\ UNCHANGED <<closed, op, nops>>
      /\ ~closed[Ch(g, i)]
  BY CommActor, ActorFacts, CommOpen DEF AllInv, IInv, RefInv
<1>1. PICK c : c = Ch(g, i)
  OBVIOUS
<1>2. BufSend(g, c) /\ qcount[c] < Cap[c] /\ ep' = ep
  BY <1>0, <1>1, CommBuffer DEF BufSend
<1>3. AbsQueue(c)' = Append(AbsQueue(c), Elem(g)) /\ \A x \in Chan : x # c => AbsQueue(x)' = AbsQueue(x)
  BY <1>0, <1>1, <1>2, SendAppends
<1>4. [x \in Chan |-> AbsQueue(x)]' = [[x \in Chan |-> AbsQueue(x)] EXCEPT ![c] = Append(AbsQueue(c), Elem(g))]
  BY <1>0, <1>1, <1>3
<1>5. Len(AbsQueue(c)) < Cap[c]
  BY <1>0, <1>1, <1>2, QueueType DEF QueueOf
<1>6. (\A h \in G : h # g => AbsResult(h)' = AbsResult(h)) /\ \A sg : ~Takes(g, sg)'
  BY <1>2, BufferedOthers
<1>7. AbsResult(g)' = Res("done", i, NoVal)
  BY <1>0, <1>2, <1>6, ViewsNext DEF ViewOf, Res
<1>8. [h \in G |-> AbsResult(h)]' = [[h \in G |-> AbsResult(h)] EXCEPT ![g] = Res("done", i, NoVal)]
  BY <1>6, <1>7, OneResult
<1>9. Abs!Wants(g, i, "send", c)
  BY <1>1, CommWants
<1>10. Abs!SendBuffered(g, i, c)
  BY <1>0, <1>1, <1>4, <1>5, <1>8, <1>9 DEF Abs!SendBuffered, Abs!Result, Res, Abs!Elem, Elem
<1> QED BY <1>1, <1>10

(* A receive from a buffer with an element.                                *)
LEMMA RecvsBuffered ==
    ASSUME AllInv, AllInv', NEW g \in G, StepOf(g), NEW i, Comm(g, i),
           Cap[Ch(g, i)] > 0, CaseDir(g, i) = "recv"
    PROVE  Abs!RecvBuffered(g, i, Ch(g, i))
<1>0. /\ TypeOK /\ TypeOK' /\ Ch(g, i) \in Chan /\ ep \in [G -> Val \cup {NoVal}]
      /\ pc'[g] \notin Busy /\ out'[g] = [st |-> "done", cas |-> i] /\ UNCHANGED <<closed, op, nops>>
  BY CommActor, ActorFacts DEF AllInv, IInv
<1>1. PICK c : c = Ch(g, i)
  OBVIOUS
<1>2. BufRecv(g, c) /\ qcount[c] > 0 /\ \A h \in G : h # g => ep'[h] = ep[h]
  BY <1>0, <1>1, CommBuffer DEF BufRecv
<1>3. /\ AbsQueue(c) # << >> /\ AbsQueue(c)' = Tail(AbsQueue(c)) /\ ep'[g] = Head(AbsQueue(c))
      /\ \A x \in Chan : x # c => AbsQueue(x)' = AbsQueue(x)
  BY <1>0, <1>1, <1>2, RecvTakes
<1>4. [x \in Chan |-> AbsQueue(x)]' = [[x \in Chan |-> AbsQueue(x)] EXCEPT ![c] = Tail(AbsQueue(c))]
  BY <1>0, <1>1, <1>3
<1>5. (\A h \in G : h # g => AbsResult(h)' = AbsResult(h)) /\ \A sg : ~Takes(g, sg)'
  BY <1>1, <1>2, BufferedOthers
<1>6. AbsResult(g)' = Res("done", i, Head(AbsQueue(c)))
  BY <1>0, <1>3, <1>5, ViewsNext DEF ViewOf, Res
<1>7. [h \in G |-> AbsResult(h)]' = [[h \in G |-> AbsResult(h)] EXCEPT ![g] = Res("done", i, Head(AbsQueue(c)))]
  BY <1>5, <1>6, OneResult
<1>8. Abs!Wants(g, i, "recv", c)
  BY <1>1, CommWants
<1>9. Abs!RecvBuffered(g, i, c)
  BY <1>0, <1>1, <1>3, <1>4, <1>7, <1>8 DEF Abs!RecvBuffered, Abs!Result, Res
<1> QED BY <1>1, <1>9

(* The two sides of an unbuffered exchange.                                *)
LEMMA Exchanges ==
    ASSUME AllInv, AllInv', NEW g \in G, StepOf(g), NEW i, Comm(g, i), Cap[Ch(g, i)] = 0
    PROVE  \E r \in G : \E j \in DOMAIN op[r].cases :
             IF CaseDir(g, i) = "send" THEN Abs!Rendezvous(g, i, r, j, Ch(g, i))
                                       ELSE Abs!Rendezvous(r, j, g, i, Ch(g, i))
<1>0. /\ TypeOK /\ Ch(g, i) \in Chan /\ CaseDir(g, i) \in Dir /\ ep[g] = NoVal /\ i \in 1 .. NCase(g)
      /\ pc'[g] \notin Busy /\ out'[g] = [st |-> "done", cas |-> i] /\ UNCHANGED <<closed, op, nops, param>>
      /\ ~closed[Ch(g, i)] /\ Cap \in [Chan -> Nat] /\ hand \in [G -> SUBSET Sudog] /\ hand[g] = {}
  BY CommActor, ActorFacts, CommOpen, CapAssumption
<1>1. UNCHANGED <<hchan, ep>>
  BY <1>0, CommBuffer
<1>2. LiveAt(waitq[CommQueue(g, i)]) # {}
  <2>1. PICK c, d : c = Ch(g, i) /\ d = CaseDir(g, i)
    OBVIOUS
  <2>2. Proceeds(c, d)
    BY <2>1 DEF Comm, Communicate
  <2> QED BY <1>0, <2>1, <2>2 DEF Proceeds, CommQueue
<1>3. PICK sg \in Sudog :
        /\ hand' = [hand EXCEPT ![g] = {sg}]
        /\ sg.g \in G /\ sg.g # g /\ Parked(sg.g) /\ ~Claimed(sg.g)
        /\ sg.cas \in 1 .. NCase(sg.g) /\ Ch(sg.g, sg.cas) = Ch(g, i)
        /\ CaseDir(sg.g, sg.cas) = Opp(CaseDir(g, i))
  BY <1>2, CommPartner
<1>4. PICK r, j, c : r = sg.g /\ j = sg.cas /\ c = Ch(g, i)
  OBVIOUS
<1>5. r \in G /\ r # g /\ j \in 1 .. NCase(r) /\ Ch(r, j) = c /\ c \in Chan /\ Cap[c] = 0 /\ ProgressOf(r) /\ ShapeOf(r)
  BY <1>0, <1>3, <1>4, ActorFacts
<1>6. pc[r] \in {"syncwait", "selpark"} /\ status[r] = "Gwaiting" /\ param[r] = 0
  <2>1. pc[r] \in {"syncwait", "asyncwait", "selpark"} /\ status[r] = "Gwaiting"
    BY <1>3, <1>4 DEF Parked
  <2>2. pc[r] # "asyncwait"
    BY <1>0, <1>5 DEF ShapeOf, ProgressOf, PlainPC
  <2> QED BY <1>5, <2>1, <2>2 DEF ProgressOf
<1>7. AbsResult(r) = Res("pending", 0, NoVal)
  <2>1. pc[r] \in Busy /\ ~Told(r) /\ ~Closing(r) /\ ViewOf(r)
    BY <1>5, <1>6, Views DEF Busy, PC, Told, ViewOf
  <2> QED BY <1>3, <1>4, <2>1 DEF ViewOf
<1>8. Abs!Wants(r, j, CaseDir(r, j), c) /\ j \in DOMAIN op[r].cases
  <2>1. op[r].fn # "closechan"
    BY <1>5, <1>6 DEF ProgressOf
  <2>2. j \in DOMAIN op[r].cases /\ op[r].cases[j] = [dir |-> CaseDir(r, j), ch |-> c]
    BY <1>0, <1>5, WantsCase
  <2> QED BY <1>5, <1>7, <2>1, <2>2 DEF Abs!Wants, Abs!Pending, Res
<1>9. Abs!Wants(g, i, CaseDir(g, i), c)
  BY <1>4, CommWants
<1>10. /\ \A k : Sync(k)' = Sync(k) /\ \A h, n : CaseDir(h, n)' = CaseDir(h, n)
       /\ \A h : Elem(h)' = Elem(h)
  BY <1>0 DEF Sync, Ch, CaseDir, Elem
<1>11. Sync(sg) /\ hand'[g] = {sg} /\ \A k \in hand'[g] : k = sg
  BY <1>0, <1>3, <1>4, <1>5 DEF Sync
<1>12. ASSUME NEW h \in G, h # g, h # r PROVE AbsResult(h)' = AbsResult(h)
  <2>1. \A k : k.g = h /\ Sync(k) => (k \in hand'[g] <=> k \in hand[g])
    BY <1>0, <1>4, <1>11, <1>12
  <2> QED BY <1>0, <1>1, <1>12, <2>1, OtherSame
<1>13. AbsResult(r)' = Res("done", j, IF CaseDir(r, j) = "recv" THEN Elem(g) ELSE NoVal)
  <2>1. ResultOf(r)'
    BY <1>5, ResultsNext DEF AllInv
  <2>2. sg \in hand'[g] /\ sg.g = r /\ Sync(sg)'
    BY <1>4, <1>10, <1>11
  <2>3. AbsResult(r)' = Res("done", sg.cas, IF CaseDir(r, sg.cas)' = "recv" THEN Elem(g)' ELSE NoVal)
    BY <2>1, <2>2 DEF ResultOf, Res
  <2> QED BY <1>4, <1>10, <2>3
<1>14. ViewOf(g)'
  BY ViewsNext
<1>15. CASE CaseDir(g, i) = "send"
  <2>1. CaseDir(r, j) = "recv"
    BY <1>3, <1>4, <1>15 DEF Opp
  <2>2. \A k : ~Takes(g, k)'
    BY <1>4, <1>10, <1>11, <2>1 DEF Takes
  <2>3. AbsResult(g)' = Res("done", i, NoVal)
    BY <1>0, <1>1, <1>14, <2>2 DEF ViewOf, Res
  <2>4. [h \in G |-> AbsResult(h)]' =
          [[h \in G |-> AbsResult(h)] EXCEPT ![g] = Res("done", i, NoVal), ![r] = Res("done", j, Elem(g))]
    BY <1>5, <1>12, <1>13, <2>1, <2>3
  <2>5. Abs!Rendezvous(g, i, r, j, c)
    BY <1>0, <1>1, <1>4, <1>5, <1>8, <1>9, <1>15, <2>1, <2>4, SameQueues DEF Abs!Rendezvous, Abs!Result, Res, Abs!Elem, Elem
  <2> QED BY <1>4, <1>5, <1>8, <1>15, <2>5
<1>16. CASE CaseDir(g, i) = "recv"
  <2>1. CaseDir(r, j) = "send"
    BY <1>3, <1>4, <1>16 DEF Opp
  <2>2. Takes(g, sg)'
    BY <1>4, <1>10, <1>11, <2>1 DEF Takes
  <2>3. AbsResult(g)' = Res("done", i, Elem(r))
    <3>1. AbsResult(g)' = Res(out'[g].st, out'[g].cas, Elem(sg.g)')
      BY <1>0, <1>14, <2>2 DEF ViewOf, Res
    <3> QED BY <1>0, <1>4, <1>10, <3>1
  <2>4. [h \in G |-> AbsResult(h)]' =
          [[h \in G |-> AbsResult(h)] EXCEPT ![r] = Res("done", j, NoVal), ![g] = Res("done", i, Elem(r))]
    BY <1>5, <1>12, <1>13, <2>1, <2>3
  <2>5. Abs!Rendezvous(r, j, g, i, c)
    BY <1>0, <1>1, <1>4, <1>5, <1>8, <1>9, <1>16, <2>1, <2>4, SameQueues DEF Abs!Rendezvous, Abs!Result, Res, Abs!Elem, Elem
  <2> QED BY <1>4, <1>5, <1>8, <1>16, <2>5
<1> QED BY <1>0, <1>15, <1>16 DEF Dir

(***************************************************************************)
(* The refinement.                                                         *)
(***************************************************************************)
LEMMA InitRefines ==
    Init => Abs!Init
<1> SUFFICES ASSUME Init PROVE Abs!Init
  OBVIOUS
<1>1. \A c \in Chan : AbsQueue(c) = << >>
  BY DEF Init, AbsQueue
<1>2. ASSUME NEW g \in G PROVE AbsResult(g) = Res("none", 0, NoVal)
  <2>1. ResultOf(g)
    BY InitIInv, Results
  <2>2. ~Claimed(g) /\ ~Told(g) /\ (\A sg : ~Takes(g, sg)) /\ ~Closing(g)
    BY DEF Init, Claimed, Told, Takes, Closing
  <2>3. out[g].st = "none" /\ out[g].cas = 0 /\ ep[g] = NoVal
    BY DEF Init
  <2> QED BY <2>1, <2>2, <2>3 DEF ResultOf
<1> QED BY <1>1, <1>2 DEF Init, NoOp, Abs!Init, Abs!Result, Res

(* Steps of one case of g.                                                 *)
LEMMA OneCaseNext ==
    ASSUME TypeOK, NEW g \in G, NEW i \in 1 .. NCase(g), NEW c \in Chan, Abs!OneCase(g, i, c)
    PROVE  Abs!Next
<1>1. i \in DOMAIN op[g].cases
  BY DEF TypeOK, Op, NCase
<1> QED BY <1>1 DEF Abs!Next

LEMMA CommRefines ==
    ASSUME AllInv, AllInv', NEW g \in G, StepOf(g), ChanComm(g) \/ PollComm(g)
    PROVE  Abs!Next
<1>0. TypeOK /\ OpShape
  BY ActorFacts
<1>1. PICK i : Comm(g, i)
  BY <1>0, CommCase
<1>2. i \in 1 .. NCase(g) /\ Ch(g, i) \in Chan /\ CaseDir(g, i) \in Dir /\ Cap[Ch(g, i)] \in Nat
  BY <1>1, CapAssumption DEF Comm
<1>3. CASE Cap[Ch(g, i)] = 0
  <2>1. PICK r \in G : \E j \in DOMAIN op[r].cases :
           IF CaseDir(g, i) = "send" THEN Abs!Rendezvous(g, i, r, j, Ch(g, i))
                                     ELSE Abs!Rendezvous(r, j, g, i, Ch(g, i))
    BY <1>1, <1>3, Exchanges
  <2>2. i \in DOMAIN op[g].cases
    BY <1>0, <1>2, SMTT(60) DEF TypeOK, Op, NCase
  <2> QED BY <1>2, <2>1, <2>2 DEF Abs!Next
<1>4. CASE Cap[Ch(g, i)] > 0 /\ CaseDir(g, i) = "send"
  <2>1. Abs!OneCase(g, i, Ch(g, i))
    BY <1>1, <1>4, SendsBuffered DEF Abs!OneCase
  <2> QED BY <1>0, <1>2, <2>1, OneCaseNext
<1>5. CASE Cap[Ch(g, i)] > 0 /\ CaseDir(g, i) = "recv"
  <2>1. Abs!OneCase(g, i, Ch(g, i))
    BY <1>1, <1>5, RecvsBuffered DEF Abs!OneCase
  <2> QED BY <1>0, <1>2, <2>1, OneCaseNext
<1> QED BY <1>2, <1>3, <1>4, <1>5 DEF Dir

LEMMA ClosedRefines ==
    ASSUME AllInv, AllInv', NEW g \in G, StepOf(g), ChanClosed(g) \/ PollClosed(g) \/ (SyncWake(g) /\ ~Told(g))
    PROVE  Abs!Next
<1>0. TypeOK
  BY ActorFacts
<1>1. \E i \in 1 .. NCase(g) : Ch(g, i) \in Chan /\ (Abs!SendClosed(g, i, Ch(g, i)) \/ Abs!RecvClosed(g, i, Ch(g, i)))
  <2>1. CASE ChanClosed(g)
    <3>1. 1 \in 1 .. NCase(g) /\ Ch(g, 1) \in Chan
      BY <2>1, SectionFacts DEF ChanClosed
    <3> QED BY <2>1, <3>1, PlainFindsClosed
  <2>2. CASE PollClosed(g)
    BY <2>2, SelFindsClosed
  <2>3. CASE SyncWake(g) /\ ~Told(g)
    <3>1. pc[g] = "syncwait" /\ ShapeOf(g)
      BY <2>3, ActorFacts, Zenon DEF SyncWake
    <3>2. 1 \in 1 .. NCase(g) /\ Ch(g, 1) \in Chan
      BY <3>1 DEF ShapeOf, PlainPC
    <3> QED BY <2>3, <3>2, WakesToClosed
  <2> QED BY <2>1, <2>2, <2>3
<1>2. \E i \in 1 .. NCase(g) : \E c \in Chan : Abs!OneCase(g, i, c)
  BY <1>1 DEF Abs!OneCase
<1> QED BY <1>0, <1>2, OneCaseNext

(* Each step of a goroutine is a step of the abstract channels or leaves   *)
(* them as they are.                                                       *)
LEMMA StepRefines ==
    ASSUME AllInv, AllInv', NEW g \in G, StepOf(g)
    PROVE  Abs!Next \/ UNCHANGED Abs!vars
<1>1. CASE Invoke(g) \/ SelInvoke(g)
  BY <1>1, Calls DEF Abs!Next
<1>2. CASE NilChan(g)
  <2>1. CASE op[g].block
    BY <1>2, <2>1, StaysPending
  <2>2. CASE ~op[g].block
    BY <1>2, <2>2, NilGivesUp DEF Abs!Next
  <2> QED BY <2>1, <2>2
<1>3. CASE ChanClosed(g) \/ PollClosed(g)
  BY <1>3, ClosedRefines
<1>4. CASE ChanComm(g) \/ PollComm(g)
  BY <1>4, CommRefines
<1>5. CASE ChanNotReady(g) \/ SelDefault(g)
  BY <1>5, PlainGivesUp, SelGivesUp DEF Abs!Next
<1>6. CASE ChanPark(g) \/ SelBlock(g) \/ SelPark(g) \/ SelRetry(g)
  BY <1>6, StaysPending
<1>7. CASE SyncWake(g)
  <2>1. CASE Told(g)
    BY <1>7, <2>1, ActsOnTold
  <2>2. CASE ~Told(g)
    BY <1>7, <2>2, ClosedRefines
  <2> QED BY <2>1, <2>2
<1>8. CASE Wakeup(g)
  BY <1>8, WakesOnly
<1>9. CASE ClosePanic(g)
  BY <1>9, ClosePanics DEF Abs!Next
<1>10. CASE CloseBegin(g)
  BY <1>10, Closes DEF Abs!Next
<1>11. CASE CloseRelease(g)
  BY <1>11, ReleasesOnly
<1>12. CASE SelLock(g)
  <2>1. CASE Told(g)
    BY <1>12, <2>1, ActsOnTold
  <2>2. CASE ~Told(g)
    BY <1>12, <2>2, StaysPending
  <2> QED BY <2>1, <2>2
<1>13. CASE ParkUnlock(g) \/ SelDequeue(g) \/ SelEnqueue(g) \/ PollNext(g)
  BY <1>13, LooksOnly
<1>14. CASE SelFired(g)
  <2>1. pc[g] = "pass3" /\ param[g] # 0
    BY <1>14, Zenon DEF SelFired
  <2>2. Told(g)
    BY <2>1 DEF Told
  <2> QED BY <1>14, <2>2, ActsOnTold
<1>15. CASE SelUnlock(g)
  BY <1>15, UnlocksOnly
<1> QED BY <1>1, <1>2, <1>3, <1>4, <1>5, <1>6, <1>7, <1>8, <1>9, <1>10, <1>11, <1>12, <1>13, <1>14, <1>15
        DEF StepOf, PlainStep, CloseStep, SelectStep

(* Channels keep their promise for any number of goroutines, channels,     *)
(* capacities and operations: chansend, chanrecv, closechan and selectgo,  *)
(* interleaved lock by lock and wakeup by wakeup, behave as if each took   *)
(* effect in one step on a FIFO queue with a closed flag.  Elements leave  *)
(* a channel once each and in order, a select fires exactly one case, an   *)
(* unbuffered exchange is atomic, and a closed channel gives up what is    *)
(* left in it before it yields zero elements.                              *)
THEOREM ChannelsRefine ==
    Spec => Refines
<1>1. Init => Abs!Init
  BY InitRefines
<1>2. AllInv /\ AllInv' /\ [Next]_vars => [Abs!Next]_(Abs!vars)
  <2> SUFFICES ASSUME AllInv, AllInv', [Next]_vars PROVE Abs!Next \/ UNCHANGED Abs!vars
    OBVIOUS
  <2>1. CASE Next
    BY <2>1, StepRefines DEF Next, StepOf
  <2>2. CASE UNCHANGED vars
    <3>1. UNCHANGED <<hand, pc, param, out, ep, op, nops, held>> /\ UNCHANGED <<hchan, closed>>
      BY <2>2 DEF vars
    <3> QED BY <3>1, ResultSame, Stutter
  <2> QED BY <2>1, <2>2
<1>3. Spec => []AllInv
  BY AllInvAlways
<1> QED BY <1>1, <1>2, <1>3, PTL DEF Spec, Refines, Abs!Spec
=============================================================================
