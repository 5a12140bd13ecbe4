----------------------------- MODULE PrimProofs -----------------------------
(***************************************************************************)
(* The primitives that need no induction over data, for any number of      *)
(* threads, goroutines, values, signals and iterations: atomic.Value, the  *)
(* signal queue with os/signal, the parallel for, sync.Pool, and the Lock  *)
(* and the Note of lock_futex.c.  They share nothing; each has an          *)
(* invariant of its own, which is inductive.                               *)
(***************************************************************************)
EXTENDS Futex, SigQueue, ParFor, SyncPool, AtomicValue, FiniteSetTheorems, TLAPS

(***************************************************************************)
(* atomic.Value.  The type word goes from None through Busy, which one     *)
(* goroutine owns, to a type that it keeps; from then on the data word is  *)
(* the current value and has that type.                                    *)
(***************************************************************************)
ValueLabels == {"idle", "loaddata", "loadtyp", "swap", "first", "firsttyp", "overwrite"}
TypeWords == {TypeOf[v] : v \in Values} \cup {None, Busy}
Place == [pc : ValueLabels, x : Values \cup {None}, typ : TypeWords, n : Nat]

ValueTypeOK ==
    /\ typ \in TypeWords /\ data \in Values \cup {None} /\ current \in Values \cup {None}
    /\ at \in [Users -> Place]
    /\ got \in [Users -> [typ : TypeWords, data : Values \cup {None}]]
    /\ seen \in [Users -> SUBSET (Values \cup {None})]

WordsAgree ==
    IF Complete(typ) THEN data \in Values /\ current = data /\ typ = TypeOf[data] ELSE current = None

(* What a goroutine in Load or Store knows of the words.                   *)
KnowsOf(g) ==
    /\ at[g].pc \in {"loadtyp", "swap", "first", "firsttyp", "overwrite"} => at[g].x \in Values
    /\ at[g].pc \in {"first", "firsttyp"} => typ = Busy
    /\ at[g].pc = "firsttyp" => data = at[g].x
    /\ at[g].pc = "overwrite" => typ = TypeOf[at[g].x]
    /\ at[g].pc = "loaddata" => Complete(typ) /\ at[g].typ = typ /\ data \in seen[g]

OneFirst ==
    \A g, k \in Users :
        at[g].pc \in {"first", "firsttyp"} /\ at[k].pc \in {"first", "firsttyp"} => g = k

ReturnedWhole(g) ==
    at[g].pc # "loaddata" =>
      \/ got[g] = Nothing /\ None \in seen[g]
      \/ got[g].data \in seen[g] \ {None} /\ got[g].typ = TypeOf[got[g].data]

ValueInv ==
    /\ ValueTypeOK /\ WordsAgree /\ OneFirst
    /\ \A g \in Users : KnowsOf(g) /\ ReturnedWhole(g)

LEMMA ValueStart == ValueInit => ValueInv
BY DEF ValueInit, ValueTypeOK, Place, ValueLabels, TypeWords, Nothing, WordsAgree, Complete,
    ValueInv, OneFirst, KnowsOf, ReturnedWhole

(* A goroutine that only moves, by itself, to a place at which it need     *)
(* know no more, keeps the invariant.                                      *)
LEMMA ValueMoves ==
    ASSUME ValueInv, NEW g \in Users, NEW p \in Place, at' = [at EXCEPT ![g] = p],
           UNCHANGED <<typ, data, got, current, seen>>,
           at[g].pc # "loaddata", p.pc \notin {"loaddata", "first", "firsttyp"},
           p.pc \in {"loadtyp", "swap", "overwrite"} => p.x \in Values,
           p.pc = "overwrite" => typ = TypeOf[p.x]
    PROVE  ValueInv'
BY DEF ValueInv, ValueTypeOK, WordsAgree, Complete, OneFirst, KnowsOf, ReturnedWhole

(* Load: what it returns without looking further, and what it goes on with. *)
LEMMA LoadKeeps ==
    ASSUME ValueInv, NEW g \in Users, Load(g) \/ LoadData(g)
    PROVE  ValueInv'
<1> USE DEF ValueInv
<1>1. CASE Load(g)
  <2> DEFINE p == [at[g] EXCEPT !.pc = IF Complete(typ) THEN "loaddata" ELSE "idle",
                                !.typ = IF Complete(typ) THEN typ ELSE None, !.n = @ + 1]
  <2>1. at' = [at EXCEPT ![g] = p] /\ p \in Place
    BY <1>1 DEF Load, ValueCall, ValueTypeOK, Place, ValueLabels, TypeWords
  <2>2. \A k \in Users : at'[k] = IF k = g THEN p ELSE at[k]
    BY <2>1 DEF ValueTypeOK
  <2>3. at[g].pc = "idle" /\ UNCHANGED <<typ, data, current>>
    BY <1>1 DEF Load, ValueCall
  <2>4. seen' = [seen EXCEPT ![g] = {current}]
        /\ got' = IF Complete(typ) THEN got ELSE [got EXCEPT ![g] = Nothing]
    BY <1>1 DEF Load
  <2>5. ValueTypeOK'
    BY <2>1, <2>3, <2>4 DEF ValueTypeOK, Nothing, TypeWords
  <2>6. WordsAgree' /\ OneFirst'
    <3>1. p.pc \in {"idle", "loaddata"}
      BY DEF ValueTypeOK, Place
    <3> HIDE DEF p
    <3>2. OneFirst'
      BY <2>2, <3>1 DEF OneFirst
    <3> QED BY <2>3, <3>2 DEF WordsAgree, Complete
  <2>7. ASSUME NEW k \in Users PROVE KnowsOf(k)' /\ ReturnedWhole(k)'
    <3>1. CASE k = g
      <4>1. seen'[g] = {current} /\ at'[g] = p
        BY <2>2, <2>4 DEF ValueTypeOK
      <4>2. p.pc = (IF Complete(typ) THEN "loaddata" ELSE "idle") /\ (Complete(typ) => p.typ = typ)
        BY DEF ValueTypeOK, Place
      <4>3. KnowsOf(g)'
        BY <2>3, <4>1, <4>2 DEF KnowsOf, WordsAgree, Complete
      <4>4. ReturnedWhole(g)'
        BY <2>3, <2>4, <4>1, <4>2 DEF ReturnedWhole, WordsAgree, ValueTypeOK
      <4> QED BY <3>1, <4>3, <4>4
    <3>2. CASE k # g
      BY <2>2, <2>4, <3>2, <2>3 DEF ValueTypeOK, KnowsOf, ReturnedWhole, Complete
    <3> QED BY <3>1, <3>2
  <2> QED BY <2>5, <2>6, <2>7
<1>2. CASE LoadData(g)
  <2> DEFINE p == [at[g] EXCEPT !.pc = "idle", !.x = None, !.typ = None]
  <2>1. at' = [at EXCEPT ![g] = p] /\ p \in Place
    BY <1>2, ZenonT(60) DEF LoadData, ValueBack, ValueTypeOK, Place, ValueLabels, TypeWords
  <2>2. \A k \in Users : at'[k] = IF k = g THEN p ELSE at[k]
    BY <2>1 DEF ValueTypeOK
  <2>3. at[g].pc = "loaddata" /\ UNCHANGED <<typ, data, current, seen>>
    BY <1>2 DEF LoadData
  <2>4. got' = [got EXCEPT ![g] = [typ |-> at[g].typ, data |-> data]]
    BY <1>2 DEF LoadData
  <2>5. ValueTypeOK'
    BY <2>1, <2>3, <2>4 DEF ValueTypeOK, Place
  <2>6. WordsAgree' /\ OneFirst'
    <3>1. p.pc \in {"idle", "loaddata"}
      BY DEF ValueTypeOK, Place
    <3> HIDE DEF p
    <3>2. OneFirst'
      BY <2>2, <3>1 DEF OneFirst
    <3> QED BY <2>3, <3>2 DEF WordsAgree, Complete
  <2>7. ASSUME NEW k \in Users PROVE KnowsOf(k)' /\ ReturnedWhole(k)'
    <3>1. CASE k = g
      <4>1. at'[g].pc = "idle" /\ got'[g] = [typ |-> at[g].typ, data |-> data]
        BY <2>2, <2>4 DEF ValueTypeOK, Place
      <4>2. data \in seen[g] /\ data \in Values /\ at[g].typ = TypeOf[data]
        BY <2>3 DEF KnowsOf, WordsAgree
      <4>3. data # None
        BY <4>2, ValueConstants
      <4> QED BY <2>3, <3>1, <4>1, <4>2, <4>3 DEF KnowsOf, ReturnedWhole
    <3>2. CASE k # g
      BY <2>2, <2>4, <3>2, <2>3 DEF ValueTypeOK, KnowsOf, ReturnedWhole, Complete
    <3> QED BY <3>1, <3>2
  <2> QED BY <2>5, <2>6, <2>7
<1> QED BY <1>1, <1>2

(* The steps of Store before anything is written.                          *)
LEMMA StoreKeeps ==
    ASSUME ValueInv, NEW g \in Users, (\E x \in Values : Store(g, x)) \/ LoadTyp(g) \/ Swap(g)
    PROVE  ValueInv'
<1> USE DEF ValueInv
<1>0. at[g] \in Place /\ KnowsOf(g)
  BY DEF ValueTypeOK
<1>1. CASE \E x \in Values : Store(g, x)
  <2> PICK x \in Values : Store(g, x)
    BY <1>1
  <2> DEFINE p == [pc |-> "loadtyp", x |-> x, typ |-> None, n |-> at[g].n + 1]
  <2>1. at' = [at EXCEPT ![g] = p] /\ p \in Place /\ at[g].pc = "idle"
        /\ UNCHANGED <<typ, data, got, current, seen>>
    BY <1>0 DEF Store, ValueCall, Place, ValueLabels, TypeWords, ValueTypeOK
  <2> QED BY <2>1, ValueMoves
<1>2. CASE LoadTyp(g)
  <2>0. at[g].pc = "loadtyp" /\ UNCHANGED <<typ, data, got, current, seen>>
    BY <1>2 DEF LoadTyp
  <2>1. CASE typ = None
    <3> DEFINE p == [at[g] EXCEPT !.pc = "swap"]
    <3>1. at' = [at EXCEPT ![g] = p] /\ p \in Place /\ p.pc = "swap" /\ p.x = at[g].x
      BY <1>0, <1>2, <2>1, ValueConstants DEF LoadTyp, ValueGo, Place, ValueLabels, Complete, ValueTypeOK
    <3> QED BY <1>0, <2>0, <3>1, ValueMoves DEF KnowsOf
  <2>2. CASE typ = Busy
    BY <1>2, <2>2, ValueConstants DEF LoadTyp, avars, Complete, ValueTypeOK, WordsAgree, OneFirst,
        KnowsOf, ReturnedWhole
  <2>3. CASE Complete(typ) /\ typ # TypeOf[at[g].x]
    <3> DEFINE p == [at[g] EXCEPT !.pc = "idle", !.x = None, !.typ = None]
    <3>1. at' = [at EXCEPT ![g] = p] /\ p \in Place /\ p.pc = "idle"
      BY <1>0, <1>2, <2>3 DEF LoadTyp, ValueBack, Place, ValueLabels, Complete, ValueTypeOK, TypeWords
    <3> QED BY <2>0, <3>1, ValueMoves
  <2>4. CASE Complete(typ) /\ typ = TypeOf[at[g].x]
    <3> DEFINE p == [at[g] EXCEPT !.pc = "overwrite"]
    <3>1. at' = [at EXCEPT ![g] = p] /\ p \in Place /\ p.pc = "overwrite" /\ p.x = at[g].x
      BY <1>0, <1>2, <2>4 DEF LoadTyp, ValueGo, Place, ValueLabels, Complete, ValueTypeOK
    <3> QED BY <1>0, <2>0, <2>4, <3>1, ValueMoves DEF KnowsOf
  <2> QED BY <2>1, <2>2, <2>3, <2>4 DEF Complete
<1>3. CASE Swap(g)
  <2>0. at[g].pc = "swap" /\ UNCHANGED <<data, got, current, seen>>
    BY <1>3 DEF Swap
  <2>1. CASE typ # None
    <3> DEFINE p == [at[g] EXCEPT !.pc = "loadtyp"]
    <3>1. at' = [at EXCEPT ![g] = p] /\ p \in Place /\ p.pc = "loadtyp" /\ p.x = at[g].x /\ typ' = typ
      BY <1>0, <1>3, <2>1 DEF Swap, First, ValueGo, Place, ValueLabels, ValueTypeOK
    <3> QED BY <1>0, <2>0, <3>1, ValueMoves DEF KnowsOf
  <2>2. CASE typ = None
    <3> DEFINE p == [at[g] EXCEPT !.pc = "first"]
    <3>1. at' = [at EXCEPT ![g] = p] /\ p \in Place /\ p.pc = "first" /\ p.x = at[g].x /\ typ' = Busy
      BY <1>0, <1>3, <2>2 DEF Swap, First, ValueGo, Place, ValueLabels, ValueTypeOK
    <3>2. \A k \in Users : at'[k] = IF k = g THEN p ELSE at[k]
      BY <3>1 DEF ValueTypeOK
    <3>3. ValueTypeOK' /\ WordsAgree'
      BY <2>0, <2>2, <3>1 DEF ValueTypeOK, TypeWords, WordsAgree, Complete
    <3>4. \A k \in Users : at[k].pc \notin {"first", "firsttyp", "overwrite", "loaddata"}
      BY <2>2, ValueConstants DEF KnowsOf, Complete
    <3>5. OneFirst'
      BY <3>1, <3>2, <3>4 DEF OneFirst
    <3>6. \A k \in Users : KnowsOf(k)' /\ ReturnedWhole(k)'
      BY <1>0, <2>0, <3>1, <3>2, <3>4 DEF KnowsOf, ReturnedWhole
    <3> QED BY <3>3, <3>5, <3>6
  <2> QED BY <2>1, <2>2
<1> QED BY <1>1, <1>2, <1>3

(* The steps that write: the first Store, data before type, and later ones. *)
LEMMA WriteKeeps ==
    ASSUME ValueInv, NEW g \in Users, FirstData(g) \/ FirstTyp(g) \/ Overwrite(g)
    PROVE  ValueInv'
<1> USE DEF ValueInv
<1>0. at[g] \in Place /\ KnowsOf(g)
  BY DEF ValueTypeOK
<1>1. CASE FirstData(g)
  <2> DEFINE p == [at[g] EXCEPT !.pc = "firsttyp"]
  <2>1. at' = [at EXCEPT ![g] = p] /\ p \in Place /\ p.pc = "firsttyp" /\ p.x = at[g].x
    BY <1>0, <1>1 DEF FirstData, ValueGo, Place, ValueLabels, ValueTypeOK
  <2>2. at[g].pc = "first" /\ data' = at[g].x /\ UNCHANGED <<typ, got, current, seen>> /\ typ = Busy
        /\ at[g].x \in Values
    BY <1>0, <1>1 DEF FirstData, KnowsOf
  <2>3. \A k \in Users : at'[k] = IF k = g THEN p ELSE at[k]
    BY <2>1 DEF ValueTypeOK
  <2>4. \A k \in Users : /\ k # g => at[k].pc \notin {"first", "firsttyp"}
                         /\ at[k].pc # "loaddata"
    BY <2>2 DEF OneFirst, KnowsOf, Complete
  <2>5. ValueTypeOK' /\ WordsAgree'
    BY <2>1, <2>2 DEF ValueTypeOK, WordsAgree, Complete
  <2>6. OneFirst'
    BY <2>3, <2>4 DEF OneFirst
  <2>7. \A k \in Users : KnowsOf(k)' /\ ReturnedWhole(k)'
    BY <1>0, <2>1, <2>2, <2>3, <2>4 DEF KnowsOf, ReturnedWhole
  <2> QED BY <2>5, <2>6, <2>7
<1>2. CASE FirstTyp(g) \/ Overwrite(g)
  <2> DEFINE p == [at[g] EXCEPT !.pc = "idle", !.x = None, !.typ = None]
             x == at[g].x
  <2>1. at' = [at EXCEPT ![g] = p] /\ p \in Place /\ p.pc = "idle"
    BY <1>0, <1>2 DEF FirstTyp, Overwrite, ValueBack, Place, ValueLabels, ValueTypeOK, TypeWords
  <2>2. \A k \in Users : at'[k] = IF k = g THEN p ELSE at[k]
    BY <2>1 DEF ValueTypeOK
  <2>3. x \in Values /\ typ' = TypeOf[x] /\ data' = x /\ current' = x /\ got' = got
        /\ at[g].pc \in {"firsttyp", "overwrite"}
    BY <1>0, <1>2 DEF FirstTyp, Overwrite, TakesEffect, KnowsOf
  <2>4. seen' = [k \in Users |-> IF at[k].pc = "loaddata" THEN seen[k] \cup {x} ELSE seen[k]]
    BY <1>2 DEF FirstTyp, Overwrite, TakesEffect
  <2>5. Complete(TypeOf[x])
    BY <2>3, ValueConstants DEF Complete
  <2>6. ValueTypeOK'
    BY <2>1, <2>3, <2>4 DEF ValueTypeOK, TypeWords
  <2>7. WordsAgree'
    BY <2>3, <2>5 DEF WordsAgree
  <2>8. \A k \in Users : k # g => at[k].pc \notin {"first", "firsttyp"}
    BY <1>0, <2>3, <2>5 DEF OneFirst, KnowsOf, Complete
  <2>9. OneFirst'
    BY <2>1, <2>2, <2>8 DEF OneFirst
  <2>10. ASSUME NEW k \in Users PROVE KnowsOf(k)' /\ ReturnedWhole(k)'
    <3>1. CASE k = g
      BY <2>1, <2>2, <2>3, <2>4, <3>1 DEF KnowsOf, ReturnedWhole
    <3>2. CASE k # g
      BY <2>2, <2>3, <2>4, <3>2, <1>0, ValueConstants, <2>5, <2>8 DEF KnowsOf, Complete,
          ReturnedWhole
    <3> QED BY <3>1, <3>2
  <2> QED BY <2>6, <2>7, <2>9, <2>10
<1> QED BY <1>1, <1>2

LEMMA ValueStep == ValueInv /\ [ValueNext]_avars => ValueInv'
BY LoadKeeps, StoreKeeps, WriteKeeps DEF ValueNext, avars, ValueInv, ValueTypeOK, WordsAgree,
    OneFirst, KnowsOf, ReturnedWhole, Complete

(* However many goroutines load and store, a Load of an atomic.Value       *)
(* returns a value that was current during it, with its own type.          *)
THEOREM LoadsAreWhole == ValueSpec => []LoadsWhole
<1>1. ValueInv => LoadsWhole
  BY DEF ValueInv, ReturnedWhole, LoadsWhole
<1> QED BY <1>1, ValueStart, ValueStep, PTL DEF ValueSpec

(***************************************************************************)
(* The signal queue.  At most one of three says that the receiver is to be *)
(* woken: state HASWAITER, a handler about to set the Note, the Note; one  *)
(* does exactly while the receiver sleeps.                                 *)
(***************************************************************************)
HandLabels == {"away", "queue", "kick", "wake", "gone"}
LoopLabels == {"serve", "state", "sleep", "copy", "process"}

SigTypeOK ==
    /\ state \in {0, HASWAITER, HASSIGNAL} /\ snote \in BOOLEAN /\ sthrow \in BOOLEAN
    /\ loop \in LoopLabels /\ hand \in [Arrivals -> HandLabels]
    /\ handlers \in [Chans -> SUBSET Signals] /\ ref \in [Signals -> Int]
    /\ buf \in [Chans -> SUBSET Signals]
    /\ stopped \in [Chans -> [is : BOOLEAN, had : SUBSET Signals]]

Wakes(a) == hand[a] = "wake"

OneWaiter ==
    /\ loop # "sleep" => state # HASWAITER /\ ~snote /\ \A a \in Arrivals : ~Wakes(a)
    /\ loop = "sleep" => state = HASWAITER \/ snote \/ \E a \in Arrivals : Wakes(a)
    /\ state = HASWAITER \/ snote => \A a \in Arrivals : ~Wakes(a)
    /\ ~(state = HASWAITER /\ snote)
    /\ \A a, b \in Arrivals : Wakes(a) /\ Wakes(b) => a = b

(* Before the receiver looks at state, it says that there are signals, or  *)
(* will when the handler that has queued one gets there.                   *)
SignalIsTold ==
    loop \in {"serve", "process", "state"} /\ mask # {} =>
        state = HASSIGNAL \/ \E a \in Arrivals : hand[a] = "kick"

QueueSide == OneWaiter /\ SignalIsTold /\ QueueNotForgotten /\ SignalStateConsistent

(* process has a signal to deliver, and a stopped channel has no handler.  *)
ChanSide ==
    /\ loop = "process" => cur # {}
    /\ \A c \in Chans : stopped[c].is => handlers[c] = {}
    /\ WantedIsWanted /\ StopIsFinal

SigInv == SigTypeOK /\ QueueSide /\ ChanSide

LEMMA SigStart == SigInit => SigInv
<1> SUFFICES ASSUME SigInit PROVE SigInv
  OBVIOUS
<1>1. SigTypeOK
  <2>1. stopped \in [Chans -> [is : BOOLEAN, had : SUBSET Signals]] /\ buf \in [Chans -> SUBSET Signals]
        /\ handlers \in [Chans -> SUBSET Signals]
    BY DEF SigInit
  <2>2. ref \in [Signals -> Int] /\ hand \in [Arrivals -> HandLabels]
    BY DEF SigInit, HandLabels
  <2> QED BY <2>1, <2>2 DEF SigInit, SigTypeOK, LoopLabels
<1>2. QueueSide
  BY DEF SigInit, QueueSide, OneWaiter, Wakes, SignalIsTold, QueueNotForgotten, SignalStateConsistent,
         HASWAITER
<1>3. \A s \in Signals : {c \in Chans : s \in handlers[c]} = {}
  BY DEF SigInit
<1>4. ChanSide
  BY <1>3, FS_EmptySet DEF SigInit, ChanSide, WantedIsWanted, StopIsFinal
<1> QED BY <1>1, <1>2, <1>4 DEF SigInv

LEMMA SigTypes == SigInv /\ SigNext => SigTypeOK'
<1> SUFFICES ASSUME SigInv, SigNext PROVE SigTypeOK'
  OBVIOUS
<1> USE DEF SigInv, SigTypeOK
<1>1. ASSUME Receiver PROVE SigTypeOK'
  <2>1. CASE Serve \/ CheckState \/ RecvAwake \/ Copy
    BY <2>1 DEF Serve, CheckState, RecvAwake, Copy, LoopLabels, HASWAITER, HASSIGNAL, chans
  <2>2. CASE process
    BY <2>2 DEF process, LoopLabels, queue
  <2> QED BY <1>1, <2>1, <2>2 DEF Receiver
<1>2. ASSUME NEW a \in Arrivals, sigsend(a) \/ Handler(a) PROVE SigTypeOK'
  BY <1>2 DEF sigsend, Handler, Enqueue, Kick, Kicked, Wakeup, To, HandLabels, queue, chans, HASWAITER, HASSIGNAL
<1>3. ASSUME NEW c \in Chans, NEW sigs \in SUBSET Signals, Notify(c, sigs) PROVE SigTypeOK'
  <2>1. stopped' \in [Chans -> [is : BOOLEAN, had : SUBSET Signals]]
    BY <1>3 DEF Notify
  <2>2. ref' \in [Signals -> Int] /\ handlers' \in [Chans -> SUBSET Signals]
    BY <1>3 DEF Notify
  <2> QED BY <1>3, <2>1, <2>2 DEF Notify
<1>4. ASSUME NEW c \in Chans, Stop(c) PROVE SigTypeOK'
  BY <1>4 DEF Stop, HandlerDeleted
<1>5. ASSUME NEW c \in Chans, Receive(c) PROVE SigTypeOK'
  BY <1>5 DEF Receive, queue
<1> QED BY <1>1, <1>2, <1>3, <1>4, <1>5 DEF SigNext

(* Handlers and the receiver, step by step.                                *)
LEMMA QueueKeeps == SigInv /\ SigNext => QueueSide'
<1> SUFFICES ASSUME SigInv, SigNext PROVE QueueSide'
  OBVIOUS
<1> USE DEF SigInv, QueueSide, OneWaiter, Wakes, SignalIsTold, QueueNotForgotten, SignalStateConsistent,
            HASWAITER, HASSIGNAL
<1>0. state \in {0, 1, 2} /\ hand \in [Arrivals -> HandLabels] /\ loop \in LoopLabels
  BY DEF SigTypeOK
<1>1. CASE Serve
  BY <1>0, <1>1 DEF Serve, chans
<1>2. CASE CheckState
  BY <1>0, <1>2 DEF CheckState, chans
<1>3. CASE RecvAwake
  BY <1>0, <1>3 DEF RecvAwake, chans
<1>4. CASE Copy
  BY <1>0, <1>4 DEF Copy, chans
<1>5. CASE process
  BY <1>0, <1>5 DEF process, queue
<1>6. ASSUME NEW a \in Arrivals, sigsend(a) PROVE QueueSide'
  BY <1>6, <1>0 DEF sigsend, To, queue
<1>7. ASSUME NEW a \in Arrivals, Enqueue(a) PROVE QueueSide'
  BY <1>7, <1>0 DEF Enqueue, To
<1>8. ASSUME NEW a \in Arrivals, Kick(a) PROVE QueueSide'
  BY <1>8, <1>0 DEF Kick, To, Kicked
<1>9. ASSUME NEW a \in Arrivals, Wakeup(a) PROVE QueueSide'
  BY <1>9, <1>0 DEF Wakeup, To
<1>10. ASSUME NEW c \in Chans, Stop(c) \/ Receive(c) \/ \E sigs \in SUBSET Signals : Notify(c, sigs)
       PROVE QueueSide'
  BY <1>10 DEF Stop, Receive, Notify, queue
<1> QED BY <1>1, <1>2, <1>3, <1>4, <1>5, <1>6, <1>7, <1>8, <1>9, <1>10 DEF SigNext, Receiver, Handler

(* The channels that want s, with one more and with one less.              *)
Wanting(hs, s) == {c \in Chans : s \in hs[c]}

LEMMA NotifyCounts ==
    ASSUME SigInv, NEW c \in Chans, NEW sigs \in SUBSET Signals, Notify(c, sigs)
    PROVE  WantedIsWanted'
<1> USE DEF SigInv, SigTypeOK, ChanSide
<1>1. \A s \in Signals : ref[s] = Cardinality(Wanting(handlers, s)) /\ IsFiniteSet(Wanting(handlers, s))
  BY SigConstants, FS_Subset DEF Wanting, WantedIsWanted
<1>2. handlers' = [handlers EXCEPT ![c] = handlers[c] \cup sigs]
      /\ ref' = [s \in Signals |-> IF s \in sigs \ handlers[c] THEN ref[s] + 1 ELSE ref[s]]
      /\ swanted' = swanted \cup {s \in sigs \ handlers[c] : ref[s] = 0}
  BY DEF Notify
<1>3. \A s \in Signals : ref'[s] = Cardinality(Wanting(handlers', s))
  <2> SUFFICES ASSUME NEW s \in Signals PROVE ref'[s] = Cardinality(Wanting(handlers', s))
    OBVIOUS
  <2>1. CASE s \in sigs \ handlers[c]
    <3>1. Wanting(handlers', s) = Wanting(handlers, s) \cup {c} /\ c \notin Wanting(handlers, s)
      BY <1>2, <2>1 DEF Wanting
    <3>2. Cardinality(Wanting(handlers, s) \cup {c}) = Cardinality(Wanting(handlers, s)) + 1
      BY <1>1, <3>1, FS_AddElement
    <3> QED BY <1>1, <1>2, <2>1, <3>1, <3>2
  <2>2. CASE s \notin sigs \ handlers[c]
    BY <1>2, <2>2, <1>1 DEF Wanting
  <2> QED BY <2>1, <2>2
<1>4. \A s \in Signals : ref[s] = 0 <=> Wanting(handlers, s) = {}
  BY <1>1, FS_EmptySet
<1>5. swanted = UNION {handlers[k] : k \in Chans}
  BY DEF WantedIsWanted
<1>6. \A s : s \in swanted <=> s \in Signals /\ Wanting(handlers, s) # {}
  BY <1>5 DEF Wanting
<1>7. \A s : s \in swanted' <=> s \in Signals /\ (Wanting(handlers, s) # {} \/ s \in sigs)
  BY <1>2, <1>4, <1>6 DEF Wanting
<1>8. \A s : s \in Signals /\ (Wanting(handlers, s) # {} \/ s \in sigs) <=> \E k \in Chans : s \in handlers'[k]
  BY <1>2 DEF Wanting
<1>9. swanted' = UNION {handlers'[k] : k \in Chans}
  BY <1>7, <1>8, ZenonT(60)
<1> QED BY <1>3, <1>9 DEF WantedIsWanted, Wanting

LEMMA StopCounts ==
    ASSUME SigInv, NEW c \in Chans, Stop(c)
    PROVE  WantedIsWanted'
<1> USE DEF SigInv, SigTypeOK, ChanSide
<1>1. \A s \in Signals : ref[s] = Cardinality(Wanting(handlers, s)) /\ IsFiniteSet(Wanting(handlers, s))
  BY SigConstants, FS_Subset DEF Wanting, WantedIsWanted
<1>2. handlers' = [handlers EXCEPT ![c] = {}]
      /\ ref' = [s \in Signals |-> IF s \in handlers[c] THEN ref[s] - 1 ELSE ref[s]]
      /\ swanted' = swanted \ {s \in handlers[c] : ref[s] = 1}
  BY DEF Stop, HandlerDeleted, LastRef
<1>3. \A s \in Signals : /\ Wanting(handlers', s) = Wanting(handlers, s) \ {c}
                         /\ c \in Wanting(handlers, s) <=> s \in handlers[c]
  BY <1>2 DEF Wanting
<1>4. \A s \in Signals : ref'[s] = Cardinality(Wanting(handlers', s)) /\ IsFiniteSet(Wanting(handlers', s))
  <2> SUFFICES ASSUME NEW s \in Signals
               PROVE  ref'[s] = Cardinality(Wanting(handlers', s)) /\ IsFiniteSet(Wanting(handlers', s))
    OBVIOUS
  <2>1. /\ IsFiniteSet(Wanting(handlers, s) \ {c})
        /\ Cardinality(Wanting(handlers, s) \ {c}) =
             IF c \in Wanting(handlers, s) THEN Cardinality(Wanting(handlers, s)) - 1
             ELSE Cardinality(Wanting(handlers, s))
    BY <1>1, FS_RemoveElement
  <2> QED BY <1>1, <1>2, <1>3, <2>1
<1>5. \A s \in Signals : s \in handlers[c] => (ref[s] = 1 <=> Wanting(handlers', s) = {})
  <2> SUFFICES ASSUME NEW s \in Signals, s \in handlers[c]
               PROVE  ref[s] = 1 <=> Wanting(handlers', s) = {}
    OBVIOUS
  <2>1. ref'[s] = ref[s] - 1 /\ ref[s] \in Int
    BY <1>2
  <2>2. Cardinality(Wanting(handlers', s)) = 0 <=> Wanting(handlers', s) = {}
    BY <1>4, FS_EmptySet
  <2> QED BY <1>4, <2>1, <2>2
<1>6. swanted = UNION {handlers[k] : k \in Chans}
  BY DEF WantedIsWanted
<1>7. \A s : s \in swanted <=> s \in Signals /\ Wanting(handlers, s) # {}
  BY <1>6 DEF Wanting
<1>8. \A s : s \in swanted' <=> s \in Signals /\ Wanting(handlers', s) # {}
  <2> SUFFICES ASSUME NEW s PROVE s \in swanted' <=> s \in Signals /\ Wanting(handlers', s) # {}
    OBVIOUS
  <2>1. CASE s \in handlers[c]
    BY <1>2, <1>3, <1>5, <1>7, <2>1
  <2>2. CASE s \notin handlers[c]
    <3>1. s \in Signals => Wanting(handlers', s) = Wanting(handlers, s)
      BY <1>3, <2>2, ZenonT(60)
    <3> QED BY <1>2, <1>7, <2>2, <3>1
  <2> QED BY <2>1, <2>2
<1>9. handlers' \in [Chans -> SUBSET Signals]
  BY <1>2
<1>10. \A s : s \in Signals /\ Wanting(handlers', s) # {} <=> \E k \in Chans : s \in handlers'[k]
  BY <1>9 DEF Wanting
<1>11. swanted' = UNION {handlers'[k] : k \in Chans}
  BY <1>8, <1>10, ZenonT(60)
<1> QED BY <1>4, <1>11 DEF WantedIsWanted, Wanting

LEMMA ChansKeep == SigInv /\ SigNext => ChanSide'
<1> SUFFICES ASSUME SigInv, SigNext PROVE ChanSide'
  OBVIOUS
<1> USE DEF SigInv, SigTypeOK
<1>1. CASE Serve \/ CheckState \/ RecvAwake \/ Copy \/ \E a \in Arrivals : sigsend(a) \/ Handler(a)
  <2>1. UNCHANGED <<swanted, handlers, ref, buf, stopped>>
    BY <1>1 DEF Serve, CheckState, RecvAwake, Copy, sigsend, Handler, Enqueue, Kick, Wakeup, chans, queue
  <2>2. loop' = "process" => cur' # {}
    BY <1>1 DEF Serve, CheckState, RecvAwake, Copy, sigsend, Handler, Enqueue, Kick, Wakeup, chans, queue, ChanSide
  <2> QED BY <2>1, <2>2 DEF ChanSide, WantedIsWanted, StopIsFinal
<1>2. CASE process
  BY <1>2 DEF process, queue, ChanSide, WantedIsWanted, StopIsFinal
<1>3. ASSUME NEW c \in Chans, NEW sigs \in SUBSET Signals, Notify(c, sigs) PROVE ChanSide'
  BY <1>3, NotifyCounts DEF Notify, ChanSide, StopIsFinal
<1>4. ASSUME NEW c \in Chans, Stop(c) PROVE ChanSide'
  BY <1>4, StopCounts DEF Stop, HandlerDeleted, ChanSide, StopIsFinal
<1>5. ASSUME NEW c \in Chans, Receive(c) PROVE ChanSide'
  BY <1>5 DEF Receive, queue, ChanSide, WantedIsWanted, StopIsFinal
<1> QED BY <1>1, <1>2, <1>3, <1>4, <1>5 DEF SigNext, Receiver

LEMMA SigStep == SigInv /\ [SigNext]_svars => SigInv'
BY SigTypes, QueueKeeps, ChansKeep DEF SigInv, svars, SigTypeOK, QueueSide, OneWaiter, Wakes,
    SignalIsTold, QueueNotForgotten, SignalStateConsistent, ChanSide, WantedIsWanted, StopIsFinal

(* However signals arrive while channels come and go, the receiver and the *)
(* handlers agree on who sleeps, no queued signal is forgotten, what is    *)
(* delivered is what is wanted, and Stop is final.                         *)
THEOREM SignalsAreSafe == SigSpec => []SignalSafe
<1>1. SigInv => SignalSafe
  BY DEF SigInv, QueueSide, ChanSide, SignalSafe
<1> QED BY <1>1, SigStart, SigStep, PTL DEF SigSpec

(***************************************************************************)
(* The parallel for.  A thread has work of its own only at the start of    *)
(* its loop; what it has stolen is in nobody's range until it is its own.  *)
(* done counts the threads that are idle or have left.                     *)
(***************************************************************************)
ParLabels == {"away", "bump", "body", "try", "check", "leave", "exit", "load", "fail", "unidle", "cas", "stolen"}
Span == [begin : Nat, end : Nat]
ParLocals == [pc : ParLabels, idle : BOOLEAN, long : BOOLEAN, victim : Thr, old : Span]

ParTypeOK ==
    /\ pos \in [Thr -> Span] /\ done \in Int
    /\ runs \in [Iterations -> Int] /\ busy \in SUBSET Iterations
    /\ pthr \in [Thr -> ParLocals]
    /\ wait \in BOOLEAN

In(i, p) == p.begin <= i /\ i < p.end
Owners(i) == {t \in Thr : In(i, pos[t])}
Thieves(i) == {t \in Thr : pthr[t].pc = "stolen" /\ In(i, pthr[t].old)}
Counted == {t \in Thr : pthr[t].idle \/ pthr[t].pc = "exit"}

(* What a thread's range, what it has loaded or stolen, and its being idle *)
(* are at the places of parfordo.                                          *)
ThreadOK(t) ==
    /\ pos[t].end <= cnt
    /\ pthr[t].pc \notin {"away", "bump", "body"} => pos[t].end <= pos[t].begin
    /\ pthr[t].pc \in {"unidle", "cas"} => HasHalf(pthr[t].old) /\ pthr[t].old.end <= cnt
    /\ pthr[t].pc = "stolen" => pthr[t].old.end <= cnt
    /\ pthr[t].pc \in {"away", "bump", "body", "cas", "stolen", "leave"} => ~pthr[t].idle
    /\ pthr[t].pc = "unidle" => pthr[t].idle

OneHand(i) == runs[i] + Cardinality(Owners(i)) + Cardinality(Thieves(i)) = 1

Running == \A i \in busy : \E t \in Thr : pthr[t].pc = "body" /\ pthr[t].old.begin = i

ParInv ==
    /\ ParTypeOK /\ ~pthrow /\ (\A t \in Thr : ThreadOK(t)) /\ (\A i \in Iterations : OneHand(i))
    /\ Running /\ done = Cardinality(Counted) /\ AllRunAtExit

LEMMA ThrFinite ==
    /\ IsFiniteSet(Thr) /\ Cardinality(Thr) = nthr
    /\ \A S \in SUBSET Thr : IsFiniteSet(S) /\ Cardinality(S) \in Nat /\ (Cardinality(S) = nthr => S = Thr)
<1>1. IsFiniteSet(Thr) /\ Cardinality(Thr) = nthr
  BY ParConstants, FS_Interval DEF Thr
<1> QED BY <1>1, FS_Subset, FS_CardinalityType

(* Division by nthr.                                                       *)
LEMMA DivBounds ==
    ASSUME NEW a \in Nat, NEW b \in Nat \ {0}
    PROVE  /\ a \div b \in Nat
           /\ b * (a \div b) <= a
           /\ a < b * (a \div b) + b
OBVIOUS

(* (cnt * t) \div nthr is at most i exactly for the t below (i + 1) * nthr. *)
LEMMA DivCompare ==
    ASSUME NEW a \in Nat, NEW b \in Nat \ {0}, NEW i \in Nat
    PROVE  (a \div b <= i) <=> (a < (i + 1) * b)
<1> DEFINE q == a \div b
<1>1. q \in Nat /\ b * q <= a /\ a < b * q + b
  BY DivBounds
<1> HIDE DEF q
<1>2. ASSUME q <= i PROVE a < (i + 1) * b
  BY <1>1, <1>2
<1>3. ASSUME a < (i + 1) * b PROVE q <= i
  BY <1>1, <1>3
<1> QED BY <1>2, <1>3 DEF q

(* parforsetup gives every iteration to one thread.                        *)
LEMMA SplitsEvenly ==
    ASSUME NEW i \in Iterations
    PROVE  \E t \in Thr : \A u \in Thr :
             ((cnt * u) \div nthr <= i /\ i < (cnt * (u + 1)) \div nthr) <=> u = t
<1> DEFINE e == (i + 1) * nthr - 1
           t == e \div cnt
<1>1. i \in Nat /\ cnt \in Nat \ {0} /\ nthr \in Nat \ {0} /\ i + 1 <= cnt
  BY ParConstants DEF Iterations
<1>2. e \in Nat /\ e < cnt * nthr
  BY <1>1
<1>3. t \in Nat /\ cnt * t <= e /\ e < cnt * t + cnt
  BY <1>1, <1>2, DivBounds
<1> HIDE DEF t
<1>4. t \in Thr
  BY <1>1, <1>2, <1>3 DEF Thr
<1>5. ASSUME NEW u \in Thr
      PROVE  ((cnt * u) \div nthr <= i /\ i < (cnt * (u + 1)) \div nthr) <=> u = t
  <2>1. u \in Nat /\ cnt * u \in Nat /\ cnt * (u + 1) \in Nat
    BY <1>1 DEF Thr
  <2>2. ((cnt * u) \div nthr <= i) <=> (cnt * u <= e)
    BY <1>1, <2>1, DivCompare
  <2>3. (i < (cnt * (u + 1)) \div nthr) <=> (e < cnt * (u + 1))
    BY <1>1, <2>1, DivCompare, DivBounds
  <2> HIDE DEF e
  <2>4. (cnt * u <= e) <=> u <= t
    BY <1>1, <1>3, <2>1, <1>2
  <2>5. (e < cnt * (u + 1)) <=> t <= u
    BY <1>1, <1>3, <2>1, <1>2
  <2> QED BY <1>3, <2>1, <2>2, <2>3, <2>4, <2>5
<1> QED BY <1>4, <1>5

LEMMA ParStart == ParInit => ParInv
<1> SUFFICES ASSUME ParInit PROVE ParInv
  OBVIOUS
<1>1. \A t \in Thr : /\ t \in Nat /\ t + 1 <= nthr
                     /\ pthr[t].pc = "away" /\ ~pthr[t].idle
                     /\ pos[t].begin = (cnt * t) \div nthr
                     /\ pos[t].end = (cnt * (t + 1)) \div nthr
  <2> DEFINE B(t) == (cnt * t) \div nthr
             E(t) == (cnt * (t + 1)) \div nthr
  <2>1. pos = [t \in Thr |-> [begin |-> B(t), end |-> E(t)]]
    BY DEF ParInit
  <2> HIDE DEF B, E
  <2>2. \A t \in Thr : pos[t].begin = B(t) /\ pos[t].end = E(t)
    BY <2>1
  <2>3. \A t \in Thr : t \in Nat /\ t + 1 <= nthr /\ pthr[t].pc = "away" /\ ~pthr[t].idle
    BY ParConstants DEF ParInit, Thr
  <2> QED BY <2>2, <2>3 DEF B, E
<1>2. \A t \in Thr : (cnt * t) \div nthr \in Nat /\ (cnt * (t + 1)) \div nthr \in Nat
  BY <1>1, ParConstants, DivBounds
<1>3. \A t \in Thr : pos[t].end <= cnt
  <2> SUFFICES ASSUME NEW t \in Thr PROVE pos[t].end <= cnt
    OBVIOUS
  <2>0. t \in Nat /\ t + 1 <= nthr /\ cnt \in Nat /\ nthr \in Nat /\ pos[t].end = (cnt * (t + 1)) \div nthr
    BY <1>1, ParConstants
  <2>1. cnt * (t + 1) \in Nat /\ cnt * (t + 1) <= cnt * nthr
    BY <2>0
  <2>2. cnt * nthr < (cnt + 1) * nthr /\ cnt * nthr \in Nat /\ (cnt + 1) * nthr \in Nat
    BY ParConstants
  <2>3. cnt * (t + 1) < (cnt + 1) * nthr
    BY <2>1, <2>2
  <2>4. (cnt * (t + 1)) \div nthr <= cnt
    BY <2>1, <2>3, DivCompare, ParConstants
  <2> QED BY <2>0, <2>4
<1>4. ParTypeOK
  BY <1>2 DEF ParInit, Span, ParLocals, ParLabels, ParTypeOK
<1>5. ASSUME NEW i \in Iterations PROVE OneHand(i)
  <2>1. Thieves(i) = {} /\ runs[i] = 0
    BY <1>1, <1>5 DEF Thieves, ParInit
  <2>2. PICK t \in Thr : \A u \in Thr :
             ((cnt * u) \div nthr <= i /\ i < (cnt * (u + 1)) \div nthr) <=> u = t
    BY <1>5, SplitsEvenly
  <2>3. \A u \in Thr : In(i, pos[u]) <=> u = t
    BY <1>1, <2>2 DEF In
  <2>4. Owners(i) = {t}
    BY <2>3 DEF Owners
  <2> QED BY <2>1, <2>4, FS_EmptySet, FS_Singleton, SMTT(60) DEF OneHand
<1>6. Counted = {}
  BY <1>1 DEF Counted
<1>7. \A t \in Thr : ThreadOK(t)
  BY <1>1, <1>3 DEF ThreadOK
<1>8. ~pthrow /\ Running /\ done = 0 /\ AllRunAtExit
  BY <1>1 DEF ParInit, Running, AllRunAtExit
<1> QED BY <1>4, <1>5, <1>6, <1>7, <1>8, FS_EmptySet DEF ParInv

(* A thread that moves without touching a range or an iteration.           *)
LEMMA ParMoves ==
    ASSUME ParInv, NEW t \in Thr, NEW l \in ParLocals, pthr' = [pthr EXCEPT ![t] = l],
           UNCHANGED <<wait, pos, runs, busy, pthrow>>,
           pthr[t].pc \notin {"body", "stolen"}, l.pc \notin {"body", "stolen", "away"},
           l.pc = "bump" => pthr[t].pc = "away" /\ ~l.idle,
           l.pc # "bump" => pthr[t].pc \notin {"away", "bump"},
           l.pc \in {"unidle", "cas"} => HasHalf(l.old) /\ l.old.end <= cnt,
           l.pc \in {"cas", "leave"} => ~l.idle, l.pc = "unidle" => l.idle,
           l.pc \in {"leave", "exit"} /\ wait /\ pthr[t].pc \notin {"leave", "exit"} =>
              Thr = Counted \cup {t},
           done' = Cardinality(Counted')
    PROVE  ParInv'
<1> USE DEF ParInv, ParTypeOK
<1>1. \A u \in Thr : pthr'[u] = IF u = t THEN l ELSE pthr[u]
  OBVIOUS
<1>2. Counted' \in SUBSET Thr
  BY DEF Counted
<1>3. ParTypeOK'
  BY <1>2, ThrFinite
<1>4. \A u \in Thr : ThreadOK(u)'
  BY <1>1 DEF ThreadOK
<1>5. \A i \in Iterations : Owners(i)' = Owners(i) /\ Thieves(i)' = Thieves(i)
  BY <1>1 DEF Owners, Thieves
<1>6. \A i \in Iterations : OneHand(i)'
  BY <1>5 DEF OneHand
<1>7. Running'
  BY <1>1 DEF Running
<1>8. AllRunAtExit'
  <2> SUFFICES ASSUME wait, NEW u \in Thr, pthr'[u].pc \in {"leave", "exit"}
               PROVE  busy = {} /\ \A i \in Iterations : runs[i] = 1
    BY DEF AllRunAtExit
  <2>1. CASE \E v \in Thr : pthr[v].pc \in {"leave", "exit"}
    BY <2>1 DEF AllRunAtExit
  <2>2. CASE ~\E v \in Thr : pthr[v].pc \in {"leave", "exit"}
    <3>1. u = t /\ Thr = Counted \cup {t}
      BY <1>1, <2>2
    <3>2. \A v \in Thr : v # t => pthr[v].idle
      BY <2>2, <3>1 DEF Counted
    <3>3. \A v \in Thr : pthr[v].pc \notin {"away", "bump", "body", "stolen"}
      BY <1>1, <3>1, <3>2 DEF ThreadOK
    <3>4. busy = {}
      BY <3>3 DEF Running
    <3>5. \A i \in Iterations : Owners(i) = {} /\ Thieves(i) = {}
      <4> SUFFICES ASSUME NEW i \in Iterations, NEW v \in Thr
                   PROVE ~In(i, pos[v]) /\ pthr[v].pc # "stolen"
        BY DEF Owners, Thieves
      <4>1. pos[v].end <= pos[v].begin /\ pos[v] \in Span
        BY <3>3 DEF ThreadOK
      <4>2. i \in Int
        BY DEF Iterations
      <4> QED BY <3>3, <4>1, <4>2 DEF In, Span
    <3>6. \A i \in Iterations : runs[i] = 1
      <4> SUFFICES ASSUME NEW i \in Iterations PROVE runs[i] = 1
        OBVIOUS
      <4>1. runs[i] + Cardinality({}) + Cardinality({}) = 1 /\ runs[i] \in Int
        BY <3>5 DEF OneHand
      <4> QED BY <4>1, FS_EmptySet
    <3> QED BY <3>4, <3>6
  <2> QED BY <2>1, <2>2
<1> QED BY <1>3, <1>4, <1>6, <1>7, <1>8

(* Nobody who leaves a loop that is waited for leaves work behind: there   *)
(* is none any more.                                                       *)
LEMMA NoWorkLeft ==
    ASSUME ParInv, wait, NEW u \in Thr, pthr[u].pc \in {"leave", "exit"}
    PROVE  \A t \in Thr, i \in Iterations : ~In(i, pos[t]) /\ ~(pthr[t].pc = "stolen" /\ In(i, pthr[t].old))
<1> USE DEF ParInv
<1> SUFFICES ASSUME NEW i \in Iterations PROVE Owners(i) = {} /\ Thieves(i) = {}
  BY DEF Owners, Thieves
<1>1. runs[i] = 1 /\ OneHand(i)
  BY DEF AllRunAtExit
<1>2. Owners(i) \in SUBSET Thr /\ Thieves(i) \in SUBSET Thr
  BY DEF Owners, Thieves
<1>3. Cardinality(Owners(i)) = 0 /\ Cardinality(Thieves(i)) = 0
  BY <1>1, <1>2, ThrFinite DEF OneHand
<1> QED BY <1>2, <1>3, ThrFinite, FS_EmptySet

(* The same for steps that touch ranges, iterations or thieves, provided   *)
(* every iteration stays in one hand.                                      *)
LEMMA ParWorks ==
    ASSUME ParInv, NEW t \in Thr, NEW l \in ParLocals, pthr' = [pthr EXCEPT ![t] = l],
           UNCHANGED <<wait, done>>, ~pthrow', ParTypeOK',
           ~pthr[t].idle, ~l.idle, {pthr[t].pc, l.pc} \cap {"leave", "exit"} = {},
           \A u \in Thr : ThreadOK(u)', \A i \in Iterations : OneHand(i)', Running',
           wait /\ (\E u \in Thr : pthr[u].pc \in {"leave", "exit"}) => runs' = runs /\ busy' \subseteq busy
    PROVE  ParInv'
<1> USE DEF ParInv
<1>1. \A u \in Thr : pthr'[u] = IF u = t THEN l ELSE pthr[u]
  BY DEF ParTypeOK
<1>2. Counted' = Counted
  BY <1>1 DEF Counted
<1>3. AllRunAtExit'
  BY <1>1 DEF AllRunAtExit
<1> QED BY <1>2, <1>3

LEMMA HandOver ==
    ASSUME ParInv, NEW i \in Iterations
    PROVE  /\ IsFiniteSet(Owners(i)) /\ Cardinality(Owners(i)) \in Nat
           /\ IsFiniteSet(Thieves(i)) /\ Cardinality(Thieves(i)) \in Nat
           /\ OneHand(i) /\ runs[i] \in Int
BY ThrFinite DEF Owners, Thieves, ParInv, ParTypeOK

(* xadd64 takes an iteration off the thread's own range, or finds it empty. *)
LEMMA BumpKeeps == ASSUME ParInv, NEW t \in Thr, Bump(t) PROVE ParInv'
<1> USE DEF ParInv
<1> DEFINE p == pos[t]
<1>0. pthr[t] \in ParLocals /\ ThreadOK(t) /\ pthr[t].pc = "bump" /\ ~pthr[t].idle /\ p \in Span
      /\ p.begin \in Nat /\ p.end \in Nat /\ p.end <= cnt
  BY DEF ParTypeOK, Bump, ParAt, ThreadOK, Span
<1>1. pos' = [pos EXCEPT ![t] = [begin |-> p.begin + 1, end |-> p.end]] /\ UNCHANGED <<wait, done, pthrow>>
  <2>1. [p EXCEPT !.begin = @ + 1] = [begin |-> p.begin + 1, end |-> p.end]
    BY <1>0 DEF Span
  <2>2. pos' = [pos EXCEPT ![t] = [p EXCEPT !.begin = @ + 1]]
    BY DEF Bump
  <2> QED BY <2>1, <2>2 DEF Bump
<1>2. \A u \in Thr : pos'[u] = IF u = t THEN [begin |-> p.begin + 1, end |-> p.end] ELSE pos[u]
  BY <1>1 DEF ParTypeOK
<1>3. pos' \in [Thr -> Span]
  BY <1>0, <1>1 DEF ParTypeOK, Span
<1>4. CASE p.begin < p.end
  <2> DEFINE l == [pthr[t] EXCEPT !.pc = "body", !.old = p]
             k == p.begin
  <2>1. pthr' = [pthr EXCEPT ![t] = l] /\ l \in ParLocals /\ l.pc = "body" /\ ~l.idle /\ l.old = p
    BY <1>0, <1>4 DEF Bump, ParLocals, ParLabels, ParTypeOK
  <2>2. runs' = [runs EXCEPT ![k] = @ + 1] /\ busy' = busy \cup {k}
    BY <1>4 DEF Bump
  <2>3. k \in Iterations
    BY <1>0, <1>4, ParConstants DEF Iterations
  <2>4. \A u \in Thr : pthr'[u] = IF u = t THEN l ELSE pthr[u]
    BY <2>1 DEF ParTypeOK
  <2>5. ParTypeOK'
    BY <1>1, <1>3, <2>1, <2>2, <2>3 DEF ParTypeOK
  <2>6. \A u \in Thr : ThreadOK(u)'
    BY <1>0, <1>2, <2>1, <2>4 DEF ThreadOK
  <2>7. ASSUME NEW i \in Iterations PROVE OneHand(i)'
    <3>0. i \in Nat /\ Thieves(i)' = Thieves(i)
      BY <1>0, <2>1, <2>4 DEF Thieves, Iterations
    <3>1. CASE i = k
      <4>1. In(k, p) /\ ~In(k, [begin |-> p.begin + 1, end |-> p.end])
        BY <1>0, <1>4 DEF In
      <4>2. Owners(i)' = Owners(i) \ {t} /\ t \in Owners(i)
        BY <1>2, <3>1, <4>1 DEF Owners
      <4>3. runs'[i] = runs[i] + 1
        BY <2>2, <2>3, <3>1 DEF ParTypeOK
      <4>4. Cardinality(Owners(i)') = Cardinality(Owners(i)) - 1
        BY <4>2, HandOver, FS_RemoveElement
      <4> QED BY <3>0, <4>3, <4>4, HandOver DEF OneHand
    <3>2. CASE i # k
      <4>1. In(i, p) <=> In(i, [begin |-> p.begin + 1, end |-> p.end])
        BY <1>0, <3>0, <3>2 DEF In
      <4>2. Owners(i)' = Owners(i)
        BY <1>2, <4>1 DEF Owners
      <4>3. runs'[i] = runs[i]
        BY <2>2, <2>3, <3>2 DEF ParTypeOK
      <4> QED BY <3>0, <4>2, <4>3, HandOver DEF OneHand
    <3> QED BY <3>1, <3>2
  <2>8. Running'
    <3> SUFFICES ASSUME NEW i \in busy' PROVE \E u \in Thr : pthr'[u].pc = "body" /\ pthr'[u].old.begin = i
      BY DEF Running
    <3>1. CASE i = k
      BY <2>1, <2>4, <3>1
    <3>2. CASE i \in busy
      BY <3>2, <1>0, <2>4 DEF Running
    <3> QED BY <2>2, <3>1, <3>2
  <2>9. ASSUME wait, \E u \in Thr : pthr[u].pc \in {"leave", "exit"} PROVE FALSE
    <3>1. In(k, pos[t])
      BY <1>0, <1>4 DEF In
    <3> QED BY <2>3, <2>9, <3>1, NoWorkLeft
  <2> QED BY <1>0, <1>1, <2>1, <2>5, <2>6, <2>7, <2>8, <2>9, ParWorks
<1>5. CASE ~(p.begin < p.end)
  <2> DEFINE l == [pthr[t] EXCEPT !.pc = "try", !.idle = FALSE, !.long = FALSE, !.old = Empty]
  <2>1. pthr' = [pthr EXCEPT ![t] = l] /\ l \in ParLocals /\ l.pc = "try" /\ ~l.idle
    BY <1>0, <1>5 DEF Bump, ParLocals, ParLabels, ParTypeOK, Empty, Span
  <2>2. UNCHANGED <<runs, busy>>
    BY <1>5 DEF Bump
  <2>4. \A u \in Thr : pthr'[u] = IF u = t THEN l ELSE pthr[u]
    BY <2>1 DEF ParTypeOK
  <2>5. ParTypeOK'
    BY <1>1, <1>3, <2>1, <2>2 DEF ParTypeOK
  <2>6. \A u \in Thr : ThreadOK(u)'
    BY <1>0, <1>2, <1>5, <2>1, <2>4 DEF ThreadOK
  <2>7. ASSUME NEW i \in Iterations PROVE OneHand(i)'
    <3>1. i \in Nat /\ Thieves(i)' = Thieves(i)
      BY <1>0, <2>1, <2>4 DEF Thieves, Iterations
    <3>2. ~In(i, p) /\ ~In(i, [begin |-> p.begin + 1, end |-> p.end])
      BY <1>0, <1>5, <3>1 DEF In
    <3>3. Owners(i)' = Owners(i)
      BY <1>2, <3>2 DEF Owners
    <3> QED BY <2>2, <3>1, <3>3, HandOver DEF OneHand
  <2>8. Running'
    BY <1>0, <2>1, <2>2, <2>4 DEF Running
  <2> QED BY <1>0, <1>1, <2>1, <2>2, <2>5, <2>6, <2>7, <2>8, ParWorks
<1> QED BY <1>4, <1>5

LEMMA BodyKeeps == ASSUME ParInv, NEW t \in Thr, BodyEnds(t) PROVE ParInv'
<1> USE DEF ParInv
<1> DEFINE l == [pthr[t] EXCEPT !.pc = "bump", !.old = Empty]
<1>0. pthr[t] \in ParLocals /\ ThreadOK(t) /\ pthr[t].pc = "body" /\ ~pthr[t].idle
  BY DEF ParTypeOK, BodyEnds, ParAt, ThreadOK
<1>1. pthr' = [pthr EXCEPT ![t] = l] /\ l \in ParLocals /\ l.pc = "bump" /\ ~l.idle
  BY <1>0 DEF BodyEnds, ParLocals, ParLabels, ParTypeOK, Empty, Span
<1>2. busy' = busy \ {pthr[t].old.begin} /\ UNCHANGED <<wait, pos, done, runs, pthrow>>
  BY DEF BodyEnds
<1>3. \A u \in Thr : pthr'[u] = IF u = t THEN l ELSE pthr[u]
  BY <1>1 DEF ParTypeOK
<1>4. ParTypeOK'
  BY <1>1, <1>2 DEF ParTypeOK
<1>5. \A u \in Thr : ThreadOK(u)'
  BY <1>0, <1>1, <1>2, <1>3 DEF ThreadOK
<1>6. \A i \in Iterations : Owners(i)' = Owners(i) /\ Thieves(i)' = Thieves(i)
  BY <1>0, <1>1, <1>2, <1>3 DEF Owners, Thieves
<1>7. \A i \in Iterations : OneHand(i)'
  BY <1>2, <1>6 DEF OneHand
<1>8. Running'
  BY <1>2, <1>3 DEF Running
<1> QED BY <1>0, <1>1, <1>2, <1>4, <1>5, <1>7, <1>8, ParWorks

(* The compare-and-swap that steals, and the one that fails.               *)
LEMMA CasKeeps == ASSUME ParInv, NEW t \in Thr, Cas(t) PROVE ParInv'
<1> USE DEF ParInv
<1> DEFINE v == pthr[t].victim
           old == pthr[t].old
<1>0. pthr[t] \in ParLocals /\ ThreadOK(t) /\ pthr[t].pc = "cas" /\ ~pthr[t].idle /\ v \in Thr /\ old \in Span
      /\ old.begin \in Nat /\ old.end \in Nat /\ old.begin + 1 < old.end /\ old.end <= cnt
      /\ UNCHANGED <<wait, done, runs, busy, pthrow>>
  BY DEF ParTypeOK, Cas, ParAt, ThreadOK, ParLocals, HasHalf, Span
<1>1. CASE pos[v] = old
  <2> DEFINE m == old.begin + (old.end - old.begin) \div 2
             l == [pthr[t] EXCEPT !.old = [begin |-> m, end |-> old.end], !.pc = "stolen"]
             low == [begin |-> old.begin, end |-> m]
  <2>0. m \in Nat /\ old.begin < m /\ m < old.end
    BY <1>0
  <2>1. pos' = [pos EXCEPT ![v] = low]
    BY <1>0, <1>1 DEF Cas, Lower, Half, Span
  <2>2. pthr' = [pthr EXCEPT ![t] = l] /\ l \in ParLocals /\ l.pc = "stolen" /\ ~l.idle
        /\ l.old = [begin |-> m, end |-> old.end]
    BY <1>0, <1>1, <2>0 DEF Cas, Half, ParLocals, ParLabels, ParTypeOK, Span
  <2> HIDE DEF m
  <2>3. \A u \in Thr : pthr'[u] = IF u = t THEN l ELSE pthr[u]
    BY <2>2 DEF ParTypeOK
  <2>4. \A u \in Thr : pos'[u] = IF u = v THEN low ELSE pos[u]
    BY <2>1 DEF ParTypeOK
  <2>5. v # t /\ pthr[v].pc \in {"away", "bump", "body"}
    BY <1>0, <1>1 DEF ThreadOK
  <2>6. ParTypeOK'
    BY <1>0, <2>0, <2>1, <2>2 DEF ParTypeOK, Span
  <2>7. \A u \in Thr : ThreadOK(u)'
    <3> SUFFICES ASSUME NEW u \in Thr PROVE ThreadOK(u)'
      OBVIOUS
    <3>1. CASE u = t
      BY <1>0, <2>2, <2>3, <2>4, <2>5, <3>1 DEF ThreadOK
    <3>2. CASE u = v
      BY <1>0, <2>0, ParConstants, <2>3, <2>4, <2>5, <3>2 DEF ThreadOK
    <3>3. CASE u # t /\ u # v
      BY <2>3, <2>4, <3>3 DEF ThreadOK
    <3> QED BY <3>1, <3>2, <3>3
  <2>8. ASSUME NEW i \in Iterations PROVE OneHand(i)'
    <3>0. i \in Nat
      BY DEF Iterations
    <3>1. CASE In(i, l.old)
      <4>1. In(i, pos[v]) /\ ~In(i, low)
        BY <1>0, <1>1, <2>0, <2>2, <3>0, <3>1 DEF In
      <4>2. Owners(i)' = Owners(i) \ {v} /\ v \in Owners(i)
        BY <1>0, <2>4, <4>1 DEF Owners
      <4>3. Thieves(i)' = Thieves(i) \cup {t} /\ t \notin Thieves(i)
        BY <1>0, <2>2, <2>3, <3>1, ZenonT(60) DEF Thieves
      <4>4. Cardinality(Owners(i)') = Cardinality(Owners(i)) - 1
        <5>1. Cardinality(Owners(i) \ {v}) = Cardinality(Owners(i)) - 1
          BY <4>2, HandOver, FS_RemoveElement
        <5> QED BY <4>2, <5>1
      <4>5. Cardinality(Thieves(i)') = Cardinality(Thieves(i)) + 1
        BY <4>3, HandOver, FS_AddElement
      <4> QED BY <1>0, <4>4, <4>5, HandOver DEF OneHand
    <3>2. CASE ~In(i, l.old)
      <4>1. In(i, pos[v]) <=> In(i, low)
        BY <1>0, <1>1, <2>0, <2>2, <3>0, <3>2 DEF In
      <4>2. Owners(i)' = Owners(i)
        BY <2>4, <4>1 DEF Owners
      <4>3. Thieves(i)' = Thieves(i)
        BY <1>0, <2>3, <3>2 DEF Thieves
      <4> QED BY <1>0, <4>2, <4>3, HandOver DEF OneHand
    <3> QED BY <3>1, <3>2
  <2>9. Running'
    BY <1>0, <2>3 DEF Running
  <2> QED BY <1>0, <2>2, <2>6, <2>7, <2>8, <2>9, ParWorks
<1>2. CASE pos[v] # old
  <2> DEFINE l == [pthr[t] EXCEPT !.pc = "load"]
  <2>1. pthr' = [pthr EXCEPT ![t] = l] /\ l \in ParLocals /\ l.pc = "load" /\ ~l.idle /\ pos' = pos
    BY <1>0, <1>2 DEF Cas, ParGo, ParLocals, ParLabels, ParTypeOK
  <2>2. \A u \in Thr : pthr'[u] = IF u = t THEN l ELSE pthr[u]
    BY <2>1 DEF ParTypeOK
  <2>3. Counted' = Counted
    BY <1>0, <2>1, <2>2 DEF Counted
  <2> QED BY <1>0, <2>1, <2>3, ParMoves
<1> QED BY <1>1, <1>2

(* What was stolen becomes the thread's own.                               *)
LEMMA StolenKeeps == ASSUME ParInv, NEW t \in Thr, Stolen(t) PROVE ParInv'
<1> USE DEF ParInv
<1> DEFINE old == pthr[t].old
           l == [pthr[t] EXCEPT !.pc = "bump", !.old = Empty, !.long = FALSE]
<1>0. pthr[t] \in ParLocals /\ ThreadOK(t) /\ pthr[t].pc = "stolen" /\ ~pthr[t].idle /\ old \in Span
      /\ old.end <= cnt /\ pos[t].end <= pos[t].begin /\ pos[t] \in Span
      /\ UNCHANGED <<wait, done, runs, busy>> /\ pos' = [pos EXCEPT ![t] = old]
  BY DEF ParTypeOK, Stolen, ParAt, ThreadOK, ParLocals
<1>1. pthr' = [pthr EXCEPT ![t] = l] /\ l \in ParLocals /\ l.pc = "bump" /\ ~l.idle
  BY <1>0 DEF Stolen, ParLocals, ParLabels, ParTypeOK, Empty, Span
<1>2. ~pthrow'
  BY <1>0 DEF Stolen
<1>3. \A u \in Thr : pthr'[u] = IF u = t THEN l ELSE pthr[u]
  BY <1>1 DEF ParTypeOK
<1>4. \A u \in Thr : pos'[u] = IF u = t THEN old ELSE pos[u]
  BY <1>0 DEF ParTypeOK
<1>5. ParTypeOK'
  BY <1>0, <1>1 DEF ParTypeOK
<1>6. \A u \in Thr : ThreadOK(u)'
  BY <1>0, <1>1, <1>3, <1>4, ZenonT(60) DEF ThreadOK
<1>7. ASSUME NEW i \in Iterations PROVE OneHand(i)'
  <2>0. i \in Nat /\ ~In(i, pos[t])
    BY <1>0 DEF Iterations, In, Span
  <2>1. CASE In(i, old)
    <3>1. Owners(i)' = Owners(i) \cup {t} /\ t \notin Owners(i)
      BY <1>4, <2>0, <2>1 DEF Owners
    <3>2. Thieves(i)' = Thieves(i) \ {t} /\ t \in Thieves(i)
      BY <1>0, <1>1, <1>3, <2>1 DEF Thieves
    <3>3. Cardinality(Owners(i)') = Cardinality(Owners(i)) + 1
      BY <3>1, HandOver, FS_AddElement
    <3>4. Cardinality(Thieves(i)') = Cardinality(Thieves(i)) - 1
      BY <3>2, HandOver, FS_RemoveElement
    <3> QED BY <1>0, <3>3, <3>4, HandOver DEF OneHand
  <2>2. CASE ~In(i, old)
    BY <1>4, <2>0, <2>2, <1>0, <1>1, <1>3, HandOver DEF Owners, Thieves, OneHand
  <2> QED BY <2>1, <2>2
<1>8. Running'
  BY <1>0, <1>1, <1>3 DEF Running
<1> QED BY <1>0, <1>1, <1>2, <1>5, <1>6, <1>7, <1>8, ParWorks

(* Coming in, counting oneself idle, looking for a victim, leaving.        *)
LEMMA SearchKeeps ==
    ASSUME ParInv, NEW t \in Thr,
           parfordo(t) \/ CountIdle(t) \/ KeepTrying(t) \/ Check(t) \/ Leave(t) \/ LoadVictim(t)
             \/ Unidle(t) \/ Backoff(t)
    PROVE  ParInv'
<1> USE DEF ParInv
<1>0. pthr[t] \in ParLocals /\ ThreadOK(t) /\ pthr \in [Thr -> ParLocals]
      /\ UNCHANGED <<wait, pos, runs, busy, pthrow>>
  BY DEF ParTypeOK, parfordo, CountIdle, KeepTrying, Check, Leave, LoadVictim, Unidle, Backoff
<1>1. Counted \in SUBSET Thr /\ IsFiniteSet(Counted) /\ Cardinality(Counted) \in Nat /\ done = Cardinality(Counted)
  <2>1. Counted \in SUBSET Thr
    BY DEF Counted
  <2> QED BY <2>1, ThrFinite
<1>2. ASSUME NEW l \in ParLocals, pthr' = [pthr EXCEPT ![t] = l]
      PROVE  \A u \in Thr : pthr'[u] = IF u = t THEN l ELSE pthr[u]
  BY <1>0, <1>2
<1>3. ASSUME NEW l \in ParLocals, pthr' = [pthr EXCEPT ![t] = l], UNCHANGED done,
             (l.idle \/ l.pc = "exit") <=> (pthr[t].idle \/ pthr[t].pc = "exit")
      PROVE  done' = Cardinality(Counted')
  <2>1. Counted' = Counted
    BY <1>2, <1>3 DEF Counted
  <2> QED BY <1>1, <1>3, <2>1
<1>4. CASE parfordo(t)
  <2> DEFINE l == [pthr[t] EXCEPT !.pc = "bump"]
  <2>1. pthr' = [pthr EXCEPT ![t] = l] /\ l \in ParLocals /\ l.pc = "bump" /\ l.idle = pthr[t].idle /\ done' = done
        /\ pthr[t].pc = "away" /\ ~pthr[t].idle
    BY <1>0, <1>4 DEF parfordo, ParAt, ParGo, ParLocals, ParLabels, ThreadOK
  <2>2. done' = Cardinality(Counted')
    BY <1>3, <2>1
  <2> QED BY <1>0, <2>1, <2>2, ParMoves
<1>5. CASE CountIdle(t)
  <2> DEFINE l == [pthr[t] EXCEPT !.pc = "check", !.idle = TRUE, !.long = TRUE]
  <2>1. pthr' = [pthr EXCEPT ![t] = l] /\ l \in ParLocals /\ l.pc = "check" /\ l.idle /\ done' = done + 1
        /\ pthr[t].pc = "try" /\ ~pthr[t].idle
    BY <1>0, <1>5 DEF CountIdle, ParAt, ParLocals, ParLabels
  <2>2. Counted' = Counted \cup {t} /\ t \notin Counted
    <3>1. \A u \in Thr : pthr'[u] = IF u = t THEN l ELSE pthr[u]
      BY <1>2, <2>1
    <3> QED BY <2>1, <3>1 DEF Counted
  <2>3. done' = Cardinality(Counted')
    BY <1>1, <2>1, <2>2, FS_AddElement, ZenonT(60)
  <2> QED BY <1>0, <2>1, <2>3, ParMoves
<1>6. CASE KeepTrying(t)
  <2> DEFINE l == [pthr[t] EXCEPT !.pc = "check"]
  <2>1. pthr' = [pthr EXCEPT ![t] = l] /\ l \in ParLocals /\ l.pc = "check" /\ l.idle = pthr[t].idle /\ done' = done
        /\ pthr[t].pc = "try"
    BY <1>0, <1>6 DEF KeepTrying, ParAt, ParGo, ParLocals, ParLabels
  <2>2. done' = Cardinality(Counted')
    BY <1>3, <2>1
  <2> QED BY <1>0, <2>1, <2>2, ParMoves
<1>7. CASE Check(t)
  <2>0. pthr[t].pc = "check" /\ done' = done
    BY <1>7 DEF Check, ParAt
  <2>1. CASE AllDone(t) /\ pthr[t].idle
    <3> DEFINE l == [pthr[t] EXCEPT !.pc = "exit"]
    <3>1. pthr' = [pthr EXCEPT ![t] = l] /\ l \in ParLocals /\ l.pc = "exit" /\ l.idle = pthr[t].idle
      BY <1>0, <1>7, <2>1 DEF Check, ParGo, ParLocals, ParLabels
    <3>2. done' = Cardinality(Counted')
      BY <1>3, <2>0, <2>1, <3>1
    <3>3. done = nthr
      BY <1>1, <2>1 DEF AllDone
    <3>4. Thr = Counted \cup {t}
      BY <1>1, <3>3, ThrFinite
    <3> QED BY <1>0, <2>0, <3>1, <3>2, <3>4, ParMoves
  <2>2. CASE AllDone(t) /\ ~pthr[t].idle
    <3> DEFINE l == [pthr[t] EXCEPT !.pc = "leave"]
    <3>1. pthr' = [pthr EXCEPT ![t] = l] /\ l \in ParLocals /\ l.pc = "leave" /\ l.idle = pthr[t].idle
      BY <1>0, <1>7, <2>2 DEF Check, ParGo, ParLocals, ParLabels
    <3>2. done' = Cardinality(Counted')
      BY <1>3, <2>0, <2>2, <3>1
    <3>3. done + 1 = nthr
      BY <1>1, <2>2 DEF AllDone
    <3>4. Counted \cup {t} \in SUBSET Thr /\ t \notin Counted
      BY <1>1, <2>0, <2>2 DEF Counted
    <3>5. Cardinality(Counted \cup {t}) = nthr
      BY <1>1, <3>3, <3>4, FS_AddElement
    <3>6. Thr = Counted \cup {t}
      BY <3>4, <3>5, ThrFinite
    <3> QED BY <1>0, <2>0, <2>2, <3>1, <3>2, <3>6, ParMoves
  <2>3. CASE ~AllDone(t)
    <3> PICK v \in Thr \ {t} : pthr' = [pthr EXCEPT ![t].pc = "load", ![t].victim = v]
      BY <1>7, <2>3 DEF Check
    <3> DEFINE l == [pthr[t] EXCEPT !.pc = "load", !.victim = v]
    <3>1. pthr' = [pthr EXCEPT ![t] = l] /\ l \in ParLocals /\ l.pc = "load" /\ l.idle = pthr[t].idle
      BY <1>0 DEF ParLocals, ParLabels
    <3>2. done' = Cardinality(Counted')
      BY <1>3, <2>0, <3>1
    <3> QED BY <1>0, <2>0, <3>1, <3>2, ParMoves
  <2> QED BY <2>1, <2>2, <2>3
<1>8. CASE Leave(t)
  <2> DEFINE l == [pthr[t] EXCEPT !.pc = "exit"]
  <2>1. pthr' = [pthr EXCEPT ![t] = l] /\ l \in ParLocals /\ l.pc = "exit" /\ done' = done + 1
        /\ pthr[t].pc = "leave" /\ ~pthr[t].idle
    BY <1>0, <1>8 DEF Leave, ParAt, ParGo, ParLocals, ParLabels, ThreadOK
  <2>2. Counted' = Counted \cup {t} /\ t \notin Counted
    <3>1. \A u \in Thr : pthr'[u] = IF u = t THEN l ELSE pthr[u]
      BY <1>2, <2>1
    <3> QED BY <2>1, <3>1 DEF Counted
  <2>3. done' = Cardinality(Counted')
    BY <1>1, <2>1, <2>2, FS_AddElement
  <2> QED BY <1>0, <2>1, <2>3, ParMoves
<1>9. CASE LoadVictim(t)
  <2> DEFINE p == pos[pthr[t].victim]
             l == [pthr[t] EXCEPT !.old = IF HasHalf(p) THEN p ELSE Empty,
                                  !.pc = IF ~HasHalf(p) THEN "fail" ELSE IF pthr[t].idle THEN "unidle" ELSE "cas"]
  <2>0. p \in Span /\ p.end <= cnt
    BY <1>0 DEF ParTypeOK, ParLocals, ThreadOK
  <2>1. pthr' = [pthr EXCEPT ![t] = l] /\ done' = done /\ pthr[t].pc = "load"
    BY <1>0, <1>9 DEF LoadVictim, ParAt
  <2>2. l \in ParLocals /\ l.idle = pthr[t].idle /\ l.old = (IF HasHalf(p) THEN p ELSE Empty)
        /\ l.pc = (IF ~HasHalf(p) THEN "fail" ELSE IF pthr[t].idle THEN "unidle" ELSE "cas")
    BY <1>0, <2>0 DEF ParLocals, ParLabels, Empty, Span
  <2> HIDE DEF l, p
  <2>3. done' = Cardinality(Counted')
    BY <1>3, <2>1, <2>2
  <2> QED BY <1>0, <2>0, <2>1, <2>2, <2>3, ParMoves
<1>10. CASE Unidle(t)
  <2> DEFINE l == [pthr[t] EXCEPT !.pc = "cas", !.idle = FALSE]
  <2>1. pthr' = [pthr EXCEPT ![t] = l] /\ l \in ParLocals /\ l.pc = "cas" /\ ~l.idle /\ l.old = pthr[t].old
        /\ done' = done - 1 /\ pthr[t].pc = "unidle"
    BY <1>0, <1>10 DEF Unidle, Uncounted, ParAt, ParLocals, ParLabels
  <2>2. Counted' = Counted \ {t}
    <3>1. \A u \in Thr : pthr'[u] = IF u = t THEN l ELSE pthr[u]
      BY <1>2, <2>1
    <3> QED BY <2>1, <3>1 DEF Counted
  <2>3. t \in Counted
    BY <1>0, <2>1 DEF Counted, ThreadOK
  <2>4. done' = Cardinality(Counted')
    BY <1>1, <2>1, <2>2, <2>3, FS_RemoveElement
  <2> QED BY <1>0, <2>1, <2>4, ParMoves DEF ThreadOK
<1>11. CASE Backoff(t)
  <2>0. pthr[t].pc = "fail" /\ done' = done
    BY <1>11 DEF Backoff, ParAt
  <2>1. CASE ParGo(t, "try")
    <3> DEFINE l == [pthr[t] EXCEPT !.pc = "try"]
    <3>1. pthr' = [pthr EXCEPT ![t] = l] /\ l \in ParLocals /\ l.pc = "try" /\ l.idle = pthr[t].idle
      BY <1>0, <2>1 DEF ParGo, ParLocals, ParLabels
    <3>2. done' = Cardinality(Counted')
      BY <1>3, <2>0, <3>1
    <3> QED BY <1>0, <2>0, <3>1, <3>2, ParMoves
  <2>2. CASE ~wait /\ ~pthr[t].idle /\ ParGo(t, "leave")
    <3> DEFINE l == [pthr[t] EXCEPT !.pc = "leave"]
    <3>1. pthr' = [pthr EXCEPT ![t] = l] /\ l \in ParLocals /\ l.pc = "leave" /\ l.idle = pthr[t].idle
      BY <1>0, <2>2 DEF ParGo, ParLocals, ParLabels
    <3>2. done' = Cardinality(Counted')
      BY <1>3, <2>0, <2>2, <3>1
    <3> QED BY <1>0, <2>0, <2>2, <3>1, <3>2, ParMoves
  <2> QED BY <1>11, <2>1, <2>2 DEF Backoff
<1> QED BY <1>4, <1>5, <1>6, <1>7, <1>8, <1>9, <1>10, <1>11

LEMMA ParStep == ParInv /\ [ParNext]_pvars => ParInv'
<1> SUFFICES ASSUME ParInv, [ParNext]_pvars PROVE ParInv'
  OBVIOUS
<1>1. CASE ParNext
  BY <1>1, BumpKeeps, BodyKeeps, CasKeeps, StolenKeeps, SearchKeeps DEF ParNext
<1>2. CASE UNCHANGED pvars
  BY <1>2 DEF pvars, ParInv, ParTypeOK, Running, AllRunAtExit, Counted, ThreadOK, OneHand, Owners,
      Thieves
<1> QED BY <1>1, <1>2

(* For any number of threads and iterations, however they steal from one   *)
(* another: no iteration is run twice or lost, and a thread that waits     *)
(* leaves when all have been run.                                          *)
THEOREM ParForIsSafe == ParSpec => []ParForSafe
<1>1. ParInv => ParForSafe
  BY DEF ParInv, EachIterationOnce, OneHand, Owners, Thieves, In, ParAt, ParForSafe
<1> QED BY <1>1, ParStart, ParStep, PTL DEF ParSpec

(***************************************************************************)
(* sync.Pool.  The arrays only get longer, and localSize is published      *)
(* after the array it belongs to: whoever has loaded a size and then an    *)
(* array may index it.  An item is in one place: with a goroutine, carried *)
(* by a Put, or in one slot; only the goroutine pinned to a P touches the  *)
(* private item of it, so that what it has read is still there when it     *)
(* writes.                                                                 *)
(***************************************************************************)
PoolLabels == {"idle", "size", "local", "slow", "unlock", "grow", "grow2", "use", "write", "shared",
               "gsize", "glocal", "steal"}
PinnedAt == {"size", "local", "grow", "grow2", "unlock", "use", "write"}
LockedAt == {"grow", "grow2", "unlock"}
PoolSlot == [private : Items \cup {NoItem}, shared : Seq(Items)]
PoolPlace == [pc : PoolLabels, pid : Nat, pinned : BOOLEAN, s : Nat, l : Nat, x : Items \cup {NoItem},
              from : Nat, op : {"get", "put"}]
PoolUser == [at : PoolPlace, has : SUBSET Items, n : Nat]

PoolTypeOK ==
    /\ procs \in Nat \ {0} /\ procs <= MaxProcs /\ local \in Nat /\ localSize \in Nat
    /\ arrays \in Seq(Seq(PoolSlot))
    /\ gs \in [PoolUsers -> PoolUser]

(* The length of the array that was made last.                             *)
Longest == IF Len(arrays) = 0 THEN 0 ELSE Len(arrays[Len(arrays)])

(* localSize lags behind the array only until pinSlow has stored both.     *)
Sizes ==
    /\ local = Len(arrays) /\ localSize <= Longest
    /\ \A a \in 1 .. Len(arrays) : Len(arrays[a]) <= MaxProcs
    /\ (\A g \in PoolUsers : PoolAt(g).pc # "grow2") => localSize = Longest

(* What holds of a goroutine's locals at each place: its P, ...            *)
PinOK(a) ==
    /\ a.pinned <=> a.pc \in PinnedAt
    /\ a.pinned => a.pid < procs
    /\ a.pc = "grow" => localSize <= a.pid
    /\ a.pc = "grow2" => a.l = Len(arrays) /\ 0 < Len(arrays) /\ Longest = procs

(* ... the size and the array it has loaded, ...                           *)
RangeOK(a) ==
    /\ a.pc \in {"local", "glocal"} => a.s <= Longest
    /\ a.pc \in {"unlock", "use", "write", "shared"} => InRange(a.l, a.pid)
    /\ a.pc = "steal" => /\ a.pid <= a.s
                         /\ a.s > 0 => a.l \in 1 .. Len(arrays) /\ a.s <= Len(arrays[a.l])

(* ... the item it puts or has read.                                       *)
ArgOK(a) ==
    /\ a.pc = "write" => Elem(a.l, a.pid).private = IF a.op = "put" THEN NoItem ELSE a.x
    /\ a.op = "put" => a.x \in Items
    /\ a.op = "get" /\ a.pc # "write" => a.x = NoItem
    /\ a.pc \in {"idle", "gsize", "glocal", "steal"} => a.op = "get"

Placed(a) == PinOK(a) /\ RangeOK(a) /\ ArgOK(a)

Pins ==
    \A g, k \in PoolUsers :
        PoolAt(g).pinned /\ PoolAt(k).pinned /\ PoolAt(g).pid = PoolAt(k).pid => g = k

HolderOK == \A g \in PoolUsers : pmu = g <=> PoolAt(g).pc \in LockedAt

(* Where an item is: with g, in the argument of g's Put, in slot p of      *)
(* array a, as its private item (i = 0) or its i-th shared one.            *)
HasIt(g, x) == x \in gs[g].has
PutsIt(g, x) == PoolAt(g).op = "put" /\ PoolAt(g).x = x
Sits(x, a, p, i) ==
    /\ a \in 1 .. Len(arrays) /\ p \in 1 .. Len(arrays[a])
    /\ IF i = 0 THEN arrays[a][p].private = x
       ELSE i \in 1 .. Len(arrays[a][p].shared) /\ arrays[a][p].shared[i] = x

InOnePlace(x) ==
    /\ \A g, k \in PoolUsers :
         /\ HasIt(g, x) /\ HasIt(k, x) => g = k
         /\ PutsIt(g, x) /\ PutsIt(k, x) => g = k
         /\ ~(HasIt(g, x) /\ PutsIt(k, x))
    /\ \A g \in PoolUsers, a, p \in Nat, i \in Nat : HasIt(g, x) \/ PutsIt(g, x) => ~Sits(x, a, p, i)
    /\ \A a, p, i \in Nat, b, q, j \in Nat : Sits(x, a, p, i) /\ Sits(x, b, q, j) => a = b /\ p = q /\ i = j

PoolInv ==
    /\ PoolTypeOK /\ Sizes /\ Pins /\ HolderOK /\ ~bad
    /\ \A g \in PoolUsers : Placed(PoolAt(g))
    /\ \A x \in Items : InOnePlace(x)

(* Nothing is asked of a goroutine that is in no call.                     *)
LEMMA StartPlaced ==
    /\ Start \in PoolPlace /\ Placed(Start)
    /\ Start.pc = "idle" /\ Start.op = "get" /\ Start.x = NoItem /\ Start.pinned = FALSE
BY DEF Start, PoolPlace, PoolLabels, Placed, PinOK, RangeOK, ArgOK, PinnedAt

LEMMA PoolStart == PoolInit => PoolInv
<1> SUFFICES ASSUME PoolInit PROVE PoolInv
  OBVIOUS
<1> DEFINE own(g) == IF g \in Items THEN {g} ELSE {}
<1>0. gs = [g \in PoolUsers |-> [at |-> Start, has |-> own(g), n |-> 0]]
  BY DEF PoolInit
<1>1. \A g \in PoolUsers : own(g) \in SUBSET Items /\ \A x \in own(g) : g = x
  OBVIOUS
<1> HIDE DEF own
<1>2. \A g \in PoolUsers : gs[g] = [at |-> Start, has |-> own(g), n |-> 0]
  BY <1>0
<1>3. \A g \in PoolUsers : PoolAt(g) = Start /\ gs[g].has = own(g)
  <2> SUFFICES ASSUME NEW g \in PoolUsers PROVE PoolAt(g) = Start /\ gs[g].has = own(g)
    OBVIOUS
  <2>1. gs[g] = [at |-> Start, has |-> own(g), n |-> 0]
    BY <1>2
  <2> HIDE DEF Start
  <2> QED BY <2>1 DEF PoolAt
<1>4. \A g \in PoolUsers : PoolAt(g).pc = "idle" /\ PoolAt(g).op = "get" /\ PoolAt(g).pinned = FALSE
  BY <1>3, StartPlaced
<1>5. procs \in 1 .. MaxProcs /\ arrays = << >> /\ Len(arrays) = 0 /\ local = 0 /\ localSize = 0 /\ pmu = NoItem
      /\ bad = FALSE
  BY DEF PoolInit
<1>6. PoolTypeOK
  <2>1. ASSUME NEW g \in PoolUsers PROVE gs[g] \in PoolUser
    <3>1. gs[g] = [at |-> Start, has |-> own(g), n |-> 0] /\ Start \in PoolPlace /\ own(g) \in SUBSET Items
      BY <1>1, <1>2, StartPlaced
    <3> HIDE DEF PoolPlace
    <3> QED BY <3>1 DEF PoolUser
  <2>2. gs \in [PoolUsers -> PoolUser]
    BY <1>0, <2>1
  <2> QED BY <1>5, <2>2, PoolConstants DEF PoolTypeOK
<1>7. Longest = 0
  BY <1>5 DEF Longest
<1>8. Sizes
  BY <1>5, <1>7 DEF Sizes
<1>9. Pins /\ HolderOK
  BY <1>4, <1>5, PoolConstants DEF Pins, HolderOK, LockedAt
<1>10. \A g \in PoolUsers : Placed(PoolAt(g))
  BY <1>3, StartPlaced
<1>11. ASSUME NEW x \in Items PROVE InOnePlace(x)
  BY <1>4, <1>1, <1>3, <1>5 DEF PutsIt, HasIt, Sits, InOnePlace
<1> QED BY <1>5, <1>6, <1>8, <1>9, <1>10, <1>11 DEF PoolInv

LEMMA EntryReplaced ==
    ASSUME NEW R, NEW s \in Seq(R), NEW a \in 1 .. Len(s), NEW u \in R
    PROVE  /\ [s EXCEPT ![a] = u] \in Seq(R) /\ Len([s EXCEPT ![a] = u]) = Len(s)
           /\ \A b \in 1 .. Len(s) : [s EXCEPT ![a] = u][b] = IF b = a THEN u ELSE s[b]
OBVIOUS

(* A slot of the arrays is replaced.                                       *)
LEMMA SlotReplaced ==
    ASSUME NEW s \in Seq(Seq(PoolSlot)), NEW a \in 1 .. Len(s), NEW p \in 1 .. Len(s[a]), NEW v \in PoolSlot,
           NEW u, u = [s[a] EXCEPT ![p] = v], NEW t, t = [s EXCEPT ![a] = u]
    PROVE  /\ t \in Seq(Seq(PoolSlot)) /\ Len(t) = Len(s)
           /\ \A b \in 1 .. Len(s) : Len(t[b]) = Len(s[b])
           /\ \A b \in 1 .. Len(s) : \A q \in 1 .. Len(s[b]) : t[b][q] = IF b = a /\ q = p THEN v ELSE s[b][q]
<1>1. PICK R : R = Seq(PoolSlot)
  OBVIOUS
<1>2. s \in Seq(R)
  BY <1>1
<1>3. s[a] \in Seq(PoolSlot)
  OBVIOUS
<1>4. u \in R /\ Len(u) = Len(s[a]) /\ \A q \in 1 .. Len(s[a]) : u[q] = IF q = p THEN v ELSE s[a][q]
  BY <1>1, <1>3, EntryReplaced
<1>5. t \in Seq(R) /\ Len(t) = Len(s) /\ \A b \in 1 .. Len(s) : t[b] = IF b = a THEN u ELSE s[b]
  BY <1>2, <1>4, EntryReplaced
<1>6. \A b \in 1 .. Len(s) : Len(t[b]) = Len(s[b])
  BY <1>4, <1>5, Zenon
<1>7. ASSUME NEW b \in 1 .. Len(s), NEW q \in 1 .. Len(s[b])
      PROVE  t[b][q] = IF b = a /\ q = p THEN v ELSE s[b][q]
  BY <1>4, <1>5
<1> QED BY <1>1, <1>5, <1>6, <1>7

Lengths ==
    /\ Len(arrays) \in Nat /\ DOMAIN arrays = 1 .. Len(arrays) /\ Longest \in Nat
    /\ \A a \in 1 .. Len(arrays) :
         /\ Len(arrays[a]) \in Nat /\ DOMAIN arrays[a] = 1 .. Len(arrays[a])
         /\ \A p \in 1 .. Len(arrays[a]) : arrays[a][p] \in PoolSlot

LEMMA LengthsOK == PoolTypeOK => Lengths
<1> SUFFICES ASSUME PoolTypeOK PROVE Lengths
  OBVIOUS
<1> DEFINE R == Seq(PoolSlot)
<1>0. arrays \in Seq(R)
  BY DEF PoolTypeOK
<1> HIDE DEF R
<1>1. Len(arrays) \in Nat /\ DOMAIN arrays = 1 .. Len(arrays) /\ \A a \in 1 .. Len(arrays) : arrays[a] \in R
  BY <1>0
<1>2. ASSUME NEW q \in R
      PROVE  Len(q) \in Nat /\ DOMAIN q = 1 .. Len(q) /\ \A p \in 1 .. Len(q) : q[p] \in PoolSlot
  <2> HIDE DEF PoolSlot
  <2> QED BY DEF R
<1>3. Longest \in Nat
  BY <1>1, <1>2 DEF Longest
<1> QED BY <1>1, <1>2, <1>3 DEF Lengths

LEMMA LengthsNext == PoolTypeOK' => Lengths'
BY LengthsOK, PTL

(* A goroutine's place in the pool's arrays, by their lengths.             *)
LEMMA InRangeIs ==
    ASSUME Lengths, NEW a \in Nat, NEW p \in Nat
    PROVE  InRange(a, p) <=> a \in 1 .. Len(arrays) /\ p < Len(arrays[a])
<1>1. InRange(a, p) <=> a \in 1 .. Len(arrays) /\ p + 1 \in DOMAIN arrays[a]
  BY DEF InRange, Lengths
<1>2. ASSUME a \in 1 .. Len(arrays) PROVE p + 1 \in DOMAIN arrays[a] <=> p < Len(arrays[a])
  BY <1>2 DEF Lengths
<1> QED BY <1>1, <1>2

LEMMA InRangeNext ==
    ASSUME Lengths', NEW a \in Nat, NEW p \in Nat
    PROVE  InRange(a, p)' <=> a \in 1 .. Len(arrays') /\ p < Len(arrays'[a])
<1>1. InRange(a, p)' <=> a \in 1 .. Len(arrays') /\ p + 1 \in DOMAIN arrays'[a]
  BY DEF InRange, Lengths
<1>2. ASSUME a \in 1 .. Len(arrays') PROVE p + 1 \in DOMAIN arrays'[a] <=> p < Len(arrays'[a])
  BY <1>2 DEF Lengths
<1> QED BY <1>1, <1>2

(* The arrays are as long as before, or one was added that is longer.      *)
Grown ==
    /\ Len(arrays) <= Len(arrays')
    /\ \A a \in 1 .. Len(arrays) : Len(arrays'[a]) = Len(arrays[a])
    /\ Longest <= Longest'

(* What a goroutine knows stays true while it does nothing, unless         *)
(* somebody else were to touch its private item, or grow the pool with it. *)
LEMMA PlacedKeeps ==
    ASSUME PoolTypeOK, PoolTypeOK', NEW a \in PoolPlace, Placed(a), Grown,
           a.pinned => procs' = procs,
           a.pc \in {"grow", "grow2"} =>
              localSize' = localSize /\ Len(arrays') = Len(arrays) /\ Longest' = Longest,
           a.pc = "write" => arrays'[a.l][a.pid + 1].private = arrays[a.l][a.pid + 1].private
    PROVE  Placed(a)'
<1>1. Lengths /\ Lengths'
  BY LengthsOK, LengthsNext
<1>2. /\ a.pid \in Nat /\ a.l \in Nat /\ a.s \in Nat /\ a.pinned \in BOOLEAN
      /\ Longest \in Nat /\ Longest' \in Nat /\ Len(arrays) \in Nat /\ Len(arrays') \in Nat
  BY <1>1 DEF PoolPlace, Lengths
<1>3. PinOK(a) /\ RangeOK(a) /\ ArgOK(a)
  BY DEF Placed
<1>4. PinOK(a)'
  BY <1>2, <1>3 DEF PinOK, PinnedAt
<1>5. RangeOK(a)'
  BY <1>2, <1>3, <1>1, InRangeIs, InRangeNext DEF RangeOK, Grown
<1>6. ArgOK(a)'
  BY <1>3 DEF ArgOK, Elem
<1> QED BY <1>4, <1>5, <1>6 DEF Placed

(* Items stay where they are, or are fewer.                                *)
LEMMA ItemsStay ==
    ASSUME NEW x, InOnePlace(x),
           \A g \in PoolUsers : (HasIt(g, x)' => HasIt(g, x)) /\ (PutsIt(g, x)' => PutsIt(g, x)),
           \A a, p, i \in Nat : Sits(x, a, p, i)' => Sits(x, a, p, i)
    PROVE  InOnePlace(x)'
BY DEF InOnePlace

(* One that g has becomes the argument of its Put.                         *)
LEMMA ItemPut ==
    ASSUME NEW x, InOnePlace(x), NEW g \in PoolUsers, HasIt(g, x), ~HasIt(g, x)',
           \A k \in PoolUsers : (HasIt(k, x)' => HasIt(k, x)) /\ (PutsIt(k, x)' => PutsIt(k, x) \/ k = g),
           \A a, p, i \in Nat : Sits(x, a, p, i)' => Sits(x, a, p, i)
    PROVE  InOnePlace(x)'
BY DEF InOnePlace

(* The argument of g's Put goes into a slot.                               *)
NobodyGets(x) == \A k \in PoolUsers : (HasIt(k, x)' => HasIt(k, x)) /\ (PutsIt(k, x)' => PutsIt(k, x))
MayGoTo(x, b, q, j) ==
    \A a, p, i \in Nat : Sits(x, a, p, i)' => Sits(x, a, p, i) \/ (a = b /\ p = q /\ i = j)

LEMMA ItemStored ==
    ASSUME NEW x, InOnePlace(x), NEW g \in PoolUsers, PutsIt(g, x), ~PutsIt(g, x)', NobodyGets(x),
           NEW b \in Nat, NEW q \in Nat, NEW j \in Nat, MayGoTo(x, b, q, j)
    PROVE  InOnePlace(x)'
BY DEF InOnePlace, NobodyGets, MayGoTo

(* g takes it out of its slot.                                             *)
LEMMA ItemTaken ==
    ASSUME NEW x, InOnePlace(x), NEW g \in PoolUsers,
           NEW b \in Nat, NEW q \in Nat, NEW j \in Nat, Sits(x, b, q, j), ~Sits(x, b, q, j)',
           \A k \in PoolUsers : (HasIt(k, x)' => HasIt(k, x) \/ k = g) /\ (PutsIt(k, x)' => PutsIt(k, x)),
           \A a, p, i \in Nat : Sits(x, a, p, i)' => Sits(x, a, p, i)
    PROVE  InOnePlace(x)'
BY DEF InOnePlace

(* g is at p; the others are where they were.                              *)
Moved(g, p) ==
    /\ gs' \in [PoolUsers -> PoolUser] /\ gs'[g].at = p
    /\ \A k \in PoolUsers : k # g => gs'[k] = gs[k]

(* A step of g, from what it does to the others.                           *)
LEMMA MoveKeeps ==
    ASSUME PoolInv, NEW g \in PoolUsers, NEW p \in PoolPlace, Moved(g, p), PoolTypeOK', procs' = procs, Grown,
           Sizes', ~bad',
           \A k \in PoolUsers : k # g => (pmu' = k <=> pmu = k),
           pmu' = g <=> p.pc \in LockedAt,
           p.pinned => \A k \in PoolUsers : k # g /\ PoolAt(k).pinned => PoolAt(k).pid # p.pid,
           Placed(p)',
           \A k \in PoolUsers : k # g /\ PoolAt(k).pc \in {"grow", "grow2"} =>
              localSize' = localSize /\ Len(arrays') = Len(arrays) /\ Longest' = Longest,
           \A k \in PoolUsers : k # g /\ PoolAt(k).pc = "write" =>
              arrays'[PoolAt(k).l][PoolAt(k).pid + 1].private = arrays[PoolAt(k).l][PoolAt(k).pid + 1].private,
           \A x \in Items : InOnePlace(x)'
    PROVE  PoolInv'
<1>1. PoolAt(g)' = p /\ \A k \in PoolUsers : k # g => PoolAt(k)' = PoolAt(k)
  BY DEF Moved, PoolAt
<1>2. Pins'
  BY <1>1 DEF PoolInv, Pins
<1>3. HolderOK'
  BY <1>1 DEF PoolInv, HolderOK
<1>4. ASSUME NEW k \in PoolUsers PROVE Placed(PoolAt(k))'
  <2>1. CASE k = g
    BY <1>1, <2>1 DEF Placed, PinOK, RangeOK, ArgOK, InRange, Elem
  <2>2. CASE k # g
    <3>1. PICK a \in PoolPlace : a = PoolAt(k)
      BY DEF PoolInv, PoolTypeOK, PoolUser, PoolAt
    <3>2. Placed(a) /\ PoolTypeOK
      BY <3>1 DEF PoolInv
    <3>3. Placed(a)'
      BY <2>2, <3>1, <3>2, PlacedKeeps
    <3>4. PoolAt(k)' = a
      BY <1>1, <2>2, <3>1
    <3> QED BY <3>3, <3>4 DEF Placed, PinOK, RangeOK, ArgOK, InRange, Elem
  <2> QED BY <2>1, <2>2
<1> QED BY <1>2, <1>3, <1>4 DEF PoolInv

LEMMA Same ==
    ASSUME PoolTypeOK, UNCHANGED arrays
    PROVE  Grown /\ Longest' = Longest /\ \A x : \A a, p, i \in Nat : Sits(x, a, p, i)' <=> Sits(x, a, p, i)
BY LengthsOK DEF Longest, Lengths, Grown, Sits

LEMMA PlaceSet ==
    ASSUME PoolTypeOK, NEW g \in PoolUsers, NEW p \in PoolPlace, PoolSet(g, p)
    PROVE  Moved(g, p) /\ \A k \in PoolUsers : gs'[k].has = gs[k].has
BY DEF PoolTypeOK, PoolUser, PoolSet, Moved

(* A step of g that leaves the arrays and the items alone.                 *)
LEMMA LocalMove ==
    ASSUME PoolInv, NEW g \in PoolUsers, NEW p \in PoolPlace, PoolSet(g, p), Placed(p), ~bad',
           UNCHANGED <<procs, arrays, local, localSize>>,
           \A k \in PoolUsers : k # g => (pmu' = k <=> pmu = k),
           pmu' = g <=> p.pc \in LockedAt,
           p.pinned => (PoolAt(g).pinned /\ PoolAt(g).pid = p.pid) \/ CanPin(p.pid),
           p.op = "put" => PoolAt(g).op = "put" /\ PoolAt(g).x = p.x,
           PoolAt(g).pc # "grow2"
    PROVE  PoolInv'
<1>1. PoolTypeOK /\ Sizes /\ Pins /\ \A x \in Items : InOnePlace(x)
  BY DEF PoolInv
<1>2. Moved(g, p) /\ \A k \in PoolUsers : gs'[k].has = gs[k].has
  BY <1>1, PlaceSet
<1>3. PoolAt(g)' = p /\ \A k \in PoolUsers : k # g => PoolAt(k)' = PoolAt(k)
  BY <1>2 DEF Moved, PoolAt
<1>4. PoolTypeOK'
  BY <1>1, <1>2 DEF PoolTypeOK, Moved
<1>5. Grown /\ Longest' = Longest /\ \A x : \A a, q, i \in Nat : Sits(x, a, q, i)' <=> Sits(x, a, q, i)
  BY <1>1, Same
<1>6. Sizes'
  BY <1>1, <1>3, <1>5 DEF Sizes
<1>7. Placed(p)'
  BY DEF Placed, PinOK, RangeOK, ArgOK, InRange, Elem, Longest
<1>8. p.pinned => \A k \in PoolUsers : k # g /\ PoolAt(k).pinned => PoolAt(k).pid # p.pid
  BY <1>1 DEF Pins, CanPin, Pinned
<1>9. ASSUME NEW x \in Items PROVE InOnePlace(x)'
  BY <1>2, <1>3, <1>1, <1>5, ItemsStay DEF HasIt, PutsIt
<1> QED BY <1>2, <1>4, <1>5, <1>6, <1>7, <1>8, <1>9, MoveKeeps

(* What is known of g before its step.                                     *)
LEMMA HereIs ==
    ASSUME PoolInv, NEW g \in PoolUsers
    PROVE  /\ PoolAt(g) \in PoolPlace /\ Placed(PoolAt(g)) /\ (pmu = g <=> PoolAt(g).pc \in LockedAt)
           /\ PoolTypeOK /\ Lengths /\ Sizes /\ ~bad /\ procs \in Nat
BY LengthsOK DEF PoolInv, PoolTypeOK, PoolUser, PoolAt, HolderOK

LEMMA LoadsKeep ==
    ASSUME PoolInv, NEW g \in PoolUsers, LoadSize(g) \/ LoadLocal(g) \/ SlowSize(g) \/ SlowLocal(g)
    PROVE  PoolInv'
<1>1. PICK a \in PoolPlace : a = PoolAt(g)
  BY HereIs
<1>2. Placed(a) /\ Sizes /\ ~bad /\ Lengths /\ (pmu = g <=> a.pc \in LockedAt) /\ procs \in Nat /\ localSize \in Nat
  BY <1>1, HereIs DEF PoolTypeOK
<1>3. localSize <= Longest /\ local = Len(arrays) /\ Longest \in Nat /\ local \in Nat
  BY <1>2 DEF Sizes, Lengths
<1>4. ASSUME NEW n \in Nat, n < Longest PROVE InRange(local, n)
  BY <1>3, <1>4, <1>2, InRangeIs DEF Longest
<1>5. CASE LoadSize(g)
  BY <1>2, <1>1, <1>5, <1>3, LocalMove DEF PoolPlace, PoolLabels, LoadSize, Placed, PinOK, RangeOK,
      ArgOK, PinnedAt, LockedAt
<1>6. CASE LoadLocal(g) /\ a.pid < a.s
  <2>1. PICK p : p = [a EXCEPT !.pc = "use", !.l = local, !.s = 0]
    OBVIOUS
  <2>2. /\ p \in PoolPlace /\ p.pc = "use" /\ p.l = local /\ p.pinned = a.pinned /\ p.pid = a.pid
        /\ p.op = a.op /\ p.x = a.x
    BY <1>3, <2>1 DEF PoolPlace, PoolLabels
  <2>3. a.pc = "local" /\ PoolSet(g, p) /\ UNCHANGED <<procs, arrays, local, localSize, pmu, bad>>
    BY <1>1, <1>6, <2>1 DEF LoadLocal
  <2>4. a.pid \in Nat /\ a.s \in Nat /\ a.s <= Longest
    BY <1>2, <2>3 DEF PoolPlace, Placed, RangeOK
  <2>5. InRange(p.l, p.pid)
    BY <1>3, <1>4, <1>6, <2>2, <2>4
  <2>6. Placed(p)
    BY <1>2, <2>2, <2>3, <2>5 DEF Placed, PinOK, RangeOK, ArgOK, PinnedAt
  <2> QED BY <1>1, <1>2, <2>2, <2>3, <2>6, LocalMove DEF LockedAt
<1>7. CASE LoadLocal(g) /\ ~(a.pid < a.s)
  BY <1>1, <1>7, <1>2, LocalMove DEF PoolPlace, PoolLabels, LoadLocal, Placed, PinOK, RangeOK,
      ArgOK, PinnedAt, LockedAt
<1>8. CASE SlowSize(g)
  BY <1>2, <1>1, <1>8, <1>3, LocalMove DEF PoolPlace, PoolLabels, SlowSize, Placed, PinOK, RangeOK,
      ArgOK, PinnedAt, LockedAt
<1>9. CASE SlowLocal(g)
  <2>0. PICK f \in 0 .. procs - 1 : PoolSet(g, [a EXCEPT !.pc = "steal", !.l = local, !.pid = 0, !.from = f])
    BY <1>1, <1>9 DEF SlowLocal
  <2>1. PICK p : p = [a EXCEPT !.pc = "steal", !.l = local, !.pid = 0, !.from = f]
    OBVIOUS
  <2>2. /\ p \in PoolPlace /\ p.pc = "steal" /\ p.s = a.s /\ p.l = local /\ p.pid = 0 /\ p.pinned = a.pinned
        /\ p.op = a.op /\ p.x = a.x
    <3>1. f \in Nat
      BY <1>2
    <3> QED BY <1>3, <2>1, <3>1 DEF PoolPlace, PoolLabels
  <2>3. a.pc = "glocal" /\ PoolSet(g, p) /\ UNCHANGED <<procs, arrays, local, localSize, pmu, bad>>
    BY <1>1, <1>9, <2>0, <2>1 DEF SlowLocal
  <2>4. a.s \in Nat /\ a.s <= Longest
    BY <1>2, <2>3 DEF PoolPlace, Placed, RangeOK
  <2>5. a.s > 0 => local \in 1 .. Len(arrays) /\ a.s <= Len(arrays[local])
    BY <1>2, <1>3, <2>4 DEF Longest, Lengths
  <2>6. Placed(p) /\ ~p.pinned
    BY <1>2, <2>2, <2>3, <2>4, <2>5 DEF Placed, PinOK, RangeOK, ArgOK, PinnedAt
  <2> QED BY <1>1, <1>2, <2>2, <2>3, <2>6, LocalMove DEF LockedAt
<1> QED BY <1>5, <1>6, <1>7, <1>8, <1>9

LEMMA SlowKeeps == ASSUME PoolInv, NEW g \in PoolUsers, pinSlow(g) \/ PoolUnlock(g) PROVE PoolInv'
<1>1. PICK a \in PoolPlace : a = PoolAt(g)
  BY HereIs
<1>2. Placed(a) /\ Sizes /\ ~bad /\ Lengths /\ (pmu = g <=> a.pc \in LockedAt) /\ procs \in Nat /\ localSize \in Nat
  BY <1>1, HereIs DEF PoolTypeOK
<1>3. localSize <= Longest /\ local = Len(arrays) /\ Longest \in Nat /\ local \in Nat
  BY <1>2 DEF Sizes, Lengths
<1>4. \A k \in PoolUsers : k # NoItem
  BY PoolConstants
<1>5. CASE pinSlow(g)
  <2>0. PICK f \in 0 .. procs - 1 :
           CanPin(f) /\ PoolSet(g, [a EXCEPT !.pc = IF f < localSize THEN "unlock" ELSE "grow", !.pid = f, !.pinned = TRUE, !.l = local])
    BY <1>1, <1>5 DEF pinSlow
  <2>00. PICK w : w = IF f < localSize THEN "unlock" ELSE "grow"
    OBVIOUS
  <2>1. PICK p : p = [a EXCEPT !.pc = w, !.pid = f, !.pinned = TRUE, !.l = local]
    OBVIOUS
  <2>2. /\ p \in PoolPlace /\ p.pc = (IF f < localSize THEN "unlock" ELSE "grow") /\ p.l = local /\ p.pid = f
        /\ p.pinned = TRUE /\ p.op = a.op /\ p.x = a.x
    <3>1. f \in Nat /\ w \in PoolLabels
      BY <1>2, <2>00 DEF PoolLabels
    <3>2. p \in PoolPlace /\ p.pc = w /\ p.l = local /\ p.pid = f /\ p.pinned = TRUE /\ p.op = a.op /\ p.x = a.x
      BY <1>3, <2>1, <3>1 DEF PoolPlace
    <3> QED BY <2>00, <3>2
  <2>3. a.pc = "slow" /\ PoolSet(g, p) /\ pmu = NoItem /\ pmu' = g /\ UNCHANGED <<procs, arrays, local, localSize, bad>>
    BY <1>1, <1>5, <2>0, <2>1, <2>00 DEF pinSlow
  <2>4. f < localSize => InRange(local, f)
    BY <1>2, <1>3, InRangeIs DEF Longest
  <2>5. Placed(p)
    BY <1>2, <2>2, <2>3, <2>4 DEF Placed, PinOK, RangeOK, ArgOK, PinnedAt
  <2>6. p.pc \in LockedAt
    BY <2>2 DEF LockedAt
  <2>7. p.pinned => CanPin(p.pid)
    BY <2>0, <2>2
  <2>8. PoolAt(g).pc # "grow2"
    BY <1>1, <2>3
  <2>9. p.op = "put" => PoolAt(g).op = "put" /\ PoolAt(g).x = p.x
    BY <1>1, <2>2
  <2>10. ~bad' /\ UNCHANGED <<procs, arrays, local, localSize>> /\ PoolSet(g, p) /\ p \in PoolPlace
    BY <1>2, <2>2, <2>3
  <2>11. \A k \in PoolUsers : k # g => (pmu' = k <=> pmu = k)
    BY <1>4, <2>3
  <2>12. pmu' = g
    BY <2>3
  <2> QED BY <2>5, <2>6, <2>7, <2>8, <2>9, <2>10, <2>11, <2>12, LocalMove
<1>6. CASE PoolUnlock(g)
  BY <1>1, <1>6, <1>2, <1>4, LocalMove DEF PoolPlace, PoolLabels, PoolUnlock, Placed, PinOK,
      RangeOK, ArgOK, PinnedAt, LockedAt
<1> QED BY <1>5, <1>6

LEMMA ReadKeeps == ASSUME PoolInv, NEW g \in PoolUsers, ReadPrivate(g) PROVE PoolInv'
<1>1. PICK a \in PoolPlace : a = PoolAt(g)
  BY HereIs
<1>2. Placed(a) /\ Lengths /\ (pmu = g <=> a.pc \in LockedAt) /\ a.l \in Nat /\ a.pid \in Nat
  BY <1>1, HereIs DEF PoolPlace
<1>3. a.pc = "use" /\ InRange(a.l, a.pid) /\ ~bad' /\ UNCHANGED <<procs, arrays, local, localSize, pmu>>
  BY <1>1, <1>2 DEF ReadPrivate, Placed, RangeOK
<1>4. PICK v : v = Elem(a.l, a.pid).private
  OBVIOUS
<1>5. v \in Items \cup {NoItem}
  BY <1>2, <1>3, <1>4 DEF InRange, Lengths, Elem, PoolSlot
<1>6. PICK p : p = IF a.op = "put"
                     THEN IF v = NoItem THEN [a EXCEPT !.pc = "write"]
                          ELSE [a EXCEPT !.pc = "shared", !.pinned = FALSE]
                     ELSE [a EXCEPT !.pc = "write", !.x = v]
  OBVIOUS
<1>7. PoolSet(g, p)
  BY <1>1, <1>3, <1>4, <1>6 DEF ReadPrivate
<1>8. /\ p \in PoolPlace /\ p.l = a.l /\ p.pid = a.pid /\ p.op = a.op
      /\ p.pc = (IF a.op = "put" /\ v # NoItem THEN "shared" ELSE "write")
      /\ p.x = (IF a.op = "put" THEN a.x ELSE v)
      /\ p.pinned = (IF a.op = "put" /\ v # NoItem THEN FALSE ELSE a.pinned)
  BY <1>5, <1>6 DEF PoolPlace, PoolLabels
<1>9. Elem(p.l, p.pid).private = v /\ InRange(p.l, p.pid) /\ a.op \in {"get", "put"}
  BY <1>3, <1>4, <1>8 DEF PoolPlace
<1>10. Placed(p)
  BY <1>2, <1>3, <1>8, <1>9 DEF Placed, PinOK, PinnedAt, RangeOK, ArgOK
<1>11. p.pinned => PoolAt(g).pinned /\ PoolAt(g).pid = p.pid
  BY <1>1, <1>8
<1>12. pmu' = g <=> p.pc \in LockedAt
  BY <1>2, <1>3, <1>8 DEF LockedAt
<1> QED BY <1>1, <1>3, <1>7, <1>8, <1>10, <1>11, <1>12, LocalMove

(* A slot of the arrays is replaced: who sits where.                       *)
LEMMA SlotIsReplaced ==
    ASSUME PoolTypeOK, NEW b \in 1 .. Len(arrays), NEW q \in 1 .. Len(arrays[b]), NEW v \in PoolSlot,
           arrays' = [arrays EXCEPT ![b][q] = v]
    PROVE  /\ arrays' \in Seq(Seq(PoolSlot)) /\ Len(arrays') = Len(arrays)
           /\ \A c \in 1 .. Len(arrays) : Len(arrays'[c]) = Len(arrays[c])
           /\ \A c \in 1 .. Len(arrays) : \A r \in 1 .. Len(arrays[c]) :
                 arrays'[c][r] = IF c = b /\ r = q THEN v ELSE arrays[c][r]
<1>1. PICK s \in Seq(Seq(PoolSlot)) : s = arrays
  BY DEF PoolTypeOK
<1>2. PICK t : t = arrays'
  OBVIOUS
<1>0. PICK u : u = [s[b] EXCEPT ![q] = v]
  OBVIOUS
<1>3. t = [s EXCEPT ![b] = u] /\ b \in 1 .. Len(s) /\ q \in 1 .. Len(s[b])
  BY <1>0, <1>1, <1>2
<1>4. /\ t \in Seq(Seq(PoolSlot)) /\ Len(t) = Len(s)
      /\ \A c \in 1 .. Len(s) : Len(t[c]) = Len(s[c])
      /\ \A c \in 1 .. Len(s) : \A r \in 1 .. Len(s[c]) : t[c][r] = IF c = b /\ r = q THEN v ELSE s[c][r]
  BY <1>0, <1>3, SlotReplaced
<1> QED BY <1>1, <1>2, <1>4

LEMMA SitsNext ==
    ASSUME PoolTypeOK, NEW b \in 1 .. Len(arrays), NEW q \in 1 .. Len(arrays[b]), NEW v \in PoolSlot,
           arrays' = [arrays EXCEPT ![b][q] = v], NEW x, NEW a \in Nat, NEW p \in Nat, NEW i \in Nat
    PROVE  Sits(x, a, p, i)' <=>
             IF a = b /\ p = q THEN IF i = 0 THEN v.private = x ELSE i \in 1 .. Len(v.shared) /\ v.shared[i] = x
             ELSE Sits(x, a, p, i)
<1>1. /\ Len(arrays') = Len(arrays) /\ \A c \in 1 .. Len(arrays) : Len(arrays'[c]) = Len(arrays[c])
      /\ \A c \in 1 .. Len(arrays) : \A r \in 1 .. Len(arrays[c]) :
            arrays'[c][r] = IF c = b /\ r = q THEN v ELSE arrays[c][r]
  BY SlotIsReplaced
<1>2. CASE a = b /\ p = q
  BY <1>1, <1>2 DEF Sits
<1>3. CASE ~(a = b /\ p = q)
  <2>1. CASE a \in 1 .. Len(arrays) /\ p \in 1 .. Len(arrays[a])
    BY <1>1, <1>3, <2>1 DEF Sits
  <2>2. CASE ~(a \in 1 .. Len(arrays) /\ p \in 1 .. Len(arrays[a]))
    BY <1>1, <1>3, <2>2 DEF Sits
  <2> QED BY <2>1, <2>2
<1> QED BY <1>2, <1>3

(* A step of g that replaces a slot and unpins g.  Of other private items  *)
(* than that of its P it changes none.                                     *)
LEMMA SlotMove ==
    ASSUME PoolInv, NEW g \in PoolUsers, NEW p \in PoolPlace, Moved(g, p), Placed(p), ~p.pinned,
           NEW b \in 1 .. Len(arrays), NEW q \in 1 .. Len(arrays[b]), NEW v \in PoolSlot,
           arrays' = [arrays EXCEPT ![b][q] = v], UNCHANGED <<procs, local, localSize, pmu>>, ~bad',
           v.private = arrays[b][q].private \/ (PoolAt(g).pinned /\ q = PoolAt(g).pid + 1),
           PoolAt(g).pc \notin LockedAt,
           \A x \in Items : InOnePlace(x)'
    PROVE  PoolInv'
<1>1. PoolTypeOK /\ Sizes /\ Pins /\ Lengths
  BY LengthsOK DEF PoolInv
<1>2. /\ arrays' \in Seq(Seq(PoolSlot)) /\ Len(arrays') = Len(arrays)
      /\ \A c \in 1 .. Len(arrays) : Len(arrays'[c]) = Len(arrays[c])
      /\ \A c \in 1 .. Len(arrays) : \A r \in 1 .. Len(arrays[c]) :
            arrays'[c][r] = IF c = b /\ r = q THEN v ELSE arrays[c][r]
  BY <1>1, SlotIsReplaced, ZenonT(60)
<1>3. PoolTypeOK'
  BY <1>1, <1>2 DEF PoolTypeOK, Moved
<1>4. Len(arrays) \in Nat /\ Longest \in Nat
  BY <1>1 DEF Lengths
<1>5. Longest' = Longest
  BY <1>2, <1>4 DEF Longest
<1>6. Grown
  BY <1>2, <1>4, <1>5 DEF Grown
<1>7. PoolAt(g)' = p /\ \A k \in PoolUsers : k # g => PoolAt(k)' = PoolAt(k)
  BY DEF Moved, PoolAt
<1>8. p.pc \notin PinnedAt
  BY DEF Placed, PinOK, PoolPlace
<1>9. PoolAt(g).pc # "grow2" /\ p.pc \notin {"grow", "grow2", "write"} /\ p.pc \notin LockedAt
  BY <1>8 DEF PinnedAt, LockedAt
<1>10. Sizes'
  BY <1>1, <1>5, <1>7, <1>9, <1>2 DEF Sizes
<1>11. Placed(p)'
  BY <1>1, <1>3, <1>6, <1>9, PlacedKeeps
<1>12. pmu' = g <=> p.pc \in LockedAt
  BY <1>9, HereIs
<1>13. ASSUME NEW k \in PoolUsers, k # g, PoolAt(k).pc = "write"
       PROVE  arrays'[PoolAt(k).l][PoolAt(k).pid + 1].private = arrays[PoolAt(k).l][PoolAt(k).pid + 1].private
  <2>1. PICK a \in PoolPlace : a = PoolAt(k)
    BY HereIs
  <2>2. Placed(a) /\ a.pc = "write" /\ a.l \in Nat /\ a.pid \in Nat
    BY <1>13, <2>1, HereIs DEF PoolPlace
  <2>3. InRange(a.l, a.pid) /\ a.pinned
    BY <2>2 DEF Placed, RangeOK, PinOK, PinnedAt
  <2>4. a.l \in 1 .. Len(arrays) /\ a.pid + 1 \in 1 .. Len(arrays[a.l])
    BY <1>1, <2>3 DEF InRange, Lengths
  <2>5. CASE v.private = arrays[b][q].private
    BY <1>2, <2>1, <2>4, <2>5
  <2>6. CASE PoolAt(g).pinned /\ q = PoolAt(g).pid + 1
    <3>1. PoolAt(g).pid # a.pid /\ PoolAt(g).pid \in Nat
      BY <1>1, <1>13, <2>1, <2>3, <2>6, HereIs DEF Pins, PoolPlace
    <3>2. q # a.pid + 1
      BY <2>2, <2>6, <3>1
    <3> QED BY <1>2, <2>1, <2>4, <3>2
  <2> QED BY <2>5, <2>6
<1> QED BY <1>2, <1>3, <1>5, <1>6, <1>10, <1>11, <1>12, <1>13, MoveKeeps

(* gs[g] is replaced.                                                      *)
LEMMA UserSet ==
    ASSUME PoolTypeOK, NEW g \in PoolUsers, NEW u \in PoolUser, gs' = [gs EXCEPT ![g] = u]
    PROVE  Moved(g, u.at) /\ \A k \in PoolUsers : gs'[k].has = IF k = g THEN u.has ELSE gs[k].has
BY DEF PoolTypeOK, Moved

(* g returns with item x.                                                  *)
LEMMA ReturnSet ==
    ASSUME PoolTypeOK, NEW g \in PoolUsers, NEW x \in Items, GetReturns(g, x)
    PROVE  /\ Moved(g, Start) /\ gs'[g].has = gs[g].has \cup {x}
           /\ \A k \in PoolUsers : k # g => gs'[k].has = gs[k].has
<1>1. gs[g] \in PoolUser
  BY DEF PoolTypeOK
<1>2. PICK u : u = [at |-> Start, has |-> gs[g].has \cup {x}, n |-> gs[g].n]
  OBVIOUS
<1>3. u \in PoolUser /\ u.at = Start /\ u.has = gs[g].has \cup {x}
  BY <1>1, <1>2, StartPlaced DEF PoolUser
<1>4. gs' = [gs EXCEPT ![g] = u]
  BY <1>2 DEF GetReturns
<1>5. Moved(g, u.at) /\ \A k \in PoolUsers : gs'[k].has = IF k = g THEN u.has ELSE gs[k].has
  BY <1>3, <1>4, UserSet
<1> QED BY <1>3, <1>5

LEMMA PrivateKeeps == ASSUME PoolInv, NEW g \in PoolUsers, WritePrivate(g) PROVE PoolInv'
<1>1. PICK a \in PoolPlace : a = PoolAt(g)
  BY HereIs
<1>2. /\ Placed(a) /\ Lengths /\ PoolTypeOK /\ a.l \in Nat /\ a.pid \in Nat /\ a.pc = "write"
      /\ \A x \in Items : InOnePlace(x)
  BY <1>1, HereIs DEF PoolPlace, WritePrivate, PoolInv
<1>3. InRange(a.l, a.pid) /\ a.pinned = TRUE /\ a.op \in {"get", "put"} /\ (a.op = "put" => a.x \in Items)
  BY <1>2 DEF Placed, RangeOK, PinOK, PinnedAt, ArgOK, PoolPlace
<1>4. PICK b \in Nat, q \in Nat : b = a.l /\ q = a.pid + 1
  BY <1>2
<1>5. b \in 1 .. Len(arrays) /\ q \in 1 .. Len(arrays[b])
  BY <1>2, <1>3, <1>4 DEF InRange, Lengths
<1>6. PICK l \in PoolSlot : l = arrays[b][q]
  BY <1>2, <1>5 DEF Lengths
<1>7. l.private = (IF a.op = "put" THEN NoItem ELSE a.x) /\ a.x \in Items \cup {NoItem}
  BY <1>2, <1>4, <1>6 DEF Placed, ArgOK, Elem, PoolPlace
<1>8. PICK v : v = [l EXCEPT !.private = IF a.op = "put" THEN a.x ELSE NoItem]
  OBVIOUS
<1>9. v \in PoolSlot /\ v.private = (IF a.op = "put" THEN a.x ELSE NoItem) /\ v.shared = l.shared
  BY <1>6, <1>7, <1>8 DEF PoolSlot
<1>10. arrays' = [arrays EXCEPT ![b][q] = v] /\ UNCHANGED <<procs, local, localSize, pmu, bad>>
  BY <1>1, <1>4, <1>6, <1>8 DEF WritePrivate, Update, Elem
<1>13. PICK r : r = [a EXCEPT !.pc = "shared", !.pinned = FALSE]
  OBVIOUS
<1>14. /\ r \in PoolPlace /\ r.pc = "shared" /\ r.pinned = FALSE /\ r.op = a.op /\ r.x = a.x /\ r.l = a.l
       /\ r.pid = a.pid
  BY <1>13 DEF PoolPlace, PoolLabels
<1>15. PICK p \in PoolPlace : p = IF a.op = "get" /\ a.x = NoItem THEN r ELSE Start
  BY <1>14, StartPlaced
<1>18. /\ Moved(g, p) /\ \A k \in PoolUsers : k # g => gs'[k].has = gs[k].has
       /\ gs'[g].has = IF a.op = "get" /\ a.x # NoItem THEN gs[g].has \cup {a.x} ELSE gs[g].has
  <2>1. CASE a.op = "put"
    BY <1>1, <1>15, <2>1, <1>2, PlaceSet DEF WritePrivate
  <2>2. CASE a.op = "get" /\ a.x = NoItem
    BY <1>1, <1>13, <1>15, <2>2, <1>2, PlaceSet DEF WritePrivate
  <2>3. CASE a.op = "get" /\ a.x # NoItem
    BY <1>1, <1>7, <1>15, <2>3, <1>2, ReturnSet DEF WritePrivate
  <2> QED BY <1>3, <2>1, <2>2, <2>3
<1>19. a.op = "get" /\ a.x = NoItem => Placed(r)
  BY <1>2, <1>3, <1>14 DEF Placed, PinOK, RangeOK, ArgOK, PinnedAt
<1>20. Placed(p) /\ ~p.pinned /\ (p.op = "put" => FALSE)
  BY <1>14, <1>15, <1>19, StartPlaced
<1>21. PoolAt(g)' = p /\ \A k \in PoolUsers : k # g => PoolAt(k)' = PoolAt(k)
  BY <1>18 DEF Moved, PoolAt
<1>22. ASSUME NEW x \in Items PROVE InOnePlace(x)'
  <2>0. x # NoItem /\ InOnePlace(x)
    BY <1>2, PoolConstants
  <2>1. \A k \in PoolUsers : PutsIt(k, x)' => PutsIt(k, x)
    BY <1>20, <1>21 DEF PutsIt
  <2>2. \A c, s, i \in Nat : Sits(x, c, s, i)' <=>
             IF c = b /\ s = q THEN IF i = 0 THEN v.private = x ELSE i \in 1 .. Len(v.shared) /\ v.shared[i] = x
             ELSE Sits(x, c, s, i)
    BY <1>2, <1>5, <1>9, <1>10, SitsNext
  <2>3. \A i \in Nat : i # 0 => (Sits(x, b, q, i) <=> i \in 1 .. Len(v.shared) /\ v.shared[i] = x)
    BY <1>5, <1>6, <1>9 DEF Sits
  <2>4. Sits(x, b, q, 0) <=> l.private = x
    BY <1>5, <1>6 DEF Sits
  <2>5. CASE a.op = "put" /\ a.x = x
    <3>1. PutsIt(g, x) /\ ~PutsIt(g, x)'
      BY <1>1, <1>20, <1>21, <2>5 DEF PutsIt
    <3>2. \A k \in PoolUsers : HasIt(k, x)' => HasIt(k, x)
      BY <1>18, <2>5 DEF HasIt
    <3>3. MayGoTo(x, b, q, 0)
      BY <2>2, <2>3 DEF MayGoTo
    <3>4. NobodyGets(x)
      BY <2>1, <3>2 DEF NobodyGets
    <3> QED BY <2>0, <3>1, <3>3, <3>4, ItemStored
  <2>6. CASE a.op = "get" /\ a.x = x
    <3>1. Sits(x, b, q, 0) /\ ~Sits(x, b, q, 0)'
      BY <1>7, <1>9, <2>0, <2>2, <2>4, <2>6
    <3>2. \A k \in PoolUsers : HasIt(k, x)' => HasIt(k, x) \/ k = g
      BY <1>18 DEF HasIt
    <3>3. \A c, s, i \in Nat : Sits(x, c, s, i)' => Sits(x, c, s, i)
      BY <1>9, <2>0, <2>2, <2>3, <2>6
    <3> QED BY <2>0, <2>1, <3>1, <3>2, <3>3, ItemTaken
  <2>7. CASE a.x # x
    BY <1>18, <2>7, <1>9, <2>0, <2>2, <2>3, <2>1, ItemsStay DEF HasIt
  <2> QED BY <1>3, <2>5, <2>6, <2>7
<1>23. PoolAt(g).pc \notin LockedAt /\ PoolAt(g).pinned /\ q = PoolAt(g).pid + 1 /\ ~bad'
  BY <1>1, <1>2, <1>3, <1>4, <1>10, HereIs DEF LockedAt
<1> QED BY <1>5, <1>9, <1>10, <1>18, <1>20, <1>22, <1>23, SlotMove

LEMMA PutKeeps == ASSUME PoolInv, NEW g \in PoolUsers, PutShared(g) PROVE PoolInv'
<1>1. PICK a \in PoolPlace : a = PoolAt(g)
  BY HereIs
<1>2. /\ Placed(a) /\ Lengths /\ PoolTypeOK /\ a.l \in Nat /\ a.pid \in Nat /\ a.pc = "shared" /\ a.op = "put"
      /\ \A x \in Items : InOnePlace(x)
  BY <1>1, HereIs DEF PoolPlace, PutShared, PoolInv
<1>3. InRange(a.l, a.pid) /\ a.x \in Items
  BY <1>2 DEF Placed, RangeOK, ArgOK
<1>4. PICK b \in Nat, q \in Nat : b = a.l /\ q = a.pid + 1
  BY <1>2
<1>5. b \in 1 .. Len(arrays) /\ q \in 1 .. Len(arrays[b])
  BY <1>2, <1>3, <1>4 DEF InRange, Lengths
<1>6. PICK l \in PoolSlot : l = arrays[b][q]
  BY <1>2, <1>5 DEF Lengths
<1>7. PICK m \in Nat : l.shared \in Seq(Items) /\ m = Len(l.shared)
  BY DEF PoolSlot
<1>8. PICK v : v = [l EXCEPT !.shared = Append(@, a.x)]
  OBVIOUS
<1>9. v \in PoolSlot /\ v.private = l.private /\ v.shared = Append(l.shared, a.x)
  <2>1. PICK w \in Seq(Items) : w = Append(l.shared, a.x)
    <3>1. l.shared \in Seq(Items) /\ a.x \in Items
      BY <1>3, <1>7
    <3>2. PICK z \in Seq(Items), e \in Items : z = l.shared /\ e = a.x
      BY <3>1
    <3>3. Append(z, e) \in Seq(Items)
      OBVIOUS
    <3> QED BY <3>2, <3>3
  <2>2. v = [l EXCEPT !.shared = w]
    BY <1>8, <2>1
  <2>3. v \in PoolSlot /\ v.private = l.private /\ v.shared = w
    BY <2>2 DEF PoolSlot
  <2> QED BY <2>1, <2>3
<1>10. Len(v.shared) = m + 1 /\ \A i \in 1 .. m + 1 : v.shared[i] = IF i = m + 1 THEN a.x ELSE l.shared[i]
  BY <1>3, <1>7, <1>9
<1>11. arrays' = [arrays EXCEPT ![b][q] = v] /\ PoolSet(g, Start) /\ UNCHANGED <<procs, local, localSize, pmu, bad>>
  BY <1>1, <1>4, <1>6, <1>8 DEF PutShared, Update, Elem
<1>12. Moved(g, Start) /\ \A k \in PoolUsers : gs'[k].has = gs[k].has
  BY <1>2, <1>11, StartPlaced, PlaceSet
<1>13. PoolAt(g)' = Start /\ \A k \in PoolUsers : k # g => PoolAt(k)' = PoolAt(k)
  BY <1>12 DEF Moved, PoolAt
<1>14. ASSUME NEW x \in Items PROVE InOnePlace(x)'
  <2>0. InOnePlace(x)
    BY <1>2
  <2>1. \A k \in PoolUsers : (PutsIt(k, x)' => PutsIt(k, x) /\ k # g) /\ (HasIt(k, x)' => HasIt(k, x))
    BY <1>12, <1>13, StartPlaced DEF PutsIt, HasIt
  <2>2. \A c, s, i \in Nat : Sits(x, c, s, i)' <=>
             IF c = b /\ s = q THEN IF i = 0 THEN v.private = x ELSE i \in 1 .. Len(v.shared) /\ v.shared[i] = x
             ELSE Sits(x, c, s, i)
    BY <1>2, <1>5, <1>9, <1>11, SitsNext
  <2>3. Sits(x, b, q, 0) <=> v.private = x
    BY <1>5, <1>6, <1>9 DEF Sits
  <2>4. \A i \in Nat : i # 0 => (Sits(x, b, q, i) <=> i \in 1 .. m /\ l.shared[i] = x)
    BY <1>5, <1>6, <1>7 DEF Sits
  <2>5. \A c, s, i \in Nat : Sits(x, c, s, i)' => Sits(x, c, s, i) \/ (c = b /\ s = q /\ i = m + 1 /\ a.x = x)
    <3> SUFFICES ASSUME NEW c \in Nat, NEW s \in Nat, NEW i \in Nat, Sits(x, c, s, i)', c = b, s = q, i # 0
                 PROVE  Sits(x, c, s, i) \/ (i = m + 1 /\ a.x = x)
      BY <2>2, <2>3
    <3>1. i \in 1 .. m + 1 /\ v.shared[i] = x
      BY <1>10, <2>2
    <3>2. CASE i = m + 1
      BY <1>10, <3>1, <3>2
    <3>3. CASE i # m + 1
      BY <1>10, <3>1, <3>3, <2>4
    <3> QED BY <3>2, <3>3
  <2>6. CASE a.x = x
    <3>1. PutsIt(g, x) /\ ~PutsIt(g, x)' /\ m + 1 \in Nat
      BY <1>1, <1>2, <2>1, <2>6 DEF PutsIt
    <3>2. PICK j \in Nat : j = m + 1
      BY <3>1
    <3>3. MayGoTo(x, b, q, j)
      BY <2>5, <3>2 DEF MayGoTo
    <3>4. NobodyGets(x)
      BY <2>1 DEF NobodyGets
    <3>5. PutsIt(g, x) /\ ~PutsIt(g, x)'
      BY <3>1
    <3> QED BY <2>0, <3>3, <3>4, <3>5, ItemStored
  <2>7. CASE a.x # x
    BY <2>0, <2>1, <2>5, <2>7, ItemsStay
  <2> QED BY <2>6, <2>7
<1>15. PoolAt(g).pc \notin LockedAt /\ v.private = arrays[b][q].private /\ ~bad'
  BY <1>1, <1>2, <1>6, <1>9, <1>11, HereIs DEF LockedAt
<1>16. PICK p \in PoolPlace : p = Start /\ Placed(p) /\ ~p.pinned
  BY StartPlaced
<1>17. Moved(g, p)
  BY <1>12, <1>16
<1> QED BY <1>5, <1>9, <1>11, <1>14, <1>15, <1>16, <1>17, SlotMove

(* The last of a shared list is taken, or there is none.                   *)
LEMMA PopKeeps ==
    ASSUME PoolInv, NEW g \in PoolUsers, NEW c \in Nat, NEW d \in Nat, NEW o \in PoolPlace,
           InRange(c, d), PopShared(g, c, d, o), UNCHANGED <<procs, local, localSize, pmu>>, ~bad',
           Placed(o), ~o.pinned, o.op = "get", o.pc \in {"gsize", "steal"},
           ~PoolAt(g).pinned, PoolAt(g).op = "get", PoolAt(g).pc \in {"shared", "steal"}
    PROVE  PoolInv'
<1>1. Lengths /\ PoolTypeOK /\ (\A x \in Items : InOnePlace(x)) /\ pmu # g /\ PoolAt(g).pc \notin LockedAt
  BY HereIs DEF PoolInv, LockedAt
<1>2. PICK b \in Nat, q \in Nat : b = c /\ q = d + 1
  OBVIOUS
<1>3. b \in 1 .. Len(arrays) /\ q \in 1 .. Len(arrays[b])
  BY <1>1, <1>2 DEF InRange, Lengths
<1>4. PICK l \in PoolSlot : l = arrays[b][q] /\ l = Elem(c, d)
  BY <1>1, <1>2, <1>3 DEF Lengths, Elem
<1>5. PICK m \in Nat : l.shared \in Seq(Items) /\ m = Len(l.shared)
  BY DEF PoolSlot
<1>6. CASE m = 0
  BY <1>4, <1>5, <1>6, <1>1, LocalMove DEF PopShared, LockedAt
<1>7. CASE m > 0
  <2>1. PICK v : v = [l EXCEPT !.shared = SubSeq(@, 1, m - 1)]
    OBVIOUS
  <2>2. SubSeq(l.shared, 1, m - 1) \in Seq(Items) /\ Len(SubSeq(l.shared, 1, m - 1)) = m - 1
        /\ \A i \in 1 .. m - 1 : SubSeq(l.shared, 1, m - 1)[i] = l.shared[i]
    BY <1>5, <1>7
  <2>3. v \in PoolSlot /\ v.private = l.private /\ v.shared = SubSeq(l.shared, 1, m - 1)
    BY <1>4, <2>1, <2>2 DEF PoolSlot
  <2>4. PICK y \in Items : y = l.shared[m]
    BY <1>5, <1>7
  <2>6. arrays' = [arrays EXCEPT ![b][q] = v]
    BY <1>2, <1>4, <1>5, <1>7, <2>1 DEF PopShared, Update
  <2>7. GetReturns(g, y)
    BY <1>4, <1>5, <1>7, <2>4 DEF PopShared
  <2>10. PICK p \in PoolPlace : p = Start /\ Placed(p) /\ ~p.pinned /\ p.op = "get"
    BY StartPlaced
  <2>11. /\ Moved(g, p) /\ gs'[g].has = gs[g].has \cup {y}
         /\ \A k \in PoolUsers : k # g => gs'[k].has = gs[k].has
    BY <1>1, <2>7, <2>10, ReturnSet
  <2>12. PoolAt(g)' = p /\ \A k \in PoolUsers : k # g => PoolAt(k)' = PoolAt(k)
    BY <2>11 DEF Moved, PoolAt
  <2>13. ASSUME NEW x \in Items PROVE InOnePlace(x)'
    <3>0. InOnePlace(x)
      BY <1>1
    <3>1. \A k \in PoolUsers : PutsIt(k, x)' => PutsIt(k, x)
      BY <2>10, <2>12 DEF PutsIt
    <3>2. \A k \in PoolUsers : HasIt(k, x)' => HasIt(k, x) \/ (k = g /\ x = y)
      BY <2>11 DEF HasIt
    <3>3. \A e, s, i \in Nat : Sits(x, e, s, i)' <=>
             IF e = b /\ s = q THEN IF i = 0 THEN v.private = x ELSE i \in 1 .. Len(v.shared) /\ v.shared[i] = x
             ELSE Sits(x, e, s, i)
      BY <1>1, <1>3, <2>3, <2>6, SitsNext
    <3>4. Sits(x, b, q, 0) <=> v.private = x
      BY <1>3, <1>4, <2>3 DEF Sits
    <3>5. \A i \in Nat : i # 0 => (Sits(x, b, q, i) <=> i \in 1 .. m /\ l.shared[i] = x)
      BY <1>3, <1>4, <1>5 DEF Sits
    <3>6. \A i \in Nat : i # 0 => (Sits(x, b, q, i)' <=> i \in 1 .. m - 1 /\ l.shared[i] = x)
      BY <2>2, <2>3, <3>3
    <3>7. \A e, s, i \in Nat : Sits(x, e, s, i)' => Sits(x, e, s, i)
      BY <3>3, <3>4, <3>5, <3>6
    <3>8. CASE x = y
      <4>1. Sits(x, b, q, m) /\ ~Sits(x, b, q, m)'
        BY <1>7, <2>4, <3>5, <3>6, <3>8
      <4> QED BY <3>0, <3>1, <3>2, <3>7, <4>1, ItemTaken
    <3>9. CASE x # y
      BY <3>0, <3>1, <3>2, <3>7, <3>9, ItemsStay
    <3> QED BY <3>8, <3>9
  <2>14. v.private = arrays[b][q].private
    BY <1>4, <2>3
  <2> QED BY <1>1, <1>3, <2>3, <2>6, <2>10, <2>11, <2>13, <2>14, SlotMove
<1> QED BY <1>5, <1>6, <1>7

LEMMA GetKeeps == ASSUME PoolInv, NEW g \in PoolUsers, GetShared(g) PROVE PoolInv'
BY HereIs, PopKeeps DEF PoolPlace, GetShared, Placed, RangeOK, PinOK, PinnedAt, PoolLabels, ArgOK

LEMMA ModIsLess == ASSUME NEW n \in Nat, NEW d \in Nat, d > 0 PROVE n % d \in Nat /\ n % d < d
OBVIOUS

LEMMA StealKeeps == ASSUME PoolInv, NEW g \in PoolUsers, Steal(g) PROVE PoolInv'
<1>1. PICK a \in PoolPlace : a = PoolAt(g)
  BY HereIs
<1>2. /\ Placed(a) /\ a.pc = "steal" /\ a.l \in Nat /\ a.pid \in Nat /\ a.s \in Nat /\ a.from \in Nat
      /\ Lengths /\ ~bad /\ (pmu = g <=> a.pc \in LockedAt)
  BY <1>1, HereIs DEF PoolPlace, Steal
<1>3. /\ a.op = "get" /\ a.x = NoItem /\ ~a.pinned /\ a.pid <= a.s
      /\ a.s > 0 => a.l \in 1 .. Len(arrays) /\ a.s <= Len(arrays[a.l])
  BY <1>2 DEF Placed, RangeOK, PinOK, PinnedAt, ArgOK
<1>4. UNCHANGED <<procs, local, localSize, pmu>>
  BY DEF Steal
<1>5. CASE a.pid = a.s
  BY <1>1, <1>5, StartPlaced, <1>2, <1>4, LocalMove DEF Steal, LockedAt
<1>6. CASE a.pid # a.s
  <2>1. PICK d : d = (a.from + a.pid + 1) % a.s
    OBVIOUS
  <2>2. a.s > 0 /\ a.pid + 1 <= a.s
    BY <1>2, <1>3, <1>6
  <2>3. d \in Nat /\ d < a.s
    BY <1>2, <2>1, <2>2, ModIsLess
  <2>4. a.l \in 1 .. Len(arrays) /\ d < Len(arrays[a.l])
    BY <1>2, <1>3, <2>2, <2>3 DEF Lengths
  <2>5. InRange(a.l, d)
    BY <1>2, <2>3, <2>4, InRangeIs
  <2>6. PICK o : o = [a EXCEPT !.pid = @ + 1]
    OBVIOUS
  <2>7. /\ o \in PoolPlace /\ o.pc = a.pc /\ o.pid = a.pid + 1 /\ o.s = a.s /\ o.l = a.l /\ o.pinned = a.pinned
        /\ o.op = a.op /\ o.x = a.x
    BY <1>2, <2>6 DEF PoolPlace
  <2>8. Placed(o)
    BY <1>2, <1>3, <2>2, <2>7 DEF Placed, PinOK, RangeOK, ArgOK, PinnedAt
  <2>9. ~bad' /\ PopShared(g, a.l, d, o)
    BY <1>1, <1>6, <2>1, <2>5, <2>6 DEF Steal
  <2> QED BY <1>1, <1>2, <1>3, <1>4, <2>3, <2>5, <2>7, <2>8, <2>9, PopKeeps
<1> QED BY <1>5, <1>6

(* The new array is stored, and then its size; nobody else is under the    *)
(* lock.                                                                   *)
LEMMA GrowKeeps == ASSUME PoolInv, NEW g \in PoolUsers, Grow(g) PROVE PoolInv'
<1>1. PICK a \in PoolPlace : a = PoolAt(g)
  BY HereIs
<1>2. /\ Placed(a) /\ a.pc = "grow" /\ Lengths /\ PoolTypeOK /\ Sizes /\ ~bad /\ pmu = g /\ HolderOK /\ Pins
      /\ procs \in Nat /\ procs # 0 /\ procs <= MaxProcs /\ a.pid \in Nat /\ localSize \in Nat
      /\ \A x \in Items : InOnePlace(x)
  BY <1>1, HereIs DEF Grow, LockedAt, PoolInv, PoolTypeOK, PoolPlace
<1>3. \A k \in PoolUsers : k # g => PoolAt(k).pc \notin LockedAt
  BY <1>2 DEF HolderOK
<1>4. localSize = Longest /\ local = Len(arrays) /\ \A c \in 1 .. Len(arrays) : Len(arrays[c]) <= MaxProcs
  BY <1>1, <1>2, <1>3 DEF Sizes, LockedAt
<1>5. a.pinned /\ a.pid < procs /\ localSize <= a.pid
  BY <1>2 DEF Placed, PinOK, PinnedAt
<1>6. /\ arrays' = Append(arrays, Fresh(procs)) /\ local' = Len(arrays) + 1
      /\ UNCHANGED <<localSize, procs, pmu, bad>>
  BY DEF Grow, PublishFirst, StoreLocal
<1>7. PICK f : f = Fresh(procs)
  OBVIOUS
<1>8. /\ f \in Seq(PoolSlot) /\ Len(f) = procs
      /\ \A i \in 1 .. procs : f[i] = [private |-> NoItem, shared |-> << >>]
  <2>1. [private |-> NoItem, shared |-> << >>] \in PoolSlot
    BY DEF PoolSlot
  <2> HIDE DEF PoolSlot
  <2> QED BY <1>2, <1>7, <2>1 DEF Fresh
<1>9. PICK n \in Nat : n = Len(arrays)
  BY <1>2 DEF Lengths
<1>10. /\ arrays' \in Seq(Seq(PoolSlot)) /\ Len(arrays') = n + 1 /\ arrays'[n + 1] = f
       /\ \A c \in 1 .. n : arrays'[c] = arrays[c]
  <2> DEFINE R == Seq(PoolSlot)
  <2>1. arrays \in Seq(R) /\ f \in R
    BY <1>2, <1>8 DEF PoolTypeOK
  <2> HIDE DEF R
  <2>2. /\ arrays' \in Seq(R) /\ Len(arrays') = n + 1 /\ arrays'[n + 1] = f
        /\ \A c \in 1 .. n : arrays'[c] = arrays[c]
    BY <1>6, <1>7, <1>9, <2>1
  <2> QED BY <2>2 DEF R
<1>11. Longest' = procs
  BY <1>8, <1>9, <1>10 DEF Longest
<1>12. Grown
  BY <1>2, <1>4, <1>5, <1>9, <1>10, <1>11 DEF Grown
<1>13. PICK p : p = [a EXCEPT !.pc = "grow2", !.l = n + 1]
  OBVIOUS
<1>14. /\ p \in PoolPlace /\ p.pc = "grow2" /\ p.l = n + 1 /\ p.pid = a.pid /\ p.pinned = a.pinned /\ p.op = a.op
       /\ p.x = a.x
  <2>1. PICK e \in Nat : e = n + 1
    OBVIOUS
  <2>2. p = [a EXCEPT !.pc = "grow2", !.l = e]
    BY <1>13, <2>1
  <2> QED BY <2>1, <2>2 DEF PoolPlace, PoolLabels
<1>15. PoolSet(g, p)
  BY <1>1, <1>9, <1>13 DEF Grow
<1>16. Moved(g, p) /\ \A k \in PoolUsers : gs'[k].has = gs[k].has
  BY <1>2, <1>14, <1>15, PlaceSet
<1>17. PoolAt(g)' = p /\ \A k \in PoolUsers : k # g => PoolAt(k)' = PoolAt(k)
  BY <1>16 DEF Moved, PoolAt
<1>18. PoolTypeOK'
  BY <1>2, <1>6, <1>9, <1>10, <1>16 DEF PoolTypeOK, Moved
<1>19. Sizes'
  <2>1. local' = Len(arrays') /\ localSize' <= Longest'
    BY <1>2, <1>5, <1>6, <1>9, <1>10, <1>11
  <2>2. \A c \in 1 .. Len(arrays') : Len(arrays'[c]) <= MaxProcs
    <3> SUFFICES ASSUME NEW c \in 1 .. n + 1 PROVE Len(arrays'[c]) <= MaxProcs
      BY <1>10
    <3>1. CASE c = n + 1
      BY <1>2, <1>8, <1>10, <3>1
    <3>2. CASE c # n + 1
      BY <1>4, <1>9, <1>10, <3>2
    <3> QED BY <3>1, <3>2
  <2>3. ~\A k \in PoolUsers : PoolAt(k)'.pc # "grow2"
    BY <1>14, <1>17
  <2> QED BY <2>1, <2>2, <2>3 DEF Sizes
<1>20. Placed(p)'
  <2>1. PinOK(p)'
    BY <1>2, <1>5, <1>6, <1>9, <1>10, <1>11, <1>14 DEF PinOK, PinnedAt
  <2> QED BY <1>2, <1>14, <2>1 DEF Placed, RangeOK, ArgOK
<1>21. \A k \in PoolUsers : k # g /\ PoolAt(k).pc = "write" =>
          arrays'[PoolAt(k).l][PoolAt(k).pid + 1].private = arrays[PoolAt(k).l][PoolAt(k).pid + 1].private
  BY <1>10, <1>2, <1>9, HereIs DEF Placed, RangeOK, InRange, Lengths
<1>22. ASSUME NEW x \in Items PROVE InOnePlace(x)'
  <2>1. \A k \in PoolUsers : (PutsIt(k, x)' => PutsIt(k, x)) /\ (HasIt(k, x)' => HasIt(k, x))
    BY <1>1, <1>14, <1>16, <1>17 DEF PutsIt, HasIt
  <2>2. ASSUME NEW c \in Nat, NEW s \in Nat, NEW i \in Nat, Sits(x, c, s, i)' PROVE Sits(x, c, s, i)
    <3>1. c \in 1 .. n + 1 /\ s \in 1 .. Len(arrays'[c])
      BY <1>10, <2>2 DEF Sits
    <3>2. c # n + 1
      BY <1>8, <1>10, <3>1, PoolConstants, <2>2 DEF Sits
    <3>3. c \in 1 .. n /\ arrays'[c] = arrays[c]
      BY <1>10, <3>1, <3>2
    <3> QED BY <1>9, <2>2, <3>3 DEF Sits
  <2> QED BY <1>2, <2>1, <2>2, ItemsStay
<1>23. p.pinned => \A k \in PoolUsers : k # g /\ PoolAt(k).pinned => PoolAt(k).pid # p.pid
  BY <1>1, <1>2, <1>5, <1>14 DEF Pins
<1>24. \A k \in PoolUsers : k # g => PoolAt(k).pc \notin {"grow", "grow2"}
  BY <1>3 DEF LockedAt
<1>25. pmu' = g /\ p.pc \in LockedAt
  BY <1>2, <1>6, <1>14 DEF LockedAt
<1> QED BY <1>2, <1>6, <1>12, <1>14, <1>16, <1>18, <1>19, <1>20, <1>21, <1>22, <1>23, <1>24, <1>25, MoveKeeps

LEMMA Grow2Keeps == ASSUME PoolInv, NEW g \in PoolUsers, Grow2(g) PROVE PoolInv'
<1>1. PICK a \in PoolPlace : a = PoolAt(g)
  BY HereIs
<1>2. /\ Placed(a) /\ a.pc = "grow2" /\ Lengths /\ PoolTypeOK /\ Sizes /\ ~bad /\ pmu = g /\ HolderOK /\ Pins
      /\ procs \in Nat /\ a.pid \in Nat /\ a.l \in Nat /\ \A x \in Items : InOnePlace(x)
  BY <1>1, HereIs DEF Grow2, LockedAt, PoolInv, PoolTypeOK, PoolPlace
<1>3. \A k \in PoolUsers : k # g => PoolAt(k).pc \notin LockedAt
  BY <1>2 DEF HolderOK
<1>4. a.pinned /\ a.pid < procs /\ a.l = Len(arrays) /\ 0 < Len(arrays) /\ Longest = procs
  BY <1>2 DEF Placed, PinOK, PinnedAt
<1>5. localSize' = procs /\ UNCHANGED <<arrays, local, procs, pmu, bad>>
  BY DEF Grow2, PublishFirst, StoreSize
<1>6. Grown /\ Longest' = Longest /\ \A x : \A c, s, i \in Nat : Sits(x, c, s, i)' <=> Sits(x, c, s, i)
  BY <1>2, <1>5, Same
<1>7. PICK p : p = [a EXCEPT !.pc = "unlock"]
  OBVIOUS
<1>8. /\ p \in PoolPlace /\ p.pc = "unlock" /\ p.l = a.l /\ p.pid = a.pid /\ p.pinned = a.pinned /\ p.op = a.op
      /\ p.x = a.x
  BY <1>7 DEF PoolPlace, PoolLabels
<1>9. Moved(g, p) /\ \A k \in PoolUsers : gs'[k].has = gs[k].has
  <2>1. PoolSet(g, p)
    BY <1>1, <1>7 DEF Grow2
  <2> QED BY <1>2, <1>8, <2>1, PlaceSet
<1>10. PoolAt(g)' = p /\ \A k \in PoolUsers : k # g => PoolAt(k)' = PoolAt(k)
  BY <1>9 DEF Moved, PoolAt
<1>11. PoolTypeOK'
  BY <1>2, <1>5, <1>9 DEF PoolTypeOK, Moved
<1>12. Sizes'
  BY <1>2, <1>4, <1>5, <1>6 DEF Sizes
<1>13. Placed(p)'
  BY <1>2, <1>4, InRangeIs, <1>5, <1>8 DEF Longest, Lengths, PinOK, PinnedAt, RangeOK, InRange,
      Placed, ArgOK
<1>14. ASSUME NEW x \in Items PROVE InOnePlace(x)'
  BY <1>1, <1>8, <1>9, <1>10, <1>2, <1>6, ItemsStay DEF PutsIt, HasIt
<1>15. p.pinned => \A k \in PoolUsers : k # g /\ PoolAt(k).pinned => PoolAt(k).pid # p.pid
  BY <1>1, <1>2, <1>4, <1>8 DEF Pins
<1>16. \A k \in PoolUsers : k # g => PoolAt(k).pc \notin {"grow", "grow2"}
  BY <1>3 DEF LockedAt
<1>17. pmu' = g /\ p.pc \in LockedAt
  BY <1>2, <1>5, <1>8 DEF LockedAt
<1> QED BY <1>2, <1>5, <1>6, <1>8, <1>9, <1>11, <1>12, <1>13, <1>14, <1>15, <1>16, <1>17, MoveKeeps

LEMMA PinKeeps ==
    ASSUME PoolInv, NEW g \in PoolUsers, NEW op, NEW y,
           (op = "get" /\ y = NoItem) \/ (op = "put" /\ y \in Items), pin(g, op, y)
    PROVE  PoolInv'
<1>1. /\ PoolTypeOK /\ Sizes /\ ~bad /\ procs \in Nat /\ PoolAt(g).pc = "idle" /\ pmu # g
      /\ gs[g] \in PoolUser /\ \A x \in Items : InOnePlace(x)
  BY HereIs DEF pin, PoolInv, PoolTypeOK, LockedAt
<1>0. op = "put" => y \in gs[g].has
  BY DEF pin
<1>2. PICK f \in 0 .. procs - 1 :
        /\ CanPin(f)
        /\ gs' = [gs EXCEPT ![g] = [at |-> [Start EXCEPT !.pc = "size", !.pid = f, !.pinned = TRUE, !.op = op, !.x = y],
                                    has |-> @.has \ {y}, n |-> @.n + 1]]
  BY DEF pin
<1>3. PICK p : p = [Start EXCEPT !.pc = "size", !.pid = f, !.pinned = TRUE, !.op = op, !.x = y]
  OBVIOUS
<1>4. p \in PoolPlace /\ p.pc = "size" /\ p.pid = f /\ p.pinned = TRUE /\ p.op = op /\ p.x = y
  <2>1. f \in Nat /\ op \in {"get", "put"} /\ y \in Items \cup {NoItem}
    BY <1>1
  <2> QED BY <1>3, <2>1, StartPlaced DEF PoolPlace, PoolLabels
<1>5. PICK u : u = [at |-> p, has |-> gs[g].has \ {y}, n |-> gs[g].n + 1]
  OBVIOUS
<1>6. u \in PoolUser /\ u.at = p /\ u.has = gs[g].has \ {y}
  BY <1>1, <1>4, <1>5 DEF PoolUser
<1>7. gs' = [gs EXCEPT ![g] = u]
  BY <1>2, <1>3, <1>5
<1>8. Moved(g, p) /\ \A k \in PoolUsers : gs'[k].has = IF k = g THEN gs[g].has \ {y} ELSE gs[k].has
  <2>1. Moved(g, u.at) /\ \A k \in PoolUsers : gs'[k].has = IF k = g THEN u.has ELSE gs[k].has
    BY <1>1, <1>6, <1>7, UserSet
  <2> QED BY <1>6, <2>1
<1>9. PoolAt(g)' = p /\ \A k \in PoolUsers : k # g => PoolAt(k)' = PoolAt(k)
  BY <1>8 DEF Moved, PoolAt
<1>10. UNCHANGED <<procs, arrays, local, localSize, pmu, grows, bad>>
  BY DEF pin
<1>11. PoolTypeOK'
  BY <1>1, <1>8, <1>10 DEF PoolTypeOK, Moved
<1>12. Grown /\ Longest' = Longest /\ \A x : \A c, s, i \in Nat : Sits(x, c, s, i)' <=> Sits(x, c, s, i)
  BY <1>1, <1>10, Same
<1>13. Sizes'
  BY <1>1, <1>9, <1>10, <1>12 DEF Sizes
<1>14. Placed(p)'
  BY <1>1, <1>4, <1>10 DEF Placed, PinOK, RangeOK, ArgOK, PinnedAt
<1>15. p.pinned => \A k \in PoolUsers : k # g /\ PoolAt(k).pinned => PoolAt(k).pid # p.pid
  BY <1>2, <1>4 DEF CanPin, Pinned
<1>16. ASSUME NEW x \in Items PROVE InOnePlace(x)'
  <2>0. x # NoItem
    BY PoolConstants
  <2>1. \A k \in PoolUsers : /\ HasIt(k, x)' => HasIt(k, x) /\ ~(k = g /\ x = y)
                             /\ PutsIt(k, x)' => PutsIt(k, x) \/ (k = g /\ op = "put" /\ x = y)
    BY <1>4, <1>8, <1>9 DEF HasIt, PutsIt
  <2>2. CASE op = "put" /\ x = y
    BY <1>0, <2>2, <2>1, <1>1, <1>12, ItemPut DEF HasIt
  <2>3. CASE ~(op = "put" /\ x = y)
    BY <1>1, <1>12, <2>1, <2>3, ItemsStay
  <2> QED BY <2>2, <2>3
<1>17. pmu' # g /\ p.pc \notin LockedAt
  BY <1>1, <1>4, <1>10 DEF LockedAt
<1> QED BY <1>1, <1>4, <1>8, <1>10, <1>11, <1>12, <1>13, <1>14, <1>15, <1>16, <1>17, MoveKeeps

(* Nobody is pinned when GOMAXPROCS changes, so nobody's P goes away, and  *)
(* nobody is between the two stores of pinSlow.                            *)
LEMMA ProcsKeeps == ASSUME PoolInv, GOMAXPROCS PROVE PoolInv'
<1>1. PoolTypeOK /\ Sizes /\ ~bad /\ Pins /\ HolderOK /\ \A x \in Items : InOnePlace(x)
  BY DEF PoolInv
<1>2. /\ procs' \in 1 .. MaxProcs /\ UNCHANGED <<arrays, local, localSize, pmu, gs, bad>>
      /\ \A g \in PoolUsers : ~PoolAt(g).pinned
  BY DEF GOMAXPROCS
<1>3. PoolTypeOK'
  BY <1>1, <1>2, PoolConstants DEF PoolTypeOK
<1>4. Grown /\ Longest' = Longest /\ \A x : \A c, s, i \in Nat : Sits(x, c, s, i)' <=> Sits(x, c, s, i)
  BY <1>1, <1>2, Same
<1>5. \A g \in PoolUsers : PoolAt(g)' = PoolAt(g)
  BY <1>2 DEF PoolAt
<1>6. Sizes' /\ Pins' /\ HolderOK' /\ ~bad'
  BY <1>1, <1>2, <1>4, <1>5 DEF Sizes, Pins, HolderOK
<1>7. ASSUME NEW g \in PoolUsers PROVE Placed(PoolAt(g))'
  BY HereIs, <1>2, <1>1, <1>3, <1>4, PlacedKeeps, <1>5 DEF Placed, PinOK, PinnedAt, PoolPlace,
      RangeOK, ArgOK, InRange, Elem
<1>8. ASSUME NEW x \in Items PROVE InOnePlace(x)'
  BY <1>2, <1>1, <1>4, ItemsStay DEF PutsIt, HasIt, PoolAt
<1> QED BY <1>3, <1>6, <1>7, <1>8 DEF PoolInv

LEMMA PoolStep == PoolInv /\ [PoolNext]_ovars => PoolInv'
<1> SUFFICES ASSUME PoolInv, [PoolNext]_ovars PROVE PoolInv'
  OBVIOUS
<1>1. ASSUME NEW g \in PoolUsers, pin(g, "get", NoItem) \/ \E x \in Items : pin(g, "put", x) PROVE PoolInv'
  <2>1. CASE pin(g, "get", NoItem)
    BY <2>1, PinKeeps
  <2>2. CASE \E x \in Items : pin(g, "put", x)
    BY <2>2, PinKeeps
  <2> QED BY <1>1, <2>1, <2>2
<1>2. CASE PoolNext
  BY <1>1, <1>2, LoadsKeep, SlowKeeps, GrowKeeps, Grow2Keeps, ReadKeeps, PrivateKeeps, PutKeeps, GetKeeps, StealKeeps,
     ProcsKeeps DEF PoolNext
<1>3. CASE UNCHANGED ovars
  BY <1>3 DEF ovars, PoolInv, PoolTypeOK, Sizes, Longest, Pins, HolderOK, PoolAt, Placed, PinOK, RangeOK, ArgOK, InRange,
              Elem, InOnePlace, HasIt, PutsIt, Sits
<1> QED BY <1>2, <1>3

(* For any number of goroutines, items and Ps, however GOMAXPROCS changes  *)
(* in between: an item has one owner, and no array is indexed out of its   *)
(* bounds.                                                                 *)
THEOREM PoolIsSafe == PoolSpec => []PoolSafe
<1>1. PoolInv => PoolSafe
  <2> SUFFICES ASSUME PoolInv PROVE PoolSafe
    OBVIOUS
  <2>1. Lengths /\ Pins /\ ~bad
    BY LengthsOK DEF PoolInv
  <2> SUFFICES ASSUME NEW x \in Items
               PROVE  /\ \A g, k \in PoolUsers : Carries(g, x) /\ Carries(k, x) => g = k
                      /\ (\E g \in PoolUsers : Carries(g, x)) => Stored(x) = {}
                      /\ \A q, r \in Stored(x) : q = r
    BY <2>1 DEF PoolSafe, OneOwner, LocalInRange
  <2> DEFINE Takes(g) == PoolAt(g).op = "get" /\ PoolAt(g).pc = "write" /\ PoolAt(g).x = x
  <2>2. InOnePlace(x)
    BY DEF PoolInv
  <2>3. ASSUME NEW g \in PoolUsers, Takes(g)
        PROVE  /\ PoolAt(g).l \in Nat /\ PoolAt(g).pid \in Nat /\ PoolAt(g).pinned
               /\ Sits(x, PoolAt(g).l, PoolAt(g).pid + 1, 0)
    BY HereIs, <2>3, <2>1 DEF PoolPlace, Placed, RangeOK, PinOK, PinnedAt, ArgOK, InRange, Lengths,
        Sits, Elem
  <2>4. \A g \in PoolUsers : Carries(g, x) <=> HasIt(g, x) \/ PutsIt(g, x) \/ Takes(g)
    BY HereIs DEF PoolPlace, Carries, HasIt, PutsIt
  <2>5. ASSUME NEW q \in Stored(x)
        PROVE  /\ q[1] \in Nat /\ q[2] \in Nat /\ q = <<q[1], q[2]>>
               /\ \/ Sits(x, q[1], q[2], 0) /\ ~\E g \in PoolUsers : Takes(g)
                  \/ \E i \in Nat \ {0} : Sits(x, q[1], q[2], i)
    <3>1. q \in (DOMAIN arrays) \X (1 .. MaxProcs) /\ q[2] \in DOMAIN arrays[q[1]]
      BY DEF Stored
    <3>2. q[1] \in 1 .. Len(arrays) /\ q[2] \in 1 .. Len(arrays[q[1]]) /\ q = <<q[1], q[2]>>
      BY <2>1, <3>1 DEF Lengths
    <3>3. PICK l \in PoolSlot : l = arrays[q[1]][q[2]]
      BY <2>1, <3>2 DEF Lengths
    <3>4. \/ l.private = x /\ ~\E g \in PoolUsers : Takes(g)
          \/ \E i \in DOMAIN l.shared : l.shared[i] = x
      BY <3>3 DEF Stored
    <3>5. Len(l.shared) \in Nat /\ DOMAIN l.shared = 1 .. Len(l.shared)
      BY DEF PoolSlot
    <3>6. CASE l.private = x /\ ~\E g \in PoolUsers : Takes(g)
      BY <3>2, <3>3, <3>6 DEF Sits
    <3>7. CASE \E i \in DOMAIN l.shared : l.shared[i] = x
      BY <3>5, <3>7, <3>2, <3>3 DEF Sits
    <3> QED BY <3>4, <3>6, <3>7
  <2> HIDE DEF Takes
  <2>6. ASSUME NEW g \in PoolUsers, NEW k \in PoolUsers, Carries(g, x), Carries(k, x) PROVE g = k
    <3>1. CASE Takes(g) /\ Takes(k)
      <4>1. PoolAt(g).pid + 1 = PoolAt(k).pid + 1 /\ PoolAt(g).pid \in Nat /\ PoolAt(k).pid \in Nat
        <5>1. PICK b \in Nat, q \in Nat : Sits(x, b, q, 0) /\ q = PoolAt(g).pid + 1
          BY <2>3, <3>1
        <5>2. PICK c \in Nat, s \in Nat : Sits(x, c, s, 0) /\ s = PoolAt(k).pid + 1
          BY <2>3, <3>1
        <5>3. q = s
          BY <2>2, <5>1, <5>2 DEF InOnePlace
        <5> QED BY <2>3, <3>1, <5>1, <5>2, <5>3
      <4> QED BY <2>1, <2>3, <3>1, <4>1 DEF Pins
    <3>2. CASE Takes(g) /\ (HasIt(k, x) \/ PutsIt(k, x))
      BY <2>2, <2>3, <3>2 DEF InOnePlace
    <3>3. CASE Takes(k) /\ (HasIt(g, x) \/ PutsIt(g, x))
      BY <2>2, <2>3, <3>3 DEF InOnePlace
    <3>4. CASE (HasIt(g, x) \/ PutsIt(g, x)) /\ (HasIt(k, x) \/ PutsIt(k, x))
      BY <2>2, <3>4 DEF InOnePlace
    <3> QED BY <2>4, <2>6, <3>1, <3>2, <3>3, <3>4
  <2>7. ASSUME NEW g \in PoolUsers, Carries(g, x), NEW q \in Stored(x) PROVE FALSE
    <3>1. CASE HasIt(g, x) \/ PutsIt(g, x)
      BY <2>2, <2>5, <3>1 DEF InOnePlace
    <3>2. CASE Takes(g)
      <4>1. PICK b \in Nat, s \in Nat : Sits(x, b, s, 0)
        BY <2>3, <3>2
      <4>2. PICK i \in Nat : i # 0 /\ Sits(x, q[1], q[2], i)
        BY <2>5, <3>2
      <4> QED BY <2>2, <2>5, <4>1, <4>2 DEF InOnePlace
    <3> QED BY <2>4, <2>7, <3>1, <3>2
  <2>8. ASSUME NEW q \in Stored(x), NEW r \in Stored(x) PROVE q = r
    BY <2>5, <2>2 DEF InOnePlace
  <2> QED BY <2>6, <2>7, <2>8
<1> QED BY <1>1, PoolStart, PoolStep, PTL DEF PoolSpec

(***************************************************************************)
(* The Lock and the Note.  FutexInv says of the word of the Lock that it   *)
(* is not UNLOCKED while a thread holds it, and of the threads that one    *)
(* which has slept, or is about to, takes the Lock as SLEEPING; with that, *)
(* every step that turns the word from SLEEPING into something else leaves *)
(* a thread behind that will wake a sleeper or turn it back.               *)
(***************************************************************************)
Labels == {"idle", "spin", "held", "sleep", "asleep", "wake", "noteload", "notesleep", "noteasleep", "notewake"}
Keys == {UNLOCKED, LOCKED, SLEEPING}

FutexTypeOK ==
    /\ key \in Keys /\ note \in {0, 1}
    /\ th \in [Threads -> [pc : Labels, wait : Keys, ns : Int]]

(* What a thread that tries to get the Lock will set its word to.          *)
WaitOK ==
    \A t \in Threads :
      /\ th[t].pc = "spin" => th[t].wait \in {LOCKED, SLEEPING}
      /\ th[t].pc \in {"sleep", "asleep"} => th[t].wait = SLEEPING

HeldIsLocked == \A t \in Threads : Holds(t) => key # UNLOCKED

(* Whoever is to be woken sleeps on a Note that is clear.                  *)
WantedIsClear == wanted => note = 0

FutexInv ==
    /\ FutexTypeOK /\ WaitOK /\ HeldIsLocked /\ WantedIsClear
    /\ LockExcludes /\ LockRemembersSleepers /\ NoteNotMissed

USE DEF UNLOCKED, LOCKED, SLEEPING

(* At the start the Lock is free and nobody sleeps.                        *)
LEMMA StartInv == FutexInit => FutexInv
BY DEF FutexInit, FutexTypeOK, Keys, Labels, WaitOK, HeldIsLocked, WantedIsClear, Holds,
    LockExcludes, LockRemembersSleepers, NoteNotMissed, ThreadAt, FutexInv

(* A thread that goes on to a label, with another value of wait.           *)
LEMMA MoveType ==
    ASSUME NEW f \in [Threads -> [pc : Labels, wait : Keys, ns : Int]],
           NEW t \in Threads, NEW label \in Labels, NEW w \in Keys
    PROVE  [f EXCEPT ![t].pc = label, ![t].wait = w] \in [Threads -> [pc : Labels, wait : Keys, ns : Int]]
OBVIOUS

(* The steps of lock keep the invariant.                                   *)
LEMMA LockKeeps ==
    ASSUME FutexInv, NEW t \in Threads, Grab(t) \/ Spin(t) \/ SpinEnds(t) \/ futexsleep(t)
    PROVE  FutexInv'
<1> USE DEF FutexInv, ThreadAt, ThreadTo, Seen
<1>1. CASE Grab(t)
  <2>1. FutexTypeOK'
    <3> DEFINE label == IF key = UNLOCKED THEN "held" ELSE "spin"
    <3>1. th' = [th EXCEPT ![t].pc = label, ![t].wait = key] BY <1>1 DEF Grab
    <3>2. label \in Labels BY DEF Labels
    <3>3. key' \in Keys /\ key \in Keys BY <1>1 DEF Grab, FutexTypeOK, Keys
    <3> HIDE DEF label
    <3>4. th' \in [Threads -> [pc : Labels, wait : Keys, ns : Int]]
      BY <3>1, <3>2, <3>3, MoveType DEF FutexTypeOK
    <3>5. note' \in {0, 1} BY <1>1 DEF Grab, FutexTypeOK
    <3> QED BY <3>3, <3>4, <3>5 DEF FutexTypeOK
  <2>2. WaitOK' /\ HeldIsLocked' /\ WantedIsClear'
    BY <1>1 DEF Grab, FutexTypeOK, WaitOK, HeldIsLocked, WantedIsClear, Holds, Keys, Labels
  <2>3. LockExcludes' BY <1>1 DEF Grab, FutexTypeOK, LockExcludes, HeldIsLocked, Holds, Keys, Labels
  <2>4. LockRemembersSleepers'
    BY <1>1 DEF Grab, FutexTypeOK, LockRemembersSleepers, Keys, Labels
  <2>5. NoteNotMissed' BY <1>1 DEF Grab, FutexTypeOK, NoteNotMissed, Keys, Labels
  <2> QED BY <2>1, <2>2, <2>3, <2>4, <2>5
<1>2. CASE Spin(t)
  BY <1>2 DEF Spin, FutexTypeOK, Keys, Labels, WaitOK, HeldIsLocked, WantedIsClear, Holds,
      LockExcludes, LockRemembersSleepers, NoteNotMissed
<1>3. CASE SpinEnds(t)
  <2>1. FutexTypeOK'
    <3> DEFINE label == IF key = UNLOCKED THEN "held" ELSE "sleep"
    <3>1. th' = [th EXCEPT ![t].pc = label, ![t].wait = SLEEPING] BY <1>3 DEF SpinEnds
    <3>2. label \in Labels BY DEF Labels
    <3>3. key' \in Keys /\ SLEEPING \in Keys BY <1>3 DEF SpinEnds, Keys
    <3> HIDE DEF label
    <3>4. th' \in [Threads -> [pc : Labels, wait : Keys, ns : Int]]
      BY <3>1, <3>2, <3>3, MoveType DEF FutexTypeOK
    <3>5. note' \in {0, 1} BY <1>3 DEF SpinEnds, FutexTypeOK
    <3> QED BY <3>3, <3>4, <3>5 DEF FutexTypeOK
  <2>2. WaitOK' /\ HeldIsLocked' /\ WantedIsClear'
    BY <1>3 DEF SpinEnds, FutexTypeOK, WaitOK, HeldIsLocked, WantedIsClear, Holds, Keys, Labels
  <2>3. LockExcludes' BY <1>3 DEF SpinEnds, FutexTypeOK, LockExcludes, HeldIsLocked, Holds, Keys, Labels
  <2>4. LockRemembersSleepers' BY <1>3 DEF SpinEnds, LockRemembersSleepers
  <2>5. NoteNotMissed' BY <1>3 DEF SpinEnds, FutexTypeOK, NoteNotMissed, Keys, Labels
  <2> QED BY <2>1, <2>2, <2>3, <2>4, <2>5
<1>4. CASE futexsleep(t)
  BY <1>4 DEF futexsleep, FutexTypeOK, Keys, Labels, WaitOK, HeldIsLocked, WantedIsClear, Holds,
      LockExcludes, LockRemembersSleepers, NoteNotMissed
<1> QED BY <1>1, <1>2, <1>3, <1>4

(* The steps of unlock, and a futex that wakes for no reason.              *)
LEMMA UnlockKeeps ==
    ASSUME FutexInv, NEW t \in Threads, Unlock(t) \/ UnlockWake(t) \/ Spurious(t)
    PROVE  FutexInv'
<1> USE DEF FutexInv, ThreadAt, ThreadTo, After
<1>1. CASE Unlock(t)
  <2>1. FutexTypeOK' BY <1>1 DEF Unlock, FutexTypeOK, Keys, Labels
  <2>2. WaitOK' /\ HeldIsLocked' /\ WantedIsClear'
    BY <1>1 DEF Unlock, FutexTypeOK, WaitOK, HeldIsLocked, WantedIsClear, LockExcludes, Holds, Keys, Labels
  <2>3. LockExcludes' BY <1>1 DEF Unlock, FutexTypeOK, LockExcludes, HeldIsLocked, WantedIsClear, Holds, Keys, Labels
  <2>4. LockRemembersSleepers'
    BY <1>1 DEF Unlock, FutexTypeOK, WaitOK, LockRemembersSleepers, Keys, Labels
  <2>5. NoteNotMissed' BY <1>1 DEF Unlock, FutexTypeOK, NoteNotMissed, Keys, Labels
  <2> QED BY <2>1, <2>2, <2>3, <2>4, <2>5
<1>2. CASE UnlockWake(t)
  BY <1>2 DEF UnlockWake, FutexTypeOK, Keys, Labels, WaitOK, HeldIsLocked, WantedIsClear,
      LockExcludes, Holds, LockRemembersSleepers, NoteNotMissed
<1>3. CASE Spurious(t)
  <2>1. FutexTypeOK' BY <1>3 DEF Spurious, FutexTypeOK, Keys, Labels
  <2>2. WaitOK' /\ HeldIsLocked' /\ WantedIsClear'
    BY <1>3 DEF Spurious, FutexTypeOK, WaitOK, HeldIsLocked, WantedIsClear, LockExcludes, Holds, Keys, Labels
  <2>3. LockExcludes' BY <1>3 DEF Spurious, FutexTypeOK, LockExcludes, HeldIsLocked, WantedIsClear, Holds, Keys, Labels
  <2>4. LockRemembersSleepers'
    BY <1>3 DEF Spurious, FutexTypeOK, WaitOK, LockRemembersSleepers, Keys, Labels
  <2>5. NoteNotMissed' BY <1>3 DEF Spurious, FutexTypeOK, NoteNotMissed, Keys, Labels
  <2> QED BY <2>1, <2>2, <2>3, <2>4, <2>5
<1> QED BY <1>1, <1>2, <1>3

(* The steps of notes.                                                     *)
LEMMA NoteKeeps ==
    ASSUME FutexInv,
           \/ noteclear \/ NotWanted
           \/ \E t \in Threads : NoteLoad(t) \/ NoteSleep(t) \/ NoteTimeout(t) \/ notewakeup(t) \/ NoteWake(t)
    PROVE  FutexInv'
<1> USE DEF FutexInv, ThreadAt, ThreadTo
<1>1. CASE noteclear
  <2>1. FutexTypeOK'
    <3>1. PICK n \in {-1, 1} : th' = [th EXCEPT ![Sleeper].ns = n]
      BY <1>1 DEF noteclear
    <3>2. th' \in [Threads -> [pc : Labels, wait : Keys, ns : Int]]
      <4>1. n \in Int OBVIOUS
      <4> QED BY <3>1, <4>1 DEF FutexTypeOK
    <3> QED BY <1>1, <3>2 DEF noteclear, FutexTypeOK
  <2>2. WaitOK' /\ HeldIsLocked' /\ WantedIsClear'
    BY <1>1 DEF noteclear, FutexTypeOK, WaitOK, HeldIsLocked, WantedIsClear, LockExcludes, Holds, Keys, Labels
  <2>3. LockExcludes' BY <1>1 DEF noteclear, FutexTypeOK, LockExcludes, HeldIsLocked, WantedIsClear, Holds, Keys, Labels
  <2>4. LockRemembersSleepers'
    BY <1>1 DEF noteclear, FutexTypeOK, WaitOK, LockRemembersSleepers, Keys, Labels
  <2>5. NoteNotMissed' BY <1>1 DEF noteclear, FutexTypeOK, NoteNotMissed, Keys, Labels
  <2> QED BY <2>1, <2>2, <2>3, <2>4, <2>5
<1>2. CASE NotWanted
  BY <1>2 DEF NotWanted, FutexTypeOK, Keys, Labels, WaitOK, HeldIsLocked, WantedIsClear,
      LockExcludes, Holds, LockRemembersSleepers, NoteNotMissed
<1>3. CASE \E t \in Threads : NoteLoad(t)
  BY <1>3 DEF NoteLoad, FutexTypeOK, Keys, Labels, WaitOK, HeldIsLocked, WantedIsClear,
      LockExcludes, Holds, LockRemembersSleepers, NoteNotMissed
<1>4. CASE \E t \in Threads : NoteSleep(t)
  BY <1>4 DEF NoteSleep, StillZero, FutexTypeOK, Keys, Labels, WaitOK, HeldIsLocked, WantedIsClear,
      LockExcludes, Holds, LockRemembersSleepers, NoteNotMissed
<1>5. CASE \E t \in Threads : NoteTimeout(t)
  BY <1>5 DEF NoteTimeout, FutexTypeOK, Keys, Labels, WaitOK, HeldIsLocked, WantedIsClear,
      LockExcludes, Holds, LockRemembersSleepers, NoteNotMissed
<1>6. CASE \E t \in Threads : notewakeup(t)
  <2>1. FutexTypeOK' BY <1>6 DEF notewakeup, FutexTypeOK, Keys, Labels
  <2>2. WaitOK' /\ HeldIsLocked' /\ WantedIsClear'
    BY <1>6 DEF notewakeup, FutexTypeOK, WaitOK, HeldIsLocked, WantedIsClear, LockExcludes, Holds, Keys, Labels
  <2>3. LockExcludes' BY <1>6, ZenonT(60) DEF notewakeup, FutexTypeOK, LockExcludes, HeldIsLocked, WantedIsClear, Holds, Keys, Labels
  <2>4. LockRemembersSleepers'
    BY <1>6 DEF notewakeup, FutexTypeOK, WaitOK, LockRemembersSleepers, Keys, Labels
  <2>5. NoteNotMissed' BY <1>6 DEF notewakeup, FutexTypeOK, NoteNotMissed, Keys, Labels
  <2> QED BY <2>1, <2>2, <2>3, <2>4, <2>5
<1>7. CASE \E t \in Threads : NoteWake(t)
  BY <1>7 DEF NoteWake, FutexTypeOK, Keys, Labels, WaitOK, HeldIsLocked, WantedIsClear,
      LockExcludes, Holds, LockRemembersSleepers, NoteNotMissed
<1> QED BY <1>1, <1>2, <1>3, <1>4, <1>5, <1>6, <1>7

(* FutexInv is inductive.                                                  *)
LEMMA FutexStep == FutexInv /\ [FutexNext]_fvars => FutexInv'
BY LockKeeps, UnlockKeeps, NoteKeeps DEF FutexNext, fvars, FutexInv, FutexTypeOK, WaitOK,
    HeldIsLocked, WantedIsClear, LockExcludes, LockRemembersSleepers, NoteNotMissed, Holds,
    ThreadAt

LEMMA FutexInvHolds == FutexSpec => []FutexInv
BY StartInv, FutexStep, PTL DEF FutexSpec

(* However many threads exchange the word of a Lock, two never hold it,    *)
(* and no unlock finds it unlocked and no wakeup its Note woken.           *)
THEOREM LocksExclude == FutexSpec => []LockExcludes
BY FutexInvHolds, PTL DEF FutexInv

(* A thread asleep for a Lock is not forgotten: the word says that there   *)
(* are sleepers, or another thread is going to wake one or to say so.      *)
THEOREM SleepersAreRemembered == FutexSpec => []LockRemembersSleepers
BY FutexInvHolds, PTL DEF FutexInv

(* A thread does not sleep on a Note that has been woken.                  *)
THEOREM NotesAreNotMissed == FutexSpec => []NoteNotMissed
BY FutexInvHolds, PTL DEF FutexInv

(* All of it together, as module MCPrims checks it for three threads.      *)
THEOREM FutexIsSafe == FutexSpec => []FutexSafe
<1>1. FutexInv => FutexSafe
  BY DEF FutexInv, FutexSafe
<1> QED BY <1>1, FutexInvHolds, PTL
=============================================================================
