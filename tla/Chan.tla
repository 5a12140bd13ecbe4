-------------------------------- MODULE Chan --------------------------------
(***************************************************************************)
(* Go channels as the lightgo runtime implements them: chansend, chanrecv  *)
(* and closechan (src/pkg/runtime/chan.c) and selectgo                     *)
(* (src/pkg/runtime/select.c), over the data of chan.h.                    *)
(*                                                                         *)
(* Grain of atomicity.  A critical section on ONE channel is one step: the *)
(* Hchan lock excludes every other reader of what it touches.  closechan,  *)
(* which claims several goroutines while it holds the lock, takes one step *)
(* per dequeue.  selectgo takes one step per lock, per polled case, per    *)
(* enqueued case, per dequeueg and per unlock.  What the code does after   *)
(* its unlock (copy to the partner, gp->param = sg, ready(gp)) is a step   *)
(* of its own.  Grunnable and Grunning are one status here: when a         *)
(* runnable goroutine is given an M is the scheduler's business.           *)
(***************************************************************************)
EXTENDS Integers, Sequences, FiniteSets

CONSTANTS
    G,          \* the goroutines
    Chan,       \* the channels, identified by their addresses
    Cap,        \* Cap[c] is c->dataqsiz
    Menu,       \* Menu[g] is the set of operations goroutine g may start
    MaxOps,     \* bound: goroutine g starts at most MaxOps[g] operations
    NoVal       \* the zero element (what copy(..., nil) leaves)

Nil == 0
NOSELGEN == 1
Dir == {"send", "recv"}
Opp(d) == IF d = "send" THEN "recv" ELSE "send"

Case == [dir : Dir, ch : Chan \cup {Nil}]
Fn == {"chansend", "chanrecv", "closechan", "selectgo"}
Op == [fn : Fn, block : BOOLEAN, cases : Seq(Case)]

ASSUME ChanAddresses == Chan \subseteq Nat \ {Nil}
ASSUME CapAssumption == Cap \in [Chan -> Nat]
ASSUME MaxOpsAssumption == MaxOps \in [G -> Nat]
ASSUME MenuAssumption ==
    /\ Menu \in [G -> SUBSET Op]
    /\ \A g \in G : \A o \in Menu[g] :
         /\ o.fn # "selectgo" => Len(o.cases) = 1
         /\ o.fn = "chansend" => o.cases[1].dir = "send"
         /\ o.fn = "chanrecv" => o.cases[1].dir = "recv"

VARIABLES
    qcount, sendx, recvx, buf, closed,  \* the fields of each Hchan
    waitq,      \* waitq[<<c, "recv">>] is c->recvq, waitq[<<c, "send">>] is c->sendq
    held,       \* held[g]: the channels whose Lock g's own code holds
    unl,        \* unl[g]: the channels the M that parked g has yet to unlock
    pc,         \* where g is in the operation it runs
    status,     \* g->status
    param,      \* g->param: 0 is nil, i is the SudoG of g's case i
    selgen,     \* g->selgen
    op,         \* the arguments of the operation g runs
    nops,       \* how many operations g has started
    pollorder,  \* sel->pollorder of g's select
    idx,        \* loop counter of selectgo's three passes
    hand,       \* the SudoG (at most one) that g dequeued and must still ready
    out,        \* the outcome of g's operation
    ep,         \* the element g's operation received
    thrown      \* the runtime.throw that stopped the program, or "none"

hchan == <<qcount, sendx, recvx, buf>>
sel == <<pollorder, idx>>
vars == <<hchan, closed, waitq, held, unl, pc, status, param, selgen, op,
          nops, sel, hand, out, ep, thrown>>

(***************************************************************************)
(* Data.  A value sent is named by its sender and the number of the        *)
(* sender's operation, so that no two sends of a behaviour send the same.  *)
(***************************************************************************)
Val == G \X Nat
Sudog == [g : G, cas : Nat, selgen : Nat]
PC == {"idle", "chanop", "syncwait", "asyncwait", "forever", "closer",
       "closew", "sellock", "pass1", "pass2", "selpark", "pass3",
       "selunlock", "ready"}
Outcome == [st : {"none", "pending", "done", "closed", "default", "panic"},
            cas : Nat]
Slots(c) == 0 .. Cap[c] - 1

Pending == [st |-> "pending", cas |-> 0]
Elem(g) == <<g, nops[g]>>
Ch(g, i) == op[g].cases[i].ch
CaseDir(g, i) == op[g].cases[i].dir
NCase(g) == Len(op[g].cases)
SelChans(g) == {Ch(g, i) : i \in 1 .. NCase(g)}

(* Mutant: an M that unlocks for a parked select is forgotten.             *)
LockFree_NotParked(c) == \A h \in G : c \notin held[h]

LockFree(c) == \A h \in G : c \notin held[h] \cup unl[h]

(***************************************************************************)
(* dequeue(q) pops SudoGs until one is live: not part of a select, or of a *)
(* select whose goroutine nobody has claimed since (g->selgen unchanged).  *)
(* Claiming is the compare-and-swap of g->selgen to selgen + 2.            *)
(***************************************************************************)
Live(sg) == sg.selgen = NOSELGEN \/ sg.selgen = selgen[sg.g]
LiveAt(q) == {k \in 1 .. Len(q) : Live(q[k])}
First(q) == CHOOSE k \in LiveAt(q) : \A j \in LiveAt(q) : k <= j
Dequeued(q) == IF LiveAt(q) = {} THEN <<>> ELSE SubSeq(q, First(q) + 1, Len(q))

(* Mutant: dequeue does not claim the goroutine.                           *)
Claim_None(sg) == selgen

Claim(sg) == IF sg.selgen = NOSELGEN THEN selgen
             ELSE [selgen EXCEPT ![sg.g] = sg.selgen + 2]

(* dequeueg(q): unlink the first SudoG of g.                               *)
OwnAt(q, g) == {k \in 1 .. Len(q) : q[k].g = g}
FirstOwn(q, g) == CHOOSE k \in OwnAt(q, g) : \A j \in OwnAt(q, g) : k <= j
Without(q, k) == SubSeq(q, 1, k - 1) \o SubSeq(q, k + 1, Len(q))

DequeueG(q, g) == IF OwnAt(q, g) = {} THEN q ELSE Without(q, FirstOwn(q, g))

(* Mutant: a SudoG of a select enqueued as one of a plain operation.       *)
Enqueue_NoGen(g, c, d, i, gen) ==
    waitq' = [waitq EXCEPT ![<<c, d>>] = Append(@, [g |-> g, cas |-> i, selgen |-> NOSELGEN])]

Enqueue(g, c, d, i, gen) ==
    waitq' = [waitq EXCEPT ![<<c, d>>] = Append(@, [g |-> g, cas |-> i, selgen |-> gen])]

(* ready(gp): the runtime throws unless gp is parked.                      *)
Ready(gp) ==
    IF status[gp] = "Gwaiting"
    THEN status' = [status EXCEPT ![gp] = "Grunnable"] /\ UNCHANGED thrown
    ELSE thrown' = "bad g->status in ready" /\ UNCHANGED status

Finish(g, st, i) == out' = [out EXCEPT ![g] = [st |-> st, cas |-> i]]

(***************************************************************************)
(* Can case (c, d) of an operation proceed on the open channel c, and what *)
(* happens when it does.  Buffered: move one element, then dequeue a       *)
(* goroutine that waited for the slot (or the element) and will retry.     *)
(* Unbuffered: dequeue the partner; the element moves after the unlock.    *)
(***************************************************************************)
Proceeds(c, d) ==
    CASE Cap[c] = 0                -> LiveAt(waitq[<<c, Opp(d)>>]) # {}
      [] Cap[c] > 0 /\ d = "send"  -> qcount[c] < Cap[c]
      [] Cap[c] > 0 /\ d = "recv"  -> qcount[c] > 0

Wrap(x, c) == IF x + 1 = Cap[c] THEN 0 ELSE x + 1

BufSend(g, c) ==
    /\ buf' = [buf EXCEPT ![c][sendx[c]] = Elem(g)]
    /\ sendx' = [sendx EXCEPT ![c] = Wrap(@, c)]
    /\ qcount' = [qcount EXCEPT ![c] = @ + 1]
    /\ UNCHANGED <<recvx, ep>>

BufRecv(g, c) ==
    /\ ep' = [ep EXCEPT ![g] = buf[c][recvx[c]]]
    /\ buf' = [buf EXCEPT ![c][recvx[c]] = NoVal]
    /\ recvx' = [recvx EXCEPT ![c] = Wrap(@, c)]
    /\ qcount' = [qcount EXCEPT ![c] = @ - 1]
    /\ UNCHANGED sendx

DequeueInto(g, c, d) ==
    LET q == waitq[<<c, d>>] IN
    /\ waitq' = [waitq EXCEPT ![<<c, d>>] = Dequeued(q)]
    /\ IF LiveAt(q) = {} THEN UNCHANGED <<hand, selgen>>
       ELSE /\ hand' = [hand EXCEPT ![g] = {q[First(q)]}]
            /\ selgen' = Claim(q[First(q)])

Communicate(g, c, d, i) ==
    /\ Proceeds(c, d)
    /\ CASE Cap[c] = 0               -> UNCHANGED <<hchan, ep>>
         [] Cap[c] > 0 /\ d = "send" -> BufSend(g, c)
         [] Cap[c] > 0 /\ d = "recv" -> BufRecv(g, c)
    /\ DequeueInto(g, c, Opp(d))
    /\ Finish(g, "done", i)

(* The stale SudoGs that an unsuccessful dequeue pops on its way.          *)
PopStale(c, d) ==
    waitq' = IF Cap[c] = 0 THEN [waitq EXCEPT ![<<c, Opp(d)>>] = <<>>] ELSE waitq

(* Mutant: elements left in a closed channel are dropped.                  *)
SeesClosed_Drop(c, d) == closed[c]

(* A closed channel: a send panics, a receive of what is left over returns *)
(* the zero element once the buffer is empty.                              *)
SeesClosed(c, d) == closed[c] /\ (d = "recv" => qcount[c] = 0)
FinishClosed(g, d, i) ==
    /\ Finish(g, IF d = "send" THEN "panic" ELSE "closed", i)
    /\ ep' = IF d = "send" THEN ep ELSE [ep EXCEPT ![g] = NoVal]

Goto(g, l) == pc' = [pc EXCEPT ![g] = l]

Park(g, l) == Goto(g, l) /\ status' = [status EXCEPT ![g] = "Gwaiting"]

(***************************************************************************)
(* chansend and chanrecv.                                                  *)
(***************************************************************************)
Invoke(g) ==
    /\ pc[g] = "idle"
    /\ nops[g] < MaxOps[g]
    /\ \E o \in Menu[g] :
         /\ o.fn # "selectgo"
         /\ op' = [op EXCEPT ![g] = o]
         /\ Goto(g, IF o.fn = "closechan" THEN "closer" ELSE "chanop")
    /\ nops' = [nops EXCEPT ![g] = @ + 1]
    /\ out' = [out EXCEPT ![g] = Pending]
    /\ ep' = [ep EXCEPT ![g] = NoVal]
    /\ UNCHANGED <<hchan, closed, waitq, held, unl, status, param, selgen, sel,
                   hand, thrown>>

(* c == nil: block for ever, or report false.                              *)
NilChan(g) ==
    /\ pc[g] = "chanop" /\ Ch(g, 1) = Nil
    /\ IF op[g].block
       THEN Park(g, "forever") /\ UNCHANGED out
       ELSE Goto(g, "idle") /\ Finish(g, "default", 0) /\ UNCHANGED status
    /\ UNCHANGED <<hchan, closed, waitq, held, unl, param, selgen, op, nops, sel,
                   hand, ep, thrown>>

(* The goroutine enters the critical section of its plain send or receive: *)
(* on its first try, or at asynch: after a wakeup on a buffered channel.   *)
InSection(g) ==
    /\ pc[g] = "chanop" \/ (pc[g] = "asyncwait" /\ status[g] = "Grunnable")
    /\ Ch(g, 1) # Nil
    /\ LockFree(Ch(g, 1))

ChanClosed(g) ==
    LET c == Ch(g, 1)  d == CaseDir(g, 1) IN
    /\ InSection(g)
    /\ SeesClosed(c, d)
    /\ FinishClosed(g, d, 1)
    /\ Goto(g, "idle")
    /\ UNCHANGED <<hchan, closed, waitq, held, unl, status, param, selgen, op,
                   nops, sel, hand, thrown>>

ChanComm(g) ==
    LET c == Ch(g, 1)  d == CaseDir(g, 1) IN
    /\ InSection(g)
    /\ ~SeesClosed(c, d)
    /\ Communicate(g, c, d, 1)
    /\ Goto(g, IF LiveAt(waitq[<<c, Opp(d)>>]) = {} THEN "idle" ELSE "ready")
    /\ UNCHANGED <<closed, held, unl, status, param, op, nops, sel, thrown>>

ChanNotReady(g) ==
    LET c == Ch(g, 1)  d == CaseDir(g, 1) IN
    /\ InSection(g)
    /\ ~SeesClosed(c, d) /\ ~Proceeds(c, d)
    /\ ~op[g].block
    /\ PopStale(c, d)
    /\ Finish(g, "default", 0)
    /\ Goto(g, "idle")
    /\ UNCHANGED <<hchan, closed, held, unl, status, param, selgen, op, nops,
                   sel, hand, ep, thrown>>

(* Enqueue mysg and park; on a buffered channel g->param is left alone.    *)
ChanPark(g) ==
    LET c == Ch(g, 1)  d == CaseDir(g, 1)
        w == [g |-> g, cas |-> 1, selgen |-> NOSELGEN] IN
    /\ InSection(g)
    /\ ~SeesClosed(c, d) /\ ~Proceeds(c, d)
    /\ op[g].block
    /\ waitq' = [x \in Chan \X Dir |->
                   CASE x = <<c, d>>                    -> Append(waitq[x], w)
                     [] x = <<c, Opp(d)>> /\ Cap[c] = 0 -> <<>>
                     [] OTHER                           -> waitq[x]]
    /\ Park(g, IF Cap[c] = 0 THEN "syncwait" ELSE "asyncwait")
    /\ param' = IF Cap[c] = 0 THEN [param EXCEPT ![g] = 0] ELSE param
    /\ UNCHANGED <<hchan, closed, held, unl, selgen, op, nops, sel, hand, out, ep,
                   thrown>>

(* After park on an unbuffered channel: a partner has done the exchange,   *)
(* or param is nil and the channel must have been closed.                  *)
SyncWake(g) ==
    LET c == Ch(g, 1)  d == CaseDir(g, 1) IN
    /\ pc[g] = "syncwait" /\ status[g] = "Grunnable"
    /\ \/ /\ param[g] # 0
          /\ Finish(g, "done", 1)
          /\ UNCHANGED <<ep, thrown>>
       \/ /\ param[g] = 0 /\ LockFree(c)
          /\ IF closed[c]
             THEN FinishClosed(g, d, 1) /\ UNCHANGED thrown
             ELSE thrown' = "spurious wakeup" /\ UNCHANGED <<out, ep>>
    /\ Goto(g, "idle")
    /\ UNCHANGED <<hchan, closed, waitq, held, unl, status, param, selgen, op,
                   nops, sel, hand>>

(* After the unlock: exchange the element with an unbuffered partner and   *)
(* tell it which of its cases fired, then make the partner runnable.       *)
Wakeup(g) ==
    /\ pc[g] = "ready"
    /\ \E sg \in hand[g] :
         LET gp == sg.g  sync == Cap[Ch(gp, sg.cas)] = 0 IN
         /\ Ready(gp)
         /\ param' = IF sync THEN [param EXCEPT ![gp] = sg.cas] ELSE param
         /\ ep' = CASE sync /\ CaseDir(gp, sg.cas) = "recv" -> [ep EXCEPT ![gp] = Elem(g)]
                    [] sync /\ CaseDir(gp, sg.cas) = "send" -> [ep EXCEPT ![g] = Elem(gp)]
                    [] OTHER -> ep
    /\ hand' = [hand EXCEPT ![g] = {}]
    /\ Goto(g, "idle")
    /\ UNCHANGED <<hchan, closed, waitq, held, unl, selgen, op, nops, sel, out>>

(***************************************************************************)
(* closechan: close, then release all readers and all writers, lock held.  *)
(***************************************************************************)
ClosePanic(g) ==
    LET c == Ch(g, 1) IN
    /\ pc[g] = "closer" /\ held[g] = {}
    /\ c = Nil \/ (c # Nil /\ LockFree(c) /\ closed[c])
    /\ Finish(g, "panic", 1)
    /\ Goto(g, "idle")
    /\ UNCHANGED <<hchan, closed, waitq, held, unl, status, param, selgen, op,
                   nops, sel, hand, ep, thrown>>

CloseBegin(g) ==
    LET c == Ch(g, 1) IN
    /\ pc[g] = "closer" /\ held[g] = {}
    /\ c # Nil /\ LockFree(c) /\ ~closed[c]
    /\ held' = [held EXCEPT ![g] = {c}]
    /\ closed' = [closed EXCEPT ![c] = TRUE]
    /\ UNCHANGED <<hchan, waitq, unl, pc, status, param, selgen, op, nops, sel,
                   hand, out, ep, thrown>>

(* Mutant: close releases the readers only.                                *)
CloseRelease_Readers(g) ==
    LET c == Ch(g, 1)  q == waitq[<<c, "recv">>] IN
    /\ pc[g] = "closer" /\ held[g] # {}
    /\ waitq' = [waitq EXCEPT ![<<c, "recv">>] = Dequeued(q)]
    /\ IF LiveAt(q) # {}
       THEN LET sg == q[First(q)] IN
            /\ selgen' = Claim(sg)
            /\ param' = [param EXCEPT ![sg.g] = 0]
            /\ Ready(sg.g)
            /\ UNCHANGED <<pc, held, out>>
       ELSE /\ UNCHANGED <<selgen, param, status, thrown>>
            /\ Goto(g, "idle") /\ Finish(g, "done", 1)
            /\ held' = [held EXCEPT ![g] = {}]
    /\ UNCHANGED <<hchan, closed, unl, op, nops, sel, hand, ep>>

CloseRelease(g) ==
    LET c == Ch(g, 1)
        d == IF pc[g] = "closer" THEN "recv" ELSE "send"
        q == waitq[<<c, d>>] IN
    /\ pc[g] \in {"closer", "closew"} /\ held[g] # {}
    /\ waitq' = [waitq EXCEPT ![<<c, d>>] = Dequeued(q)]
    /\ IF LiveAt(q) # {}
       THEN LET sg == q[First(q)] IN
            /\ selgen' = Claim(sg)
            /\ param' = [param EXCEPT ![sg.g] = 0]
            /\ Ready(sg.g)
            /\ UNCHANGED <<pc, held, out>>
       ELSE /\ UNCHANGED <<selgen, param, status, thrown>>
            /\ IF d = "recv"
               THEN Goto(g, "closew") /\ UNCHANGED <<held, out>>
               ELSE /\ Goto(g, "idle") /\ Finish(g, "done", 1)
                    /\ held' = [held EXCEPT ![g] = {}]
    /\ UNCHANGED <<hchan, closed, unl, op, nops, sel, hand, ep>>

(***************************************************************************)
(* selectgo.                                                               *)
(***************************************************************************)
(* newselect, selectsend, selectrecv and selectdefault build the Select:   *)
(* a case on a nil channel is not added.  pollorder is a random            *)
(* permutation, drawn once.                                                *)
Permutation(n) == {p \in [1 .. n -> 1 .. n] : \A i, j \in 1 .. n : p[i] = p[j] => i = j}
Increasing(n, S) ==
    {f \in [1 .. n -> S] : /\ \A i, j \in 1 .. n : i < j => f[i] < f[j]
                           /\ \A k \in S : \E i \in 1 .. n : f[i] = k}
Competing(s) ==
    LET S == {k \in 1 .. Len(s) : s[k].ch # Nil} IN
    UNION {{[i \in 1 .. n |-> s[f[i]]] : f \in Increasing(n, S)} : n \in 0 .. Len(s)}

SelInvoke(g) ==
    /\ pc[g] = "idle"
    /\ nops[g] < MaxOps[g]
    /\ \E o \in Menu[g] : \E cases \in Competing(o.cases) :
         /\ o.fn = "selectgo"
         /\ op' = [op EXCEPT ![g] = [o EXCEPT !.cases = cases]]
         /\ \E p \in Permutation(Len(cases)) : pollorder' = [pollorder EXCEPT ![g] = p]
         /\ Goto(g, IF cases = <<>> THEN "pass1" ELSE "sellock")
    /\ idx' = [idx EXCEPT ![g] = 1]
    /\ nops' = [nops EXCEPT ![g] = @ + 1]
    /\ out' = [out EXCEPT ![g] = Pending]
    /\ ep' = [ep EXCEPT ![g] = NoVal]
    /\ UNCHANGED <<hchan, closed, waitq, held, unl, status, param, selgen, hand,
                   thrown>>

(* Mutant: a select takes its locks in any order.                          *)
LockOrder_Any(g, c) == c \in SelChans(g) \ held[g]

(* sellock: take the locks one at a time in lockorder (by address), before *)
(* pass 1 and again after park, before pass 3.                             *)
LockOrder(g, c) ==
    /\ c \in SelChans(g) \ held[g]
    /\ \A x \in SelChans(g) \ held[g] : c <= x

SelLock(g) ==
    /\ pc[g] = "sellock" \/ (pc[g] = "selpark" /\ status[g] = "Grunnable")
    /\ \E c \in SelChans(g) :
         /\ LockOrder(g, c)
         /\ LockFree(c)
         /\ held' = [held EXCEPT ![g] = @ \cup {c}]
         /\ Goto(g, CASE held[g] \cup {c} # SelChans(g) -> pc[g]
                      [] held[g] \cup {c} = SelChans(g) /\ pc[g] = "sellock" -> "pass1"
                      [] held[g] \cup {c} = SelChans(g) /\ pc[g] = "selpark" -> "pass3")
    /\ idx' = [idx EXCEPT ![g] = 1]
    /\ UNCHANGED <<hchan, closed, waitq, unl, status, param, selgen, op, nops,
                   pollorder, hand, out, ep, thrown>>

(* pass 1: visit the next case in pollorder.                               *)
Polling(g) == pc[g] = "pass1" /\ idx[g] <= NCase(g)

(* "goto asyncrecv / asyncsend / syncrecv / syncsend".                     *)
PollComm(g) ==
    LET i == pollorder[g][idx[g]]  c == Ch(g, i)  d == CaseDir(g, i) IN
    /\ Polling(g)
    /\ d = "send" => ~closed[c]
    /\ Communicate(g, c, d, i)
    /\ Goto(g, "selunlock")
    /\ UNCHANGED <<closed, held, unl, status, param, op, nops, sel, thrown>>

(* "goto rclose / sclose".                                                 *)
PollClosed(g) ==
    LET i == pollorder[g][idx[g]]  c == Ch(g, i)  d == CaseDir(g, i) IN
    /\ Polling(g)
    /\ closed[c]
    /\ d = "recv" => ~Proceeds(c, d)
    /\ waitq' = IF d = "recv" /\ Cap[c] = 0
                THEN [waitq EXCEPT ![<<c, "send">>] = <<>>] ELSE waitq
    /\ FinishClosed(g, d, i)
    /\ Goto(g, "selunlock")
    /\ UNCHANGED <<hchan, closed, held, unl, status, param, selgen, op, nops, sel,
                   hand, thrown>>

(* Mutant: pass 1 skips a case whose partner waits.                        *)
PollNext_Skip(g) ==
    /\ Polling(g)
    /\ ~closed[Ch(g, pollorder[g][idx[g]])]
    /\ idx' = [idx EXCEPT ![g] = @ + 1]
    /\ UNCHANGED <<hchan, closed, waitq, held, unl, pc, status, param, selgen, op, nops,
                   pollorder, hand, out, ep, thrown>>

PollNext(g) ==
    LET i == pollorder[g][idx[g]]  c == Ch(g, i)  d == CaseDir(g, i) IN
    /\ Polling(g)
    /\ ~closed[c] /\ ~Proceeds(c, d)
    /\ PopStale(c, d)
    /\ idx' = [idx EXCEPT ![g] = @ + 1]
    /\ UNCHANGED <<hchan, closed, held, unl, pc, status, param, selgen, op, nops,
                   pollorder, hand, out, ep, thrown>>

(* Nothing was ready: take the default case, or go on to pass 2.           *)
SelDefault(g) ==
    /\ pc[g] = "pass1" /\ idx[g] > NCase(g)
    /\ ~op[g].block
    /\ Finish(g, "default", 0)
    /\ Goto(g, IF held[g] = {} THEN "idle" ELSE "selunlock")
    /\ UNCHANGED <<hchan, closed, waitq, held, unl, status, param, selgen, op,
                   nops, sel, hand, ep, thrown>>

SelBlock(g) ==
    /\ pc[g] = "pass1" /\ idx[g] > NCase(g)
    /\ op[g].block
    /\ Goto(g, "pass2")
    /\ idx' = [idx EXCEPT ![g] = 1]
    /\ UNCHANGED <<hchan, closed, waitq, held, unl, status, param, selgen, op,
                   nops, pollorder, hand, out, ep, thrown>>

(* pass 2: enqueue on all chans.                                           *)
SelEnqueue(g) ==
    LET i == pollorder[g][idx[g]] IN
    /\ pc[g] = "pass2" /\ idx[g] <= NCase(g)
    /\ Enqueue(g, Ch(g, i), CaseDir(g, i), i, selgen[g])
    /\ idx' = [idx EXCEPT ![g] = @ + 1]
    /\ UNCHANGED <<hchan, closed, held, unl, pc, status, param, selgen, op, nops,
                   pollorder, hand, out, ep, thrown>>

(* park(selunlock, sel): g is Gwaiting before its M releases any lock.     *)
SelPark(g) ==
    /\ pc[g] = "pass2" /\ idx[g] > NCase(g)
    /\ param' = [param EXCEPT ![g] = 0]
    /\ Park(g, "selpark")
    /\ unl' = [unl EXCEPT ![g] = held[g]]
    /\ held' = [held EXCEPT ![g] = {}]
    /\ UNCHANGED <<hchan, closed, waitq, selgen, op, nops, sel, hand, out, ep,
                   thrown>>

(* selunlock on the parking M, from the highest address down.  g may be    *)
(* claimed, and even run again on another M, before this M is done.        *)
Highest(S, c) == c \in S /\ \A x \in S : x <= c

ParkUnlock(g) ==
    /\ \E c \in unl[g] : Highest(unl[g], c) /\ unl' = [unl EXCEPT ![g] = @ \ {c}]
    /\ UNCHANGED <<hchan, closed, waitq, held, pc, status, param, selgen, op, nops,
                   sel, hand, out, ep, thrown>>

(* Mutant: a select woken without a SudoG leaves its own in the queues.    *)
SelDequeue_OnlyFired(g) ==
    LET i == idx[g] IN
    /\ pc[g] = "pass3" /\ i <= NCase(g)
    /\ waitq' = IF i = param[g] \/ param[g] = 0 THEN waitq
                ELSE [waitq EXCEPT ![<<Ch(g, i), CaseDir(g, i)>>] = DequeueG(@, g)]
    /\ idx' = [idx EXCEPT ![g] = @ + 1]
    /\ UNCHANGED <<hchan, closed, held, unl, pc, status, param, selgen, op, nops,
                   pollorder, hand, out, ep, thrown>>

(* pass 3: dequeue from unsuccessful chans, in the order of appearance.    *)
SelDequeue(g) ==
    LET i == idx[g]  c == Ch(g, i)  d == CaseDir(g, i) IN
    /\ pc[g] = "pass3" /\ i <= NCase(g)
    /\ waitq' = IF i = param[g] THEN waitq
                ELSE [waitq EXCEPT ![<<c, d>>] = DequeueG(@, g)]
    /\ idx' = [idx EXCEPT ![g] = @ + 1]
    /\ UNCHANGED <<hchan, closed, held, unl, pc, status, param, selgen, op, nops,
                   pollorder, hand, out, ep, thrown>>

(* sg == nil: a channel was closed, or a buffered one moved; look again.   *)
SelRetry(g) ==
    /\ pc[g] = "pass3" /\ idx[g] > NCase(g)
    /\ param[g] = 0
    /\ Goto(g, "pass1")
    /\ idx' = [idx EXCEPT ![g] = 1]
    /\ UNCHANGED <<hchan, closed, waitq, held, unl, status, param, selgen, op,
                   nops, pollorder, hand, out, ep, thrown>>

(* Mutant: the case that fired is looked up in pollorder.                  *)
SelFired_Order(g) ==
    /\ pc[g] = "pass3" /\ idx[g] > NCase(g)
    /\ param[g] # 0
    /\ Finish(g, "done", pollorder[g][param[g]])
    /\ Goto(g, "selunlock")
    /\ UNCHANGED <<hchan, closed, waitq, held, unl, status, param, selgen, op,
                   nops, sel, hand, ep, thrown>>

SelFired(g) ==
    /\ pc[g] = "pass3" /\ idx[g] > NCase(g)
    /\ param[g] # 0
    /\ Finish(g, "done", param[g])
    /\ thrown' = IF Cap[Ch(g, param[g])] > 0 THEN "selectgo: shouldn't happen" ELSE thrown
    /\ Goto(g, "selunlock")
    /\ UNCHANGED <<hchan, closed, waitq, held, unl, status, param, selgen, op,
                   nops, sel, hand, ep>>

(* selunlock by the selecting goroutine itself; then it readies whom it    *)
(* dequeued, frees sel and returns.                                        *)
SelUnlock(g) ==
    /\ pc[g] = "selunlock"
    /\ \E c \in held[g] :
         /\ Highest(held[g], c)
         /\ held' = [held EXCEPT ![g] = @ \ {c}]
         /\ Goto(g, CASE held[g] # {c}                  -> "selunlock"
                      [] held[g] = {c} /\ hand[g] # {}  -> "ready"
                      [] held[g] = {c} /\ hand[g] = {}  -> "idle")
    /\ UNCHANGED <<hchan, closed, waitq, unl, status, param, selgen, op, nops, sel,
                   hand, out, ep, thrown>>

(***************************************************************************)
(* The specification.                                                      *)
(***************************************************************************)
NoOp == [fn |-> "chanrecv", block |-> FALSE, cases |-> << >>]

Init ==
    /\ qcount = [c \in Chan |-> 0]
    /\ sendx = [c \in Chan |-> 0]
    /\ recvx = [c \in Chan |-> 0]
    /\ buf = [c \in Chan |-> [k \in Slots(c) |-> NoVal]]
    /\ closed = [c \in Chan |-> FALSE]
    /\ waitq = [x \in Chan \X Dir |-> << >>]
    /\ held = [g \in G |-> {}]
    /\ unl = [g \in G |-> {}]
    /\ pc = [g \in G |-> "idle"]
    /\ status = [g \in G |-> "Grunnable"]
    /\ param = [g \in G |-> 0]
    /\ selgen = [g \in G |-> 0]
    /\ op = [g \in G |-> NoOp]
    /\ nops = [g \in G |-> 0]
    /\ pollorder = [g \in G |-> << >>]
    /\ idx = [g \in G |-> 1]
    /\ hand = [g \in G |-> {}]
    /\ out = [g \in G |-> [st |-> "none", cas |-> 0]]
    /\ ep = [g \in G |-> NoVal]
    /\ thrown = "none"

PlainStep(g) ==
    \/ Invoke(g) \/ NilChan(g) \/ ChanClosed(g) \/ ChanComm(g)
    \/ ChanNotReady(g) \/ ChanPark(g) \/ SyncWake(g) \/ Wakeup(g)

CloseStep(g) == ClosePanic(g) \/ CloseBegin(g) \/ CloseRelease(g)

SelectStep(g) ==
    \/ SelInvoke(g) \/ SelLock(g) \/ PollComm(g) \/ PollClosed(g) \/ PollNext(g)
    \/ SelDefault(g) \/ SelBlock(g) \/ SelEnqueue(g) \/ SelPark(g)
    \/ ParkUnlock(g) \/ SelDequeue(g) \/ SelRetry(g) \/ SelFired(g) \/ SelUnlock(g)

(* A throw ends the program; the model notes it in thrown and goes on,     *)
(* which only adds states behind one that violates NoThrow.                *)
Next == \E g \in G : PlainStep(g) \/ CloseStep(g) \/ SelectStep(g)

Spec == Init /\ [][Next]_vars

(***************************************************************************)
(* Properties.                                                             *)
(***************************************************************************)
(* Every variable stays in its type; in particular qcount, sendx and recvx *)
(* stay within the buffer of the channel.                                  *)
TypeOK ==
    /\ qcount \in [Chan -> Nat] /\ \A c \in Chan : qcount[c] <= Cap[c]
    /\ sendx \in [Chan -> Nat] /\ recvx \in [Chan -> Nat]
    /\ \A c \in Chan : Cap[c] > 0 => sendx[c] \in Slots(c) /\ recvx[c] \in Slots(c)
    /\ DOMAIN buf = Chan
    /\ \A c \in Chan : buf[c] \in [Slots(c) -> Val \cup {NoVal}]
    /\ closed \in [Chan -> BOOLEAN]
    /\ waitq \in [Chan \X Dir -> Seq(Sudog)]
    /\ held \in [G -> SUBSET Chan] /\ unl \in [G -> SUBSET Chan]
    /\ pc \in [G -> PC]
    /\ status \in [G -> {"Gwaiting", "Grunnable"}]
    /\ param \in [G -> Nat] /\ selgen \in [G -> Nat]
    /\ op \in [G -> Op]
    /\ nops \in [G -> Nat]
    /\ pollorder \in [G -> Seq(Nat)] /\ idx \in [G -> Nat]
    /\ hand \in [G -> SUBSET Sudog]
    /\ out \in [G -> Outcome]
    /\ ep \in [G -> Val \cup {NoVal}]

(* None of the runtime's own assertions ever fires: ready() is only called *)
(* on a parked goroutine (no goroutine is woken twice or while it runs),   *)
(* an unbuffered waiter woken with param == nil finds its channel closed   *)
(* ("spurious wakeup"), and a select is never told that a buffered case    *)
(* fired ("selectgo: shouldn't happen").                                   *)
NoThrow == thrown = "none"

(* A SudoG lives in the stack frame (or the Select) of the operation that  *)
(* enqueued it.  Every SudoG in a wait queue belongs to a goroutine that   *)
(* is still inside that operation, on a case of that channel and direction;*)
(* no queue ever points into a frame that has returned or a freed Select.  *)
QueuedInScope ==
    \A c \in Chan, d \in Dir : \A k \in 1 .. Len(waitq[<<c, d>>]) :
        LET sg == waitq[<<c, d>>][k] IN
        /\ pc[sg.g] \in {"syncwait", "asyncwait", "pass2", "selpark", "pass3"}
        /\ sg.cas \in 1 .. NCase(sg.g)
        /\ Ch(sg.g, sg.cas) = c /\ CaseDir(sg.g, sg.cas) = d

(* While the M that parked a select still walks sel->lockorder to unlock,  *)
(* the select has not returned, and so has not freed sel, although its     *)
(* goroutine may already be running on another M (comment in selunlock).   *)
SelNotFreedEarly ==
    \A g \in G : unl[g] # {} =>
        pc[g] = "selpark" /\ held[g] # SelChans(g)

(* An unbuffered channel never holds a waiting sender and a waiting        *)
(* receiver of different goroutines that could be paired with one another. *)
NoMissedRendezvous ==
    \A c \in Chan : Cap[c] = 0 =>
        \A s \in LiveAt(waitq[<<c, "send">>]), r \in LiveAt(waitq[<<c, "recv">>]) :
            waitq[<<c, "send">>][s].g = waitq[<<c, "recv">>][r].g

(* Nobody is inside an operation except goroutines that are parked.        *)
Quiescent ==
    \A g \in G : /\ unl[g] = {}
                 /\ pc[g] = "idle" \/ status[g] = "Gwaiting"

(* Lost wakeups.  When everything has come to rest, no goroutine is parked *)
(* in a send or a receive that could complete: a receiver of a buffered    *)
(* channel that has an element, a sender to one that has room, or any      *)
(* waiter of a closed channel.                                             *)
Stranded(g) ==
    \E i \in 1 .. NCase(g) :
        /\ status[g] = "Gwaiting" /\ Ch(g, i) # Nil
        /\ \/ closed[Ch(g, i)]
           \/ Cap[Ch(g, i)] > 0 /\ Proceeds(Ch(g, i), CaseDir(g, i))

NoLostWakeup == Quiescent => \A g \in G : ~Stranded(g)

(* Locks are taken in one global order and every lock taken is released:   *)
(* the operations never deadlock on channel locks, and with finitely many  *)
(* of them everything comes to rest.  Fairness: a goroutine (or the M that *)
(* unlocks for it) that can take a step is eventually scheduled.           *)
FairSpec == Spec /\ \A g \in G : WF_vars(PlainStep(g) \/ CloseStep(g) \/ SelectStep(g))
ComesToRest == <>[]Quiescent

(***************************************************************************)
(* Refinement: the abstract channel implemented by the concrete state.  An *)
(* unbuffered exchange takes effect when the second party dequeues the     *)
(* first, although the element is copied and param set only afterwards.    *)
(***************************************************************************)
Slot(c, k) == IF recvx[c] + k < Cap[c] THEN recvx[c] + k ELSE recvx[c] + k - Cap[c]
AbsQueue(c) == [k \in 1 .. qcount[c] |-> buf[c][Slot(c, k - 1)]]

Sync(sg) == Cap[Ch(sg.g, sg.cas)] = 0
ClaimedBy(h, g) == {sg \in hand[h] : sg.g = g /\ Sync(sg)}
Told(g) == pc[g] \in {"syncwait", "selpark", "pass3"} /\ param[g] # 0

AbsResult(g) ==
    LET R(st, i, v) == [st |-> st, cas |-> i, val |-> v]
        by == {h \in G : ClaimedBy(h, g) # {}}
        mine == {sg \in hand[g] : Sync(sg) /\ CaseDir(sg.g, sg.cas) = "send"} IN
    CASE by # {} ->
           LET h == CHOOSE h \in by : TRUE
               sg == CHOOSE sg \in ClaimedBy(h, g) : TRUE
           IN  R("done", sg.cas, IF CaseDir(g, sg.cas) = "recv" THEN Elem(h) ELSE NoVal)
      [] by = {} /\ Told(g) -> R("done", param[g], ep[g])
      [] by = {} /\ ~Told(g) /\ mine # {} ->
           R(out[g].st, out[g].cas, Elem((CHOOSE sg \in mine : TRUE).g))
      [] by = {} /\ ~Told(g) /\ mine = {} ->
           IF op[g].fn = "closechan" /\ held[g] # {}
           THEN R("done", 1, NoVal)
           ELSE R(out[g].st, out[g].cas, ep[g])

Abs == INSTANCE ChanAbs WITH
    q <- [c \in Chan |-> AbsQueue(c)],
    res <- [g \in G |-> AbsResult(g)]

(* Every behaviour of the runtime's channels is one of the abstract ones:  *)
(* elements leave a channel once each and in the order they entered, a     *)
(* select fires exactly one case, an unbuffered exchange is atomic, a      *)
(* closed channel yields what is left in it and then zero values.          *)
Refines == Abs!Spec
=============================================================================
