------------------------------ MODULE ChanInv ------------------------------
(***************************************************************************)
(* The inductive invariant behind NoThrow: why ready() only ever meets a   *)
(* parked goroutine.  A SudoG with its selgen is a weak pointer to its     *)
(* goroutine; whoever dequeues a live one claims the goroutine, alone.     *)
(***************************************************************************)
EXTENDS Chan

PlainPC == {"chanop", "syncwait", "asyncwait", "forever", "closer", "closew"}
SelPC == {"sellock", "pass1", "pass2", "selpark", "pass3"}

(* The operation of a goroutine fits where the goroutine is in the code.   *)
ShapeOf(g) ==
    /\ pc[g] \in PlainPC => 1 \in 1 .. NCase(g)
    /\ pc[g] \in {"syncwait", "asyncwait"} => Ch(g, 1) \in Chan
    /\ pc[g] = "syncwait" => Cap[Ch(g, 1)] = 0
    /\ pc[g] = "asyncwait" => Cap[Ch(g, 1)] > 0
    /\ pc[g] \in SelPC =>
         /\ \A i \in 1 .. NCase(g) : Ch(g, i) \in Chan
         /\ pollorder[g] \in [1 .. NCase(g) -> 1 .. NCase(g)]
    /\ idx[g] >= 1
    /\ status[g] = "Gwaiting" => pc[g] \in {"syncwait", "asyncwait", "selpark", "forever"}

OpShape == \A g \in G : ShapeOf(g)

(* Who holds which channel locks: nobody twice, a select all of its own    *)
(* during its three passes, a closing goroutine its channel; while the M   *)
(* that parked a select unlocks, the select cannot hold all its locks.     *)
LocksOf(g) ==
    /\ held[g] \cap unl[g] = {}
    /\ pc[g] \in {"pass1", "pass2", "pass3"} => held[g] = SelChans(g)
    /\ pc[g] = "closew" => held[g] # {}
    /\ pc[g] \notin SelPC \cup {"closer", "closew", "selunlock"} => held[g] = {}
    /\ pc[g] \in {"closer", "closew"} /\ held[g] # {} =>
         Ch(g, 1) \in Chan /\ held[g] = {Ch(g, 1)} /\ closed[Ch(g, 1)]
    /\ unl[g] # {} => pc[g] = "selpark"
    /\ unl[g] \subseteq SelChans(g)

LockInv ==
    /\ \A g \in G : LocksOf(g)
    /\ \A g, h \in G : g # h => (held[g] \cup unl[g]) \cap (held[h] \cup unl[h]) = {}

Parked(g) == status[g] = "Gwaiting" /\ pc[g] \in {"syncwait", "asyncwait", "selpark"}

(* A SudoG never has a generation its goroutine has not reached yet; those *)
(* of selects are even, so that none is mistaken for NOSELGEN.             *)
GenInv ==
    /\ \A g \in G : selgen[g] % 2 = 0
    /\ \A x \in Chan \X Dir : \A k \in 1 .. Len(waitq[x]) :
         waitq[x][k].selgen # NOSELGEN => waitq[x][k].selgen <= selgen[waitq[x][k].g]

(* The goroutine of a live SudoG in queue x waits there: parked, or in     *)
(* pass 2 of its select, when it holds the channel's lock.                 *)
WaitsAt(sg, x) ==
    /\ sg.cas \in 1 .. NCase(sg.g)
    /\ Ch(sg.g, sg.cas) = x[1] /\ CaseDir(sg.g, sg.cas) = x[2]
    /\ IF sg.selgen = NOSELGEN
       THEN /\ status[sg.g] = "Gwaiting" /\ sg.cas = 1
            /\ pc[sg.g] \in {"syncwait", "asyncwait"}
       ELSE \/ pc[sg.g] = "pass2"
            \/ pc[sg.g] = "selpark" /\ status[sg.g] = "Gwaiting"

WaitInv ==
    \A x \in Chan \X Dir : \A k \in 1 .. Len(waitq[x]) :
        Live(waitq[x][k]) => WaitsAt(waitq[x][k], x)

(* A plain operation has one SudoG in its queue.                           *)
PlainOnce ==
    \A x \in Chan \X Dir : \A j, k \in 1 .. Len(waitq[x]) :
        j # k /\ waitq[x][j].g = waitq[x][k].g /\ waitq[x][j].selgen = NOSELGEN
            => waitq[x][k].selgen # NOSELGEN

LiveInv == GenInv /\ WaitInv /\ PlainOnce

(* Nobody can claim g: no queue has a live SudoG of it.                    *)
NoneLive(g) ==
    \A x \in Chan \X Dir : \A k \in 1 .. Len(waitq[x]) :
        waitq[x][k].g = g => ~Live(waitq[x][k])

(* A goroutine that was dequeued by h and is still to be readied is parked *)
(* in the case that its SudoG names.                                       *)
InHand(h, sg) ==
    /\ hand[h] = {sg}
    /\ pc[h] \in {"selunlock", "ready"}
    /\ Parked(sg.g)
    /\ sg.cas \in 1 .. NCase(sg.g)
    /\ Ch(sg.g, sg.cas) \in Chan
    /\ pc[sg.g] # "selpark" => sg.cas = 1

(* It is in one hand only, and nobody else can claim it.                   *)
HandInv ==
    /\ \A h \in G : \A sg \in hand[h] : InHand(h, sg) /\ NoneLive(sg.g)
    /\ \A h1, h2 \in G : \A s1 \in hand[h1], s2 \in hand[h2] : s1.g = s2.g => h1 = h2

(* What a goroutine that was woken may conclude from its param.            *)
ParamOf(g) ==
    /\ pc[g] = "syncwait" /\ status[g] = "Grunnable" /\ param[g] = 0 => closed[Ch(g, 1)]
    /\ pc[g] \in {"selpark", "pass3"} /\ param[g] # 0 =>
         param[g] \in 1 .. NCase(g) /\ Cap[Ch(g, param[g])] = 0

ParamInv == \A g \in G : ParamOf(g)

(* The inductive invariant: the conjunction of the above.                  *)
IInv ==
    /\ TypeOK /\ OpShape /\ LockInv /\ LiveInv /\ HandInv /\ ParamInv /\ NoThrow
(***************************************************************************)
(* The same behind NoMissedRendezvous and QueuedInScope: what a select     *)
(* knows after its first pass, and which of its SudoGs are still queued.   *)
(***************************************************************************)
(* The queue that case i of g's operation waits in, and its partners'.     *)
OwnQueue(g, i) == <<Ch(g, i), CaseDir(g, i)>>
CommQueue(g, i) == <<Ch(g, i), Opp(CaseDir(g, i))>>

(* Nobody but g itself waits to be paired with case i.                     *)
NoPartner(g, i) ==
    Cap[Ch(g, i)] = 0 =>
        \A k \in LiveAt(waitq[CommQueue(g, i)]) : waitq[CommQueue(g, i)][k].g = g

(* The cases that pass 1 has polled have no partner, and get none as long  *)
(* as the select holds its locks: all of its second pass.                  *)
PolledOf(g) ==
    /\ pc[g] = "pass1" => \A j \in 1 .. NCase(g) : j < idx[g] => NoPartner(g, pollorder[g][j])
    /\ pc[g] = "pass2" => \A j \in 1 .. NCase(g) : NoPartner(g, pollorder[g][j])

PolledInv == \A g \in G : PolledOf(g)

(* A SudoG, live or not, belongs to the operation its goroutine is in.     *)
EntryScope(sg, x) ==
    /\ sg.cas \in 1 .. NCase(sg.g) /\ OwnQueue(sg.g, sg.cas) = x
    /\ pc[sg.g] \in IF sg.selgen = NOSELGEN THEN {"syncwait", "asyncwait"}
                    ELSE {"pass2", "selpark", "pass3"}

ScopeInv == \A x \in Chan \X Dir : \A k \in 1 .. Len(waitq[x]) : EntryScope(waitq[x][k], x)

(* No case of an operation has two SudoGs in a queue: pollorder names each *)
(* case once, and pass 2 has enqueued those that it has passed.            *)
CaseOnce ==
    \A x \in Chan \X Dir : \A j, k \in 1 .. Len(waitq[x]) :
        j # k /\ waitq[x][j].g = waitq[x][k].g => waitq[x][j].cas # waitq[x][k].cas

EnqueuedOf(g) ==
    /\ pc[g] \in SelPC =>
         \A i, j \in 1 .. NCase(g) : i # j => pollorder[g][i] # pollorder[g][j]
    /\ pc[g] = "pass2" =>
         \A x \in Chan \X Dir : \A k \in 1 .. Len(waitq[x]) : waitq[x][k].g = g =>
            \E j \in 1 .. NCase(g) : j < idx[g] /\ waitq[x][k].cas = pollorder[g][j]

(* Case i of g is not in any queue.                                        *)
CaseGone(g, i) ==
    \A x \in Chan \X Dir : \A k \in 1 .. Len(waitq[x]) :
        waitq[x][k].g = g => waitq[x][k].cas # i

(* The case that was claimed is gone, while its goroutine is in somebody's *)
(* hand and when it is told of it.                                         *)
GoneInv ==
    /\ \A h \in G : \A sg \in hand[h] : CaseGone(sg.g, sg.cas)
    /\ \A g \in G : pc[g] = "selpark" /\ param[g] # 0 => CaseGone(g, param[g])

(* The cases in queue x that pass 3 of g has yet to dequeue.               *)
ToDequeue(g, x) == {i \in 1 .. NCase(g) : i >= idx[g] /\ i # param[g] /\ OwnQueue(g, i) = x}

(* dequeueg unlinks the first SudoG of g it finds, not that of the case it *)
(* is at; it is the number of them that pass 3 keeps account of.           *)
DequeuingOf(g) ==
    pc[g] = "pass3" => \A x \in Chan \X Dir :
        Cardinality(OwnAt(waitq[x], g)) <= Cardinality(ToDequeue(g, x))

QueueInv ==
    /\ PolledInv /\ NoMissedRendezvous
    /\ ScopeInv /\ CaseOnce /\ GoneInv
    /\ \A g \in G : EnqueuedOf(g) /\ DequeuingOf(g)
(***************************************************************************)
(* And behind Refines: what a goroutine has to show for its operation at   *)
(* each point of it, that the ring buffer is a queue, and what pass 1 has  *)
(* established about the channels that a select has locked.                *)
(***************************************************************************)
(* Where the outcome of g's operation is not written down yet.             *)
Busy == PC \ {"idle", "selunlock", "ready"}

ProgressOf(g) ==
    /\ pc[g] \in Busy => out[g] = Pending
    /\ pc[g] \in Busy /\ ~Told(g) => ep[g] = NoVal
    /\ pc[g] \notin Busy => out[g].st # "pending"
    /\ pc[g] \in PlainPC => NCase(g) = 1
    /\ pc[g] # "idle" => (op[g].fn = "closechan" <=> pc[g] \in {"closer", "closew"})
    /\ pc[g] \in {"syncwait", "selpark"} /\ status[g] = "Gwaiting" => param[g] = 0
    /\ pc[g] = "syncwait" /\ param[g] # 0 => param[g] = 1

ProgressInv == \A g \in G : ProgressOf(g)

(* The next free slot is the one behind the last element.                  *)
RingInv == \A c \in Chan : Cap[c] > 0 => sendx[c] = Slot(c, qcount[c])

(* Case i of g could proceed on neither a buffer nor a closed channel.     *)
NotReady(g, i) ==
    /\ ~closed[Ch(g, i)]
    /\ qcount[Ch(g, i)] = IF CaseDir(g, i) = "send" THEN Cap[Ch(g, i)] ELSE 0

SeenOf(g) ==
    /\ pc[g] = "pass1" => \A j \in 1 .. NCase(g) : j < idx[g] => NotReady(g, pollorder[g][j])
    /\ pc[g] = "pass2" => \A j \in 1 .. NCase(g) : NotReady(g, pollorder[g][j])

SeenInv == \A g \in G : SeenOf(g)

(* Senders that wait on a closed channel are about to be released: the     *)
(* goroutine that closed it still has the lock.                            *)
ClosingInv ==
    \A c \in Chan : closed[c] /\ LiveAt(waitq[<<c, "send">>]) # {} =>
        \E h \in G : pc[h] \in {"closer", "closew"} /\ c \in held[h]

RefInv == ProgressInv /\ RingInv /\ SeenInv /\ ClosingInv
=============================================================================
