-------------------------------- MODULE Sema --------------------------------
(***************************************************************************)
(* The semaphores of the runtime (src/pkg/runtime/sema.goc) as package     *)
(* sync uses them: semacquire and semrelease on addresses that share the   *)
(* SemaRoots of a hash table, and the paired semaphore SyncSema of Cond.   *)
(*                                                                         *)
(* A goroutine is a record with the place it is at (pc), the places it     *)
(* returns to (k) and its local variables; package sync, in Sync, calls    *)
(* the semaphores through Call and they go back through Return.            *)
(*                                                                         *)
(* Atomic operations on the semaphore's word and on nwait are a step each; *)
(* what is done under a root's Lock is one step where nothing it touches   *)
(* is read without the Lock.  ready is part of the step that dequeues.     *)
(***************************************************************************)
EXTENDS Integers, Sequences, FiniteSets, SequencesExt

CONSTANTS
    G,          \* the goroutines
    Sems,       \* the addresses of semaphores
    Roots,      \* the entries of semtable that are in use
    RootOf,     \* RootOf[a] is semroot(a)
    Nil         \* no semaphore, no mutex

ASSUME RootAssumption == RootOf \in [Sems -> Roots] /\ Nil \notin Sems

VARIABLES
    gr,         \* the goroutines: place, return places, local variables
    sem,        \* sem[a] is the word of semaphore a
    root,       \* root[r]: Lock holder, nwait and queue of a SemaRoot
    syncsema    \* the queue of the SyncSema: waiting goroutines with nrelease

semavars == <<sem, root, syncsema>>

SemaInit ==
    /\ sem = [a \in Sems |-> 0]
    /\ root = [r \in Roots |-> [lock |-> {}, nwait |-> 0, queue |-> << >>]]
    /\ syncsema = << >>

At(g, l) == gr[g].pc = l

Goto(g, l) == [gr EXCEPT ![g].pc = l]

(* r, the record of a goroutine, calls the function at l and then goes on  *)
(* at ret.                                                                 *)
CallTo(r, l, ret) == [r EXCEPT !.pc = l, !.k = <<ret>> \o @]

(* r returns from the innermost call; what it called has no use for its    *)
(* semaphore any more.                                                     *)
Back(r) == [r EXCEPT !.pc = Head(r.k), !.k = Tail(@), !.sa = Nil]

Return(g) == [gr EXCEPT ![g] = Back(@)]

(***************************************************************************)
(* semacquire.  cansemacquire decrements the word if it is positive.       *)
(***************************************************************************)
RootFor(g) == root[RootOf[gr[g].sa]]

cansemacquire(g) == sem[gr[g].sa] > 0

Take(g) == sem' = [sem EXCEPT ![gr[g].sa] = @ - 1]

(* The easy case, and the attempt after a wakeup.                          *)
SemTry(g) ==
    /\ At(g, "sacq")
    /\ IF cansemacquire(g)
       THEN Take(g) /\ gr' = Return(g)
       ELSE gr' = Goto(g, "slock") /\ UNCHANGED sem
    /\ UNCHANGED <<root, syncsema>>

(* Lock the root and count as a waiter, so that semrelease looks for us.   *)
SemAnnounce(g) ==
    /\ At(g, "slock") /\ RootFor(g).lock = {}
    /\ root' = [root EXCEPT ![RootOf[gr[g].sa]].lock = {g},
                            ![RootOf[gr[g].sa]].nwait = @ + 1]
    /\ gr' = Goto(g, "sretry")
    /\ UNCHANGED <<sem, syncsema>>

(* Mutant: the second look at the word is left out.                        *)
SemPark_NoLook(g) ==
    /\ At(g, "sretry")
    /\ root' = [root EXCEPT ![RootOf[gr[g].sa]].lock = {},
                            ![RootOf[gr[g].sa]].queue = Append(@, [g |-> g, addr |-> gr[g].sa])]
    /\ gr' = Goto(g, "sparked")
    /\ UNCHANGED <<sem, syncsema>>

(* Try once more, then queue and park; parking unlocks the root.           *)
SemPark(g) ==
    /\ At(g, "sretry")
    /\ IF cansemacquire(g)
       THEN /\ Take(g)
            /\ root' = [root EXCEPT ![RootOf[gr[g].sa]].lock = {},
                                    ![RootOf[gr[g].sa]].nwait = @ - 1]
            /\ gr' = Return(g)
       ELSE /\ root' = [root EXCEPT ![RootOf[gr[g].sa]].lock = {},
                                    ![RootOf[gr[g].sa]].queue =
                                        Append(@, [g |-> g, addr |-> gr[g].sa])]
            /\ gr' = Goto(g, "sparked")
            /\ UNCHANGED sem
    /\ UNCHANGED syncsema

(***************************************************************************)
(* semrelease: add, look whether anybody waits, dequeue the first waiter   *)
(* of the address and ready it.                                            *)
(***************************************************************************)
SemAdd(g) ==
    /\ At(g, "srel")
    /\ sem' = [sem EXCEPT ![gr[g].sa] = @ + 1]
    /\ gr' = Goto(g, "slook")
    /\ UNCHANGED <<root, syncsema>>

SemLook(g) ==
    /\ At(g, "slook")
    /\ gr' = IF RootFor(g).nwait = 0 THEN Return(g) ELSE Goto(g, "sdeq")
    /\ UNCHANGED semavars

(* The waiters of the address, in queue order.                             *)
WaiterAt(g) == {i \in DOMAIN RootFor(g).queue : RootFor(g).queue[i].addr = gr[g].sa}

SemWake(g) ==
    /\ At(g, "sdeq") /\ RootFor(g).lock = {}
    /\ IF RootFor(g).nwait = 0 \/ WaiterAt(g) = {}
       THEN gr' = Return(g) /\ UNCHANGED root
       ELSE LET i == Min(WaiterAt(g))
                w == RootFor(g).queue[i].g
            IN  /\ root' = [root EXCEPT ![RootOf[gr[g].sa]].nwait = @ - 1,
                                        ![RootOf[gr[g].sa]].queue = RemoveAt(@, i)]
                /\ gr' = [Return(g) EXCEPT ![w].pc = "sacq"]
    /\ UNCHANGED <<sem, syncsema>>

(***************************************************************************)
(* The SyncSema pairs acquires with releases: its queue holds acquires     *)
(* (nrelease is -1) or releases that are not used up, never both.          *)
(***************************************************************************)
SyncAcquire(g) ==
    /\ At(g, "yacq")
    /\ IF syncsema # << >> /\ Head(syncsema).nrelease > 0
       THEN IF Head(syncsema).nrelease = 1
            THEN /\ gr' = [Return(g) EXCEPT ![Head(syncsema).g] = Back(@)]
                 /\ syncsema' = Tail(syncsema)
            ELSE /\ gr' = Return(g)
                 /\ syncsema' = [syncsema EXCEPT ![1].nrelease = @ - 1]
       ELSE /\ syncsema' = Append(syncsema, [g |-> g, nrelease |-> -1])
            /\ gr' = Goto(g, "yparked")
    /\ UNCHANGED <<sem, root>>

SyncRelease(g) ==
    LET n == IF syncsema = << >> \/ Head(syncsema).nrelease > 0 THEN 0
             ELSE Min({gr[g].n, Len(syncsema)})
        woken == {syncsema[i].g : i \in 1 .. n}
        left == gr[g].n - n
        rest == SubSeq(syncsema, n + 1, Len(syncsema))
    IN  /\ At(g, "yrel")
        /\ gr' = [h \in G |-> IF h \in woken THEN Back(gr[h])
                              ELSE IF h # g THEN gr[h]
                              ELSE IF left = 0 THEN Back([gr[g] EXCEPT !.n = 0])
                              ELSE [gr[g] EXCEPT !.pc = "yparked", !.n = 0]]
        /\ syncsema' = IF left = 0 THEN rest ELSE Append(rest, [g |-> g, nrelease |-> left])
        /\ UNCHANGED <<sem, root>>

SemaStep(g) ==
    \/ SemTry(g) \/ SemAnnounce(g) \/ SemPark(g)
    \/ SemAdd(g) \/ SemLook(g) \/ SemWake(g)
    \/ SyncAcquire(g) \/ SyncRelease(g)

(***************************************************************************)
(* Properties.                                                             *)
(***************************************************************************)
Queued(a) == {i \in DOMAIN root[RootOf[a]].queue : root[RootOf[a]].queue[i].addr = a}

(* Those who will still look for a waiter of a, or for a's word: releases  *)
(* under way, goroutines that have been woken or are about to try.         *)
OnTheWay(a) ==
    {g \in G : gr[g].sa = a /\ gr[g].pc \in {"slook", "sdeq", "sacq", "slock", "sretry"}}

(* No wakeup is lost between semacquire, which announces itself and looks  *)
(* again, and semrelease, which adds and then looks for waiters: while     *)
(* goroutines sleep on a semaphore, somebody is under way for each unit of *)
(* its word, who will take it or wake one of them.                         *)
SemaNoLostWakeup ==
    \A a \in Sems : Queued(a) # {} => sem[a] <= Cardinality(OnTheWay(a))

(* nwait, which semrelease trusts when it finds nobody, counts those in    *)
(* the queue and the one that has announced itself.                        *)
NwaitCounts ==
    \A r \in Roots : root[r].nwait = Len(root[r].queue) + Cardinality(root[r].lock)

(* Neither a wakeup nor a waiter gets lost.                                *)
SemaSafe == SemaNoLostWakeup /\ NwaitCounts
=============================================================================
