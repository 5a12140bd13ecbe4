------------------------------- MODULE Sched -------------------------------
(***************************************************************************)
(* The goroutine scheduler of the lightgo runtime (proc*.c): worker        *)
(* threads (M) that need a processor (P) to run goroutines (G), the local  *)
(* and the global run queues, spinning and parking Ms, system calls, the   *)
(* monitor thread (sysmon), stopping the world, LockOSThread and the       *)
(* network poller's side of findrunnable.                                  *)
(*                                                                         *)
(* Grain of atomicity.  A section under sched's Lock, or under a P's queue *)
(* Lock, is one step; a read or an atomic operation made without a lock is *)
(* a step of its own, so that whatever is read may be stale when it is     *)
(* used.  stoptheworld, which walks allp under sched's Lock while system   *)
(* calls end beside it, takes one step per P; so does procresize, which    *)
(* then takes one for each goroutine it deals out.  What a caller does to  *)
(* an M that it took off sched.midle, until it wakes it, is part of the    *)
(* step that took it: nobody else can reach that M.                        *)
(***************************************************************************)
EXTENDS Integers, Sequences, FiniteSets

CONSTANTS
    G,          \* the goroutines, numbered
    M,          \* the threads, numbered
    P,          \* 0 .. MaxGomaxprocs - 1, the processors of runtime.allp
    NewProcs,   \* the arguments of later calls of GOMAXPROCS
    NCPU,       \* runtime.ncpu
    Programs,   \* the programs that may be run, records with the fields
                \*   menu        menu[g] is the set of operations goroutine g may do
                \*   ops         bound: g does at most ops[g] operations, then exits
                \*   background  the goroutines with isbackground set
                \*   procs       the values that GOMAXPROCS may have at the start
                \*   maxmcount   the limit on threads
                \*   net         whether the network poller is in use
    Main,       \* the goroutine that runs at the start, on thread M0
    M0,         \* the main thread
    Sysmon,     \* the monitor thread
    None        \* nil

Ops == {"new", "ready", "park", "gosched", "lock", "unlock", "sys", "sysblock", "net",
        "gc", "procs", "exit", "long"}

ASSUME SchedConstants ==
    /\ P = 0 .. Cardinality(P) - 1 /\ IsFiniteSet(P)
    /\ NewProcs \subseteq 1 .. Cardinality(P)
    /\ M0 \in M /\ Sysmon \in M /\ M0 # Sysmon /\ NCPU \in Nat \ {0}
    /\ G \subseteq Nat /\ IsFiniteSet(G) /\ M \subseteq Nat /\ IsFiniteSet(M) /\ None \notin Nat
    /\ \A pr \in Programs : LET gor == DOMAIN pr.menu IN
         /\ gor \subseteq G /\ Main \in gor /\ pr.background \subseteq gor
         /\ pr.menu \in [gor -> SUBSET Ops] /\ pr.ops \in [gor -> Nat]
         /\ pr.procs \subseteq 1 .. Cardinality(P) /\ pr.net \in BOOLEAN
         /\ pr.maxmcount \in 2 .. Cardinality(M)
         \* the background goroutine (the scavenger) only sleeps in notetsleepg
         /\ \A g \in pr.background : "sys" \notin pr.menu[g]

VARIABLES
    gs,         \* gs[g]: the fields of G, and what is left of its operations
    ms,         \* ms[m]: the fields of M, where m is in the code, its locals
    ps,         \* ps[p]: the fields of P
    sched,      \* runtime.sched
    netready,   \* the goroutines whose network descriptor has become ready
    thrown      \* how the program ended: a throw, "deadlock", "exit"; or "none"

vars == <<gs, ms, ps, sched, netready, thrown>>

(***************************************************************************)
(* Helpers.                                                                *)
(***************************************************************************)
(* An M without P, G or work.  pc "none": not created yet.  lp, lg, lm,    *)
(* glist and todo are local variables that hold a P, a G, an M, a list of  *)
(* Gs and of Ps; sp is startm's argument, n a loop counter, ret and iret   *)
(* the places that startm (with handoffp, wakep and stopm) and injectglist *)
(* return to.                                                              *)
NoM == [pc |-> "none", p |-> None, nextp |-> None, spinning |-> FALSE,
        park |-> FALSE, curg |-> None, helpgc |-> FALSE,
        lp |-> None, lg |-> None, lm |-> None, glist |-> << >>, todo |-> << >>,
        sp |-> FALSE, n |-> 0, ret |-> "none", iret |-> "none"]

Pos == 0 .. sched.gomaxprocs - 1
npidle == Len(sched.pidle)
Created == {m \in M : ms[m].pc # "none"}
lockedg(m) == {g \in G : gs[g].lockedm = m}
At(m, l) == ms[m].pc = l

(* stoptheworld and starttheworld hold sched's Lock over several steps.    *)
SchedFree == \A m \in M : ms[m].pc \notin {"stw1", "resize", "deal"}

(* Thread m returns from startm, wakep or handoffp.                        *)
Return(m) == [ms EXCEPT ![m].pc = ms[m].ret, ![m].ret = "none", ![m].lp = None, ![m].sp = FALSE]

(* The first failure ends the program.                                     *)
Verdict(ok, s) == thrown' = IF ok \/ thrown # "none" THEN thrown ELSE s

(* checkdead, with the counts that its caller has just changed.            *)
Alive == {"Grunnable", "Grunning", "Gsyscall"}

CheckDead(nmidle, nmidlelocked) ==
    LET run == Cardinality(Created) - nmidle - nmidlelocked - 1
        fg == {g \in G : ~gs[g].isbackground} IN
    CASE run > 0 -> "none"
      [] run < 0 -> "checkdead: inconsistent counts"
      [] run = 0 /\ \E g \in fg : gs[g].status \in Alive -> "checkdead: runnable g"
      [] run = 0 /\ ~(\E g \in fg : gs[g].status \in Alive) ->
           IF \E g \in fg : gs[g].status = "Gwaiting" THEN "deadlock" ELSE "exit"

(* notewakeup(&mp->park) after handing mp the processor p in nextp.        *)
Handed(mp) == ms[mp].nextp = None /\ ~ms[mp].park

(* acquirep: p must be idle and nobody's.                                  *)
MayAcquire(m, p) == ms[m].p = None /\ p # None /\ ps[p].m = None /\ ps[p].status = "Pidle"
Acquired(m, p) == [ps EXCEPT ![p].m = m, ![p].status = "Prunning"]

(* releasep: p is the caller's own running processor.                      *)
MayRelease(m) ==
    /\ ms[m].p # None
    /\ ps[ms[m].p].m = m /\ ps[ms[m].p].status = "Prunning"
Released(p) == [ps EXCEPT ![p].m = None, ![p].status = "Pidle"]

(* Wake the monitor thread if it sleeps; sched is locked.                  *)
WakeSysmon(s) == [s EXCEPT !.sysmonnote = @ \/ s.sysmonwait, !.sysmonwait = FALSE]
MayWakeSysmon == sched.sysmonwait => ~sched.sysmonnote

(* Mutant: a plain store instead of the compare-and-swap. *)
CasPsyscall_Store(p) == TRUE

(* cas(&p->status, Psyscall, ...) succeeds: the caller gets the P that a   *)
(* thread has left behind in a system call.                                *)
CasPsyscall(p) == ps[p].status = "Psyscall"

(* One P less to wait for in stoptheworld; the last one wakes it.          *)
OneStopped(s) == [s EXCEPT !.stopwait = @ - 1, !.stopnote = @ \/ s.stopwait = 1]

(***************************************************************************)
(* wakep, startm, newm, mstart.                                            *)
(***************************************************************************)
(* ready and newproc1: wake somebody if a P is idle and no M is spinning.  *)
WakeCheck(m) ==
    /\ At(m, "wakechk")
    /\ ms' = IF npidle # 0 /\ sched.nmspinning = 0 THEN [ms EXCEPT ![m].pc = "wakep"]
             ELSE Return(m)
    /\ UNCHANGED <<gs, ps, sched, netready, thrown>>

(* cas(&nmspinning, 0, 1), then startm(nil, true).                         *)
Wakep(m) ==
    /\ At(m, "wakep")
    /\ IF sched.nmspinning = 0
       THEN /\ sched' = [sched EXCEPT !.nmspinning = 1]
            /\ ms' = [ms EXCEPT ![m].pc = "startm", ![m].sp = TRUE]
       ELSE ms' = Return(m) /\ UNCHANGED sched
    /\ UNCHANGED <<gs, ps, netready, thrown>>

(* sched.pidle once startm has its P.                                      *)
PidleRest(own) == IF own THEN sched.pidle ELSE Tail(sched.pidle)

(* startm with the P in lp, or with an idle one: hand it to an idle M.     *)
Startm(m) ==
    LET own == ms[m].lp # None
        p == IF own \/ sched.pidle = << >> THEN ms[m].lp ELSE Head(sched.pidle)
        mp == Head(sched.midle) IN
    /\ At(m, "startm") /\ SchedFree
    /\ CASE p = None ->
              /\ ms' = IF ms[m].sp THEN [ms EXCEPT ![m].pc = "unspin"] ELSE Return(m)
              /\ UNCHANGED <<sched, thrown>>
         [] p # None /\ sched.midle = << >> ->
              /\ sched' = [sched EXCEPT !.pidle = PidleRest(own)]
              /\ ms' = [ms EXCEPT ![m].pc = "newm", ![m].lp = p]
              /\ UNCHANGED thrown
         [] p # None /\ sched.midle # << >> ->
              /\ sched' = [sched EXCEPT !.pidle = PidleRest(own),
                                        !.midle = Tail(@)]
              /\ ms' = [Return(m) EXCEPT ![mp].spinning = ms[m].sp, ![mp].nextp = p,
                                         ![mp].park = TRUE]
              /\ Verdict(Handed(mp) /\ ~ms[mp].spinning, "startm: m has p")
    /\ UNCHANGED <<gs, ps, netready>>

(* Mutant: the count is not taken back. *)
Unspin_Leak(m) ==
    /\ At(m, "unspin")
    /\ ms' = Return(m)
    /\ UNCHANGED <<gs, ps, sched, netready, thrown>>

(* No P was idle after all.                                                *)
Unspin(m) ==
    /\ At(m, "unspin")
    /\ sched' = [sched EXCEPT !.nmspinning = @ - 1]
    /\ ms' = Return(m)
    /\ UNCHANGED <<gs, ps, netready, thrown>>

Fresh == CHOOSE m \in M \ Created : TRUE

(* newm: allocm borrows the new thread's P when the caller has none.  A    *)
(* program may have no more threads than maxmcount allows.                 *)
Newm(m) ==
    /\ At(m, "newm") /\ SchedFree
    /\ IF Cardinality(Created) = sched.maxmcount
       THEN Verdict(FALSE, "thread exhaustion") /\ UNCHANGED ms
       ELSE /\ ms' = [Return(m) EXCEPT ![Fresh] =
                        [NoM EXCEPT !.pc = "mstart", !.nextp = ms[m].lp, !.spinning = ms[m].sp]]
            /\ Verdict(ms[m].p = None => MayAcquire(m, ms[m].lp), "acquirep: invalid p state")
    /\ UNCHANGED <<gs, ps, sched, netready>>

Mstart(m) ==
    LET p == ms[m].nextp IN
    /\ At(m, "mstart")
    /\ IF ms[m].helpgc
       THEN /\ ms' = [ms EXCEPT ![m].helpgc = FALSE, ![m].pc = "stopm", ![m].ret = "sched"]
            /\ UNCHANGED <<ps, thrown>>
       ELSE /\ ms' = [ms EXCEPT ![m].p = p, ![m].nextp = None, ![m].pc = "sched"]
            /\ ps' = Acquired(m, p)
            /\ Verdict(MayAcquire(m, p), "acquirep: invalid p state")
    /\ UNCHANGED <<gs, sched, netready>>

(***************************************************************************)
(* stopm: park the thread on sched.midle until somebody gives it a P.      *)
(***************************************************************************)
Stopm(m) ==
    LET spin == IF ms[m].spinning THEN 1 ELSE 0 IN
    /\ At(m, "stopm") /\ SchedFree
    /\ sched' = [sched EXCEPT !.midle = <<m>> \o @, !.nmspinning = @ - spin]
    /\ ms' = [ms EXCEPT ![m].pc = "parked", ![m].spinning = FALSE]
    /\ LET d == CheckDead(Len(sched.midle) + 1, sched.nmidlelocked) IN
       Verdict(ms[m].p = None /\ d = "none", IF ms[m].p = None THEN d ELSE "stopm holding p")
    /\ UNCHANGED <<gs, ps, netready>>

Unpark(m) ==
    LET p == ms[m].nextp IN
    /\ At(m, "parked") /\ ms[m].park
    /\ IF ms[m].helpgc
       THEN ms' = [ms EXCEPT ![m].park = FALSE, ![m].pc = "gchelper"] /\ UNCHANGED <<ps, thrown>>
       ELSE /\ ms' = [ms EXCEPT ![m].park = FALSE, ![m].p = p, ![m].nextp = None,
                                ![m].pc = ms[m].ret, ![m].ret = "none"]
            /\ ps' = Acquired(m, p)
            /\ Verdict(MayAcquire(m, p), "acquirep: invalid p state")
    /\ UNCHANGED <<gs, sched, netready>>

(* A helper of the collector is done and goes back to sched.midle.         *)
Gchelper(m) ==
    /\ At(m, "gchelper")
    /\ ms' = [ms EXCEPT ![m].helpgc = FALSE, ![m].pc = "stopm"]
    /\ sched' = [sched EXCEPT !.helpers = @ - 1]
    /\ UNCHANGED <<gs, ps, netready, thrown>>

(***************************************************************************)
(* schedule and findrunnable.                                              *)
(***************************************************************************)
(* gcstopm, from the top of schedule or of findrunnable: give up the P to  *)
(* stoptheworld and park.                                                  *)
Gcstopm(m) ==
    LET p == ms[m].p
        spin == IF ms[m].spinning THEN 1 ELSE 0 IN
    /\ ms[m].pc \in {"sched", "find"} /\ sched.gcwaiting /\ SchedFree
    /\ ps' = [ps EXCEPT ![p].m = None, ![p].status = "Pgcstop"]
    /\ sched' = OneStopped([sched EXCEPT !.nmspinning = @ - spin])
    /\ ms' = [ms EXCEPT ![m].p = None, ![m].spinning = FALSE,
                        ![m].pc = "stopm", ![m].ret = ms[m].pc]
    /\ Verdict(MayRelease(m), "releasep: invalid p state")
    /\ UNCHANGED <<gs, netready>>

(* globrunqget(p, max): the first G, and a share of the queue for p.       *)
Least(a, b) == IF a < b THEN a ELSE b
Share(max) ==
    LET n == Least(Len(sched.runq) \div sched.gomaxprocs + 1, Len(sched.runq)) IN
    IF max > 0 THEN Least(n, max) ELSE n

Globrunqget(m, max) ==
    LET n == Share(max)  p == ms[m].p IN
    /\ sched.runq # << >>
    /\ ps' = [ps EXCEPT ![p].runq = @ \o SubSeq(sched.runq, 2, n)]
    /\ sched' = [sched EXCEPT !.runq = SubSeq(@, n + 1, Len(@))]
    /\ ms' = [ms EXCEPT ![m].lg = Head(sched.runq), ![m].pc = "reset"]

(* Every 61st tick of the P the global queue comes first.  Ticks are not   *)
(* counted: any round may be such a one.  gcwaiting is not looked at again *)
(* before the goroutine runs.                                              *)
PickGlobal(m) ==
    /\ At(m, "sched") /\ ~sched.gcwaiting /\ SchedFree
    /\ Globrunqget(m, 1)
    /\ UNCHANGED <<gs, netready, thrown>>

PickLocal(m) ==
    LET p == ms[m].p  q == ps[p].runq IN
    /\ At(m, "sched") /\ ~sched.gcwaiting
    /\ IF q # << >>
       THEN /\ ps' = [ps EXCEPT ![p].runq = Tail(@)]
            /\ ms' = [ms EXCEPT ![m].lg = Head(q), ![m].pc = "gotg"]
            /\ Verdict(~ms[m].spinning, "schedule: spinning with local work")
       ELSE ms' = [ms EXCEPT ![m].pc = "find"] /\ UNCHANGED <<ps, thrown>>
    /\ UNCHANGED <<gs, sched, netready>>

FindLocal(m) ==
    LET p == ms[m].p  q == ps[p].runq IN
    /\ At(m, "find") /\ ~sched.gcwaiting
    /\ IF q # << >>
       THEN /\ ps' = [ps EXCEPT ![p].runq = Tail(@)]
            /\ ms' = [ms EXCEPT ![m].lg = Head(q), ![m].pc = "reset"]
       ELSE ms' = [ms EXCEPT ![m].pc = "fglob"] /\ UNCHANGED ps
    /\ UNCHANGED <<gs, sched, netready, thrown>>

FindGlobal(m) ==
    /\ At(m, "fglob")
    /\ \/ SchedFree /\ Globrunqget(m, 0)
       \/ /\ sched.runq = << >>
          /\ ms' = [ms EXCEPT ![m].pc = IF sched.net THEN "fnet" ELSE "fspin"]
          /\ UNCHANGED <<ps, sched>>
    /\ UNCHANGED <<gs, netready, thrown>>

(* The lists netpoll may return: all that is ready, in any order.          *)
ReadyLists ==
    {l \in [1 .. Cardinality(netready) -> netready] : \A i, j \in DOMAIN l : l[i] = l[j] => i = j}

(* What is left to inject of a list whose first goroutine the caller runs. *)
Others(l) == Tail(l)

(* netpoll(false): take the first goroutine, inject the others.            *)
FindNet(m) ==
    /\ At(m, "fnet")
    /\ IF netready = {}
       THEN ms' = [ms EXCEPT ![m].pc = "fspin"]
       ELSE \E l \in ReadyLists :
              ms' = [ms EXCEPT ![m].lg = Head(l), ![m].glist = Others(l),
                               ![m].pc = "inject", ![m].iret = "netgot"]
    /\ netready' = {}
    /\ UNCHANGED <<gs, ps, sched, thrown>>

NetGot(m) ==
    /\ At(m, "netgot")
    /\ gs' = [gs EXCEPT ![ms[m].lg].status = "Grunnable", ![ms[m].lg].net = "no"]
    /\ ms' = [ms EXCEPT ![m].pc = "reset"]
    /\ UNCHANGED <<ps, sched, netready, thrown>>

(* Spin only while less than half of the busy Ps have a spinning M.        *)
FindSpin(m) ==
    /\ At(m, "fspin")
    /\ IF ~ms[m].spinning /\ 2 * sched.nmspinning >= sched.gomaxprocs - npidle
       THEN ms' = [ms EXCEPT ![m].pc = "fstop"] /\ UNCHANGED sched
       ELSE /\ ms' = [ms EXCEPT ![m].pc = "fsteal", ![m].spinning = TRUE]
            /\ sched' = [sched EXCEPT !.nmspinning = @ + IF ms[m].spinning THEN 0 ELSE 1]
    /\ UNCHANGED <<gs, ps, netready, thrown>>

(* Mutant: off by one, the last stolen goroutine stays in the queue. *)
RestOf_Dup(q, c) == SubSeq(q, c + 1, Len(q))

(* What a queue keeps when the first goroutine and c others are stolen.    *)
RestOf(q, c) == SubSeq(q, c + 2, Len(q))

(* runqsteal: the first G of p2's queue, and half of the rest for p.       *)
FindSteal(m) ==
    /\ At(m, "fsteal")
    /\ \E p2 \in Pos :
         LET p == ms[m].p  q == ps[p2].runq
             c == IF p2 = p THEN 0 ELSE (Len(q) - 1) \div 2 IN
         /\ q # << >>
         /\ ms' = [ms EXCEPT ![m].lg = Head(q), ![m].pc = "reset"]
         /\ ps' = [ps EXCEPT ![p2].runq = RestOf(@, c),
                             ![p].runq = IF p2 = p THEN Tail(q) ELSE @ \o SubSeq(q, 2, c + 1)]
    /\ UNCHANGED <<gs, sched, netready, thrown>>

(* The random picks may all miss; a stop request is seen between them.     *)
StealFail(m) ==
    /\ At(m, "fsteal")
    /\ ms' = [ms EXCEPT ![m].pc = IF sched.gcwaiting THEN "find" ELSE "fstop"]
    /\ UNCHANGED <<gs, ps, sched, netready, thrown>>

MayGiveUp == sched.runq = << >>

(* Give the P back, unless there is something after all.                   *)
FindStop(m) ==
    LET p == ms[m].p IN
    /\ At(m, "fstop") /\ SchedFree
    /\ \/ /\ sched.gcwaiting
          /\ ms' = [ms EXCEPT ![m].pc = "find"]
          /\ UNCHANGED <<ps, sched, thrown>>
       \/ /\ ~sched.gcwaiting
          /\ Globrunqget(m, 0)
          /\ UNCHANGED thrown
       \/ /\ ~sched.gcwaiting /\ MayGiveUp
          /\ ps' = Released(p)
          /\ sched' = [sched EXCEPT !.pidle = <<p>> \o @]
          /\ ms' = [ms EXCEPT ![m].p = None, ![m].pc = "fquit", ![m].n = 0]
          /\ Verdict(MayRelease(m), "releasep: invalid p state")
    /\ UNCHANGED <<gs, netready>>

(* Stop spinning, and only then look at all run queues once again.         *)
FindQuit(m) ==
    /\ At(m, "fquit")
    /\ ms' = [ms EXCEPT ![m].pc = "frecheck", ![m].spinning = FALSE]
    /\ sched' = [sched EXCEPT !.nmspinning = @ - IF ms[m].spinning THEN 1 ELSE 0]
    /\ UNCHANGED <<gs, ps, netready, thrown>>

(* Mutant: no second look at the run queues. *)
FindRecheck_None(m) ==
    /\ At(m, "frecheck")
    /\ ms' = [ms EXCEPT ![m].pc = "fpoll"]
    /\ UNCHANGED <<gs, ps, sched, netready, thrown>>

FindRecheck(m) ==
    /\ At(m, "frecheck")
    /\ ms' = CASE ms[m].n \in Pos /\ ps[ms[m].n].runq # << >> ->
                    [ms EXCEPT ![m].pc = "fagain", ![m].n = 0]
               [] ms[m].n \in Pos /\ ps[ms[m].n].runq = << >> ->
                    [ms EXCEPT ![m].n = @ + 1]
               [] ms[m].n \notin Pos ->
                    [ms EXCEPT ![m].pc = "fpoll", ![m].n = 0]
    /\ UNCHANGED <<gs, ps, sched, netready, thrown>>

FindAgain(m) ==
    /\ At(m, "fagain") /\ SchedFree
    /\ IF sched.pidle # << >>
       THEN LET p == Head(sched.pidle) IN
            /\ sched' = [sched EXCEPT !.pidle = Tail(@)]
            /\ ps' = Acquired(m, p)
            /\ ms' = [ms EXCEPT ![m].p = p, ![m].pc = "find"]
            /\ Verdict(MayAcquire(m, p), "acquirep: invalid p state")
       ELSE ms' = [ms EXCEPT ![m].pc = "fpoll"] /\ UNCHANGED <<ps, sched, thrown>>
    /\ UNCHANGED <<gs, netready>>

(* Mutant: the test of the old value is inverted. *)
FindPoll_Inverted(m) ==
    /\ At(m, "fpoll")
    /\ sched' = [sched EXCEPT !.lastpoll = FALSE]
    /\ ms' = [ms EXCEPT ![m].pc = IF sched.lastpoll THEN "stopm" ELSE "netpoll",
                        ![m].ret = "find"]
    /\ UNCHANGED <<gs, ps, netready, thrown>>

(* xchg64(&lastpoll, 0): one M at a time blocks in the network poller.     *)
FindPoll(m) ==
    /\ At(m, "fpoll")
    /\ sched' = [sched EXCEPT !.lastpoll = FALSE]
    /\ ms' = [ms EXCEPT ![m].pc = IF sched.lastpoll THEN "netpoll" ELSE "stopm",
                        ![m].ret = "find"]
    /\ UNCHANGED <<gs, ps, netready, thrown>>

(* netpoll(true) returns at once when the poller is not in use.            *)
PollReturn(m) ==
    /\ At(m, "netpoll") /\ (sched.net => netready # {})
    /\ sched' = [sched EXCEPT !.lastpoll = TRUE]
    /\ IF sched.net
       THEN \E l \in ReadyLists : ms' = [ms EXCEPT ![m].glist = l, ![m].pc = "pollgot"]
       ELSE ms' = [ms EXCEPT ![m].pc = "stopm"]
    /\ netready' = {}
    /\ UNCHANGED <<gs, ps, thrown>>

PollGot(m) ==
    /\ At(m, "pollgot") /\ SchedFree
    /\ IF sched.pidle # << >>
       THEN LET p == Head(sched.pidle) IN
            /\ sched' = [sched EXCEPT !.pidle = Tail(@)]
            /\ ps' = Acquired(m, p)
            /\ ms' = [ms EXCEPT ![m].p = p, ![m].lg = Head(ms[m].glist),
                                ![m].glist = Others(@), ![m].ret = "none",
                                ![m].pc = "inject", ![m].iret = "netgot"]
            /\ Verdict(MayAcquire(m, p), "acquirep: invalid p state")
       ELSE /\ ms' = [ms EXCEPT ![m].pc = "inject", ![m].iret = "stopm"]
            /\ UNCHANGED <<ps, sched, thrown>>
    /\ UNCHANGED <<gs, netready>>

(* injectglist: queue the goroutines, start an M for each while Ps last.   *)
Injectglist(m) ==
    LET l == ms[m].glist IN
    /\ At(m, "inject") /\ (l # << >> => SchedFree)
    /\ gs' = [g \in G |-> IF \E i \in DOMAIN l : l[i] = g
                          THEN [gs[g] EXCEPT !.status = "Grunnable", !.net = "no"] ELSE gs[g]]
    /\ sched' = [sched EXCEPT !.runq = @ \o l]
    /\ ms' = IF l = << >> THEN [ms EXCEPT ![m].pc = ms[m].iret, ![m].iret = "none"]
             ELSE [ms EXCEPT ![m].glist = << >>, ![m].n = Len(l), ![m].pc = "injloop"]
    /\ UNCHANGED <<ps, netready, thrown>>

MoreToStart(m) == ms[m].n > 0 /\ npidle > 0

InjectLoop(m) ==
    /\ At(m, "injloop")
    /\ ms' = IF MoreToStart(m)
             THEN [ms EXCEPT ![m].n = @ - 1, ![m].pc = "startm", ![m].ret = "injloop"]
             ELSE [ms EXCEPT ![m].n = 0, ![m].pc = ms[m].iret, ![m].iret = "none",
                             ![m].ret = IF ms[m].iret = "stopm" THEN "find" ELSE "none"]
    /\ UNCHANGED <<gs, ps, sched, netready, thrown>>

(* resetspinning: whoever found work stops spinning, and wakes another M   *)
(* if it was the last one to spin and a P is idle.                         *)
ResetSpinning(m) ==
    LET n == sched.nmspinning - IF ms[m].spinning THEN 1 ELSE 0 IN
    /\ At(m, "reset")
    /\ sched' = [sched EXCEPT !.nmspinning = n]
    /\ ms' = IF n = 0 /\ npidle > 0
             THEN [ms EXCEPT ![m].spinning = FALSE, ![m].pc = "wakep", ![m].ret = "gotg"]
             ELSE [ms EXCEPT ![m].spinning = FALSE, ![m].pc = "gotg"]
    /\ Verdict(n >= 0, "findrunnable: negative nmspinning")
    /\ UNCHANGED <<gs, ps, netready>>

(* execute(gp) on thread m.                                                *)
Executed(gp) == [gs EXCEPT ![gp].status = "Grunning", ![gp].preempt = FALSE]

Execute(m) ==
    LET gp == ms[m].lg IN
    /\ At(m, "gotg") /\ gs[gp].lockedm = None
    /\ gs' = Executed(gp)
    /\ ms' = [ms EXCEPT ![m].curg = gp, ![m].lg = None, ![m].pc = "user", ![m].ret = "none"]
    /\ Verdict(gs[gp].status = "Grunnable", "execute: bad g status")
    /\ UNCHANGED <<ps, sched, netready>>

(* startlockedm: hand the own P to the M that gp is locked to.             *)
StartLockedm(m) ==
    LET mp == gs[ms[m].lg].lockedm IN
    /\ At(m, "gotg") /\ mp # None /\ SchedFree
    /\ sched' = [sched EXCEPT !.nmidlelocked = @ - 1]
    /\ ms' = [ms EXCEPT ![m].pc = "givep", ![m].lm = mp]
    /\ Verdict(mp # m /\ ms[mp].nextp = None, "startlockedm: m has p")
    /\ UNCHANGED <<gs, ps, netready>>

GiveP(m) ==
    LET mp == ms[m].lm  p == ms[m].p IN
    /\ At(m, "givep")
    /\ ps' = Released(p)
    /\ ms' = [ms EXCEPT ![mp].nextp = p, ![mp].park = TRUE,
                        ![m].p = None, ![m].lg = None, ![m].lm = None,
                        ![m].pc = "stopm", ![m].ret = "sched"]
    /\ Verdict(MayRelease(m) /\ Handed(mp), "notewakeup: double wakeup")
    /\ UNCHANGED <<gs, sched, netready>>

(***************************************************************************)
(* What a goroutine does.  Each operation uses up one of its ops.         *)
(***************************************************************************)
User(m, op) ==
    LET g == ms[m].curg IN
    At(m, "user") /\ gs[g].ops > 0 /\ op \in gs[g].menu

Spent(g) == [gs EXCEPT ![g].ops = @ - 1]

IsLocked(m, g) == gs[g].lockedm = m

(* Where a thread goes that has put down its goroutine g: stoplockedm if   *)
(* it is locked to it, schedule otherwise.                                 *)
PutDown(m, g) ==
    [ms EXCEPT ![m].curg = None,
               ![m].lg = IF IsLocked(m, g) THEN g ELSE None,
               ![m].pc = IF IsLocked(m, g) THEN "slk" ELSE "sched"]

(* ready(gp), if somebody waits for the channel, lock or timer.            *)
Ready(m) ==
    LET p == ms[m].p
        waiting == {gp \in G : gs[gp].status = "Gwaiting" /\ gs[gp].net = "no"} IN
    /\ User(m, "ready")
    /\ \/ /\ waiting = {}
          /\ gs' = Spent(ms[m].curg)
          /\ UNCHANGED <<ms, ps>>
       \/ \E gp \in waiting :
            /\ gs' = [Spent(ms[m].curg) EXCEPT ![gp].status = "Grunnable"]
            /\ ps' = [ps EXCEPT ![p].runq = Append(@, gp)]
            /\ ms' = [ms EXCEPT ![m].pc = "wakechk", ![m].ret = "user"]
    /\ UNCHANGED <<sched, netready, thrown>>

(* newproc1.  A finished goroutine's G is not used again (bound).          *)
Newproc1(m) ==
    LET p == ms[m].p
        idle == {g \in G : gs[g].status = "Gidle"}
        newg == CHOOSE g \in idle : \A x \in idle : g <= x IN
    /\ User(m, "new") /\ idle # {}
    /\ gs' = [Spent(ms[m].curg) EXCEPT ![newg].status = "Grunnable"]
    /\ ps' = [ps EXCEPT ![p].runq = Append(@, newg)]
    /\ ms' = [ms EXCEPT ![m].pc = "wakechk", ![m].ret = "user"]
    /\ UNCHANGED <<sched, netready, thrown>>

(* park0; a goroutine that waits for the network is readied by netpoll.    *)
Park(m) ==
    LET g == ms[m].curg IN
    /\ \E op \in {"park", "net"} :
         /\ User(m, op)
         /\ gs' = [Spent(g) EXCEPT ![g].status = "Gwaiting", ![g].net = IF op = "net" THEN "waiting" ELSE "no"]
    /\ ms' = PutDown(m, g)
    /\ UNCHANGED <<ps, sched, netready, thrown>>

(* gosched0, called by the goroutine or, at its next function prologue,    *)
(* because preemptone asked for it.                                        *)
Gosched0(m) ==
    LET g == ms[m].curg IN
    /\ SchedFree
    /\ \/ User(m, "gosched") /\ gs' = [Spent(g) EXCEPT ![g].status = "Grunnable"]
       \/ /\ At(m, "user") /\ gs[g].preempt
          /\ gs' = [gs EXCEPT ![g].status = "Grunnable"]
    /\ sched' = [sched EXCEPT !.runq = Append(@, g)]
    /\ ms' = PutDown(m, g)
    /\ UNCHANGED <<ps, netready, thrown>>

(* goexit0, when the goroutine's operations are used up.                   *)
Goexit0(m) ==
    LET g == ms[m].curg IN
    /\ At(m, "user") /\ gs[g].ops = 0
    /\ gs' = [gs EXCEPT ![g].status = "Gdead", ![g].lockedm = None]
    /\ ms' = [ms EXCEPT ![m].curg = None, ![m].pc = "sched"]
    /\ UNCHANGED <<ps, sched, netready, thrown>>

(* main.main returns: exit(0).                                             *)
Exit(m) ==
    /\ User(m, "exit") /\ ms[m].curg = Main
    /\ Verdict(FALSE, "exit")
    /\ UNCHANGED <<gs, ms, ps, sched, netready>>

LockOSThread(m) ==
    LET g == ms[m].curg IN
    /\ User(m, "lock")
    /\ gs' = [Spent(g) EXCEPT ![g].lockedm = m]
    /\ UNCHANGED <<ms, ps, sched, netready, thrown>>

UnlockOSThread(m) ==
    LET g == ms[m].curg IN
    /\ User(m, "unlock")
    /\ gs' = [Spent(g) EXCEPT ![g].lockedm = None]
    /\ UNCHANGED <<ms, ps, sched, netready, thrown>>

(* The kernel reports a descriptor as ready.                               *)
NetReady(g) ==
    /\ gs[g].net = "waiting"
    /\ gs' = [gs EXCEPT ![g].net = "fired"]
    /\ netready' = netready \union {g}
    /\ UNCHANGED <<ms, ps, sched, thrown>>

(***************************************************************************)
(* handoffp: the P in lp has lost its M.                                   *)
(***************************************************************************)
(* Mutant: what is queued is not looked at. *)
HandoffWork_Blind(m) ==
    /\ At(m, "ho1")
    /\ ms' = [ms EXCEPT ![m].pc = "ho2"]
    /\ UNCHANGED <<gs, ps, sched, netready, thrown>>

(* Somebody must run what is queued.                                       *)
HandoffWork(m) ==
    LET p == ms[m].lp IN
    /\ At(m, "ho1")
    /\ ms' = [ms EXCEPT ![m].pc = IF ps[p].runq # << >> \/ sched.runq # << >>
                                  THEN "startm" ELSE "ho2"]
    /\ UNCHANGED <<gs, ps, sched, netready, thrown>>

(* Nobody spins and no P is idle: a spinning M is needed.                  *)
HandoffSpin(m) ==
    /\ At(m, "ho2")
    /\ ms' = [ms EXCEPT ![m].pc = IF sched.nmspinning + npidle = 0 THEN "ho3" ELSE "ho4"]
    /\ UNCHANGED <<gs, ps, sched, netready, thrown>>

HandoffCas(m) ==
    /\ At(m, "ho3")
    /\ IF sched.nmspinning = 0
       THEN /\ sched' = [sched EXCEPT !.nmspinning = 1]
            /\ ms' = [ms EXCEPT ![m].pc = "startm", ![m].sp = TRUE]
       ELSE ms' = [ms EXCEPT ![m].pc = "ho4"] /\ UNCHANGED sched
    /\ UNCHANGED <<gs, ps, netready, thrown>>

(* Under the lock: stop the P, run what has come meanwhile, keep one M for *)
(* the network poller, or leave the P idle.                                *)
HandoffIdle(m) ==
    LET p == ms[m].lp
        needed == sched.runq # << >> \/ (npidle = sched.gomaxprocs - 1 /\ sched.lastpoll) IN
    /\ At(m, "ho4") /\ SchedFree
    /\ CASE sched.gcwaiting ->
              /\ ps' = [ps EXCEPT ![p].status = "Pgcstop"]
              /\ sched' = OneStopped(sched)
              /\ ms' = Return(m)
         [] ~sched.gcwaiting /\ needed ->
              ms' = [ms EXCEPT ![m].pc = "startm"] /\ UNCHANGED <<ps, sched>>
         [] ~sched.gcwaiting /\ ~needed ->
              /\ sched' = [sched EXCEPT !.pidle = <<p>> \o @]
              /\ ms' = Return(m)
              /\ UNCHANGED ps
    /\ UNCHANGED <<gs, netready, thrown>>

(***************************************************************************)
(* stoplockedm: the thread m waits until its goroutine lg is scheduled.    *)
(***************************************************************************)
StopLockedm(m) ==
    LET p == ms[m].p IN
    /\ At(m, "slk")
    /\ ps' = Released(p)
    /\ ms' = [ms EXCEPT ![m].p = None, ![m].lp = p, ![m].pc = "ho1", ![m].ret = "slk2"]
    /\ Verdict(MayRelease(m) /\ gs[ms[m].lg].lockedm = m, "stoplockedm: inconsistent locking")
    /\ UNCHANGED <<gs, sched, netready>>

StopLockedSleep(m) ==
    /\ At(m, "slk2") /\ SchedFree
    /\ sched' = [sched EXCEPT !.nmidlelocked = @ + 1]
    /\ ms' = [ms EXCEPT ![m].pc = "slkwait", ![m].ret = "none"]
    /\ LET d == CheckDead(Len(sched.midle), sched.nmidlelocked + 1) IN Verdict(d = "none", d)
    /\ UNCHANGED <<gs, ps, netready>>

StopLockedWake(m) ==
    LET p == ms[m].nextp  gp == ms[m].lg IN
    /\ At(m, "slkwait") /\ ms[m].park
    /\ ms' = [ms EXCEPT ![m].park = FALSE, ![m].p = p, ![m].nextp = None,
                        ![m].curg = gp, ![m].lg = None, ![m].pc = "user"]
    /\ ps' = Acquired(m, p)
    /\ gs' = Executed(gp)
    /\ Verdict(gs[gp].status = "Grunnable" /\ MayAcquire(m, p), "stoplockedm: not runnable")
    /\ UNCHANGED <<sched, netready>>

(***************************************************************************)
(* System calls.                                                           *)
(***************************************************************************)
(* entersyscall: wake the monitor, which may have to take the P away.      *)
EnterSyscall(m) ==
    LET g == ms[m].curg IN
    /\ User(m, "sys") /\ (sched.sysmonwait => SchedFree)
    /\ gs' = [Spent(g) EXCEPT ![g].status = "Gsyscall"]
    /\ sched' = WakeSysmon(sched)
    /\ ms' = [ms EXCEPT ![m].pc = "esys2"]
    /\ Verdict(MayWakeSysmon, "notewakeup: double wakeup")
    /\ UNCHANGED <<ps, netready>>

(* The P is anybody's now; m.p remembers it.                               *)
EnterPsyscall(m) ==
    LET p == ms[m].p IN
    /\ At(m, "esys2")
    /\ ps' = [ps EXCEPT ![p].m = None, ![p].status = "Psyscall"]
    /\ ms' = [ms EXCEPT ![m].pc = "esys3"]
    /\ UNCHANGED <<gs, sched, netready, thrown>>

(* Mutant: the stop request is not looked at. *)
StopHere_Never(p) == FALSE

StopHere(p) == sched.gcwaiting /\ sched.stopwait > 0 /\ CasPsyscall(p)

(* stoptheworld may have passed this P by before it was in Psyscall.       *)
EnterGcstop(m) ==
    LET p == ms[m].p  stop == StopHere(p) IN
    /\ At(m, "esys3") /\ (sched.gcwaiting => SchedFree)
    /\ ps' = IF stop THEN [ps EXCEPT ![p].status = "Pgcstop"] ELSE ps
    /\ sched' = IF stop THEN OneStopped(sched) ELSE sched
    /\ ms' = [ms EXCEPT ![m].pc = "syscall"]
    /\ UNCHANGED <<gs, netready, thrown>>

(* entersyscallblock (notetsleepg): give the P away at once.               *)
EnterSyscallBlock(m) ==
    LET g == ms[m].curg  p == ms[m].p IN
    /\ User(m, "sysblock")
    /\ gs' = [Spent(g) EXCEPT ![g].status = "Gsyscall"]
    /\ ps' = Released(p)
    /\ ms' = [ms EXCEPT ![m].p = None, ![m].lp = p, ![m].pc = "ho1",
                        ![m].ret = IF gs[g].isbackground THEN "esb2" ELSE "syscall"]
    /\ Verdict(MayRelease(m), "releasep: invalid p state")
    /\ UNCHANGED <<sched, netready>>

(* A sleeping background goroutine is no reason to wait for the program.   *)
EnterBackground(m) ==
    /\ At(m, "esb2") /\ SchedFree
    /\ sched' = [sched EXCEPT !.nmidlelocked = @ + 1]
    /\ ms' = [ms EXCEPT ![m].pc = "syscall", ![m].ret = "none"]
    /\ LET d == CheckDead(Len(sched.midle), sched.nmidlelocked + 1) IN Verdict(d = "none", d)
    /\ UNCHANGED <<gs, ps, netready>>

(* The call has returned: exitsyscall, exitsyscallfast.                    *)
ExitSyscall(m) ==
    LET bg == gs[ms[m].curg].isbackground IN
    /\ At(m, "syscall") /\ (bg => SchedFree)
    /\ sched' = [sched EXCEPT !.nmidlelocked = @ - IF bg THEN 1 ELSE 0]
    /\ ms' = [ms EXCEPT ![m].pc = "xsys1", ![m].ret = "none"]
    /\ UNCHANGED <<gs, ps, netready, thrown>>

ExitStopwait(m) ==
    /\ At(m, "xsys1")
    /\ ms' = IF sched.stopwait # 0 THEN [ms EXCEPT ![m].p = None, ![m].pc = "xsys4"]
             ELSE [ms EXCEPT ![m].pc = "xsys2"]
    /\ UNCHANGED <<gs, ps, sched, netready, thrown>>

(* Mutant: the P is taken back whatever its status. *)
ExitSameP_Store(m) ==
    LET p == ms[m].p IN
    /\ At(m, "xsys2")
    /\ ps' = [ps EXCEPT ![p].m = m, ![p].status = "Prunning"]
    /\ gs' = [gs EXCEPT ![ms[m].curg].status = "Grunning"]
    /\ ms' = [ms EXCEPT ![m].pc = "user"]
    /\ UNCHANGED <<sched, netready, thrown>>

(* cas(&p->status, Psyscall, Prunning): take the old P back.               *)
ExitSameP(m) ==
    LET p == ms[m].p IN
    /\ At(m, "xsys2")
    /\ IF p # None /\ CasPsyscall(p)
       THEN /\ ps' = [ps EXCEPT ![p].m = m, ![p].status = "Prunning"]
            /\ gs' = [gs EXCEPT ![ms[m].curg].status = "Grunning"]
            /\ ms' = [ms EXCEPT ![m].pc = "user"]
       ELSE /\ ms' = [ms EXCEPT ![m].p = None, ![m].pc = "xsys3"]
            /\ UNCHANGED <<gs, ps>>
    /\ UNCHANGED <<sched, netready, thrown>>

(* Or any idle one.                                                        *)
ExitIdleP(m) ==
    /\ At(m, "xsys3")
    /\ IF sched.pidle # << >>
       THEN LET p == Head(sched.pidle) IN
            /\ SchedFree
            /\ sched' = WakeSysmon([sched EXCEPT !.pidle = Tail(@)])
            /\ ps' = Acquired(m, p)
            /\ gs' = [gs EXCEPT ![ms[m].curg].status = "Grunning"]
            /\ ms' = [ms EXCEPT ![m].p = p, ![m].pc = "user"]
            /\ Verdict(MayAcquire(m, p) /\ MayWakeSysmon, "acquirep: invalid p state")
       ELSE ms' = [ms EXCEPT ![m].pc = "xsys4"] /\ UNCHANGED <<gs, ps, sched, thrown>>
    /\ UNCHANGED netready

(* exitsyscall0: the last try; without a P the goroutine is queued.        *)
ExitSyscall0(m) ==
    LET gp == ms[m].curg IN
    /\ At(m, "xsys4") /\ SchedFree
    /\ IF sched.pidle # << >>
       THEN LET p == Head(sched.pidle) IN
            /\ sched' = WakeSysmon([sched EXCEPT !.pidle = Tail(@)])
            /\ ps' = Acquired(m, p)
            /\ gs' = Executed(gp)
            /\ ms' = [ms EXCEPT ![m].p = p, ![m].pc = "user"]
            /\ Verdict(MayAcquire(m, p) /\ MayWakeSysmon, "acquirep: invalid p state")
       ELSE /\ sched' = [sched EXCEPT !.runq = Append(@, gp)]
            /\ gs' = [gs EXCEPT ![gp].status = "Grunnable"]
            /\ ms' = IF IsLocked(m, gp)
                     THEN [ms EXCEPT ![m].curg = None, ![m].lg = gp, ![m].pc = "slk2"]
                     ELSE [ms EXCEPT ![m].curg = None, ![m].pc = "stopm", ![m].ret = "sched"]
            /\ UNCHANGED <<ps, thrown>>
    /\ UNCHANGED netready

(***************************************************************************)
(* stoptheworld and starttheworld, for the collector and for GOMAXPROCS.   *)
(***************************************************************************)
(* preemptone(p): ask whatever p's thread runs to yield.                   *)
Victim(m, p) ==
    IF ps[p].status = "Prunning" /\ ps[p].m \notin {None, m} THEN ms[ps[p].m].curg ELSE None

Preemptall(m) ==
    LET victims == {Victim(m, p) : p \in Pos} IN
    [g \in G |-> IF g \in victims THEN [gs[g] EXCEPT !.preempt = TRUE] ELSE gs[g]]

(* semacquire(&worldsema): a caller that would have to wait there does     *)
(* this later.                                                             *)
Stoptheworld(m) ==
    /\ \E op \in {"gc", "procs"} :
         /\ User(m, op)
         /\ ms' = [ms EXCEPT ![m].pc = "stw1", ![m].n = 0, ![m].ret = op]
    /\ sched.worldsema /\ SchedFree
    /\ sched' = [sched EXCEPT !.worldsema = FALSE, !.stopwait = sched.gomaxprocs - 1,
                              !.gcwaiting = TRUE]
    /\ gs' = [Preemptall(m) EXCEPT ![ms[m].curg].ops = @ - 1]
    /\ ps' = [ps EXCEPT ![ms[m].p].status = "Pgcstop"]
    /\ UNCHANGED <<netready, thrown>>

(* cas(&p->status, Psyscall, Pgcstop) for one P after the other.           *)
StopSyscallP(m) ==
    LET i == ms[m].n IN
    /\ At(m, "stw1") /\ i \in Pos
    /\ IF CasPsyscall(i)
       THEN /\ ps' = [ps EXCEPT ![i].status = "Pgcstop"]
            /\ sched' = [sched EXCEPT !.stopwait = @ - 1]
       ELSE UNCHANGED <<ps, sched>>
    /\ ms' = [ms EXCEPT ![m].n = i + 1]
    /\ UNCHANGED <<gs, netready, thrown>>

Stopped(p) == [ps[p] EXCEPT !.status = "Pgcstop"]

StopIdlePs(m) ==
    LET idle == {sched.pidle[i] : i \in DOMAIN sched.pidle}
        left == sched.stopwait - npidle IN
    /\ At(m, "stw1") /\ ms[m].n \notin Pos
    /\ ps' = [p \in P |-> IF p \in idle THEN Stopped(p) ELSE ps[p]]
    /\ sched' = [sched EXCEPT !.pidle = << >>, !.stopwait = left]
    /\ ms' = [ms EXCEPT ![m].n = 0, ![m].pc = IF left > 0 THEN "stwwait" ELSE "stwchk"]
    /\ UNCHANGED <<gs, netready, thrown>>

(* notetsleep timed out: the request was missed by somebody, repeat it.    *)
StopRetry(m) ==
    /\ At(m, "stwwait") /\ ~sched.stopnote
    /\ gs' = Preemptall(m)
    /\ UNCHANGED <<ms, ps, sched, netready, thrown>>

StopWake(m) ==
    /\ At(m, "stwwait") /\ sched.stopnote
    /\ sched' = [sched EXCEPT !.stopnote = FALSE]
    /\ ms' = [ms EXCEPT ![m].pc = "stwchk"]
    /\ UNCHANGED <<gs, ps, netready, thrown>>

StopCheck(m) ==
    /\ At(m, "stwchk")
    /\ ms' = [ms EXCEPT ![m].pc = ms[m].ret]
    /\ Verdict(/\ sched.stopwait = 0
               /\ \A p \in Pos : ps[p].status = "Pgcstop", "stoptheworld: not stopped")
    /\ UNCHANGED <<gs, ps, sched, netready>>

(* gcprocs and helpgc: idle threads help the collector without a P.        *)
Gcprocs == Least(Least(sched.gomaxprocs, NCPU), Len(sched.midle) + 1)

Helpgc(m) ==
    LET n == Gcprocs - 1
        helpers == {sched.midle[i] : i \in 1 .. n} IN
    /\ At(m, "gc") /\ SchedFree
    /\ sched' = [sched EXCEPT !.midle = SubSeq(@, n + 1, Len(@)), !.helpers = n]
    /\ ms' = [x \in M |-> CASE x \in helpers -> [ms[x] EXCEPT !.helpgc = TRUE, !.park = TRUE]
                           [] x = m -> [ms[x] EXCEPT !.pc = "gcwait"]
                           [] OTHER -> ms[x]]
    /\ Verdict(\A x \in helpers : Handed(x), "notewakeup: double wakeup")
    /\ UNCHANGED <<gs, ps, netready>>

(* All helpers are done (work.alldone): release worldsema, then start the  *)
(* world, with netpoll(false) first.                                       *)
GcDone(m) ==
    /\ At(m, "gcwait") /\ sched.helpers = 0
    /\ sched' = [sched EXCEPT !.worldsema = TRUE]
    /\ ms' = [ms EXCEPT ![m].pc = "start0"]
    /\ UNCHANGED <<gs, ps, netready, thrown>>

(* gomaxprocsfunc(n), in the stopped world.                                *)
SetProcs(m) ==
    /\ At(m, "procs")
    /\ \E n \in NewProcs : sched' = [sched EXCEPT !.newprocs = n, !.worldsema = TRUE]
    /\ ms' = [ms EXCEPT ![m].pc = "start0"]
    /\ UNCHANGED <<gs, ps, netready, thrown>>

StartPoll(m) ==
    /\ At(m, "start0")
    /\ \E l \in ReadyLists :
         ms' = [ms EXCEPT ![m].glist = l, ![m].pc = "inject", ![m].iret = "start1"]
    /\ netready' = {}
    /\ UNCHANGED <<gs, ps, sched, thrown>>

(* needaddgcproc: would one more thread help the next collection?          *)
NeedAddGcProc(m) ==
    /\ At(m, "start1") /\ SchedFree
    /\ ms' = [ms EXCEPT ![m].pc = "start2", ![m].n = 0,
                        ![m].sp = Least(sched.gomaxprocs, NCPU) > Len(sched.midle) + 1]
    /\ UNCHANGED <<gs, ps, sched, netready, thrown>>

(* procresize, one step per turn of its loops: what is queued locally goes *)
(* to the end of the global queue,                                         *)
Collect(m) ==
    LET i == ms[m].n
        more == i + 1 \in Pos IN
    /\ At(m, "resize") \/ (At(m, "start2") /\ SchedFree)
    /\ i \in Pos
    /\ sched' = [sched EXCEPT !.runq = @ \o ps[i].runq]
    /\ ps' = [ps EXCEPT ![i].runq = << >>]
    /\ ms' = [ms EXCEPT ![m].pc = IF more THEN "resize" ELSE "deal", ![m].n = IF more THEN i + 1 ELSE 1]
    /\ UNCHANGED <<gs, netready, thrown>>

NewCount == IF sched.newprocs # 0 THEN sched.newprocs ELSE sched.gomaxprocs

(* and is dealt out again, beginning with processor 1 % new.               *)
Deal(m) ==
    /\ At(m, "deal") /\ sched.runq # << >>
    /\ ps' = [ps EXCEPT ![ms[m].n % NewCount].runq = Append(@, Head(sched.runq))]
    /\ sched' = [sched EXCEPT !.runq = Tail(@)]
    /\ ms' = [ms EXCEPT ![m].n = @ + 1]
    /\ UNCHANGED <<gs, netready, thrown>>

(* The processors from new on die, the caller gets processor 0, all others *)
(* are idle, those with work for StartP to hand out: to the threads that   *)
(* are found on sched.midle, or to new ones.                               *)
Resized(m, p) ==
    [ps[p] EXCEPT !.status = CASE p = 0 -> "Prunning" [] p \in 1 .. NewCount - 1 -> "Pidle"
                               [] OTHER -> "Pdead",
                  !.m = IF p = 0 THEN m ELSE None]

Starttheworld(m) ==
    LET new == NewCount
        busy == {p \in 1 .. new - 1 : \A i \in 1 .. p : ps[i].runq # << >>}
        k == Cardinality(busy)
        threads == Least(k, Len(sched.midle)) IN
    /\ At(m, "deal") /\ sched.runq = << >>
    /\ ps' = [p \in P |-> Resized(m, p)]
    /\ sched' = WakeSysmon([sched EXCEPT
                    !.gomaxprocs = new, !.newprocs = 0, !.gcwaiting = FALSE,
                    !.pidle = [i \in 1 .. new - 1 - k |-> k + i] \o @,
                    !.midle = SubSeq(@, threads + 1, Len(@))])
    /\ ms' = [ms EXCEPT ![m].p = 0, ![m].pc = "start3", ![m].n = 0,
                 ![m].todo = [j \in 1 .. k |-> LET i == k + 1 - j IN
                    <<i, IF i <= threads THEN sched.midle[i] ELSE None>>]]
    /\ Verdict(MayWakeSysmon, "notewakeup: double wakeup")
    /\ UNCHANGED <<gs, netready>>

(* Hand the processors that have work to their threads.                    *)
StartP(m) ==
    LET p == Head(ms[m].todo)[1]  mp == Head(ms[m].todo)[2] IN
    /\ At(m, "start3") /\ ms[m].todo # << >>
    /\ IF mp # None
       THEN /\ ms' = [ms EXCEPT ![m].todo = Tail(@), ![mp].nextp = p, ![mp].park = TRUE]
            /\ Verdict(Handed(mp), "starttheworld: inconsistent mp->nextp")
       ELSE /\ ms' = [ms EXCEPT ![m].todo = Tail(@), ![m].lp = p, ![m].sp = FALSE,
                                ![m].pc = "newm", ![m].ret = "start3"]
            /\ UNCHANGED thrown
    /\ UNCHANGED <<gs, ps, sched, netready>>

(* newm(mhelpgc, nil), if needaddgcproc said so and no thread was added.   *)
StartDone(m) ==
    LET back == [ms EXCEPT ![m].sp = FALSE, ![m].pc = "user", ![m].ret = "none"] IN
    /\ At(m, "start3") /\ ms[m].todo = << >>
    /\ ms' = IF ms[m].sp /\ Cardinality(Created) < sched.maxmcount
             THEN [back EXCEPT ![Fresh] = [NoM EXCEPT !.pc = "mstart", !.helpgc = TRUE]]
             ELSE back
    /\ Verdict(ms[m].sp => Cardinality(Created) < sched.maxmcount, "thread exhaustion")
    /\ UNCHANGED <<gs, ps, sched, netready>>

(***************************************************************************)
(* sysmon.  How long it sleeps and which Ps have been in a system call or  *)
(* in one goroutine for too long is left open: it may do any of this at    *)
(* any time, or skip it.                                                   *)
(***************************************************************************)
SysmonSleep(m) ==
    /\ At(m, "sysmon") /\ SchedFree
    /\ sched.gcwaiting \/ npidle = sched.gomaxprocs
    /\ sched' = [sched EXCEPT !.sysmonwait = TRUE]
    /\ ms' = [ms EXCEPT ![m].pc = "smwait"]
    /\ UNCHANGED <<gs, ps, netready, thrown>>

SysmonWake(m) ==
    /\ At(m, "smwait") /\ sched.sysmonnote
    /\ sched' = [sched EXCEPT !.sysmonnote = FALSE]
    /\ ms' = [ms EXCEPT ![m].pc = "sysmon"]
    /\ UNCHANGED <<gs, ps, netready, thrown>>

(* Nobody has polled the network for 10ms.                                 *)
SysmonPoll(m) ==
    /\ At(m, "sysmon") /\ sched.lastpoll /\ netready # {}
    /\ \E l \in ReadyLists : ms' = [ms EXCEPT ![m].glist = l, ![m].pc = "smsub"]
    /\ netready' = {}
    /\ UNCHANGED <<gs, ps, sched, thrown>>

Borrowed == sched.nmidlelocked - 1

(* The monitor does not count as a running thread, but it has work in its  *)
(* hands now: incidlelocked(-1) and, once it is done, incidlelocked(1).    *)
SysmonCounts(m) ==
    /\ At(m, "smsub") /\ SchedFree
    /\ sched' = [sched EXCEPT !.nmidlelocked = Borrowed]
    /\ ms' = IF ms[m].lp = None THEN [ms EXCEPT ![m].pc = "inject", ![m].iret = "smadd"]
             ELSE [ms EXCEPT ![m].pc = "retake"]
    /\ UNCHANGED <<gs, ps, netready, thrown>>

SysmonDone(m) ==
    /\ At(m, "smadd") /\ SchedFree
    /\ sched' = [sched EXCEPT !.nmidlelocked = @ + 1]
    /\ ms' = [ms EXCEPT ![m].pc = "sysmon", ![m].ret = "none"]
    /\ LET d == CheckDead(Len(sched.midle), sched.nmidlelocked + 1) IN Verdict(d = "none", d)
    /\ UNCHANGED <<gs, ps, netready>>

(* retake: a P stuck in a system call, with work or without a substitute.  *)
Retake(m) ==
    /\ At(m, "sysmon")
    /\ \E p \in Pos :
         /\ ps[p].status = "Psyscall"
         /\ ps[p].runq # << >> \/ sched.nmspinning + npidle = 0
         /\ ms' = [ms EXCEPT ![m].lp = p, ![m].pc = "smsub"]
    /\ UNCHANGED <<gs, ps, sched, netready, thrown>>

RetakeCas(m) ==
    LET p == ms[m].lp IN
    /\ At(m, "retake")
    /\ IF CasPsyscall(p)
       THEN /\ ps' = [ps EXCEPT ![p].status = "Pidle"]
            /\ ms' = [ms EXCEPT ![m].pc = "ho1", ![m].ret = "smadd"]
       ELSE ms' = [ms EXCEPT ![m].lp = None, ![m].pc = "smadd"] /\ UNCHANGED ps
    /\ UNCHANGED <<gs, sched, netready, thrown>>

(* A goroutine with "long" in its menu may run for more than 10ms.         *)
Preemptone(m) ==
    /\ At(m, "sysmon")
    /\ \E p \in Pos :
         /\ Victim(m, p) # None /\ "long" \in gs[Victim(m, p)].menu
         /\ gs' = [gs EXCEPT ![Victim(m, p)].preempt = TRUE]
    /\ UNCHANGED <<ms, ps, sched, netready, thrown>>

(***************************************************************************)
(* The specification.  At the start main.main runs on thread M0 with       *)
(* processor 0 and the monitor has been started.                           *)
(***************************************************************************)
InitGs(pr) ==
    [g \in G |-> [status |-> CASE g = Main -> "Grunning"
                               [] g \in DOMAIN pr.menu \ {Main} -> "Gidle"
                               [] OTHER -> "Gdead",
                  lockedm |-> None, preempt |-> FALSE, net |-> "no",
                  isbackground |-> g \in pr.background,
                  menu |-> IF g \in DOMAIN pr.menu THEN pr.menu[g] ELSE {},
                  ops |-> IF g \in DOMAIN pr.ops THEN pr.ops[g] ELSE 0]]

Init ==
    /\ ms = [m \in M |-> CASE m = M0 -> [NoM EXCEPT !.pc = "user", !.p = 0, !.curg = Main]
                          [] m = Sysmon -> [NoM EXCEPT !.pc = "sysmon"]
                          [] OTHER -> NoM]
    /\ \E pr \in Programs : \E n \in pr.procs :
       /\ gs = InitGs(pr)
       /\ ps = [p \in P |-> [status |-> CASE p = 0 -> "Prunning"
                                          [] p \in 1 .. n - 1 -> "Pidle"
                                          [] OTHER -> "Pdead",
                             m |-> IF p = 0 THEN M0 ELSE None, runq |-> << >>]]
       /\ sched = [pidle |-> [i \in 1 .. n - 1 |-> i], midle |-> << >>, runq |-> << >>,
                   nmspinning |-> 0, nmidlelocked |-> 0, gomaxprocs |-> n, newprocs |-> 0,
                   gcwaiting |-> FALSE, stopwait |-> 0, stopnote |-> FALSE, worldsema |-> TRUE,
                   sysmonwait |-> FALSE, sysmonnote |-> FALSE, lastpoll |-> TRUE, helpers |-> 0,
                   maxmcount |-> pr.maxmcount, net |-> pr.net]
    /\ netready = {} /\ thrown = "none"

(* What a goroutine decides to do.                                         *)
Operation(m) ==
    \/ Ready(m) \/ Newproc1(m) \/ Park(m) \/ Gosched0(m) \/ Goexit0(m) \/ Exit(m)
    \/ LockOSThread(m) \/ UnlockOSThread(m) \/ EnterSyscall(m) \/ EnterSyscallBlock(m)
    \/ Stoptheworld(m)

(* What the runtime does on thread m.                                      *)
Runtime(m) ==
    \/ WakeCheck(m) \/ Wakep(m) \/ Startm(m) \/ Unspin(m) \/ Newm(m) \/ Mstart(m)
    \/ Stopm(m) \/ Unpark(m) \/ Gchelper(m) \/ Gcstopm(m)
    \/ PickGlobal(m) \/ PickLocal(m) \/ FindLocal(m) \/ FindGlobal(m) \/ FindNet(m)
    \/ NetGot(m) \/ FindSpin(m) \/ FindSteal(m) \/ StealFail(m) \/ FindStop(m)
    \/ FindQuit(m) \/ FindRecheck(m) \/ FindAgain(m) \/ FindPoll(m) \/ PollReturn(m)
    \/ PollGot(m) \/ Injectglist(m) \/ InjectLoop(m) \/ ResetSpinning(m)
    \/ Execute(m) \/ StartLockedm(m) \/ GiveP(m) \/ HandoffWork(m)
    \/ HandoffSpin(m) \/ HandoffCas(m) \/ HandoffIdle(m) \/ StopLockedm(m)
    \/ StopLockedSleep(m) \/ StopLockedWake(m) \/ EnterPsyscall(m) \/ EnterGcstop(m)
    \/ EnterBackground(m) \/ ExitSyscall(m) \/ ExitStopwait(m) \/ ExitSameP(m)
    \/ ExitIdleP(m) \/ ExitSyscall0(m) \/ StopSyscallP(m) \/ StopIdlePs(m) \/ StopWake(m)
    \/ StopCheck(m) \/ Helpgc(m) \/ GcDone(m) \/ SetProcs(m) \/ StartPoll(m)
    \/ NeedAddGcProc(m) \/ Collect(m) \/ Deal(m) \/ Starttheworld(m) \/ StartP(m) \/ StartDone(m)
    \/ SysmonWake(m) \/ SysmonCounts(m) \/ SysmonDone(m) \/ RetakeCas(m)

(* What time lets happen on thread m.                                      *)
Timer(m) ==
    \/ StopRetry(m) \/ SysmonSleep(m) \/ SysmonPoll(m) \/ Retake(m) \/ Preemptone(m)

(* The program has ended, or all of it sleeps and a thread waits for the   *)
(* network although no goroutine does: checkdead does not count it as      *)
(* idle, and nothing happens any more.                                     *)
Ended ==
    /\ \/ thrown # "none"
       \/ /\ \E m \in M : At(m, "netpoll") /\ sched.net
          /\ \A g \in G : gs[g].status \notin Alive /\ gs[g].net = "no"
    /\ UNCHANGED vars

Next ==
    \/ /\ thrown = "none"
       /\ \/ \E m \in M : Operation(m) \/ Runtime(m) \/ Timer(m)
          \/ \E g \in G : NetReady(g)
    \/ Ended

Spec == Init /\ [][Next]_vars

(***************************************************************************)
(* Properties.                                                             *)
(***************************************************************************)
(* The fields have the values that the code gives them.                    *)
TypeOK ==
    /\ gs \in [G -> [status : {"Gidle", "Grunnable", "Grunning", "Gsyscall", "Gwaiting", "Gdead"},
                     lockedm : M \union {None}, preempt : BOOLEAN,
                     net : {"no", "waiting", "fired"}, isbackground : BOOLEAN,
                     menu : SUBSET Ops, ops : Nat]]
    /\ \A m \in M : /\ ms[m].p \in P \union {None} /\ ms[m].nextp \in P \union {None}
                    /\ ms[m].lp \in P \union {None}
                    /\ ms[m].curg \in G \union {None} /\ ms[m].lg \in G \union {None}
                    /\ ms[m].glist \in Seq(G) /\ ms[m].n \in Nat
                    /\ ms[m].spinning \in BOOLEAN /\ ms[m].park \in BOOLEAN
                    /\ ms[m].helpgc \in BOOLEAN /\ ms[m].sp \in BOOLEAN
    /\ \A p \in P : /\ ps[p].status \in {"Pidle", "Prunning", "Psyscall", "Pgcstop", "Pdead"}
                    /\ ps[p].m \in M \union {None} /\ ps[p].runq \in Seq(G)
    /\ sched.pidle \in Seq(P) /\ sched.midle \in Seq(M) /\ sched.runq \in Seq(G)
    /\ sched.stopwait \in Nat /\ sched.helpers \in Nat /\ sched.nmidlelocked \in Int
    /\ sched.gomaxprocs \in 1 .. Cardinality(P) /\ netready \subseteq G

(* None of the runtime's own checks fails (startm, startlockedm, acquirep, *)
(* releasep, execute, notewakeup, checkdead, stoptheworld ...): the only   *)
(* ends are exit, the report of a deadlock and the limit on threads.       *)
NoThrow == thrown \in {"none", "deadlock", "exit", "thread exhaustion"}

(* The places that hold goroutine g: run queues, threads that run it or    *)
(* are about to, the network poller's list on its way into a queue.        *)
Places(g) ==
    UNION {{<<"runq", p, i>> : i \in {j \in DOMAIN ps[p].runq : ps[p].runq[j] = g}} : p \in P}
    \union {<<"sched", i>> : i \in {j \in DOMAIN sched.runq : sched.runq[j] = g}}
    \union {<<"curg", m>> : m \in {x \in M : ms[x].curg = g}}
    \union {<<"hand", m>> : m \in {x \in M : ms[x].lg = g /\
                                    (gs[g].lockedm = x => ms[x].nextp # None)}}
    \union {<<"glist", m>> : m \in {x \in M : \E i \in DOMAIN ms[x].glist : ms[x].glist[i] = g}}
    \union {<<"net">> : x \in netready \intersect {g}}

(* A goroutine that can run is in exactly one place, one that cannot is in *)
(* none: no goroutine is lost, run twice or queued twice, whoever steals,  *)
(* hands over, retakes or resizes.                                         *)
OnePlace ==
    thrown = "none" =>
    \A g \in G : Cardinality(Places(g)) =
        IF gs[g].status \in Alive \/ gs[g].net = "fired" THEN 1 ELSE 0

(* nmspinning counts exactly the spinning threads and those that startm is *)
(* about to start: a count that is too high would switch off every wakeup  *)
(* for good, one that is too low would start too many threads.             *)
SpinCount ==
    thrown = "none" =>
    sched.nmspinning =
        Cardinality({m \in M : ms[m].spinning})
        + Cardinality({m \in M : ms[m].sp /\ ms[m].pc \in {"startm", "unspin", "newm"}})

(* Who uses processor p: its thread, a thread that it has been handed to,  *)
(* a thread that is looking for a new user, the list of idle processors.   *)
Users(p) ==
    {<<"m", m>> : m \in {x \in M : ms[x].p = p /\ ps[p].m = x}}
    \union {<<"nextp", m>> : m \in {x \in M : ms[x].nextp = p}}
    \union {<<"lp", m>> : m \in {x \in M : ms[x].lp = p /\ ms[x].pc \notin {"smsub", "retake"}}}
    \union {<<"todo", m>> : m \in {x \in M : \E i \in DOMAIN ms[x].todo : ms[x].todo[i][1] = p}}
    \union {<<"pidle", i>> : i \in {j \in DOMAIN sched.pidle : sched.pidle[j] = p}}

(* A running or idle processor has exactly one user, one left behind in a  *)
(* system call, or stopped or dead, has none but the thread that stopped   *)
(* the world: retake, exitsyscall, handoffp and stoptheworld may all reach *)
(* for the same one and only one of them gets it.                          *)
OneUser ==
    thrown = "none" =>
    \A p \in P :
      Cardinality(Users(p)) =
        IF ps[p].status \in {"Prunning", "Pidle"} \/ ps[p].m # None THEN 1 ELSE 0

(* While the collector or GOMAXPROCS works on a stopped world no other     *)
(* thread has a processor, so no other goroutine runs.                     *)
InStoppedWorld(m) ==
    \/ ms[m].pc \in {"gc", "gcwait", "procs", "start0", "start1", "start2", "resize", "deal"}
    \/ ms[m].iret = "start1"

WorldStopped ==
    \A m \in M : InStoppedWorld(m) =>
        /\ sched.pidle = << >> /\ \A p \in Pos : ps[p].status = "Pgcstop"
        /\ \A x \in M \ {m} : ms[x].nextp = None /\ ms[x].pc # "user"

(* Nothing is under way: every thread runs a goroutine, is in a system     *)
(* call, waits in the network poller or sleeps without a wakeup pending.   *)
Settled ==
    /\ thrown = "none"
    /\ \A m \in M :
         CASE ms[m].pc \in {"none", "user", "syscall", "sysmon"} -> TRUE
           [] ms[m].pc \in {"parked", "slkwait"} -> ~ms[m].park
           [] ms[m].pc = "netpoll" -> sched.net /\ netready = {}
           [] ms[m].pc = "smwait" -> ~sched.sysmonnote
           [] OTHER -> FALSE

Queued == sched.runq # << >> \/ \E p \in P : ps[p].runq # << >>

(* No wakeup is lost between ready or newproc, which queue a goroutine and *)
(* then look for idle Ps and spinning Ms, and findrunnable, which gives up *)
(* its P, stops spinning and then looks at the queues: once all is         *)
(* settled, no local queue has work while a processor is idle.  It is      *)
(* stated for programs that only run, park and create goroutines: handoffp *)
(* is satisfied with a spinning count that startm is about to take back.   *)
ComputesOnly ==
    \A g \in G : gs[g].menu \subseteq {"new", "exit", "park", "long", "ready", "gosched"}

WorkConserving == ComputesOnly /\ Settled /\ (\E p \in P : ps[p].runq # << >>) => sched.pidle = << >>

(* With system calls, stops and the network poller: once all is settled,   *)
(* nothing is queued unless some processor runs a goroutine, or is held by *)
(* a system call.                                                          *)
NoStall ==
    Settled /\ Queued => \E p \in Pos : ps[p].status \in {"Prunning", "Psyscall"}

(* If what is queued can only run on a processor that is held by a thread  *)
(* in a system call, the monitor is there to take it away.                 *)
MonitorAwake ==
    Settled /\ Queued /\ (\E p \in Pos : ps[p].status = "Psyscall") => ~At(Sysmon, "smwait")

(* A goroutine that is locked to its thread runs nowhere else, and the     *)
(* thread runs nothing else, however it was put down and picked up.        *)
LockedTogether ==
    \A m \in M : ms[m].curg # None =>
        gs[ms[m].curg].lockedm \in {None, m} /\ lockedg(m) \subseteq {ms[m].curg}

(* A deadlock is reported only when no goroutine can be readied by the     *)
(* network any more.                                                       *)
DeadlockIsReal == thrown = "deadlock" => \A g \in G : gs[g].net = "no"

(* The runtime's checks hold, its data are in order, and what it reports   *)
(* as a deadlock is one.                                                   *)
ChecksHold == TypeOK /\ NoThrow /\ DeadlockIsReal

(* Every goroutine is where it belongs: in one place, and on its own       *)
(* thread if it is locked to one.                                          *)
InPlace == OnePlace /\ LockedTogether

(* What is queued will be run: a processor runs, or is in a system call    *)
(* and the monitor is there to take it away.                               *)
StallFree == NoStall /\ MonitorAwake

(* Fairness: a thread that can go on in the runtime does so, sysmon's and  *)
(* stoptheworld's timers go off, and the goroutines go on as well: their   *)
(* code calls functions, so that a preemption request is seen.             *)
Progress ==
    /\ \A m \in M : WF_vars(thrown = "none" /\ (Operation(m) \/ Runtime(m)))
    /\ WF_vars(thrown = "none" /\ \E m \in M : StopRetry(m) \/ Preemptone(m))
    /\ WF_vars(thrown = "none" /\ Retake(Sysmon))

FairSpec == Spec /\ Progress

(* Every program whose goroutines all come to an end, ends: whatever they  *)
(* do, no goroutine that could run is left behind, a world that is to be   *)
(* stopped is stopped and started again (a request that a thread missed is *)
(* repeated) and, when all goroutines are blocked, checkdead notices.      *)
Ends == <>(thrown # "none")

(* Fairness that does not count on the goroutines: they may compute for    *)
(* ever, but the runtime, the timers and the network go on.                *)
BusySpec ==
    /\ Spec
    /\ \A m \in M : WF_vars(thrown = "none" /\ Runtime(m))
    /\ WF_vars(thrown = "none" /\ Preemptone(Sysmon))

(* retake: "Preempt G if it's running for more than 10ms."  A goroutine    *)
(* that goes on running while others are queued is asked to yield.         *)
Preempts ==
    \A g \in G : (gs[g].status = "Grunning" /\ sched.runq # << >>) ~>
                  (gs[g].preempt \/ gs[g].status # "Grunning" \/ sched.runq = << >>)
=============================================================================
