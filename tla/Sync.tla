-------------------------------- MODULE Sync --------------------------------
(***************************************************************************)
(* Package sync (src/pkg/sync): Mutex, RWMutex, WaitGroup, Cond and Once,  *)
(* on the semaphores of module Sema.  RWMutex, WaitGroup and Once contain  *)
(* a Mutex of their own, Cond uses the plain Mutex "m" as its Locker.      *)
(*                                                                         *)
(* Every goroutine runs a program, a sequence of calls of the package.     *)
(* Each atomic operation or plain read of shared memory is a step; local   *)
(* computation is part of the step before it.  Calls of the race detector  *)
(* and Cond's check that it was not copied are left out.                   *)
(***************************************************************************)
EXTENDS Sema

CONSTANTS
    Programs,   \* what may be run: the calls of each goroutine, who runs at the
                \* start (the others are started by "Go") and the WaitGroup's counter then
    WgSemas,    \* the semaphores WaitGroup allocates, one after the other (bound)
    MaxReaders  \* rwmutexMaxReaders

Mutexes == {"m", "w", "wgm", "om"}
Calls == {"Lock", "Unlock", "RLock", "RUnlock", "WLock", "WUnlock", "Add1", "Add2", "Done",
          "Wait", "Await", "Set", "Signal", "Broadcast", "Do", "DoPanic", "Go"}

ASSUME SyncConstants ==
    /\ Mutexes \cup {"readerSem", "writerSem"} \cup Range(WgSemas) = Sems
    /\ (Mutexes \cup {"readerSem", "writerSem"}) \cap Range(WgSemas) = {}
    /\ WgSemas \in Seq(Sems) /\ IsFiniteSet(G)
    /\ \A p \in Programs :
         /\ \A g \in G : p.calls[g] \in Seq(Calls)
         /\ p.start \subseteq G /\ p.counter \in Nat
    /\ MaxReaders \in Nat /\ MaxReaders > Cardinality(G)

VARIABLES
    prog,       \* the program that is run
    mutex,      \* mutex[x]: the bits and the waiter count of a Mutex's state
    rw,         \* readerCount and readerWait
    wg,         \* counter, waiters, sema, and the number of semaphores allocated
    cond,       \* waiters of the Cond, and the condition the programs wait for
    once,       \* done, and how often f was called and has returned
    panicked    \* a panic has stopped the program

syncvars == <<mutex, rw, wg, cond, once>>
vars == <<gr, semavars, prog, syncvars, panicked>>

Unlocked == [locked |-> FALSE, woken |-> FALSE, waiters |-> 0]

Idle == [pc |-> "next", k |-> << >>, mu |-> Nil, sa |-> Nil, old |-> Unlocked,
         awoke |-> FALSE, n |-> 0, ws |-> Nil, ip |-> 1, zero |-> FALSE]

Init ==
    /\ SemaInit
    /\ prog \in Programs
    /\ gr = [g \in G |-> [Idle EXCEPT !.pc = IF g \in prog.start THEN "next" ELSE "unborn"]]
    /\ mutex = [x \in Mutexes |-> Unlocked]
    /\ rw = [readerCount |-> 0, readerWait |-> 0]
    /\ wg = [counter |-> prog.counter, waiters |-> 0, sema |-> Nil, allocated |-> 0]
    /\ cond = [waiters |-> 0, ready |-> FALSE]
    /\ once = [done |-> FALSE, called |-> 0, returned |-> 0]
    /\ panicked = FALSE

(* The record r of a goroutine calls Lock, Unlock, Semacquire, Semrelease. *)
CallLock(r, x, ret) == CallTo([r EXCEPT !.mu = x], "lock", ret)
CallUnlock(r, x, ret) == CallTo([r EXCEPT !.mu = x], "unlock", ret)
CallAcquire(r, a, ret) == CallTo([r EXCEPT !.sa = a], "sacq", ret)
CallRelease(r, a, ret) == CallTo([r EXCEPT !.sa = a], "srel", ret)

(* The same as the last thing the function does.                           *)
TailUnlock(r, x) == [r EXCEPT !.pc = "unlock", !.mu = x]
TailAcquire(r, a) == [r EXCEPT !.pc = "sacq", !.sa = a]
TailRelease(r, a) == [r EXCEPT !.pc = "srel", !.sa = a]

(***************************************************************************)
(* Mutex                                                                   *)
(***************************************************************************)

(* r has no more use for the variables of Lock or Unlock; it leaves.       *)
Clean(r) == [r EXCEPT !.mu = Nil, !.old = Unlocked, !.awoke = FALSE]
LeaveMutex(r) == Back(Clean(r))

(* Lock's fast path: compare and swap of 0.                                *)
LockFast(g) ==
    /\ At(g, "lock")
    /\ IF mutex[gr[g].mu] = Unlocked
       THEN /\ mutex' = [mutex EXCEPT ![gr[g].mu].locked = TRUE]
            /\ gr' = [gr EXCEPT ![g] = LeaveMutex(@)]
       ELSE gr' = Goto(g, "lread") /\ UNCHANGED mutex
    /\ UNCHANGED <<semavars, prog, rw, wg, cond, once, panicked>>

LockRead(g) ==
    /\ At(g, "lread")
    /\ gr' = [gr EXCEPT ![g].pc = "lcas", ![g].old = mutex[gr[g].mu]]
    /\ UNCHANGED <<semavars, prog, syncvars, panicked>>

(* Mutant: a woken goroutine leaves mutexWoken set.                        *)
Wanted_KeepWoken(old, awoke) ==
    [locked |-> TRUE, woken |-> old.woken,
     waiters |-> IF old.locked THEN old.waiters + 1 ELSE old.waiters]

(* The state Lock wants to set: locked, one waiter more if it was locked,  *)
(* no longer woken if this goroutine was the one.                          *)
Wanted(old, awoke) ==
    [locked |-> TRUE, woken |-> old.woken /\ ~awoke,
     waiters |-> IF old.locked THEN old.waiters + 1 ELSE old.waiters]

LockCas(g) ==
    LET r == gr[g] IN
    /\ At(g, "lcas")
    /\ IF mutex[r.mu] # r.old
       THEN gr' = Goto(g, "lread") /\ UNCHANGED mutex
       ELSE /\ mutex' = [mutex EXCEPT ![r.mu] = Wanted(r.old, r.awoke)]
            /\ gr' = [gr EXCEPT ![g] =
                        IF r.old.locked
                        THEN CallAcquire([r EXCEPT !.awoke = TRUE], r.mu, "lread")
                        ELSE LeaveMutex(r)]
    /\ UNCHANGED <<semavars, prog, rw, wg, cond, once, panicked>>

(* Nobody waits, or somebody is awake or holds the mutex again.            *)
NobodyToWake(s) == s.waiters = 0 \/ s.locked \/ s.woken

(* Unlock's loop with the value s: done, or go on to the compare and swap. *)
UnlockLoop(r, s) ==
    IF NobodyToWake(s) THEN LeaveMutex(r) ELSE [r EXCEPT !.pc = "ucas", !.old = s]

UnlockAdd(g) ==
    LET x == gr[g].mu
        s == [mutex[x] EXCEPT !.locked = FALSE]
    IN  /\ At(g, "unlock")
        /\ IF mutex[x].locked
           THEN /\ mutex' = [mutex EXCEPT ![x] = s]
                /\ gr' = [gr EXCEPT ![g] = UnlockLoop(@, s)]
                /\ UNCHANGED panicked
           ELSE panicked' = TRUE /\ UNCHANGED <<gr, mutex>>
        /\ UNCHANGED <<semavars, prog, rw, wg, cond, once>>

UnlockCas(g) ==
    LET r == gr[g] IN
    /\ At(g, "ucas")
    /\ IF mutex[r.mu] # r.old
       THEN gr' = Goto(g, "uread") /\ UNCHANGED mutex
       ELSE /\ mutex' = [mutex EXCEPT ![r.mu].waiters = @ - 1, ![r.mu].woken = TRUE]
            /\ gr' = [gr EXCEPT ![g] = TailRelease(Clean(r), r.mu)]
    /\ UNCHANGED <<semavars, prog, rw, wg, cond, once, panicked>>

UnlockRead(g) ==
    /\ At(g, "uread")
    /\ gr' = [gr EXCEPT ![g] = UnlockLoop(@, mutex[gr[g].mu])]
    /\ UNCHANGED <<semavars, prog, syncvars, panicked>>

MutexStep(g) ==
    \/ LockFast(g) \/ LockRead(g) \/ LockCas(g)
    \/ UnlockAdd(g) \/ UnlockCas(g) \/ UnlockRead(g)
(***************************************************************************)
(* RWMutex                                                                 *)
(***************************************************************************)
RLock(g) ==
    LET c == rw.readerCount + 1 IN
    /\ At(g, "rlock")
    /\ rw' = [rw EXCEPT !.readerCount = c]
    /\ gr' = [gr EXCEPT ![g] = IF c < 0 THEN TailAcquire(@, "readerSem") ELSE Back(@)]
    /\ UNCHANGED <<semavars, prog, mutex, wg, cond, once, panicked>>

RUnlock(g) ==
    LET c == rw.readerCount - 1 IN
    /\ At(g, "runlock")
    /\ rw' = [rw EXCEPT !.readerCount = c]
    /\ gr' = [gr EXCEPT ![g] = IF c < 0 THEN [@ EXCEPT !.pc = "rdepart"] ELSE Back(@)]
    /\ UNCHANGED <<semavars, prog, mutex, wg, cond, once, panicked>>

(* A writer waits: the last of the readers it found lets it go on.         *)
RDepart(g) ==
    LET w == rw.readerWait - 1 IN
    /\ At(g, "rdepart")
    /\ rw' = [rw EXCEPT !.readerWait = w]
    /\ gr' = [gr EXCEPT ![g] = IF w = 0 THEN TailRelease(@, "writerSem") ELSE Back(@)]
    /\ UNCHANGED <<semavars, prog, mutex, wg, cond, once, panicked>>

(* The writer has the Mutex; it announces itself to the readers.           *)
WAnnounce(g) ==
    LET r == rw.readerCount IN
    /\ At(g, "wannounce")
    /\ rw' = [rw EXCEPT !.readerCount = r - MaxReaders]
    /\ gr' = [gr EXCEPT ![g] = IF r # 0 THEN [@ EXCEPT !.pc = "wwait", !.n = r] ELSE Back(@)]
    /\ UNCHANGED <<semavars, prog, mutex, wg, cond, once, panicked>>

(* Mutant: the writer does not wait for the readers it found.              *)
WWait_Never(g) ==
    /\ At(g, "wwait")
    /\ rw' = [rw EXCEPT !.readerWait = @ + gr[g].n]
    /\ gr' = [gr EXCEPT ![g] = Back([@ EXCEPT !.n = 0])]
    /\ UNCHANGED <<semavars, prog, mutex, wg, cond, once, panicked>>

(* It waits for the readers it found, unless they have all left since.     *)
WWait(g) ==
    LET w == rw.readerWait + gr[g].n
        r == [gr[g] EXCEPT !.n = 0]
    IN  /\ At(g, "wwait")
        /\ rw' = [rw EXCEPT !.readerWait = w]
        /\ gr' = [gr EXCEPT ![g] = IF w # 0 THEN TailAcquire(r, "writerSem") ELSE Back(r)]
        /\ UNCHANGED <<semavars, prog, mutex, wg, cond, once, panicked>>

WUnlock(g) ==
    LET r == rw.readerCount + MaxReaders IN
    /\ At(g, "wunlock")
    /\ rw' = [rw EXCEPT !.readerCount = r]
    /\ gr' = [gr EXCEPT ![g].pc = "wrelease", ![g].n = r]
    /\ UNCHANGED <<semavars, prog, mutex, wg, cond, once, panicked>>

(* Release the readers that came meanwhile, one by one, then the Mutex.    *)
WRelease(g) ==
    /\ At(g, "wrelease")
    /\ gr' = [gr EXCEPT ![g] = IF gr[g].n > 0
                               THEN CallRelease([@ EXCEPT !.n = gr[g].n - 1], "readerSem", "wrelease")
                               ELSE TailUnlock([@ EXCEPT !.n = 0], "w")]
    /\ UNCHANGED <<semavars, prog, syncvars, panicked>>

RWStep(g) ==
    \/ RLock(g) \/ RUnlock(g) \/ RDepart(g)
    \/ WAnnounce(g) \/ WWait(g) \/ WUnlock(g) \/ WRelease(g)

(***************************************************************************)
(* WaitGroup.  zero is history: the counter has been zero at some moment   *)
(* since the goroutine's Wait was called.                                  *)
(***************************************************************************)
InWait(g) == prog.calls[g] # << >> /\ gr[g].ip > 1 /\ prog.calls[g][gr[g].ip - 1] = "Wait"

SawZero(f) == [g \in G |-> [f[g] EXCEPT !.zero = @ \/ (InWait(g) /\ f[g].pc # "next")]]

Delta(g) == CASE gr[g].pc = "add1" -> 1 [] gr[g].pc = "add2" -> 2 [] OTHER -> -1

AddCount(g) ==
    LET v == wg.counter + Delta(g) IN
    /\ gr[g].pc \in {"add1", "add2", "done"}
    /\ wg' = [wg EXCEPT !.counter = v]
    /\ CASE v < 0 -> panicked' = TRUE /\ UNCHANGED gr
         [] v > 0 -> gr' = Return(g) /\ UNCHANGED panicked
         [] OTHER -> gr' = SawZero(Goto(g, "addlook")) /\ UNCHANGED panicked
    /\ UNCHANGED <<semavars, prog, mutex, rw, cond, once>>

AddLook(g) ==
    /\ At(g, "addlook")
    /\ gr' = [gr EXCEPT ![g] = IF wg.waiters = 0 THEN Back(@) ELSE CallLock(@, "wgm", "addwake")]
    /\ UNCHANGED <<semavars, prog, syncvars, panicked>>

(* Mutant: the semaphore is used again for the next round.                 *)
AddWake_KeepSema(g) ==
    /\ At(g, "addwake")
    /\ IF gr[g].n < wg.waiters
       THEN /\ gr' = [gr EXCEPT ![g] = CallRelease([@ EXCEPT !.n = gr[g].n + 1], wg.sema, "addwake")]
            /\ UNCHANGED wg
       ELSE /\ gr' = [gr EXCEPT ![g] = TailUnlock([@ EXCEPT !.n = 0], "wgm")]
            /\ wg' = [wg EXCEPT !.waiters = 0]
    /\ UNCHANGED <<semavars, prog, mutex, rw, cond, once, panicked>>

(* Under the lock: release every waiter, then forget the semaphore.        *)
AddWake(g) ==
    /\ At(g, "addwake")
    /\ IF gr[g].n < wg.waiters
       THEN /\ gr' = [gr EXCEPT ![g] = CallRelease([@ EXCEPT !.n = gr[g].n + 1], wg.sema, "addwake")]
            /\ UNCHANGED wg
       ELSE /\ gr' = [gr EXCEPT ![g] = TailUnlock([@ EXCEPT !.n = 0], "wgm")]
            /\ wg' = [wg EXCEPT !.waiters = 0, !.sema = Nil]
    /\ UNCHANGED <<semavars, prog, mutex, rw, cond, once, panicked>>

WaitFast(g) ==
    /\ At(g, "wait")
    /\ gr' = IF wg.counter = 0 THEN [gr EXCEPT ![g] = Back([@ EXCEPT !.zero = TRUE])]
             ELSE [gr EXCEPT ![g] = CallLock(@, "wgm", "waitadd")]
    /\ UNCHANGED <<semavars, prog, syncvars, panicked>>

WaitAdd(g) ==
    /\ At(g, "waitadd")
    /\ wg' = [wg EXCEPT !.waiters = @ + 1]
    /\ gr' = Goto(g, "waitlook")
    /\ UNCHANGED <<semavars, prog, mutex, rw, cond, once, panicked>>

StillBusy == wg.counter # 0

(* Look at the counter again; take the current semaphore, or a new one.    *)
WaitLook(g) ==
    LET a == wg.allocated + 1
        s == IF wg.sema = Nil THEN WgSemas[a] ELSE wg.sema
    IN  /\ At(g, "waitlook")
        /\ IF ~StillBusy
           THEN gr' = Goto(g, "waitundo") /\ UNCHANGED wg
           ELSE /\ wg.sema = Nil => a <= Len(WgSemas)
                /\ wg' = IF wg.sema = Nil THEN [wg EXCEPT !.sema = s, !.allocated = a] ELSE wg
                /\ gr' = [gr EXCEPT ![g] = CallUnlock([@ EXCEPT !.ws = s], "wgm", "waitsleep")]
        /\ UNCHANGED <<semavars, prog, mutex, rw, cond, once, panicked>>

WaitUndo(g) ==
    /\ At(g, "waitundo")
    /\ wg' = [wg EXCEPT !.waiters = @ - 1]
    /\ gr' = [gr EXCEPT ![g] = TailUnlock(@, "wgm")]
    /\ UNCHANGED <<semavars, prog, mutex, rw, cond, once, panicked>>

WaitSleep(g) ==
    /\ At(g, "waitsleep")
    /\ gr' = [gr EXCEPT ![g] = TailAcquire([@ EXCEPT !.ws = Nil], gr[g].ws)]
    /\ UNCHANGED <<semavars, prog, syncvars, panicked>>

WgStep(g) ==
    \/ AddCount(g) \/ AddLook(g) \/ AddWake(g)
    \/ WaitFast(g) \/ WaitAdd(g) \/ WaitLook(g) \/ WaitUndo(g) \/ WaitSleep(g)

(***************************************************************************)
(* Cond, with "m" as its Locker.  The programs use it as its comment says: *)
(* for !ready { c.Wait() }, with m held.                                   *)
(***************************************************************************)
CondWait(g) ==
    /\ At(g, "await")
    /\ IF cond.ready
       THEN gr' = Return(g) /\ UNCHANGED cond
       ELSE /\ cond' = [cond EXCEPT !.waiters = @ + 1]
            /\ gr' = [gr EXCEPT ![g] = CallUnlock(@, "m", "csleep")]
    /\ UNCHANGED <<semavars, prog, mutex, rw, wg, once, panicked>>

CondSleep(g) ==
    /\ At(g, "csleep")
    /\ gr' = [gr EXCEPT ![g] = CallTo(@, "yacq", "crelock")]
    /\ UNCHANGED <<semavars, prog, syncvars, panicked>>

CondRelock(g) ==
    /\ At(g, "crelock")
    /\ gr' = [gr EXCEPT ![g] = CallLock(@, "m", "await")]
    /\ UNCHANGED <<semavars, prog, syncvars, panicked>>

(* The condition comes true.                                               *)
SetReady(g) ==
    /\ At(g, "set")
    /\ cond' = [cond EXCEPT !.ready = TRUE]
    /\ gr' = Return(g)
    /\ UNCHANGED <<semavars, prog, mutex, rw, wg, once, panicked>>

(* signalImpl: n is the value of waiters it has read.                      *)
SignalLoad(g) ==
    /\ gr[g].pc \in {"signal", "broadcast"}
    /\ gr' = [gr EXCEPT ![g] =
                IF cond.waiters = 0 THEN Back(@)
                ELSE [@ EXCEPT !.pc = IF At(g, "signal") THEN "scas" ELSE "bcas", !.n = cond.waiters]]
    /\ UNCHANGED <<semavars, prog, syncvars, panicked>>

(* How many are taken off the count, and released.                         *)
Released(g) == IF At(g, "bcas") THEN gr[g].n ELSE 1

SignalCas(g) ==
    /\ gr[g].pc \in {"scas", "bcas"}
    /\ IF cond.waiters = gr[g].n
       THEN /\ cond' = [cond EXCEPT !.waiters = @ - IF At(g, "bcas") THEN gr[g].n ELSE 1]
            /\ gr' = [gr EXCEPT ![g].pc = "yrel", ![g].n = Released(g)]
       ELSE /\ gr' = [gr EXCEPT ![g].pc = IF @ = "scas" THEN "signal" ELSE "broadcast", ![g].n = 0]
            /\ UNCHANGED cond
    /\ UNCHANGED <<semavars, prog, mutex, rw, wg, once, panicked>>

CondStep(g) ==
    \/ CondWait(g) \/ CondSleep(g) \/ CondRelock(g)
    \/ SetReady(g) \/ SignalLoad(g) \/ SignalCas(g)

(***************************************************************************)
(* Once.  In "DoPanic" f panics; its caller recovers.                      *)
(***************************************************************************)
DoFast(g) ==
    /\ gr[g].pc \in {"do", "dopanic"}
    /\ gr' = [gr EXCEPT ![g] = IF once.done THEN Back(@)
                               ELSE CallLock(@, "om", IF @.pc = "do" THEN "dof" ELSE "dofpanic")]
    /\ UNCHANGED <<semavars, prog, syncvars, panicked>>

DoSlow(g) ==
    /\ gr[g].pc \in {"dof", "dofpanic"}
    /\ IF once.done
       THEN gr' = [gr EXCEPT ![g] = TailUnlock(@, "om")] /\ UNCHANGED once
       ELSE /\ once' = [once EXCEPT !.called = @ + 1]
            /\ gr' = Goto(g, IF At(g, "dof") THEN "f" ELSE "fpanic")
    /\ UNCHANGED <<semavars, prog, mutex, rw, wg, cond, panicked>>

FReturns(g) ==
    /\ At(g, "f")
    /\ once' = [once EXCEPT !.returned = @ + 1]
    /\ gr' = Goto(g, "fdone")
    /\ UNCHANGED <<semavars, prog, mutex, rw, wg, cond, panicked>>

(* The deferred Unlock runs, the store of done does not.                   *)
FPanics(g) ==
    /\ At(g, "fpanic")
    /\ gr' = [gr EXCEPT ![g] = TailUnlock(@, "om")]
    /\ UNCHANGED <<semavars, prog, syncvars, panicked>>

DoStore(g) ==
    /\ At(g, "fdone")
    /\ once' = [once EXCEPT !.done = TRUE]
    /\ gr' = [gr EXCEPT ![g] = TailUnlock(@, "om")]
    /\ UNCHANGED <<semavars, prog, mutex, rw, wg, cond, panicked>>

OnceStep(g) == DoFast(g) \/ DoSlow(g) \/ FReturns(g) \/ FPanics(g) \/ DoStore(g)

(***************************************************************************)
(* Programs                                                                *)
(***************************************************************************)
Calling(g, l) == CallTo([gr[g] EXCEPT !.ip = @ + 1, !.zero = FALSE], l, "next")

Entry ==
    [RLock |-> "rlock", RUnlock |-> "runlock", WUnlock |-> "wunlock", Add1 |-> "add1",
     Add2 |-> "add2", Done |-> "done", Wait |-> "wait", Await |-> "await", Set |-> "set",
     Signal |-> "signal", Broadcast |-> "broadcast", Do |-> "do", DoPanic |-> "dopanic"]

(* The record of g at the first step of call c.                            *)
Begun(g, c) ==
    CASE c = "Lock"   -> [Calling(g, "lock") EXCEPT !.mu = "m"]
      [] c = "Unlock" -> [Calling(g, "unlock") EXCEPT !.mu = "m"]
      [] c = "WLock"  -> CallLock(Calling(g, "wlock"), "w", "wannounce")
      [] c = "Go"     -> [gr[g] EXCEPT !.ip = @ + 1]
      [] OTHER        -> Calling(g, Entry[c])

Begin(g) ==
    /\ At(g, "next") /\ gr[g].ip <= Len(prog.calls[g])
    /\ LET c == prog.calls[g][gr[g].ip] IN
       IF c # "Go" THEN gr' = [gr EXCEPT ![g] = Begun(g, c)]
       ELSE \E h \in G : /\ At(h, "unborn")
                         /\ gr' = [gr EXCEPT ![g] = Begun(g, c), ![h].pc = "next"]
    /\ UNCHANGED <<semavars, prog, syncvars, panicked>>

Step(g) ==
    \/ Begin(g)
    \/ SemaStep(g) /\ UNCHANGED <<prog, syncvars, panicked>>
    \/ MutexStep(g) \/ RWStep(g) \/ WgStep(g) \/ CondStep(g) \/ OnceStep(g)

Finished(g) == At(g, "next") /\ gr[g].ip > Len(prog.calls[g])

Ended == panicked \/ \A g \in G : Finished(g)

(* A program that has ended takes no more steps.                           *)
Next == ~panicked /\ \E g \in G : Step(g)

Spec == Init /\ [][Next]_vars

FairSpec == Spec /\ \A g \in G : WF_vars(~panicked /\ Step(g))

(***************************************************************************)
(* Properties.                                                             *)
(***************************************************************************)

(* How often does call a occur among the first n of cs?  How many calls    *)
(* has the goroutine with record r completed, and which one is it in?      *)
Times(cs, n, a) == Cardinality({i \in 1 .. n : i \in DOMAIN cs /\ cs[i] = a})
Past(r) == r.ip - (IF r.pc = "next" THEN 1 ELSE 2)
CurrentOf(r, cs) == IF r.pc = "next" \/ r.ip = 1 THEN "none" ELSE cs[r.ip - 1]
Current(g) == CurrentOf(gr[g], prog.calls[g])

(* Is r between the return of lock and the call of unlock?                 *)
Between(r, cs, lock, unlock) ==
    Times(cs, Past(r), lock) > Times(cs, Past(r), unlock) /\ CurrentOf(r, cs) # unlock
HasBetween(lock, unlock) == {g \in G : Between(gr[g], prog.calls[g], lock, unlock)}

(* A goroutine in Cond's Wait holds the Mutex when it looks at the         *)
(* condition only.                                                         *)
Holders == {g \in HasBetween("Lock", "Unlock") : Current(g) = "Await" => At(g, "await")}
Writers == HasBetween("WLock", "WUnlock")
Readers == HasBetween("RLock", "RUnlock")

(* Mutual exclusion: of Mutex, however its fast and slow paths and Cond's  *)
(* relocking meet, and of the writers and readers of RWMutex.              *)
Exclusion ==
    /\ Cardinality(Holders) <= 1
    /\ Cardinality(Writers) <= 1
    /\ Writers # {} => Readers = {}

Waking == {"sacq", "slock", "sretry", "sparked"}
Count(x, pcs) == Cardinality({g \in G : gr[g].sa = x /\ gr[g].pc \in pcs})
Awake(x) == Cardinality({g \in G : gr[g].mu = x /\ gr[g].awoke /\ gr[g].pc \in {"lread", "lcas"}})

(* A Mutex never wakes two goroutines for one hand-over, nor forgets one:  *)
(* mutexWoken stands for exactly one wakeup, which is being released, is   *)
(* in the semaphore or is with a goroutine that competes again; and the    *)
(* waiter count and the wakeups together are those who sleep.              *)
OneWakeup ==
    \A x \in Mutexes :
        /\ Count(x, {"srel"}) + sem[x] + Awake(x) = IF mutex[x].woken THEN 1 ELSE 0
        /\ Count(x, Waking) = mutex[x].waiters + Count(x, {"srel"}) + sem[x]

(* A writer that waits for readers waits for as many as hold the lock, are *)
(* leaving or have been let in by the writer before it: readers that come  *)
(* later do not delay it.  Or the last of them is about to release it.     *)
ReadersAccounted ==
    Count("writerSem", Waking) > 0 =>
        \/ sem["writerSem"] + Count("writerSem", {"srel"}) = 1
        \/ /\ rw.readerWait > 0
           /\ rw.readerWait = sem["readerSem"] +
                Cardinality(Readers \cup {g \in G : gr[g].pc \in {"rdepart", "runlock"}})

(* Wait returns only if the counter was zero at some moment of the call,   *)
(* although waiters of several rounds sleep and are released.              *)
NoEarlyWait == \A g \in G : InWait(g) /\ At(g, "next") => gr[g].zero

(* No Do returns before a call of f has returned, unless f panicked in it; *)
(* and f does not run again once it has returned.                          *)
OnceDone ==
    /\ once.returned <= 1
    /\ \A g \in G : Times(prog.calls[g], Past(gr[g]), "Do") > 0 => once.returned = 1

(* Every program comes to its end: nobody sleeps for ever, in a Mutex, an  *)
(* RWMutex, a WaitGroup or a Cond.                                         *)
AllReturn == <>Ended

(* Mutex and RWMutex exclude whom they should, and a writer waits only for *)
(* the readers that were there before it.                                  *)
LocksSafe == Exclusion /\ ReadersAccounted

(* Wait and Do do not return before what they wait for has happened.       *)
ReturnInTime == NoEarlyWait /\ OnceDone
=============================================================================
