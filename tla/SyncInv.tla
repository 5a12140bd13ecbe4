------------------------------ MODULE SyncInv -------------------------------
(***************************************************************************)
(* The inductive invariant behind SemaSafe and OneWakeup: what the record  *)
(* of a goroutine looks like at each place of package sync and of the      *)
(* semaphores, which goroutine a SemaRoot's Lock, its queue and the Lock   *)
(* of a WaitGroup or a Once belong to.                                     *)
(***************************************************************************)
EXTENDS Sync

WgSet == Range(WgSemas)

(* Places: those of a call a program makes, of Lock and of Unlock, of      *)
(* Semacquire and Semrelease.                                              *)
Body == {"rlock", "runlock", "rdepart", "wannounce", "wwait", "wunlock", "wrelease",
         "add1", "add2", "done", "addlook", "addwake", "wait", "waitadd", "waitlook",
         "waitundo", "waitsleep", "await", "csleep", "crelock", "set", "signal",
         "broadcast", "scas", "bcas", "do", "dopanic", "dof", "dofpanic", "f", "fpanic", "fdone"}
Locking == {"lock", "lread", "lcas"}
Unlocking == {"unlock", "ucas", "uread"}
Releasing == {"srel", "slook", "sdeq"}
Pairing == {"yacq", "yrel", "yparked"}
Place == {"next", "unborn"} \cup Body \cup Locking \cup Unlocking \cup Waking \cup Releasing \cup Pairing

MState == [locked : BOOLEAN, woken : BOOLEAN, waiters : Int]
Gr == [pc : Place, k : Seq(Place), mu : Mutexes \cup {Nil}, sa : Sems \cup {Nil}, old : MState,
       awoke : BOOLEAN, n : Int, ws : Sems \cup {Nil}, ip : Nat \ {0}, zero : BOOLEAN]

(* Where a call goes back to: the program, or place r of a call of it.     *)
Top == <<"next">>
Ret(r) == <<r>> \o Top

(* Who locks x and goes on at s, who unlocks x and goes on at s.           *)
LockStack(x, s) ==
    \/ x = "m" /\ s \in {Top, Ret("await")}
    \/ x = "w" /\ s = Ret("wannounce")
    \/ x = "wgm" /\ s \in {Ret("waitadd"), Ret("addwake")}
    \/ x = "om" /\ s \in {Ret("dof"), Ret("dofpanic")}

UnlockStack(x, s) ==
    \/ s = Top
    \/ x = "wgm" /\ s = Ret("waitsleep")
    \/ x = "m" /\ s = Ret("csleep")

StackOf(r) ==
    /\ r.pc \in {"next", "unborn"} => r.k = << >>
    /\ r.pc \in Body \cup {"yrel"} => r.k = Top
    /\ r.pc \in Locking => LockStack(r.mu, r.k)
    /\ r.pc \in Unlocking => r.mu \in Mutexes /\ UnlockStack(r.mu, r.k)
    /\ r.pc = "yacq" => r.k = Ret("crelock")
    /\ r.pc = "yparked" => r.k \in {Top, Ret("crelock")}
    /\ r.pc \in Waking =>
         /\ r.sa \in Sems
         /\ r.sa \in Mutexes => /\ r.mu = r.sa /\ r.awoke
                                /\ \E s \in {Top} \cup {Ret(p) : p \in Body} :
                                     r.k = <<"lread">> \o s /\ LockStack(r.mu, s)
         /\ r.sa \notin Mutexes => r.k = Top
    /\ r.pc \in Releasing =>
         /\ r.sa \in Sems
         /\ r.sa \in Mutexes => UnlockStack(r.sa, r.k)
         /\ r.sa = "readerSem" => r.k = Ret("wrelease")
         /\ r.sa = "writerSem" => r.k = Top
         /\ r.sa \in WgSet => r.k = Ret("addwake")

(* Does r wait for, or is in, a call that goes on at place l?              *)
GoesOnAt(r, l) ==
    r.pc = l \/ (r.pc \notin {"next", "unborn"} /\ (r.k = Ret(l) \/ r.k = <<"lread">> \o Ret(l)))

LocalsOf(r) ==
    /\ r.awoke => r.pc \in {"lread", "lcas"} \cup {p \in Waking : r.sa \in Mutexes}
    /\ r.pc = "ucas" => ~NobodyToWake(r.old)
    /\ GoesOnAt(r, "waitsleep") => r.ws \in WgSet
    /\ r.n # 0 => \/ r.pc \in {"wwait", "wrelease", "scas", "bcas", "yrel"}
                  \/ GoesOnAt(r, "wrelease") \/ GoesOnAt(r, "addwake")
    /\ GoesOnAt(r, "addwake") => r.n >= 0

(* A Signal or Broadcast that goes on has read that somebody waits.        *)
Signals(r) == r.pc \in {"scas", "bcas", "yrel"} => r.n >= 1

Wf(r) == r \in Gr /\ StackOf(r) /\ LocalsOf(r) /\ Signals(r)

(* Who holds the Mutex of the WaitGroup, or that of the Once.              *)
Owns(r, x) ==
    \/ r.pc = "unlock" /\ r.mu = x
    \/ x = "wgm" /\ r.pc \in {"addwake", "waitadd", "waitlook", "waitundo"}
    \/ x = "wgm" /\ r.pc \in Releasing /\ r.sa \in WgSet
    \/ x = "om" /\ r.pc \in {"dof", "dofpanic", "f", "fpanic", "fdone"}

OwnInv ==
    \A x \in {"wgm", "om"} :
        /\ \A g \in G : Owns(gr[g], x) => mutex[x].locked
        /\ \A g, h \in G : Owns(gr[g], x) /\ Owns(gr[h], x) => g = h

(* As long as the WaitGroup has no semaphore nobody waits on it, except    *)
(* one who has counted itself and has not looked yet.                      *)
Looking(g) == gr[g].pc \in {"waitlook", "waitundo"}
WgInv ==
    /\ wg.sema \in WgSet \cup {Nil}
    /\ wg.sema = Nil => /\ wg.waiters <= 1
                        /\ wg.waiters > 0 => \E g \in G : Looking(g)

(* The Lock of a root is held by the goroutine that has announced itself,  *)
(* the queues hold goroutines that are parked.                             *)
RootsOf(r) ==
    /\ \A g \in G : g \in root[r].lock <=> At(g, "sretry") /\ RootOf[gr[g].sa] = r
    /\ \A g, h \in root[r].lock : g = h
    /\ \A i \in 1 .. Len(root[r].queue) :
         LET q == root[r].queue[i] IN
         At(q.g, "sparked") /\ gr[q.g].sa = q.addr /\ RootOf[q.addr] = r
    /\ \A i, j \in 1 .. Len(root[r].queue) : i # j => root[r].queue[i].g # root[r].queue[j].g

PairInv ==
    /\ \A i \in 1 .. Len(syncsema) : At(syncsema[i].g, "yparked")
    /\ \A i, j \in 1 .. Len(syncsema) : i # j => syncsema[i].g # syncsema[j].g

SyncTypes ==
    /\ sem \in [Sems -> Nat]
    /\ root \in [Roots -> [lock : SUBSET G, nwait : Int, queue : Seq([g : G, addr : Sems])]]
    /\ syncsema \in Seq([g : G, nrelease : Int])
    /\ mutex \in [Mutexes -> MState]
    /\ rw \in [readerCount : Int, readerWait : Int]
    /\ wg \in [counter : Int, waiters : Int, sema : Sems \cup {Nil}, allocated : Nat]
    /\ cond \in [waiters : Nat, ready : BOOLEAN]
    /\ once \in [done : BOOLEAN, called : Nat, returned : Nat]
    /\ prog \in Programs /\ panicked \in BOOLEAN
    /\ gr \in [G -> Gr]

PlaceInv == \A g \in G : Wf(gr[g])

SyncIInv ==
    /\ SyncTypes /\ PlaceInv /\ OwnInv /\ WgInv /\ (\A r \in Roots : RootsOf(r)) /\ PairInv
    /\ SemaSafe /\ OneWakeup

(***************************************************************************)
(* Mutex and RWMutex under programs that unlock what they have locked, and *)
(* call Cond's Wait with the Mutex locked.                                 *)
(***************************************************************************)
Alternate(cs, lock, unlock) ==
    \A n \in 0 .. Len(cs) : Times(cs, n, lock) - Times(cs, n, unlock) \in {0, 1}
WellPaired(cs) ==
    /\ Alternate(cs, "Lock", "Unlock") /\ Alternate(cs, "RLock", "RUnlock")
    /\ Alternate(cs, "WLock", "WUnlock")
    /\ \A i \in DOMAIN cs : cs[i] = "Await" => Times(cs, i, "Lock") > Times(cs, i, "Unlock")
Disciplined == \A g \in G : WellPaired(prog.calls[g])

(* The calls that matter here, and how one sees from its record that a     *)
(* goroutine is in one of them.                                            *)
LockCalls == {"Lock", "Unlock", "Await", "RLock", "RUnlock", "WLock", "WUnlock"}
LocksM(r) == (r.pc \in Locking /\ r.mu = "m") \/ (r.pc \in Waking /\ r.sa = "m")
UnlocksM(r) == (r.pc \in Unlocking /\ r.mu = "m") \/ (r.pc \in Releasing /\ r.sa = "m")
In(r, c) ==
    \/ c = "Lock" /\ LocksM(r) /\ r.k \in {Top, <<"lread">> \o Top}
    \/ c = "Unlock" /\ UnlocksM(r) /\ r.k = Top
    \/ c = "Await" /\ \/ r.pc \in {"await", "csleep", "crelock", "yacq"} \/ (r.pc = "yparked" /\ r.k # Top)
                      \/ LocksM(r) /\ r.k \notin {Top, <<"lread">> \o Top}
                      \/ UnlocksM(r) /\ r.k # Top
    \/ c = "RLock" /\ (r.pc = "rlock" \/ (r.pc \in Waking /\ r.sa = "readerSem"))
    \/ c = "RUnlock" /\ (r.pc \in {"runlock", "rdepart"} \/ (r.pc \in Releasing /\ r.sa = "writerSem"))
    \/ c = "WLock" /\ \/ r.pc \in {"wannounce", "wwait"} \/ (r.pc \in Locking /\ r.mu = "w")
                      \/ r.pc \in Waking /\ r.sa \in {"w", "writerSem"}
    \/ c = "WUnlock" /\ \/ r.pc \in {"wunlock", "wrelease"} \/ (r.pc \in Unlocking /\ r.mu = "w")
                        \/ r.pc \in Releasing /\ r.sa \in {"w", "readerSem"}

CallOf(r, cs) ==
    /\ r.pc = "unborn" => r.ip = 1
    /\ r.pc = "next" => r.ip <= Len(cs) + 1
    /\ r.pc \notin {"next", "unborn"} =>
         r.ip - 1 \in DOMAIN cs /\ \A c \in LockCalls : cs[r.ip - 1] = c <=> In(r, c)
CallInv == \A g \in G : CallOf(gr[g], prog.calls[g])

(* Who holds a Mutex: in RWMutex, a writer from the moment it has it until *)
(* it has let in the readers that came meanwhile.                          *)
SleepsAt(r, a) == r.pc \in Waking /\ r.sa = a
LetsIn(r) == r.pc = "wrelease" \/ (r.pc \in Releasing /\ r.sa = "readerSem")
Writes(r, cs) == Between(r, cs, "WLock", "WUnlock") \/ r.pc = "wunlock"
Announced(r, cs) == Writes(r, cs) \/ r.pc = "wwait" \/ SleepsAt(r, "writerSem")
Has(r, cs, x) ==
    \/ r.pc = "unlock" /\ r.mu = x
    \/ x = "m" /\ Between(r, cs, "Lock", "Unlock") /\ (CurrentOf(r, cs) = "Await" => r.pc = "await")
    \/ x = "w" /\ (Announced(r, cs) \/ LetsIn(r) \/ r.pc = "wannounce")
HasInv ==
    \A x \in {"m", "w"} :
        /\ \A g \in G : Has(gr[g], prog.calls[g], x) => mutex[x].locked
        /\ \A g, h \in G : Has(gr[g], prog.calls[g], x) /\ Has(gr[h], prog.calls[h], x) => g = h

(* The readers: those who hold the RWMutex, those who wait for a writer,   *)
(* and those who have still to tell one that they have left.               *)
Reads(r, cs) == Between(r, cs, "RLock", "RUnlock") \/ r.pc = "runlock"
Reading == Cardinality({g \in G : Reads(gr[g], prog.calls[g])})
Coming == Cardinality({g \in G : SleepsAt(gr[g], "readerSem")})
Leaving == Cardinality({g \in G : gr[g].pc = "rdepart"})
Units(a) == sem[a] + Count(a, {"srel"})
AnyWriter == \E g \in G : Announced(gr[g], prog.calls[g])

(* readerCount and readerWait, from a writer's announcement, which may be  *)
(* followed by the departure of readers before it has counted them, until  *)
(* it has let the next readers in.                                         *)
ReadersCounted == rw.readerCount = Reading + Coming - (IF AnyWriter THEN MaxReaders ELSE 0)
NoWriter ==
    ~AnyWriter => /\ rw.readerWait = 0 /\ Leaving = 0 /\ Units("writerSem") = 0
                  /\ (\A g \in G : ~LetsIn(gr[g])) => Coming = sem["readerSem"]
WriterAt(g) ==
    /\ LetsIn(gr[g]) => gr[g].n >= 0 /\ Coming = Units("readerSem") + gr[g].n
    /\ At(g, "wwait") =>
         /\ gr[g].n + rw.readerWait = Reading + Leaving + sem["readerSem"]
         /\ rw.readerWait <= 0 /\ Units("writerSem") = 0
    /\ SleepsAt(gr[g], "writerSem") =>
         /\ rw.readerWait = Reading + Leaving + sem["readerSem"]
         /\ Units("writerSem") = IF rw.readerWait = 0 THEN 1 ELSE 0
    /\ Writes(gr[g], prog.calls[g]) =>
         /\ Reading = 0 /\ Leaving = 0 /\ sem["readerSem"] = 0
         /\ rw.readerWait = 0 /\ Units("writerSem") = 0
RwInv == ReadersCounted /\ NoWriter /\ \A g \in G : WriterAt(g)

LockInv == Disciplined => CallInv /\ HasInv /\ RwInv
=============================================================================
