------------------------------ MODULE SchedInv ------------------------------
(***************************************************************************)
(* The inductive invariant behind SpinCount, OneUser and WorldStopped:     *)
(* what the record of a thread looks like at each place of the code, who   *)
(* holds which processor, and how far a stop of the world has come.        *)
(***************************************************************************)
EXTENDS Sched

(***************************************************************************)
(* Places.                                                                 *)
(***************************************************************************)
Handing == {"ho1", "ho2", "ho3", "ho4"}
Calls == {"wakechk", "wakep", "startm", "unspin", "newm"} \cup Handing
Injecting == {"inject", "injloop"}

(* Stopping the world, from the request to the last step of procresize.    *)
Stopping == {"stw1", "stwwait", "stwchk", "gc", "gcwait", "procs", "start0", "start1", "start2",
             "resize", "deal"}

(* A thread here has a processor, and uses it.                             *)
WithP == {"sched", "find", "fglob", "fnet", "netgot", "fspin", "fsteal", "fstop", "reset",
          "gotg", "givep", "user", "slk", "esys2", "start3"} \cup Stopping

(* A thread here may remember the processor it left behind.                *)
Stale == {"esys3", "syscall", "xsys1", "xsys2"}

Elsewhere == {"none", "mstart", "stopm", "parked", "gchelper", "fquit", "frecheck", "fagain",
              "fpoll", "netpoll", "pollgot", "slk2", "slkwait", "esb2", "xsys3", "xsys4",
              "sysmon", "smwait", "smsub", "smadd", "retake"}

Place == Calls \cup Injecting \cup WithP \cup Stale \cup Elsewhere

(* The place a thread is in or, when it is in startm, handoffp, wakep,     *)
(* newm or injectglist, the one it will be back in.                        *)
Cont(r) ==
    IF r.pc \in Injecting \/ (r.pc \in Calls /\ r.ret = "injloop") THEN r.iret
    ELSE IF r.pc \in Calls THEN r.ret ELSE r.pc

MRec == [pc : Place, p : P \cup {None}, nextp : P \cup {None}, spinning : BOOLEAN,
         park : BOOLEAN, curg : G \cup {None}, helpgc : BOOLEAN, lp : P \cup {None},
         lg : G \cup {None}, lm : M \cup {None}, glist : Seq(G),
         todo : Seq(P \X (M \cup {None})), sp : BOOLEAN, n : Nat,
         ret : Place, iret : Place]
PRec == [status : {"Pidle", "Prunning", "Psyscall", "Pgcstop", "Pdead"},
         m : M \cup {None}, runq : Seq(G)]
GRec == [status : {"Gidle", "Grunnable", "Grunning", "Gsyscall", "Gwaiting", "Gdead"},
         lockedm : M \cup {None}, preempt : BOOLEAN, net : {"no", "waiting", "fired"},
         isbackground : BOOLEAN, menu : SUBSET Ops, ops : Nat]
SRec == [pidle : Seq(P), midle : Seq(M), runq : Seq(G), nmspinning : Int, nmidlelocked : Int,
         gomaxprocs : 1 .. Cardinality(P), newprocs : 0 .. Cardinality(P),
         gcwaiting : BOOLEAN, stopwait : Int, stopnote : BOOLEAN, worldsema : BOOLEAN,
         sysmonwait : BOOLEAN, sysmonnote : BOOLEAN, lastpoll : BOOLEAN, helpers : Int,
         maxmcount : 2 .. Cardinality(M), net : BOOLEAN]

SchedTypes ==
    /\ gs \in [G -> GRec] /\ ms \in [M -> MRec] /\ ps \in [P -> PRec] /\ sched \in SRec
    /\ netready \subseteq G

(***************************************************************************)
(* One thread.                                                             *)
(***************************************************************************)
(* Where it goes on after a call.                                          *)
HandoffRets == {"slk2", "syscall", "esb2", "smadd"}
WakeRets == {"user", "gotg"}

ReturnsOf(r) ==
    /\ r.pc = "wakechk" => r.ret = "user"
    /\ r.pc \in {"wakep", "unspin"} => r.ret \in WakeRets
    /\ r.pc \in Handing => r.ret \in HandoffRets
    /\ r.pc = "startm" => r.ret \in (IF r.lp # None THEN HandoffRets
                                     ELSE IF r.sp THEN WakeRets ELSE {"injloop"})
    /\ r.pc = "newm" => r.ret \in HandoffRets \cup WakeRets \cup {"injloop", "start3"}
    /\ r.pc \in {"stopm", "parked", "gchelper"} => r.ret \in {"sched", "find"}
    /\ r.pc \in {"netpoll", "pollgot"} \/ (r.pc = "inject" /\ r.iret = "stopm") => r.ret = "find"
    /\ r.pc \in {"stw1", "stwwait", "stwchk"} => r.ret \in {"gc", "procs"}
    /\ r.pc \in Injecting \/ (r.pc \in {"startm", "newm"} /\ r.ret = "injloop") =>
         r.iret \in {"netgot", "stopm", "start1", "smadd"}
    /\ ~(r.pc \in Injecting \/ (r.pc \in {"startm", "newm"} /\ r.ret = "injloop")) => r.iret = "none"

(* The processor that it looks for a user for, those that it is about to   *)
(* hand out after starting the world, and these with the one that it has   *)
(* been handed.                                                            *)
LpOf(r) == IF r.pc \in {"smsub", "retake"} THEN None ELSE r.lp
TodoOf(r) == {r.todo[i][1] : i \in DOMAIN r.todo}
HandsOf(r) == {p \in P : p = r.nextp \/ p = LpOf(r) \/ p \in TodoOf(r)}

(* No processor is in its hands twice.                                     *)
OnceInHands(r) ==
    /\ r.nextp # None => r.nextp # LpOf(r)
    /\ r.nextp \notin TodoOf(r) /\ LpOf(r) \notin TodoOf(r)
    /\ \A i, j \in DOMAIN r.todo : r.todo[i][1] = r.todo[j][1] => i = j

(* Places with a goroutine in lg, and those of a goroutine that runs or is *)
(* in a system call.                                                       *)
Holding == {"netgot", "reset", "gotg", "givep", "slk", "slk2", "slkwait"}
Running == {"user", "esys2", "esb2", "xsys3", "xsys4", "start3"} \cup Stopping \cup Stale

(* Its locals and what it holds.                                           *)
LocalsOf(r) ==
    /\ Cont(r) \in WithP => r.p # None
    /\ Cont(r) \notin WithP \cup Stale => r.p = None
    /\ r.pc = "esys3" => r.p # None
    /\ r.lp # None => r.pc \in {"startm", "newm", "smsub", "retake"} \cup Handing
    /\ r.pc \in {"newm", "retake"} \cup Handing => r.lp # None
    /\ r.todo # << >> => Cont(r) = "start3"
    /\ r.sp => r.pc \in {"startm", "unspin", "newm", "start2", "resize", "deal", "start3"}
    /\ r.pc = "unspin" => r.sp
    /\ r.pc = "none" => r.nextp = None /\ ~r.spinning
    /\ Cont(r) \in Holding => r.lg # None
    /\ Cont(r) \in Running => r.curg # None
    /\ r.pc = "pollgot" => r.glist # << >>
    /\ r.pc = "givep" => r.lm # None

Wf(r) == ReturnsOf(r) /\ LocalsOf(r) /\ OnceInHands(r)

PlaceInv == \A m \in M : Wf(ms[m])

(* Threads that somebody may wake have been created, within the limit.     *)
CreatedInv ==
    /\ Cardinality(Created) <= sched.maxmcount
    /\ \A i \in DOMAIN sched.midle : sched.midle[i] \in Created
    /\ \A g \in G : gs[g].lockedm # None => gs[g].lockedm \in Created
    /\ \A m \in M : /\ ms[m].lm # None => ms[m].lm \in Created /\ ms[m].lm # m
                    /\ \A i \in DOMAIN ms[m].todo :
                         ms[m].todo[i][2] # None => ms[m].todo[i][2] \in Created

(***************************************************************************)
(* Processors.                                                             *)
(***************************************************************************)
(* A processor that is in use and the thread that uses it know each other. *)
RunInv ==
    /\ \A m \in M : Cont(ms[m]) \in WithP =>
         /\ ps[ms[m].p].m = m
         /\ ps[ms[m].p].status = IF Cont(ms[m]) \in Stopping THEN "Pgcstop" ELSE "Prunning"
    /\ \A p \in P :
         /\ ps[p].m # None => ms[ps[p].m].p = p /\ Cont(ms[ps[p].m]) \in WithP
         /\ ps[p].status = "Prunning" => ps[p].m # None
         /\ ps[p].status = "Pdead" <=> p \notin Pos

(* The idle processors are dealt out between the list of idle ones and the *)
(* hands of the threads, none to two of them.                              *)
PidleSet == {sched.pidle[i] : i \in DOMAIN sched.pidle}

IdleInv ==
    /\ \A i, j \in DOMAIN sched.pidle : sched.pidle[i] = sched.pidle[j] => i = j
    /\ \A p \in P : ps[p].status = "Pidle" <=> p \in PidleSet \/ \E m \in M : p \in HandsOf(ms[m])
    /\ \A m \in M : HandsOf(ms[m]) \cap PidleSet = {}
    /\ \A m, x \in M : m # x => HandsOf(ms[m]) \cap HandsOf(ms[x]) = {}

(***************************************************************************)
(* Stopping the world.                                                     *)
(***************************************************************************)
(* Places before worldsema is released, and those after the wait.          *)
HoldingSema == {"stw1", "stwwait", "stwchk", "gc", "gcwait", "procs"}
Stopped0 == Stopping \ {"stw1", "stwwait"}

StillRunning == {p \in Pos : ps[p].status # "Pgcstop"}

StopInv ==
    /\ \A m, x \in M : Cont(ms[m]) \in Stopping /\ Cont(ms[x]) \in Stopping => m = x
    /\ sched.gcwaiting <=> \E m \in M : Cont(ms[m]) \in Stopping
    /\ sched.gcwaiting => sched.stopwait = Cardinality(StillRunning)
    /\ ~sched.gcwaiting => sched.stopwait = 0 /\ ~sched.stopnote /\ \A p \in P : ps[p].status # "Pgcstop"
    /\ sched.stopnote => sched.stopwait = 0
    /\ \A m \in M :
         /\ Cont(ms[m]) \in HoldingSema => ~sched.worldsema
         /\ Cont(ms[m]) \in Stopping /\ sched.stopnote => Cont(ms[m]) = "stwwait"
         /\ Cont(ms[m]) \in Stopped0 => sched.stopwait = 0

SchedOk == SchedTypes /\ PlaceInv /\ CreatedInv /\ SpinCount /\ RunInv /\ IdleInv /\ StopInv

SchedIInv == thrown = "none" => SchedOk
=============================================================================
