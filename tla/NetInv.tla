------------------------------- MODULE NetInv -------------------------------
(***************************************************************************)
(* The inductive invariant of NetFD: who holds a netFD, who owns a         *)
(* PollDesc, what a timer that has been set still means, and where the     *)
(* event is that a waiting goroutine waits for.                            *)
(***************************************************************************)
EXTENDS NetFD

(***************************************************************************)
(* Types                                                                   *)
(***************************************************************************)
Locking == {"prepare", "io", "wait", "parked", "woken", "unlock"}
Holding == Locking \cup {"use", "decref", "evict"}
Ending == {"destroy", "closesocket"}
Places == Holding \cup Ending \cup {"idle", "sema", "again"}
Results == {"none", "nil", "errClosing", "errTimeout"}
Mutexes == {"net", "raw"}
Raw == {"RawRead", "RawWrite", "RawControl"}

MuRec == [closed : BOOLEAN, lock : SUBSET Modes, ref : Nat, wait : [Modes -> Nat], sema : [Modes -> Nat]]
TimerRec == [fv : BOOLEAN, heap : BOOLEAN, modes : SUBSET Modes, seq : Nat]
PdRec == [fd : Fds, closing : BOOLEAN, seq : Nat, waits : [Modes -> Goroutines \cup {Nil, READY}],
          d : [Modes -> Int], t : [Modes -> TimerRec]]
FdRec == [pd : Nat \cup {Nil}, raw : Nat \cup {Nil}, sock : {"none", "open", "closed"}]
FiringRec == [pd : Nat, modes : SUBSET Modes, seq : Nat]
GRec == [pc : Places, i : Nat \ {0}, param : BOOLEAN, res : Results, n : Nat]
Counts == [Fds -> [Modes -> Nat]]
Events == SUBSET (Nat \X Modes)
NetRec == [avail : Counts, edges : Events, taken : Events, left : Counts]

NetTypes ==
    /\ nprog \in DOMAIN NetPrograms
    /\ fdmu \in [Fds -> [Mutexes -> MuRec]]
    /\ fd \in [Fds -> FdRec]
    /\ pds \in Seq(PdRec)
    /\ cache \in Seq(Nat)
    /\ net \in NetRec
    /\ firing \in SUBSET FiringRec
    /\ g \in [Goroutines -> GRec]
    /\ throw = "none"

(* What a goroutine in a call is doing fits the call.                      *)
OpsAt(pc) ==
    IF pc \in Locking \cup {"sema", "again"} THEN IO
    ELSE IF pc = "use" THEN Refs
    ELSE IF pc = "evict" THEN {"Close"}
    ELSE IF pc = "decref" THEN Refs \cup {"Close"}
    ELSE {"Read", "Write", "SetDeadline", "shutdown", "Close"}

InCall ==
    \A i \in Goroutines : g[i].pc # "idle" =>
      /\ g[i].i <= Len(NetPrograms[nprog].calls[i])
      /\ Call(i).op \in OpsAt(g[i].pc)
      /\ fd[Call(i).fd].sock # "none"

(***************************************************************************)
(* fdMutex: references and locks                                           *)
(***************************************************************************)
Uses(i, f, x) == Call(i).fd = f /\ Mutex(i) = x
Holders(f, x) == {i \in Goroutines : g[i].pc \in Holding /\ Uses(i, f, x)}

(* ref counts those who hold the mutex; who locks a mode is the only one.  *)
Counted == \A f \in Fds, x \in Mutexes : fdmu[f][x].ref = Cardinality(Holders(f, x))

Locked ==
    \A i \in Goroutines : g[i].pc \in Locking =>
      /\ Mode(i) \in Mu(i).lock
      /\ \A j \in Goroutines \ {i} :
           g[j].pc \in Locking /\ Uses(j, Call(i).fd, Mutex(i)) => Mode(j) # Mode(i)

(***************************************************************************)
(* The life of a netFD.  Whoever closes it evicts; the last one to leave   *)
(* it destroys it.                                                         *)
(***************************************************************************)
Closes(f) ==
    \E i \in Goroutines : \E k \in DOMAIN NetPrograms[nprog].calls[i] :
      NetPrograms[nprog].calls[i][k].op = "Close" /\ NetPrograms[nprog].calls[i][k].fd = f

Life ==
    \A f \in Fds :
      LET mu == fdmu[f]["net"] IN
      /\ ~fdmu[f]["raw"].closed
      /\ mu.closed => Closes(f) /\ fd[f].sock # "none"
      /\ ~mu.closed \/ mu.ref > 0 => fd[f].sock # "closed" /\ (fd[f].sock = "open" => fd[f].pd # Nil)
      /\ fd[f].sock = "none" => fd[f].pd = Nil

Evicts(i, f) == g[i].pc = "evict" /\ Call(i).fd = f
Closing ==
    \A f \in Fds : fd[f].pd # Nil =>
      pds[fd[f].pd].closing <=> fdmu[f]["net"].closed /\ \A i \in Goroutines : ~Evicts(i, f)
Evicting ==
    \A i \in Goroutines : g[i].pc = "evict" =>
      /\ fdmu[Call(i).fd]["net"].closed
      /\ \A j \in Goroutines \ {i} : ~Evicts(j, Call(i).fd)
Destroying ==
    \A i \in Goroutines : g[i].pc \in Ending =>
      LET f == Call(i).fd IN
      /\ fdmu[f]["net"].closed /\ fdmu[f]["net"].ref = 0
      /\ fd[f].sock = "open" /\ (g[i].pc = "destroy" <=> fd[f].pd # Nil)
      /\ \A j \in Goroutines \ {i} : ~(g[j].pc \in Ending /\ Call(j).fd = f)

(***************************************************************************)
(* PollDescs: each has one owner, or is in pollcache.                      *)
(***************************************************************************)
Owned ==
    \A f \in Fds : fd[f].pd # Nil =>
      /\ fd[f].pd \in DOMAIN pds /\ pds[fd[f].pd].fd = f
      /\ fd[f].raw = fd[f].pd
      /\ \A k \in DOMAIN cache : cache[k] # fd[f].pd
Cached ==
    /\ \A k \in DOMAIN cache : cache[k] \in DOMAIN pds /\ pds[cache[k]].closing
    /\ \A k, l \in DOMAIN cache : cache[k] = cache[l] => k = l

(* Who waits on a PollDesc is parked, and the other way round.             *)
Waiting ==
    /\ \A p \in DOMAIN pds, m \in Modes : \A i \in Goroutines :
         pds[p].waits[m] = i => g[i].pc = "parked" /\ Pd(i) = p /\ Mode(i) = m
    /\ \A i \in Goroutines : g[i].pc = "parked" => pds[Pd(i)].waits[Mode(i)] = i

(***************************************************************************)
(* Timers: one that is set belongs to the present deadlines; one that      *)
(* fires and is not stale is the one that is set.                          *)
(***************************************************************************)
First(ms) == IF "r" \in ms THEN "r" ELSE "w"
TimerFits(pd) ==
    /\ pd.closing => \A m \in Modes : ~pd.t[m].fv
    /\ \A m \in Modes :
         /\ pd.t[m].heap => pd.t[m].fv
         /\ pd.t[m].fv => /\ pd.t[m].seq = pd.seq /\ pd.t[m].modes # {} /\ First(pd.t[m].modes) = m
                          /\ \A k \in pd.t[m].modes : pd.d[k] > 0
    /\ pd.t["r"].fv /\ pd.t["w"].fv => "w" \notin pd.t["r"].modes
FiringFits(t, pd) ==
    /\ t.modes # {} /\ t.seq <= pd.seq
    /\ t.seq = pd.seq =>
         LET q == pd.t[First(t.modes)] IN q.fv /\ ~q.heap /\ q.modes = t.modes
TimersFit ==
    /\ \A p \in DOMAIN pds : TimerFits(pds[p])
    /\ \A t \in firing : t.pd \in DOMAIN pds /\ FiringFits(t, pds[t.pd])

(***************************************************************************)
(* Events                                                                  *)
(***************************************************************************)
Signalled(p, m) == <<p, m>> \in net.edges \cup net.taken \/ pds[p].waits[m] = READY
Awaits(r) == r.pc \in {"wait", "parked"} \/ (r.pc = "woken" /\ ~r.param)
EdgesKept ==
    \A i \in Goroutines :
      Awaits(g[i]) /\ net.avail[Call(i).fd][Mode(i)] > 0 => Signalled(Pd(i), Mode(i))
EventsFit == \A e \in net.edges \cup net.taken : e[1] \in DOMAIN pds

NetIInv ==
    /\ NetTypes /\ InCall
    /\ Counted /\ Locked
    /\ Life /\ Closing /\ Evicting /\ Destroying
    /\ Owned /\ Cached /\ Waiting
    /\ TimersFit /\ EdgesKept /\ EventsFit

(***************************************************************************)
(* What the theorems ask of the programs: a connection on which raw calls  *)
(* are made is not closed meanwhile, and not read, or written, both ways.  *)
(***************************************************************************)
Apart(a, b) ==
    a.fd = b.fd =>
      /\ ~(a.op \in Raw /\ b.op = "Close")
      /\ ~(a.op = "RawRead" /\ b.op = "Read")
      /\ ~(a.op = "RawWrite" /\ b.op = "Write")
RawAlone ==
    \A p \in DOMAIN NetPrograms :
      \A i, j \in Goroutines :
        \A k \in DOMAIN NetPrograms[p].calls[i], l \in DOMAIN NetPrograms[p].calls[j] :
          Apart(NetPrograms[p].calls[i][k], NetPrograms[p].calls[j][l])
=============================================================================
