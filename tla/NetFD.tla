------------------------------- MODULE NetFD -------------------------------
(***************************************************************************)
(* Network descriptors: netFD and fdMutex (src/pkg/net/fd_unix.go,         *)
(* fd_mutex.go), the raw connections of FD (fd_unix_pfd_compatible.go),    *)
(* and the poller's PollDescs (fd_poll_runtime.go, runtime/netpoll.goc).   *)
(*                                                                         *)
(* Goroutines read, write, set deadlines on and close connections, of      *)
(* which the later ones take over the PollDescs of those closed before.    *)
(* A compare-and-swap loop of fdMutex is one step, for what it decides on  *)
(* is what it swaps; so is what is done under a PollDesc's lock.  netFD    *)
(* has a fdMutex, and the FD in it has another.                            *)
(***************************************************************************)
EXTENDS Integers, Sequences, FiniteSets

CONSTANTS
    Goroutines,  \* numbered from 1
    Fds,         \* the netFDs, numbered; 1 is open at first, a call opens another
    NetPrograms, \* a sequence; each: calls[g], and arrivals, what the network may do
    Nil

Modes == {"r", "w"}

IO == {"Read", "Write", "RawRead", "RawWrite"}
Refs == {"SetDeadline", "RawControl", "shutdown"}
NetCalls ==
    [op : IO \cup {"RawControl", "shutdown", "Close", "Open"}, fd : Fds, n : Nat]
      \cup [op : {"SetDeadline"}, fd : Fds, modes : SUBSET Modes, d : Int]

ASSUME NetConstants ==
    /\ Goroutines \subseteq Nat \ {0} /\ IsFiniteSet(Goroutines)
    /\ 1 \in Fds
    /\ Nil \notin (Nat \ {0}) \cup {-1}
    /\ \A k \in DOMAIN NetPrograms :
         /\ \A i \in Goroutines : NetPrograms[k].calls[i] \in Seq(NetCalls)
         /\ NetPrograms[k].arrivals \in [Fds -> [Modes -> Nat]]

VARIABLES
    nprog,      \* the number of the program that is run
    fdmu,       \* fdmu[f][x]: the fdMutexes of netFD f ("net") and of its FD ("raw")
    fd,         \* fd[f]: the pd of netFD f, that of its FD, and the socket
    pds,        \* pds[p]: the PollDescs
    cache,      \* pollcache
    net,        \* the kernel: what can be transferred, and epoll's events
    firing,     \* timers taken off the heap whose functions have not run yet
    g,          \* g[i]: where goroutine i is
    throw       \* what was thrown, if anything

nvars == <<nprog, fdmu, fd, pds, cache, net, firing, g, throw>>

FreeMutex == [closed |-> FALSE, lock |-> {}, ref |-> 0, wait |-> [m \in Modes |-> 0],
              sema |-> [m \in Modes |-> 0]]
NoTimer == [fv |-> FALSE, heap |-> FALSE, modes |-> {}, seq |-> 0]
NewPd == [fd |-> Nil, closing |-> FALSE, seq |-> 0, waits |-> [m \in Modes |-> Nil],
          d |-> [m \in Modes |-> 0], t |-> [m \in Modes |-> NoTimer]]
Opened(pd, f) ==
    [pd EXCEPT !.fd = f, !.closing = FALSE, !.seq = @ + 1, !.waits = [m \in Modes |-> Nil],
               !.d = [m \in Modes |-> 0]]

NetInit ==
    /\ nprog \in DOMAIN NetPrograms
    /\ fdmu = [f \in Fds |-> [x \in {"net", "raw"} |-> FreeMutex]]
    /\ fd = [f \in Fds |-> IF f = 1 THEN [pd |-> 1, raw |-> 1, sock |-> "open"]
                                    ELSE [pd |-> Nil, raw |-> Nil, sock |-> "none"]]
    /\ pds = <<Opened(NewPd, 1)>>
    /\ cache = << >>
    /\ net = [avail |-> [f \in Fds |-> [m \in Modes |-> 0]], edges |-> {}, taken |-> {},
              left |-> NetPrograms[nprog].arrivals]
    /\ firing = {}
    /\ g = [i \in Goroutines |-> [pc |-> "idle", i |-> 1, param |-> FALSE, res |-> "none", n |-> 0]]
    /\ throw = "none"

Call(i) == NetPrograms[nprog].calls[i][g[i].i]
At(i, label) == g[i].pc = label
Goto(i, label) == g' = [g EXCEPT ![i].pc = label]
Return(i, res) == g' = [g EXCEPT ![i].pc = "idle", ![i].i = @ + 1, ![i].res = res, ![i].n = 0]

Does(i, ops) == Call(i).op \in ops
Mode(i) == IF Does(i, {"Read", "RawRead"}) THEN "r" ELSE "w"
Mutex(i) == IF Does(i, {"RawRead", "RawWrite", "RawControl"}) THEN "raw" ELSE "net"

(* The PollDesc that i's call uses: FD has a copy of netFD's pointer.      *)
Pd(i) == IF Mutex(i) = "raw" THEN fd[Call(i).fd].raw ELSE fd[Call(i).fd].pd

Mu(i) == fdmu[Call(i).fd][Mutex(i)]
SetMu(i, mu) == fdmu' = [fdmu EXCEPT ![Call(i).fd][Mutex(i)] = mu]

(***************************************************************************)
(* fdMutex                                                                 *)
(***************************************************************************)

(* A call begins with RWLock, Incref or IncrefAndClose.                    *)
Ready(i) ==
    /\ At(i, "idle") /\ g[i].i <= Len(NetPrograms[nprog].calls[i])
    /\ Does(i, {"Open"}) <=> fd[Call(i).fd].sock = "none"

RWLock(i) ==
    LET mu == Mu(i)  m == Mode(i) IN
    /\ \/ Ready(i) /\ Does(i, IO)
       \/ At(i, "again")
    /\ IF mu.closed THEN Return(i, "errClosing") /\ UNCHANGED fdmu
       ELSE IF m \notin mu.lock
       THEN SetMu(i, [mu EXCEPT !.lock = @ \cup {m}, !.ref = @ + 1]) /\ Goto(i, "prepare")
       ELSE SetMu(i, [mu EXCEPT !.wait[m] = @ + 1]) /\ Goto(i, "sema")
    /\ UNCHANGED <<nprog, fd, pds, cache, net, firing, throw>>

Semacquire(i) ==
    /\ At(i, "sema") /\ Mu(i).sema[Mode(i)] > 0
    /\ SetMu(i, [Mu(i) EXCEPT !.sema[Mode(i)] = @ - 1])
    /\ Goto(i, "again")
    /\ UNCHANGED <<nprog, fd, pds, cache, net, firing, throw>>

Incref(i) ==
    /\ Ready(i) /\ Does(i, Refs)
    /\ IF Mu(i).closed THEN Return(i, "errClosing") /\ UNCHANGED fdmu
       ELSE SetMu(i, [Mu(i) EXCEPT !.ref = @ + 1]) /\ Goto(i, "use")
    /\ UNCHANGED <<nprog, fd, pds, cache, net, firing, throw>>

WakeAll(mu) ==
    [mu EXCEPT !.wait = [m \in Modes |-> 0], !.sema = [m \in Modes |-> @[m] + mu.wait[m]]]

IncrefAndClose(i) ==
    /\ Ready(i) /\ Does(i, {"Close"})
    /\ IF Mu(i).closed THEN Return(i, "errClosing") /\ UNCHANGED fdmu
       ELSE SetMu(i, [WakeAll(Mu(i)) EXCEPT !.closed = TRUE, !.ref = @ + 1]) /\ Goto(i, "evict")
    /\ UNCHANGED <<nprog, fd, pds, cache, net, firing, throw>>

(* Mutant: who leaves a closed netFD destroys it.                          *)
LastRef_Any(mu) == mu.closed

LastRef(mu) == mu.closed /\ mu.ref = 0

(* Only netFD's destroy does something; FD's is empty.                     *)
Leave(i, mu) ==
    /\ SetMu(i, mu)
    /\ IF LastRef(mu) /\ Mutex(i) = "net" THEN Goto(i, "destroy") ELSE Return(i, g[i].res)

Decref(i) ==
    /\ At(i, "decref")
    /\ Leave(i, [Mu(i) EXCEPT !.ref = @ - 1])
    /\ throw' = IF Mu(i).ref = 0 THEN "inconsistent fdMutex" ELSE throw
    /\ UNCHANGED <<nprog, fd, pds, cache, net, firing>>

RWUnlock(i) ==
    LET mu == Mu(i)  m == Mode(i)  one == IF mu.wait[m] > 0 THEN 1 ELSE 0 IN
    /\ At(i, "unlock")
    /\ Leave(i, [mu EXCEPT !.lock = @ \ {m}, !.ref = @ - 1, !.wait[m] = @ - one, !.sema[m] = @ + one])
    /\ throw' = IF m \notin mu.lock \/ mu.ref = 0 THEN "inconsistent fdMutex" ELSE throw
    /\ UNCHANGED <<nprog, fd, pds, cache, net, firing>>

(***************************************************************************)
(* netpoll.goc: the goroutine that waits, READY, and deadlines             *)
(***************************************************************************)
READY == -1
Blocked(pd, m) == pd.waits[m] \notin {Nil, READY}

checkerr(pd, m) == IF pd.closing THEN "errClosing" ELSE IF pd.d[m] < 0 THEN "errTimeout" ELSE "nil"

(* Mutant: an event that nobody waits for is forgotten.                    *)
Unblocked_Dropped(w, ioready) == Nil

Unblocked(w, ioready) == IF w = READY \/ (w = Nil /\ ioready) THEN READY ELSE Nil

(* netpollunblock for the modes ms, and runtime.ready of those who waited. *)
netpollunblock(pd, ms, ioready) ==
    [pd EXCEPT !.waits = [m \in Modes |-> IF m \in ms THEN Unblocked(@[m], ioready) ELSE @[m]]]

Woken(pd, ms, ioready) ==
    LET who == {pd.waits[m] : m \in {k \in ms : Blocked(pd, k)}} IN
    [i \in Goroutines |-> IF i \in who THEN [g[i] EXCEPT !.pc = "woken", !.param = ioready] ELSE g[i]]

SetPd(p, pd) == pds' = [pds EXCEPT ![p] = pd]

(* pollReset                                                               *)
Prepare(i) ==
    LET p == Pd(i)  e == checkerr(pds[p], Mode(i)) IN
    /\ At(i, "prepare")
    /\ IF e = "nil" THEN SetPd(p, [pds[p] EXCEPT !.waits[Mode(i)] = Nil]) /\ Goto(i, "io")
       ELSE g' = [g EXCEPT ![i].pc = "unlock", ![i].res = e] /\ UNCHANGED pds
    /\ UNCHANGED <<nprog, fdmu, fd, cache, net, firing, throw>>

(* netpollblock, or the error that ends pollWait.                          *)
Block(i, e) ==
    LET p == Pd(i)  m == Mode(i)  w == pds[p].waits[m] IN
    IF e # "nil"
    THEN g' = [g EXCEPT ![i].pc = "unlock", ![i].res = e] /\ UNCHANGED <<pds, throw>>
    ELSE /\ SetPd(p, [pds[p] EXCEPT !.waits[m] = IF w = READY THEN Nil ELSE i])
         /\ Goto(i, IF w = READY THEN "io" ELSE "parked")
         /\ throw' = IF w \in {Nil, READY} THEN throw ELSE "double wait"

pollWait(i) ==
    /\ At(i, "wait")
    /\ Block(i, checkerr(pds[Pd(i)], Mode(i)))
    /\ UNCHANGED <<nprog, fdmu, fd, cache, net, firing>>

(* Woken by I/O, or else by a deadline or a close, which may have been     *)
(* taken back.                                                             *)
pollWoken(i) ==
    /\ At(i, "woken")
    /\ IF g[i].param THEN Goto(i, "io") /\ UNCHANGED <<pds, throw>>
       ELSE Block(i, checkerr(pds[Pd(i)], Mode(i)))
    /\ UNCHANGED <<nprog, fdmu, fd, cache, net, firing>>

(* The timers for deadlines d: one for both if they are the same.          *)
NewTimers(d, seq) ==
    LET on(ms) == [fv |-> TRUE, heap |-> TRUE, modes |-> ms, seq |-> seq] IN
    IF d["r"] > 0 /\ d["r"] = d["w"]
    THEN [m \in Modes |-> IF m = "r" THEN on(Modes) ELSE NoTimer]
    ELSE [m \in Modes |-> IF d[m] > 0 THEN on({m}) ELSE NoTimer]

pollSetDeadline(i) ==
    LET p == Pd(i)  pd == pds[p]  ms == Call(i).modes
        d == [m \in Modes |-> IF m \in ms THEN Call(i).d ELSE pd.d[m]]
        past == {m \in Modes : d[m] < 0}
        new == [pd EXCEPT !.seq = @ + 1, !.d = d, !.t = NewTimers(d, pd.seq + 1)]
    IN  /\ At(i, "use") /\ Does(i, {"SetDeadline"})
        /\ IF pd.closing THEN Goto(i, "decref") /\ UNCHANGED pds
           ELSE /\ SetPd(p, netpollunblock(new, past, FALSE))
                /\ g' = [Woken(pd, past, FALSE) EXCEPT ![i].pc = "decref"]
        /\ UNCHANGED <<nprog, fdmu, fd, cache, net, firing, throw>>

(* Evict                                                                   *)
pollUnblock(i) ==
    LET p == Pd(i)  pd == pds[p] IN
    /\ At(i, "evict")
    /\ SetPd(p, netpollunblock([pd EXCEPT !.closing = TRUE, !.seq = @ + 1, !.t = [m \in Modes |-> NoTimer]],
                               Modes, FALSE))
    /\ g' = [Woken(pd, Modes, FALSE) EXCEPT ![i].pc = "decref"]
    /\ throw' = IF pd.closing THEN "already closing" ELSE throw
    /\ UNCHANGED <<nprog, fdmu, fd, cache, net, firing>>

(* timerproc takes a timer off the heap and copies its function and arg;   *)
(* the function, deadlineimpl, runs later, without the lock of timers.     *)
Expire(p, m) ==
    LET t == pds[p].t[m] IN
    /\ t.heap
    /\ SetPd(p, [pds[p] EXCEPT !.t[m].heap = FALSE])
    /\ firing' = firing \cup {[pd |-> p, modes |-> t.modes, seq |-> t.seq]}
    /\ UNCHANGED <<nprog, fdmu, fd, cache, net, g, throw>>

(* The code's copy of seq has 32 bits: it would be fooled by a PollDesc    *)
(* that is reopened or set 2^32 times while the function is under way.     *)
Stale(t) == t.seq # pds[t.pd].seq

deadlineimpl(t) ==
    LET pd == pds[t.pd]
        new == [pd EXCEPT !.d = [m \in Modes |-> IF m \in t.modes THEN -1 ELSE @[m]],
                          !.t = [m \in Modes |-> IF m \in t.modes THEN [@[m] EXCEPT !.fv = FALSE] ELSE @[m]]]
        bad == \/ \E m \in t.modes : pd.d[m] <= 0
               \/ ~pd.t[IF "r" \in t.modes THEN "r" ELSE "w"].fv
    IN  /\ t \in firing
        /\ firing' = firing \ {t}
        /\ IF Stale(t) THEN UNCHANGED <<pds, g, throw>>
           ELSE /\ SetPd(t.pd, netpollunblock(new, t.modes, FALSE))
                /\ g' = Woken(pd, t.modes, FALSE)
                /\ throw' = IF bad THEN "inconsistent deadline" ELSE throw
        /\ UNCHANGED <<nprog, fdmu, fd, cache, net>>

(***************************************************************************)
(* Opening and destroying                                                  *)
(***************************************************************************)

(* pollOpen with the first PollDesc of pollcache, or a new one.  That      *)
(* epoll_ctl fails, and the call returns an error, is left out.            *)
Open(i) ==
    LET f == Call(i).fd
        p == IF cache # << >> THEN Head(cache) ELSE Len(pds) + 1
        old == IF cache # << >> THEN pds[p] ELSE NewPd
    IN  /\ Ready(i) /\ Does(i, {"Open"})
        /\ cache' = IF cache # << >> THEN Tail(cache) ELSE cache
        /\ pds' = IF cache # << >> THEN [pds EXCEPT ![p] = Opened(old, f)] ELSE Append(pds, Opened(old, f))
        /\ fd' = [fd EXCEPT ![f] = [pd |-> p, raw |-> p, sock |-> "open"]]
        /\ throw' = IF \E m \in Modes : Blocked(old, m) THEN "blocked on free descriptor" ELSE throw
        /\ Return(i, "nil")
        /\ UNCHANGED <<nprog, fdmu, net, firing>>

pollClose(i) ==
    LET f == Call(i).fd  p == fd[f].pd IN
    /\ At(i, "destroy")
    /\ IF p = Nil THEN UNCHANGED <<fd, cache, net, throw>>
       ELSE /\ throw' = IF ~pds[p].closing \/ \E m \in Modes : Blocked(pds[p], m)
                        THEN "pollClose" ELSE throw
            /\ net' = [net EXCEPT !.edges = {e \in @ : e[1] # p}]
            /\ cache' = <<p>> \o cache
            /\ fd' = [fd EXCEPT ![f].pd = Nil]
    /\ Goto(i, "closesocket")
    /\ UNCHANGED <<nprog, fdmu, pds, firing>>

closesocket(i) ==
    /\ At(i, "closesocket")
    /\ fd' = [fd EXCEPT ![Call(i).fd].sock = "closed"]
    /\ throw' = IF fd[Call(i).fd].sock = "closed" THEN "closed twice" ELSE throw
    /\ Return(i, g[i].res)
    /\ UNCHANGED <<nprog, fdmu, pds, cache, net, firing>>

(***************************************************************************)
(* The system calls, the network and epoll                                 *)
(***************************************************************************)
Transfer(i) ==
    LET f == Call(i).fd  m == Mode(i)  done == g[i].n + 1 >= Call(i).n IN
    /\ At(i, "io")
    /\ IF net.avail[f][m] > 0
       THEN /\ net' = [net EXCEPT !.avail[f][m] = @ - 1]
            /\ g' = IF done THEN [g EXCEPT ![i].pc = "unlock", ![i].res = "nil"]
                            ELSE [g EXCEPT ![i].n = @ + 1]
       ELSE Goto(i, "wait") /\ UNCHANGED net
    /\ UNCHANGED <<nprog, fdmu, fd, pds, cache, firing, throw>>

(* shutdown, or the function that RawControl was given.                    *)
Control(i) ==
    /\ At(i, "use") /\ Does(i, {"RawControl", "shutdown"})
    /\ Goto(i, "decref")
    /\ UNCHANGED <<nprog, fdmu, fd, pds, cache, net, firing, throw>>

(* Data or room: an event if the socket is registered.                     *)
Arrive(f, m) ==
    /\ fd[f].sock = "open" /\ net.left[f][m] > 0
    /\ net' = [net EXCEPT !.avail[f][m] = @ + 1, !.left[f][m] = @ - 1,
                          !.edges = IF fd[f].pd = Nil THEN @ ELSE @ \cup {<<fd[f].pd, m>>}]
    /\ UNCHANGED <<nprog, fdmu, fd, pds, cache, firing, g, throw>>

(* runtime.netpoll takes an event from the kernel and passes it on to      *)
(* netpollready; one for both modes is taken as two.                       *)
epollwait(e) ==
    /\ e \in net.edges
    /\ net' = [net EXCEPT !.edges = @ \ {e}, !.taken = @ \cup {e}]
    /\ UNCHANGED <<nprog, fdmu, fd, pds, cache, firing, g, throw>>

(* The PollDesc may belong to another connection by now.                   *)
netpollready(e) ==
    /\ e \in net.taken
    /\ net' = [net EXCEPT !.taken = @ \ {e}]
    /\ SetPd(e[1], netpollunblock(pds[e[1]], {e[2]}, TRUE))
    /\ g' = Woken(pds[e[1]], {e[2]}, TRUE)
    /\ UNCHANGED <<nprog, fdmu, fd, cache, firing, throw>>

NetProgress ==
    \/ \E i \in Goroutines :
         \/ RWLock(i) \/ Semacquire(i) \/ Incref(i) \/ IncrefAndClose(i) \/ Decref(i) \/ RWUnlock(i)
         \/ Prepare(i) \/ pollWait(i) \/ pollWoken(i) \/ pollSetDeadline(i) \/ pollUnblock(i)
         \/ Open(i) \/ pollClose(i) \/ closesocket(i) \/ Transfer(i) \/ Control(i)
    \/ \E p \in DOMAIN pds, m \in Modes :
         \/ Expire(p, m)
         \/ epollwait(<<p, m>>) \/ netpollready(<<p, m>>)
    \/ \E t \in firing : deadlineimpl(t)

NetNext ==
    /\ throw = "none"
    /\ NetProgress \/ \E f \in Fds, m \in Modes : Arrive(f, m)

NetSpec == NetInit /\ [][NetNext]_nvars

(***************************************************************************)
(* Properties                                                              *)
(***************************************************************************)

(* No runtime throw or panic: no two goroutines wait on one side of a      *)
(* PollDesc, none waits on a freed one, no stale timer finds a deadline,   *)
(* the counts of a fdMutex are right and a socket is closed once.  It      *)
(* holds of programs that satisfy RawAlone, in which no raw call shares    *)
(* its descriptor with a Close or with a Read or Write of its mode: raw    *)
(* calls have an fdMutex of their own.                                     *)
NoThrow == throw = "none"

(* Whoever is about to use the socket or its PollDesc finds it open and    *)
(* its own: it is not closed, and perhaps reused, under a call's feet.     *)
FdValid ==
    \A i \in Goroutines :
      g[i].pc \in {"prepare", "io", "wait", "parked", "woken", "use", "evict"} =>
        /\ fd[Call(i).fd].sock = "open"
        /\ Pd(i) # Nil /\ pds[Pd(i)].fd = Call(i).fd

(* A goroutine that waits while the socket is ready has an event on its    *)
(* way to it: no edge is lost between EAGAIN and the wait, nor by a        *)
(* deadline, a reset or the reuse of the PollDesc.                         *)
NoLostEdge ==
    \A i \in Goroutines :
      At(i, "parked") /\ net.avail[Call(i).fd][Mode(i)] > 0 =>
        <<Pd(i), Mode(i)>> \in net.edges \cup net.taken

(* Close ends every call on the connection, wherever it waits, and then    *)
(* closes the socket.                                                      *)
CloseEnds ==
    <>[](\A f \in Fds : fdmu[f]["net"].closed =>
           /\ fd[f].sock = "closed"
           /\ \A i \in Goroutines : At(i, "idle") \/ Call(i).fd # f)

(* The poller's checks hold, and it loses no edge.                         *)
PollSafe == NoThrow /\ NoLostEdge
=============================================================================
