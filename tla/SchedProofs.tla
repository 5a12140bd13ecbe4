---------------------------- MODULE SchedProofs ----------------------------
(***************************************************************************)
(* Proofs about the scheduler, for any threads, processors and programs:   *)
(* the actions that give a processor up, hand it over, stop it, start      *)
(* threads, stop and start the world keep SchedIInv as well, so that it is *)
(* an invariant, and SpinCount, OneUser and WorldStopped follow from it.   *)
(***************************************************************************)
EXTENDS SchedMoves

(***************************************************************************)
(* Steps in which a thread gives a processor up, and those that stop one.  *)
(***************************************************************************)
(* An idle processor p goes from one to another; all else stays.           *)
LEMMA PassStep ==
    ASSUME SchedOk, ms' \in [M -> MRec], ps' = ps, SchedRest, gs' \in [G -> GRec], netready' \subseteq G,
           CreatedInv', SpinCount', Injective(sched'.pidle), NEW p \in P, ps[p].status = "Pidle",
           \A x \in M : /\ Wf(ms'[x]) /\ SameStop(ms[x], ms'[x]) /\ (Runs(ms'[x]) <=> Runs(ms[x]))
                        /\ Runs(ms[x]) => ms'[x].p = ms[x].p,
           \A q \in P : q # p =>
             /\ q \in SetOf(sched'.pidle) <=> q \in SetOf(sched.pidle)
             /\ \A x \in M : q \in HandsOf(ms'[x]) <=> q \in HandsOf(ms[x]),
           \/ p \in SetOf(sched'.pidle) /\ \A x \in M : p \notin HandsOf(ms'[x])
           \/ /\ p \notin SetOf(sched'.pidle)
              /\ \E y \in M : p \in HandsOf(ms'[y]) /\ \A x \in M : x # y => p \notin HandsOf(ms'[x])
    PROVE  SchedOk'
<1>1. SchedTypes /\ PlaceInv /\ RunInv /\ IdleInv /\ StopInv /\ ps \in [P -> PRec]
  BY DEF SchedOk, SchedTypes
<1>2. SchedTypes'
  BY <1>1 DEF SchedTypes, SchedRest
<1>3. PlaceInv'
  BY DEF PlaceInv
<1>4. RunInv'
  <2>1. \A x \in M : Stops(ms'[x]) <=> Stops(ms[x])
    BY DEF SameStop
  <2> QED BY <1>1, <2>1, RunKept DEF SchedRest
<1>5. IdleInv'
  BY <1>1, IdleStep
<1>6. StopInv'
  BY <1>1, StopKept DEF SchedRest, SameStop
<1> QED BY <1>2, <1>3, <1>4, <1>5, <1>6 DEF SchedOk

(* Thread m gives up its processor p: into its own hands, to the list of   *)
(* idle ones, or to whoever takes it while m is in a system call.          *)
LEMMA ReleaseStep ==
    ASSUME SchedOk, thrown = "none", NEW m \in M, NEW s \in MRec, Wf(s), ms' = [ms EXCEPT ![m] = s],
           NEW p, p = ms[m].p, NEW h \in PRec, h.m = None, ps' = [ps EXCEPT ![p] = h],
           Runs(ms[m]), ~Stops(ms[m]), ~Runs(s), s.nextp = ms[m].nextp, SameBorn(ms[m], s), SameSpin(ms[m], s),
           SchedRest, sched'.midle = sched.midle, sched'.nmspinning = sched.nmspinning,
           GsSame, netready' \subseteq G,
           \/ h.status = "Pidle" /\ LpOf(ms[m]) = None /\ LpOf(s) = p /\ sched'.pidle = sched.pidle
           \/ h.status = "Pidle" /\ LpOf(s) = LpOf(ms[m]) /\ sched'.pidle = <<p>> \o sched.pidle
           \/ h.status = "Psyscall" /\ LpOf(s) = LpOf(ms[m]) /\ sched'.pidle = sched.pidle
    PROVE  SchedOk'
<1>1. SchedTypes /\ PlaceInv /\ CreatedInv /\ SpinCount /\ RunInv /\ IdleInv /\ StopInv
      /\ ms \in [M -> MRec] /\ ps \in [P -> PRec]
  BY DEF SchedOk, SchedTypes
<1>2. ms' \in [M -> MRec] /\ ms'[m] = s /\ \A x \in M : x # m => ms'[x] = ms[x]
  BY <1>1
<1>3. p \in P /\ ps[p].status = "Prunning"
  BY RunsHasP DEF Runs, Stops
<1>4. ps' \in [P -> PRec] /\ ps'[p] = h /\ \A q \in P : q # p => ps'[q] = ps[q]
  BY <1>1, <1>3
<1>5. sched.pidle \in Seq(P) /\ Injective(sched.pidle) /\ None \notin P
  BY <1>1, Consts, IdleIs DEF SchedTypes, SRec
<1>6. p \notin SetOf(sched.pidle) /\ \A x \in M : p \notin HandsOf(ms[x])
  BY <1>3, HandIdle, ListIdle
<1>7. SchedTypes' /\ PlaceInv'
  BY <1>1, <1>2, <1>4 DEF SchedTypes, SchedRest, GsSame, PlaceInv
<1>8. CreatedInv'
  <2>1. \A x \in M : SameBorn(ms[x], ms'[x])
    BY <1>2 DEF SameBorn
  <2> QED BY <1>1, <2>1, CreatedSame DEF SchedRest
<1>9. SpinCount'
  <2>1. \A x \in M : (ms'[x].spinning <=> ms[x].spinning) /\ (Starts(ms'[x]) <=> Starts(ms[x]))
    BY <1>2 DEF SameSpin
  <2> QED BY <1>1, <2>1, SpinKept
<1>10. RunInv'
  <2>1. \A x \in M : x # m => /\ (Runs(ms'[x]) <=> Runs(ms[x])) /\ (Stops(ms'[x]) <=> Stops(ms[x]))
                              /\ ms'[x].p = ms[x].p
    BY <1>2
  <2> QED BY <1>1, <1>2, <1>4, <2>1, RunRelease DEF SchedRest
<1>11. StopInv'
  <2>1. ~Stops(s)
    BY StopsRuns
  <2>2. \A x \in M : /\ (Stops(ms'[x]) <=> Stops(ms[x]))
                     /\ Cont(ms'[x]) \in HoldingSema => Cont(ms[x]) \in HoldingSema
                     /\ Cont(ms'[x]) \in Stopped0 => Cont(ms[x]) \in Stopped0
                     /\ Cont(ms[x]) = "stwwait" => Cont(ms'[x]) = "stwwait"
    BY <1>2, <2>1, StopSets DEF Stops, Stopping
  <2>3. \A q \in P : ps'[q].status = "Pgcstop" <=> ps[q].status = "Pgcstop"
    BY <1>3, <1>4
  <2> QED BY <1>1, <2>2, <2>3, StopKept DEF SchedRest
<1>12. IdleInv'
  <2>1. TodoOf(s) = TodoOf(ms[m])
    BY DEF SameBorn, TodoOf
  <2>2. \A q \in P : q # p => (q \in HandsOf(s) <=> q \in HandsOf(ms[m]))
    BY <1>5, <2>1, InHands
  <2>3. \A q \in P : q # p => \A x \in M : q \in HandsOf(ms'[x]) <=> q \in HandsOf(ms[x])
    BY <1>2, <2>2
  <2>4. \A q \in P : q # p => (ps'[q].status = "Pidle" <=> ps[q].status = "Pidle")
    BY <1>4
  <2>5. CASE h.status = "Pidle" /\ LpOf(s) = p /\ sched'.pidle = sched.pidle
    <3>1. p \in HandsOf(s)
      BY <1>3, <2>5, InHands
    <3> QED BY <1>1, <1>2, <1>3, <1>4, <1>5, <1>6, <2>3, <2>4, <2>5, <3>1, IdleStep
  <2>6. CASE h.status = "Pidle" /\ LpOf(s) = LpOf(ms[m]) /\ sched'.pidle = <<p>> \o sched.pidle
    <3>1. p \notin HandsOf(s)
      BY <1>6, <2>1, <2>6, InHands
    <3>2. Injective(sched'.pidle) /\ \A q : q \in SetOf(sched'.pidle) <=> q = p \/ q \in SetOf(sched.pidle)
      BY <1>3, <1>5, <1>6, <2>6, PidleCons
    <3>3. \A x \in M : p \notin HandsOf(ms'[x])
      BY <1>2, <1>6, <3>1
    <3> QED BY <1>1, <1>3, <1>4, <2>3, <2>4, <2>6, <3>2, <3>3, IdleStep
  <2>7. CASE h.status = "Psyscall" /\ LpOf(s) = LpOf(ms[m]) /\ sched'.pidle = sched.pidle
    <3>1. p \notin HandsOf(s)
      BY <1>6, <2>1, <2>7, InHands
    <3>3. \A x \in M : p \notin HandsOf(ms'[x])
      BY <1>2, <1>6, <3>1
    <3> QED BY <1>1, <1>3, <1>4, <1>5, <1>6, <2>3, <2>4, <2>7, <3>3, IdleStep
  <2> QED BY <2>5, <2>6, <2>7
<1> QED BY <1>7, <1>8, <1>9, <1>10, <1>11, <1>12 DEF SchedOk

(***************************************************************************)
(* A processor stops.                                                      *)
(***************************************************************************)
LEMMA StillFinite ==
    ASSUME SchedTypes
    PROVE  StillRunning \subseteq Pos /\ IsFiniteSet(StillRunning) /\ Cardinality(StillRunning) \in Nat
<1>1. StillRunning \subseteq Pos /\ IsFiniteSet(StillRunning)
  BY PosInP, FS_Subset DEF StillRunning
<1> QED BY <1>1, FS_CardinalityType

(* Only the place itself goes on at stw1.                                  *)
LEMMA AtStw1 ==
    ASSUME NEW r, Wf(r), Cont(r) = "stw1"
    PROVE  r.pc = "stw1"
BY DEF Wf, ReturnsOf, Cont, Calls, Injecting, Handing, HandoffRets, WakeRets

(* While sched is not locked and somebody has still to stop, the thread    *)
(* that stops the world waits.                                             *)
LEMMA StopperWaits ==
    ASSUME SchedOk, SchedFree, sched.stopwait # 0, NEW x \in M, Stops(ms[x])
    PROVE  Cont(ms[x]) = "stwwait"
<1>1. Wf(ms[x]) /\ ms[x].pc # "stw1"
  BY Thread DEF SchedFree
<1>2. Cont(ms[x]) # "stw1"
  BY <1>1, AtStw1
<1>3. Cont(ms[x]) \notin Stopped0
  BY DEF SchedOk, StopInv
<1> QED BY <1>2, <1>3 DEF Stops, Stopped0

(* One more processor has stopped: stopwait goes down with it, and the     *)
(* one that takes it to 0 sets stopnote.                                   *)
LEMMA StopOne ==
    ASSUME SchedOk, sched.gcwaiting, NEW p \in Pos, ps[p].status # "Pgcstop", ps'[p].status = "Pgcstop",
           \A q \in P : q # p => ps'[q].status = ps[q].status,
           sched'.gomaxprocs = sched.gomaxprocs, sched'.gcwaiting = sched.gcwaiting,
           sched'.worldsema = sched.worldsema, sched'.stopwait = sched.stopwait - 1,
           \/ sched'.stopnote = sched.stopnote
           \/ sched'.stopnote = (sched.stopnote \/ sched.stopwait = 1) /\ SchedFree,
           \A x \in M : SameStop(ms[x], ms'[x])
    PROVE  StopInv'
<1>1. SchedTypes /\ StopInv /\ Pos' = Pos /\ Pos \subseteq P
  BY PosInP DEF SchedOk, Pos
<1>2. StillRunning' = StillRunning \ {p} /\ p \in StillRunning
  BY <1>1 DEF StillRunning
<1>3. Cardinality(StillRunning') = Cardinality(StillRunning) - 1 /\ Cardinality(StillRunning) \in Nat
  BY <1>1, <1>2, StillFinite, FS_RemoveElement
<1>4. Cardinality(StillRunning) # 0
  BY <1>1, <1>2, StillFinite, FS_EmptySet
<1>5. sched.stopwait = Cardinality(StillRunning) /\ sched.stopwait \in Nat \ {0}
  BY <1>1, <1>3, <1>4 DEF StopInv
<1>6. ~sched.stopnote /\ (sched'.stopnote => sched.stopwait = 1 /\ SchedFree)
  BY <1>1, <1>5 DEF StopInv
<1>7. /\ sched'.stopwait = Cardinality(StillRunning') /\ sched'.stopwait \in Nat
      /\ sched'.stopnote => sched'.stopwait = 0
  BY <1>3, <1>5, <1>6
<1>8. ASSUME NEW x \in M, Stops(ms'[x]), sched'.stopnote PROVE Cont(ms'[x]) = "stwwait"
  <2>1. Stops(ms[x])
    BY <1>8 DEF SameStop
  <2>2. Cont(ms[x]) = "stwwait"
    BY <1>5, <1>6, <1>8, <2>1, StopperWaits
  <2> QED BY <2>2 DEF SameStop
<1>9. ASSUME NEW x \in M PROVE Cont(ms'[x]) \in Stopped0 => sched'.stopwait = 0
  <2>1. Cont(ms[x]) \notin Stopped0
    BY <1>1, <1>5 DEF StopInv
  <2> QED BY <2>1 DEF SameStop
<1>10. \A x \in M : (Stops(ms'[x]) <=> Stops(ms[x])) /\ (Cont(ms'[x]) \in HoldingSema => Cont(ms[x]) \in HoldingSema)
  BY DEF SameStop
<1> QED BY <1>1, <1>7, <1>8, <1>9, <1>10 DEF StopInv, Stops

(***************************************************************************)
(* Actions that give a processor up.                                       *)
(***************************************************************************)
(* A thread's step stops processor p: its own, the one in its hands, or one *)
(* that is left behind in a system call.                                    *)
LEMMA StopStep ==
    ASSUME SchedOk, thrown = "none", NEW m \in M, NEW s \in MRec, Wf(s), ms' = [ms EXCEPT ![m] = s],
           sched.gcwaiting, NEW p \in Pos, NEW h \in PRec, h.m = None, h.status = "Pgcstop", ps' = [ps EXCEPT ![p] = h],
           SameStop(ms[m], s), s.nextp = ms[m].nextp, SameBorn(ms[m], s), SpinCount',
           sched' \in SRec, sched'.gomaxprocs = sched.gomaxprocs, sched'.gcwaiting = sched.gcwaiting,
           sched'.worldsema = sched.worldsema, sched'.stopwait = sched.stopwait - 1,
           sched'.maxmcount = sched.maxmcount, sched'.pidle = sched.pidle, sched'.midle = sched.midle,
           \/ sched'.stopnote = sched.stopnote
           \/ sched'.stopnote = (sched.stopnote \/ sched.stopwait = 1) /\ SchedFree,
           GsSame, netready' \subseteq G,
           \/ /\ p = ms[m].p /\ Runs(ms[m]) /\ ~Stops(ms[m]) /\ ~Runs(s) /\ LpOf(s) = LpOf(ms[m])
           \/ /\ ps[p].status = "Psyscall" /\ LpOf(s) = LpOf(ms[m])
              /\ Runs(s) <=> Runs(ms[m])
              /\ Runs(ms[m]) => s.p = ms[m].p
           \/ /\ p = LpOf(ms[m]) /\ LpOf(s) = None
              /\ Runs(s) <=> Runs(ms[m])
              /\ Runs(ms[m]) => s.p = ms[m].p
    PROVE  SchedOk'
<1>1. SchedTypes /\ PlaceInv /\ CreatedInv /\ RunInv /\ IdleInv /\ StopInv
      /\ ms \in [M -> MRec] /\ ps \in [P -> PRec]
  BY DEF SchedOk, SchedTypes
<1>2. ms' \in [M -> MRec] /\ ms'[m] = s /\ \A x \in M : x # m => ms'[x] = ms[x]
  BY <1>1
<1>3. p \in P /\ None \notin P /\ None \notin M
  BY <1>1, PosInP, Consts
<1>4. ps' \in [P -> PRec] /\ ps'[p] = h /\ \A q \in P : q # p => ps'[q] = ps[q]
  BY <1>1, <1>3
<1>5. /\ ps[p].status \in {"Pidle", "Psyscall", "Prunning"}
      /\ ps[p].status # "Prunning" => ps[p].m = None
  <2>1. CASE p = ms[m].p /\ Runs(ms[m]) /\ ~Stops(ms[m])
    BY <2>1, RunsHasP DEF Runs, Stops
  <2>2. CASE ps[p].status = "Psyscall"
    BY <1>1, <1>3, <2>2 DEF RunInv, PRec
  <2>3. CASE p = LpOf(ms[m])
    BY <1>3, <2>3, InHands, HandIdle
  <2> QED BY <2>1, <2>2, <2>3
<1>6. SchedTypes' /\ PlaceInv'
  BY <1>1, <1>2, <1>4 DEF SchedTypes, GsSame, PlaceInv
<1>7. CreatedInv'
  <2>1. \A x \in M : SameBorn(ms[x], ms'[x])
    BY <1>2 DEF SameBorn
  <2> QED BY <1>1, <2>1, CreatedSame
<1>8. \A x \in M : SameStop(ms[x], ms'[x])
  BY <1>2 DEF SameStop
<1>9. StopInv'
  BY <1>4, <1>5, <1>8, StopOne
<1>10. RunInv'
  <2>1. CASE p = ms[m].p /\ Runs(ms[m]) /\ ~Runs(s)
    <3>1. \A x \in M : x # m => /\ (Runs(ms'[x]) <=> Runs(ms[x])) /\ (Stops(ms'[x]) <=> Stops(ms[x]))
                                /\ ms'[x].p = ms[x].p
      BY <1>2
    <3> QED BY <1>1, <1>2, <1>4, <2>1, <3>1, RunRelease
  <2>2. CASE ps[p].status # "Prunning" /\ (Runs(s) <=> Runs(ms[m])) /\ (Runs(ms[m]) => s.p = ms[m].p)
    <3>1. \A x \in M : /\ (Runs(ms'[x]) <=> Runs(ms[x])) /\ (Stops(ms'[x]) <=> Stops(ms[x]))
                       /\ Runs(ms[x]) => ms'[x].p = ms[x].p
      BY <1>2, <2>2 DEF SameStop
    <3>2. \A q \in P : /\ ps'[q].m = ps[q].m /\ (ps[q].m # None => ps'[q].status = ps[q].status)
                       /\ ps'[q].status = "Prunning" => ps[q].status = "Prunning"
                       /\ ps'[q].status = "Pdead" <=> ps[q].status = "Pdead"
      BY <1>4, <1>5, <2>2
    <3> QED BY <1>1, <3>1, <3>2, RunKept
  <2>3. CASE p = LpOf(ms[m])
    <3>1. ps[p].status = "Pidle"
      BY <1>3, <2>3, InHands, HandIdle
    <3> QED BY <2>1, <2>2, <3>1
  <2> QED BY <2>1, <2>2, <2>3
<1>11. IdleInv'
  <2>1. TodoOf(s) = TodoOf(ms[m])
    BY DEF SameBorn, TodoOf
  <2>2. p \notin HandsOf(s)
    <3>1. CASE p = LpOf(ms[m]) /\ LpOf(s) = None
      <4>1. p # ms[m].nextp /\ p \notin TodoOf(ms[m])
        BY <1>1, <1>3, <3>1 DEF PlaceInv, Wf, OnceInHands
      <4> QED BY <1>3, <2>1, <3>1, <4>1, InHands
    <3>2. CASE ps[p].status # "Pidle" /\ LpOf(s) = LpOf(ms[m])
      <4>1. p \notin HandsOf(ms[m])
        BY <3>2, HandIdle
      <4> QED BY <2>1, <3>2, <4>1, InHands
    <3>3. CASE p = ms[m].p /\ Runs(ms[m]) /\ ~Stops(ms[m]) /\ LpOf(s) = LpOf(ms[m])
      BY <3>2, <3>3, RunsHasP DEF Runs, Stops
    <3> QED BY <3>1, <3>2, <3>3
  <2>3. p \notin SetOf(sched.pidle) /\ \A x \in M : x # m => p \notin HandsOf(ms[x])
    <3>1. CASE ps[p].status # "Pidle"
      BY <3>1, HandIdle, ListIdle
    <3>2. CASE p = LpOf(ms[m])
      BY <1>3, <3>2, InHands, HandIdle
    <3>3. CASE p = ms[m].p /\ Runs(ms[m]) /\ ~Stops(ms[m])
      BY <3>1, <3>3, RunsHasP DEF Runs, Stops
    <3> QED BY <3>1, <3>2, <3>3
  <2>4. \A q \in P : q # p => (q \in HandsOf(s) <=> q \in HandsOf(ms[m]))
    BY <1>3, <2>1, InHands
  <2>5. \A q \in P : q # p => \A x \in M : q \in HandsOf(ms'[x]) <=> q \in HandsOf(ms[x])
    BY <1>2, <2>4
  <2>6. \A x \in M : p \notin HandsOf(ms'[x])
    BY <1>2, <2>2, <2>3
  <2>7. Injective(sched'.pidle)
    BY <1>1, IdleIs
  <2> QED BY <1>1, <1>3, <1>4, <2>3, <2>5, <2>6, <2>7, IdleStep
<1> QED BY <1>6, <1>7, <1>9, <1>10, <1>11 DEF SchedOk

(* A processor changes its thread and status.                              *)
Given(p, x, st) == [ps EXCEPT ![p].m = x, ![p].status = st]

(* A processor that gets a thread and a status.                            *)
LEMMA PsOne ==
    ASSUME SchedTypes, NEW p \in P, NEW x \in M \cup {None},
           NEW st \in {"Pidle", "Prunning", "Psyscall", "Pgcstop", "Pdead"}
    PROVE  \E h \in PRec : /\ h.m = x /\ h.status = st
                           /\ Given(p, x, st) = [ps EXCEPT ![p] = h]
<1>1. ps \in [P -> PRec] /\ ps[p] \in PRec
  BY DEF SchedTypes
<1>2. PICK h : h = [ps[p] EXCEPT !.m = x, !.status = st]
  OBVIOUS
<1>3. h \in PRec /\ h.m = x /\ h.status = st
  BY <1>1, <1>2 DEF PRec
<1>4. Given(p, x, st) = [ps EXCEPT ![p] = h]
  BY <1>1, <1>2 DEF Given
<1> QED BY <1>3, <1>4

(* One stop less to wait for.                                              *)
LEMMA OneStoppedIs ==
    ASSUME SchedTypes, NEW k \in Int, sched' = OneStopped([sched EXCEPT !.nmspinning = k])
    PROVE  /\ sched' \in SRec /\ sched'.gomaxprocs = sched.gomaxprocs /\ sched'.gcwaiting = sched.gcwaiting
           /\ sched'.worldsema = sched.worldsema /\ sched'.stopwait = sched.stopwait - 1
           /\ sched'.maxmcount = sched.maxmcount /\ sched'.pidle = sched.pidle /\ sched'.midle = sched.midle
           /\ sched'.stopnote = (sched.stopnote \/ sched.stopwait = 1) /\ sched'.nmspinning = k
<1>1. PICK w \in Int : w = sched.stopwait - 1
  BY DEF SchedTypes, SRec
<1>2. PICK b \in BOOLEAN : b = (sched.stopnote \/ sched.stopwait = 1)
  OBVIOUS
<1>3. PICK u : u = [sched EXCEPT !.nmspinning = k]
  OBVIOUS
<1>4. /\ u \in SRec /\ u.pidle = sched.pidle /\ u.midle = sched.midle /\ u.nmspinning = k /\ u.gomaxprocs = sched.gomaxprocs
      /\ u.gcwaiting = sched.gcwaiting /\ u.stopwait = sched.stopwait /\ u.stopnote = sched.stopnote
      /\ u.worldsema = sched.worldsema /\ u.maxmcount = sched.maxmcount
  BY <1>3 DEF SchedTypes, SRec
<1>5. sched' = [u EXCEPT !.stopwait = w, !.stopnote = b]
  BY <1>1, <1>2, <1>3, <1>4 DEF OneStopped
<1> QED BY <1>1, <1>2, <1>4, <1>5 DEF SRec

(* sched, as a change of nmspinning to what it is.                         *)
LEMMA SchedItself == SchedTypes => sched = [sched EXCEPT !.nmspinning = sched.nmspinning] /\ sched.nmspinning \in Int
BY DEF SchedTypes, SRec

(* stoplockedm hands off the processor.                                    *)
LEMMA StopLockedmOk ==
    ASSUME SchedOk, thrown = "none", NEW m \in M, StopLockedm(m)
    PROVE  SchedOk'
<1>1. PICK r : r = ms[m]
  OBVIOUS
<1>2. Known(m, r)
  BY <1>1, Thread DEF Known
<1>3. r.pc = "slk"
  BY <1>1 DEF StopLockedm, At
<1>p. PICK p \in P : p = r.p /\ p # None
  <2>1. Cont(r) \in WithP
    BY <1>2, <1>3 DEF Known, Cont, Calls, Injecting, Handing, WithP
  <2> QED BY <1>1, <2>1, RunsHasP, Consts, ZenonT(60)
<1>h. PICK h \in PRec : h.m = None /\ h.status = "Pidle" /\ Given(p, None,
     "Pidle") = [ps EXCEPT ![p] = h]
  BY <1>2, PsOne DEF Known
<1>x. r.nextp # p
  <2>1. ps[p].status = "Prunning"
    BY <1>1, <1>2, <1>3, <1>p, RunsHasP DEF Known, Cont, Calls, Injecting, Handing, WithP, Stopping
  <2> QED BY <1>1, <2>1, InHands, HandIdle
<1>4. PICK s : s = [r EXCEPT !.p = None, !.lp = p, !.pc = "ho1", !.ret = "slk2"]
  OBVIOUS
<1>5. s \in MRec /\ s.p = None /\ s.lp = p /\ s.pc = "ho1" /\ s.ret = "slk2" /\ s.nextp = r.nextp
     /\ s.spinning = r.spinning /\ s.lm = r.lm /\ s.todo = r.todo /\ s.sp = r.sp /\ s.iret = r.iret
     /\ s.lg = r.lg /\ s.curg = r.curg /\ s.glist = r.glist
  BY <1>2, <1>4, PlaceNames DEF Known, MRec
<1>6. Wf(s) /\ Runs(r) /\ ~Stops(r) /\ ~Runs(s) /\ SameBorn(r, s) /\ SameSpin(r, s) /\ LpOf(r) = None
     /\ LpOf(s) = p /\ (p = None => LpOf(s) = LpOf(r))
  BY <1>2, <1>3, <1>5, Consts, <1>p, <1>x DEF Known, SameStop, HoldingSema, Stopped0, SameBorn,
       SameSpin, Wf, ReturnsOf, LocalsOf, OnceInHands, Runs, Stops, Starts, Cont, LpOf, TodoOf, Calls,
       Injecting, Handing, WithP, Stale, Stopping, HandoffRets, WakeRets, Holding, Running
<1>7. ms' = [ms EXCEPT ![m] = s]
  BY <1>1, <1>2, <1>3, <1>4, <1>p DEF StopLockedm, At, Known
<1>8. ps' = [ps EXCEPT ![p] = h]
  BY <1>1, <1>p, <1>h DEF Given, StopLockedm, Released
<1>9. SchedRest /\ sched'.pidle = sched.pidle /\ sched'.midle = sched.midle
     /\ sched'.nmspinning = sched.nmspinning
  BY <1>2, RestSame DEF StopLockedm, Known
<1>10. GsSame /\ netready' \subseteq G
  BY <1>2, Unchanged DEF StopLockedm, Known
<1> QED BY <1>1, <1>p, <1>h, <1>5, <1>6, <1>7, <1>8, <1>9, <1>10, ReleaseStep

(* The processor is left behind in a system call.                          *)
LEMMA EnterPsyscallOk ==
    ASSUME SchedOk, thrown = "none", NEW m \in M, EnterPsyscall(m)
    PROVE  SchedOk'
<1>1. PICK r : r = ms[m]
  OBVIOUS
<1>2. Known(m, r)
  BY <1>1, Thread DEF Known
<1>3. r.pc = "esys2"
  BY <1>1 DEF EnterPsyscall, At
<1>p. PICK p \in P : p = r.p /\ p # None
  <2>1. Cont(r) \in WithP
    BY <1>2, <1>3 DEF Known, Cont, Calls, Injecting, Handing, WithP
  <2> QED BY <1>1, <2>1, RunsHasP, Consts, ZenonT(60)
<1>h. PICK h \in PRec : h.m = None /\ h.status = "Psyscall" /\ Given(p, None,
     "Psyscall") = [ps EXCEPT ![p] = h]
  BY <1>2, PsOne DEF Known
<1>x. r.nextp # p
  <2>1. ps[p].status = "Prunning"
    BY <1>1, <1>2, <1>3, <1>p, RunsHasP DEF Known, Cont, Calls, Injecting, Handing, WithP, Stopping
  <2> QED BY <1>1, <2>1, InHands, HandIdle
<1>4. PICK s : s = [r EXCEPT !.pc = "esys3"]
  OBVIOUS
<1>5. s \in MRec /\ s.pc = "esys3" /\ s.p = r.p /\ s.nextp = r.nextp /\ s.spinning = r.spinning
     /\ s.lp = r.lp /\ s.lm = r.lm /\ s.todo = r.todo /\ s.sp = r.sp /\ s.ret = r.ret /\ s.iret = r.iret
     /\ s.lg = r.lg /\ s.curg = r.curg /\ s.glist = r.glist
  BY <1>2, <1>4, PlaceNames DEF Known, MRec
<1>6. Wf(s) /\ Runs(r) /\ ~Stops(r) /\ ~Runs(s) /\ SameBorn(r, s) /\ SameSpin(r, s) /\ LpOf(r) = None
     /\ LpOf(s) = None /\ (None = None => LpOf(s) = LpOf(r))
  BY <1>2, <1>3, <1>5, Consts, <1>p, <1>x DEF Known, SameStop, HoldingSema, Stopped0, SameBorn,
       SameSpin, Wf, ReturnsOf, LocalsOf, OnceInHands, Runs, Stops, Starts, Cont, LpOf, TodoOf, Calls,
       Injecting, Handing, WithP, Stale, Stopping, HandoffRets, WakeRets, Holding, Running
<1>7. ms' = [ms EXCEPT ![m] = s]
  BY <1>1, <1>2, <1>3, <1>4, <1>p DEF EnterPsyscall, At, Known
<1>8. ps' = [ps EXCEPT ![p] = h]
  BY <1>1, <1>p, <1>h DEF Given, EnterPsyscall
<1>9. SchedRest /\ sched'.pidle = sched.pidle /\ sched'.midle = sched.midle
     /\ sched'.nmspinning = sched.nmspinning
  BY <1>2, RestSame DEF EnterPsyscall, Known
<1>10. GsSame /\ netready' \subseteq G
  BY <1>2, Unchanged DEF EnterPsyscall, Known
<1> QED BY <1>1, <1>p, <1>h, <1>5, <1>6, <1>7, <1>8, <1>9, <1>10, ReleaseStep

(* entersyscallblock hands off the processor.                              *)
LEMMA EnterSyscallBlockOk ==
    ASSUME SchedOk, thrown = "none", NEW m \in M, EnterSyscallBlock(m)
    PROVE  SchedOk'
<1>1. PICK r : r = ms[m]
  OBVIOUS
<1>2. Known(m, r)
  BY <1>1, Thread DEF Known
<1>3. r.pc = "user"
  BY <1>1 DEF EnterSyscallBlock, User, At
<1>p. PICK p \in P : p = r.p /\ p # None
  <2>1. Cont(r) \in WithP
    BY <1>2, <1>3 DEF Known, Cont, Calls, Injecting, Handing, WithP
  <2> QED BY <1>1, <2>1, RunsHasP, Consts, ZenonT(60)
<1>h. PICK h \in PRec : h.m = None /\ h.status = "Pidle" /\ Given(p, None,
     "Pidle") = [ps EXCEPT ![p] = h]
  BY <1>2, PsOne DEF Known
<1>t. PICK t : t = (IF gs[r.curg].isbackground THEN "esb2" ELSE "syscall")
  OBVIOUS
<1>u. t \in {"esb2", "syscall"} /\ t \in Place
  BY <1>t, PlaceNames
<1>x. r.nextp # p
  <2>1. ps[p].status = "Prunning"
    BY <1>1, <1>2, <1>3, <1>p, RunsHasP DEF Known, Cont, Calls, Injecting, Handing, WithP, Stopping
  <2> QED BY <1>1, <2>1, InHands, HandIdle
<1>4. PICK s : s = [r EXCEPT !.p = None, !.lp = p, !.pc = "ho1", !.ret = t]
  OBVIOUS
<1>5. s \in MRec /\ s.p = None /\ s.lp = p /\ s.pc = "ho1" /\ s.ret = t /\ s.nextp = r.nextp
     /\ s.spinning = r.spinning /\ s.lm = r.lm /\ s.todo = r.todo /\ s.sp = r.sp /\ s.iret = r.iret
     /\ s.lg = r.lg /\ s.curg = r.curg /\ s.glist = r.glist
  BY <1>2, <1>4, PlaceNames, <1>u DEF Known, MRec
<1>6. Wf(s) /\ Runs(r) /\ ~Stops(r) /\ ~Runs(s) /\ SameBorn(r, s) /\ SameSpin(r, s) /\ LpOf(r) = None
     /\ LpOf(s) = p /\ (p = None => LpOf(s) = LpOf(r))
  BY <1>2, <1>3, <1>5, Consts, <1>p, <1>x, <1>u DEF Known, SameStop, HoldingSema, Stopped0, SameBorn,
       SameSpin, Wf, ReturnsOf, LocalsOf, OnceInHands, Runs, Stops, Starts, Cont, LpOf, TodoOf, Calls,
       Injecting, Handing, WithP, Stale, Stopping, HandoffRets, WakeRets, Holding, Running
<1>7. ms' = [ms EXCEPT ![m] = s]
  BY <1>1, <1>2, <1>3, <1>4, <1>p, <1>t DEF EnterSyscallBlock, At, Known
<1>8. ps' = [ps EXCEPT ![p] = h]
  BY <1>1, <1>p, <1>h DEF Given, EnterSyscallBlock, Released
<1>9. SchedRest /\ sched'.pidle = sched.pidle /\ sched'.midle = sched.midle
     /\ sched'.nmspinning = sched.nmspinning
  BY <1>2, RestSame DEF EnterSyscallBlock, Known
<1>10. GsSame /\ netready' \subseteq G
  <2>1. PICK g \in G : g = r.curg
    BY <1>2, <1>3 DEF Known, MRec, Running, Stale, Wf, LocalsOf, Cont, Calls, Injecting, Handing
  <2>2. gs[g].ops > 0 /\ gs' = [Spent(g) EXCEPT ![g].status = "Gsyscall"]
    BY <1>1, <2>1, UserIs DEF EnterSyscallBlock
  <2>3. Spent(g) \in [G -> GRec] /\ Spent(g)[g].lockedm = gs[g].lockedm
    BY <1>2, <2>2, SpentIs DEF Known
  <2>4. PICK u \in GRec : u = Spent(g)[g]
    BY <2>3
  <2>5. PICK w : w = [u EXCEPT !.status = "Gsyscall"]
    OBVIOUS
  <2>6. w \in GRec /\ w.lockedm = gs[g].lockedm
    BY <2>3, <2>4, <2>5 DEF GRec
  <2>7. gs' = [Spent(g) EXCEPT ![g] = w]
    BY <2>2, <2>3, <2>4, <2>5
  <2>8. GsSame
    BY <1>2, <2>2, <2>6, <2>7, SpentThen DEF Known
  <2> QED BY <1>2, <2>8 DEF EnterSyscallBlock, Known
<1> QED BY <1>1, <1>p, <1>h, <1>5, <1>6, <1>7, <1>8, <1>9, <1>10, ReleaseStep

(* findrunnable gives its processor back.                                  *)
LEMMA FindStopOk ==
    ASSUME SchedOk, thrown = "none", NEW m \in M, FindStop(m), thrown' = "none"
    PROVE  SchedOk'
<1>1. PICK r : r = ms[m]
  OBVIOUS
<1>2. Known(m, r)
  BY <1>1, Thread DEF Known
<1>3. r.pc = "fstop"
  BY <1>1 DEF FindStop, At
<1>4. CASE sched.gcwaiting
  <2>1. PsSame /\ SchedSame /\ GsSame /\ netready' \subseteq G
    BY <1>1, <1>2, <1>4, Unchanged DEF FindStop, Known
  <2>2. PICK s : s = [r EXCEPT !.pc = "find"]
    OBVIOUS
  <2>3. s \in MRec /\ s.pc = "find" /\ Kept(r, s) /\ s.iret = r.iret
    BY <1>2, <1>3, <2>2, PlaceNames DEF Known, MRec, Kept
  <2>4. Quiet(r, s)
    BY <1>2, <1>3, <2>3, PlainQuiet DEF Known, Kept, Plain, WithP, Grips, Holding, Running, Stopping,
         Stale
  <2>5. ms' = [ms EXCEPT ![m] = s]
    BY <1>1, <1>2, <1>3, <1>4, <2>2 DEF FindStop, At, Known
  <2> QED BY <1>1, <2>1, <2>4, <2>5, QuietMove
<1>5. CASE ~sched.gcwaiting /\ Globrunqget(m, 0)
  BY <1>1, <1>3, <1>5, GlobrunqgetOk DEF FindStop
<1>6. CASE /\ ~sched.gcwaiting /\ ps' = Released(r.p)
     /\ sched' = [sched EXCEPT !.pidle = <<r.p>> \o sched.pidle] /\ ms' = [ms EXCEPT ![m].p = None,
     ![m].pc = "fquit", ![m].n = 0]
  <2>p. PICK p \in P : p = r.p /\ p # None /\ ps[p].status = "Prunning"
    <3>1. Cont(r) \in WithP /\ Cont(r) \notin Stopping
      BY <1>2, <1>3 DEF Known, Cont, Calls, Injecting, Handing, WithP, Stopping
    <3> QED BY <1>1, <3>1, RunsHasP, Consts
  <2>h. PICK h \in PRec : h.m = None /\ h.status = "Pidle" /\ Given(p, None,
       "Pidle") = [ps EXCEPT ![p] = h]
    BY <1>2, PsOne DEF Known
  <2>4. PICK s : s = [r EXCEPT !.p = None, !.pc = "fquit", !.n = 0]
    OBVIOUS
  <2>5. s \in MRec /\ s.p = None /\ s.pc = "fquit" /\ s.n = 0 /\ s.nextp = r.nextp
       /\ s.spinning = r.spinning /\ s.lp = r.lp /\ s.lm = r.lm /\ s.todo = r.todo /\ s.sp = r.sp
       /\ s.ret = r.ret /\ s.iret = r.iret /\ s.lg = r.lg /\ s.curg = r.curg /\ s.glist = r.glist
    BY <1>2, <2>4, PlaceNames DEF Known, MRec
  <2>6. Wf(s) /\ Runs(r) /\ ~Stops(r) /\ ~Runs(s) /\ SameBorn(r, s) /\ SameSpin(r, s) /\ LpOf(r) = None
       /\ LpOf(s) = None /\ (None = None => LpOf(s) = LpOf(r))
    BY <1>2, <1>3, <2>5, Consts DEF Known, SameStop, HoldingSema, Stopped0, SameBorn, SameSpin, Wf,
         ReturnsOf, LocalsOf, OnceInHands, Runs, Stops, Starts, Cont, LpOf, TodoOf, Calls, Injecting,
         Handing, WithP, Stale, Stopping, HandoffRets, WakeRets, Holding, Running
  <2>7. ms' = [ms EXCEPT ![m] = s]
    BY <1>1, <1>2, <1>3, <1>6, <2>4 DEF FindStop, At, Known
  <2>8. ps' = [ps EXCEPT ![p] = h]
    BY <1>6, <2>p, <2>h DEF Given, Released
  <2>9. SchedRest /\ sched'.pidle = <<p>> \o sched.pidle /\ sched'.midle = sched.midle
       /\ sched'.nmspinning = sched.nmspinning
    <3>1. sched.pidle \in Seq(P) /\ Injective(sched.pidle) /\ p \notin SetOf(sched.pidle)
      BY <1>2, <2>p, IdleIs, ListIdle DEF Known, SRec, SchedOk
    <3>2. PICK t \in Seq(P) : t = <<p>> \o sched.pidle
      BY <3>1, PidleCons
    <3>3. sched' = [sched EXCEPT !.pidle = t]
      BY <1>6, <2>p, <3>2
    <3> QED BY <1>2, <3>2, <3>3 DEF Known, SRec, SchedRest
  <2>10. GsSame /\ netready' \subseteq G
    BY <1>2, Unchanged DEF FindStop, Known
  <2> QED BY <1>1, <2>p, <2>h, <2>5, <2>6, <2>7, <2>8, <2>9, <2>10, ReleaseStep
<1> QED BY <1>1, <1>4, <1>5, <1>6 DEF FindStop

(* A thread sees the request and stops its processor.                      *)
LEMMA GcstopmOk ==
    ASSUME SchedOk, thrown = "none", NEW m \in M, Gcstopm(m), thrown' = "none"
    PROVE  SchedOk'
<1>1. PICK r : r = ms[m]
  OBVIOUS
<1>2. Known(m, r)
  BY <1>1, Thread DEF Known
<1>3. r.pc \in {"sched", "find"} /\ sched.gcwaiting /\ SchedFree
  BY <1>1 DEF Gcstopm
<1>p. PICK p \in P : p = r.p /\ p \in Pos
  <2>1. Cont(r) \in WithP
    BY <1>2, <1>3 DEF Known, Cont, Calls, Injecting, Handing, WithP
  <2> QED BY <1>1, <2>1, RunsHasP
<1>h. PICK h \in PRec : h.m = None /\ h.status = "Pgcstop" /\ Given(p, None,
     "Pgcstop") = [ps EXCEPT ![p] = h]
  BY <1>2, PsOne DEF Known
<1>n. sched.nmspinning \in Int /\ r.spinning \in BOOLEAN
  BY <1>2 DEF Known, SRec, MRec
<1>k. PICK k \in Int : k = sched.nmspinning - (IF r.spinning THEN 1 ELSE 0)
  BY <1>n
<1>4. PICK s : s = [r EXCEPT !.p = None, !.spinning = FALSE, !.pc = "stopm", !.ret = r.pc]
  OBVIOUS
<1>5. s \in MRec /\ s.p = None /\ s.spinning = FALSE /\ s.pc = "stopm" /\ s.ret = r.pc
     /\ s.nextp = r.nextp /\ s.lp = r.lp /\ s.lm = r.lm /\ s.todo = r.todo /\ s.sp = r.sp
     /\ s.iret = r.iret /\ s.lg = r.lg /\ s.curg = r.curg /\ s.glist = r.glist
  BY <1>2, <1>4, PlaceNames DEF Known, MRec
<1>6. Wf(s) /\ SameStop(r, s) /\ SameBorn(r, s) /\ Runs(r) /\ ~Stops(r) /\ ~Runs(s) /\ LpOf(s) = LpOf(r)
     /\ (Starts(s) <=> FALSE) /\ (Starts(r) <=> FALSE)
  BY <1>2, <1>3, <1>5, Consts DEF Known, SameStop, HoldingSema, Stopped0, SameBorn, SameSpin, Wf,
       ReturnsOf, LocalsOf, OnceInHands, Runs, Stops, Starts, Cont, LpOf, TodoOf, Calls, Injecting,
       Handing, WithP, Stale, Stopping, HandoffRets, WakeRets, Holding, Running
<1>7. ms' = [ms EXCEPT ![m] = s]
  BY <1>1, <1>2, <1>3, <1>4, <1>p DEF Gcstopm, At, Known
<1>8. ps' = [ps EXCEPT ![p] = h]
  BY <1>1, <1>p, <1>h DEF Given, Gcstopm
<1>9. /\ sched' \in SRec /\ sched'.gomaxprocs = sched.gomaxprocs /\ sched'.gcwaiting = sched.gcwaiting
     /\ sched'.worldsema = sched.worldsema /\ sched'.stopwait = sched.stopwait - 1
     /\ sched'.maxmcount = sched.maxmcount /\ sched'.pidle = sched.pidle /\ sched'.midle = sched.midle
     /\ sched'.stopnote = (sched.stopnote \/ sched.stopwait = 1) /\ sched'.nmspinning = k
  <2>1. sched' = OneStopped([sched EXCEPT !.nmspinning = k])
    BY <1>1, <1>k DEF Gcstopm
  <2> QED BY <1>2, <2>1, OneStoppedIs DEF Known
<1>10. GsSame /\ netready' \subseteq G
  BY <1>2, Unchanged DEF Gcstopm, Known
<1>11. SpinCount'
  <2>1. ms'[m] = s /\ \A x \in M : x # m => ms'[x] = ms[x]
    BY <1>2, <1>7 DEF Known
  <2>2. k = sched.nmspinning + One(s.spinning) - One(r.spinning) + One(Starts(s)) - One(Starts(r))
    BY <1>n, <1>k, <1>5, <1>6 DEF One
  <2> QED BY <1>1, <1>2, <1>9, <2>1, <2>2, SpinStep DEF SchedOk
<1> QED BY <1>1, <1>3, <1>p, <1>h, <1>5, <1>6, <1>7, <1>8, <1>9, <1>10, <1>11, StopStep

(***************************************************************************)
(* Actions that stop or free a processor that no thread has.               *)
(***************************************************************************)
(* A processor changes its status.                                         *)
Marked(p, st) == [ps EXCEPT ![p].status = st]

(* A processor that gets a status.                                         *)
LEMMA PsStatus ==
    ASSUME SchedTypes, NEW p \in P, NEW st \in {"Pidle", "Prunning", "Psyscall", "Pgcstop", "Pdead"}
    PROVE  \E h \in PRec : h.m = ps[p].m /\ h.status = st /\ Marked(p, st) = [ps EXCEPT ![p] = h]
<1>1. ps \in [P -> PRec] /\ ps[p] \in PRec
  BY DEF SchedTypes
<1>2. PICK h : h = [ps[p] EXCEPT !.status = st]
  OBVIOUS
<1>3. h \in PRec /\ h.m = ps[p].m /\ h.status = st
  BY <1>1, <1>2 DEF PRec
<1>4. Marked(p, st) = [ps EXCEPT ![p] = h]
  BY <1>1, <1>2 DEF Marked
<1> QED BY <1>3, <1>4

(* A processor that is left behind in a system call is nobody's.           *)
LEMMA SyscallFree ==
    ASSUME SchedOk, NEW p \in P, ps[p].status = "Psyscall"
    PROVE  /\ ps[p].m = None /\ p \in Pos /\ p \notin SetOf(sched.pidle)
           /\ \A x \in M : p \notin HandsOf(ms[x])
<1>1. p \notin SetOf(sched.pidle) /\ \A x \in M : p \notin HandsOf(ms[x])
  BY HandIdle, ListIdle
<1>2. p \in Pos
  BY DEF SchedOk, RunInv
<1>3. ps[p].m \in M \cup {None}
  BY DEF SchedOk, SchedTypes, PRec
<1>4. ps[p].m = None
  <2> SUFFICES ASSUME ps[p].m # None PROVE FALSE
    OBVIOUS
  <2>1. ps[p].m \in M /\ ms[ps[p].m].p = p /\ Cont(ms[ps[p].m]) \in WithP
    BY <1>3 DEF SchedOk, RunInv
  <2>2. ps[p].status \in {"Pgcstop", "Prunning"}
    BY <2>1, RunsHasP
  <2> QED BY <2>2
<1> QED BY <1>1, <1>2, <1>4

(* What OneStopped changes of sched.                                       *)
LEMMA OneStoppedOnly ==
    ASSUME SchedTypes, sched' = OneStopped(sched)
    PROVE  /\ sched' \in SRec /\ sched'.gomaxprocs = sched.gomaxprocs
                /\ sched'.gcwaiting = sched.gcwaiting /\ sched'.worldsema = sched.worldsema
                /\ sched'.stopwait = sched.stopwait - 1 /\ sched'.maxmcount = sched.maxmcount
                /\ sched'.pidle = sched.pidle /\ sched'.midle = sched.midle
                /\ sched'.stopnote = (sched.stopnote \/ sched.stopwait = 1)
                /\ sched'.nmspinning = sched.nmspinning
<1>1. sched = [sched EXCEPT !.nmspinning = sched.nmspinning] /\ sched.nmspinning \in Int
  BY SchedItself
<1>2. sched' = OneStopped([sched EXCEPT !.nmspinning = sched.nmspinning])
  BY <1>1
<1> QED BY <1>1, <1>2, OneStoppedIs

(* Only how far the stop of the world is changes.                          *)
LEMMA StopMove ==
    ASSUME SchedOk, thrown = "none", NEW m \in M, NEW s \in MRec, Wf(s), ms' = [ms EXCEPT ![m] = s],
           SameHold(ms[m], s), Stops(s) <=> Stops(ms[m]), SameBorn(ms[m], s), SameSpin(ms[m], s),
           PsSame, GsSame, netready' \subseteq G, sched' \in SRec, sched'.pidle = sched.pidle,
           sched'.midle = sched.midle, sched'.nmspinning = sched.nmspinning,
           sched'.gomaxprocs = sched.gomaxprocs, sched'.maxmcount = sched.maxmcount, StopInv'
    PROVE  SchedOk'
<1>1. SchedTypes /\ PlaceInv /\ CreatedInv /\ SpinCount /\ RunInv /\ IdleInv
      /\ ms \in [M -> MRec] /\ ps \in [P -> PRec]
  BY DEF SchedOk, SchedTypes
<1>2. ms' \in [M -> MRec] /\ ms'[m] = s /\ \A x \in M : x # m => ms'[x] = ms[x]
  BY <1>1
<1>3. SchedTypes' /\ PlaceInv'
  BY <1>1, <1>2 DEF SchedTypes, PsSame, GsSame, PlaceInv
<1>4. CreatedInv'
  <2>1. \A x \in M : SameBorn(ms[x], ms'[x])
    BY <1>2 DEF SameBorn
  <2> QED BY <1>1, <2>1, CreatedSame
<1>5. SpinCount'
  <2>1. \A x \in M : (ms'[x].spinning <=> ms[x].spinning) /\ (Starts(ms'[x]) <=> Starts(ms[x]))
    BY <1>2 DEF SameSpin
  <2> QED BY <1>1, <2>1, SpinKept
<1>6. RunInv'
  <2>1. \A x \in M : /\ (Runs(ms'[x]) <=> Runs(ms[x])) /\ (Stops(ms'[x]) <=> Stops(ms[x]))
                     /\ Runs(ms[x]) => ms'[x].p = ms[x].p
    BY <1>2 DEF SameHold
  <2> QED BY <1>1, <2>1, RunKept DEF PsSame
<1>7. IdleInv'
  <2>1. \A x \in M : HandsOf(ms'[x]) = HandsOf(ms[x])
    BY <1>2, HandsSame
  <2> QED BY <1>1, <2>1, IdleKept DEF PsSame
<1> QED BY <1>3, <1>4, <1>5, <1>6, <1>7 DEF SchedOk

(* A thread in a system call stops the processor that it has left behind.  *)
LEMMA EnterGcstopOk ==
    ASSUME SchedOk, thrown = "none", NEW m \in M, EnterGcstop(m)
    PROVE  SchedOk'
<1>1. PICK r : r = ms[m]
  OBVIOUS
<1>2. Known(m, r)
  BY <1>1, Thread DEF Known
<1>3. r.pc = "esys3"
  BY <1>1 DEF EnterGcstop, At
<1>p. PICK p \in P : p = r.p
  BY <1>2, <1>3 DEF Known, MRec, Wf, LocalsOf
<1>4. CASE StopHere(p)
  <2>1. sched.gcwaiting /\ SchedFree /\ ps[p].status = "Psyscall"
    BY <1>4 DEF EnterGcstop, StopHere, CasPsyscall
  <2>2. p \in Pos /\ ps[p].m = None
    BY <2>1, SyscallFree
  <2>3. PICK h \in PRec : h.m = None /\ h.status = "Pgcstop" /\ Marked(p,
       "Pgcstop") = [ps EXCEPT ![p] = h]
    BY <1>2, <2>2, PsStatus DEF Known
  <2>4. PICK s : s = [r EXCEPT !.pc = "syscall"]
    OBVIOUS
  <2>5. s \in MRec /\ s.pc = "syscall" /\ s.p = r.p /\ s.nextp = r.nextp /\ s.spinning = r.spinning
       /\ s.lp = r.lp /\ s.lm = r.lm /\ s.todo = r.todo /\ s.sp = r.sp /\ s.ret = r.ret
       /\ s.iret = r.iret /\ s.lg = r.lg /\ s.curg = r.curg /\ s.glist = r.glist
    BY <1>2, <2>4, PlaceNames DEF Known, MRec
  <2>6. Wf(s) /\ SameStop(r, s) /\ SameBorn(r, s) /\ SameSpin(r, s) /\ ~Runs(r) /\ ~Runs(s)
       /\ LpOf(s) = LpOf(r)
    BY <1>2, <1>3, <2>5, Consts DEF Known, SameStop, HoldingSema, Stopped0, SameBorn, SameSpin, Wf,
         ReturnsOf, LocalsOf, OnceInHands, Runs, Stops, Starts, Cont, LpOf, TodoOf, Calls, Injecting,
         Handing, WithP, Stale, Stopping, HandoffRets, WakeRets, Holding, Running
  <2>7. ms' = [ms EXCEPT ![m] = s]
    BY <1>1, <1>2, <1>3, <2>4 DEF EnterGcstop, At, Known
  <2>8. ps' = [ps EXCEPT ![p] = h]
    BY <1>1, <1>p, <1>4, <2>3 DEF EnterGcstop, Marked
  <2>9. /\ sched' \in SRec /\ sched'.gomaxprocs = sched.gomaxprocs /\ sched'.gcwaiting = sched.gcwaiting
       /\ sched'.worldsema = sched.worldsema /\ sched'.stopwait = sched.stopwait - 1
       /\ sched'.maxmcount = sched.maxmcount /\ sched'.pidle = sched.pidle /\ sched'.midle = sched.midle
       /\ sched'.stopnote = (sched.stopnote \/ sched.stopwait = 1)
       /\ sched'.nmspinning = sched.nmspinning
    <3>1. sched' = OneStopped(sched)
      BY <1>1, <1>p, <1>4 DEF EnterGcstop
    <3> QED BY <1>2, <3>1, OneStoppedOnly DEF Known
  <2>10. GsSame /\ netready' \subseteq G
    BY <1>2, Unchanged DEF EnterGcstop, Known
  <2>11. SpinCount'
    <3>1. ms'[m] = s /\ \A x \in M : x # m => ms'[x] = ms[x]
      BY <1>2, <2>7 DEF Known
    <3>2. \A x \in M : (ms'[x].spinning <=> ms[x].spinning) /\ (Starts(ms'[x]) <=> Starts(ms[x]))
      BY <1>1, <2>6, <3>1 DEF SameSpin
    <3> QED BY <1>2, <2>9, <3>2, SpinKept DEF Known, SchedOk
  <2> QED BY <1>1, <2>1, <2>2, <2>3, <2>5, <2>6, <2>7, <2>8, <2>9, <2>10, <2>11, StopStep
<1>5. CASE ~StopHere(p)
  <2>1. PsSame /\ SchedSame /\ GsSame /\ netready' \subseteq G
    <3>1. PsSame
      BY <1>1, <1>2, <1>p, <1>5, Unchanged DEF EnterGcstop, Known
    <3>2. SchedSame
      BY <1>1, <1>2, <1>p, <1>5, Unchanged DEF EnterGcstop, Known
    <3> QED BY <1>2, <1>5, <3>1, <3>2, Unchanged DEF EnterGcstop, Known
  <2>2. PICK s : s = [r EXCEPT !.pc = "syscall"]
    OBVIOUS
  <2>3. s \in MRec /\ s.pc = "syscall" /\ Kept(r, s) /\ s.iret = r.iret /\ s.curg = r.curg
    BY <1>2, <1>3, <2>2, PlaceNames DEF Known, MRec, Kept
  <2>4. Quiet(r, s)
    BY <1>2, <1>3, <2>3, AloneQuiet DEF Known, Kept, Alone, Elsewhere, Grips, Holding, Running,
         Stopping, Stale, Wf, LocalsOf, Cont, Calls, Injecting, Handing
  <2>5. ms' = [ms EXCEPT ![m] = s]
    BY <1>1, <1>2, <1>3, <1>5, <2>2 DEF EnterGcstop, At, Known
  <2> QED BY <1>1, <2>1, <2>4, <2>5, QuietMove
<1> QED BY <1>4, <1>5

(* handoffp under the lock.                                                *)
LEMMA HandoffIdleOk ==
    ASSUME SchedOk, thrown = "none", NEW m \in M, HandoffIdle(m)
    PROVE  SchedOk'
<1>1. PICK r : r = ms[m]
  OBVIOUS
<1>2. Known(m, r)
  BY <1>1, Thread DEF Known
<1>3. r.pc = "ho4"
  BY <1>1 DEF HandoffIdle, At
<1>p. PICK p \in P : p = r.lp /\ p # None /\ p = LpOf(r)
  BY <1>2, <1>3 DEF Known, MRec, Wf, LocalsOf, LpOf, Handing
<1>q. /\ ps[p].status = "Pidle" /\ p \notin SetOf(sched.pidle) /\ p \in Pos /\ ps[p].m = None
     /\ \A x \in M : x # m => p \notin HandsOf(ms[x])
  BY <1>1, <1>p, InHands, HandIdle
<1>4. CASE sched.gcwaiting
  <2>1. SchedFree
    BY DEF HandoffIdle
  <2>3. PICK h \in PRec : h.m = None /\ h.status = "Pgcstop" /\ Marked(p,
       "Pgcstop") = [ps EXCEPT ![p] = h]
    BY <1>2, <1>q, PsStatus DEF Known
  <2>4. PICK s : s = [r EXCEPT !.pc = r.ret, !.ret = "none", !.lp = None, !.sp = FALSE]
    OBVIOUS
  <2>5. s \in MRec /\ s.pc = r.ret /\ s.ret = "none" /\ s.lp = None /\ s.sp = FALSE /\ s.p = r.p
       /\ s.nextp = r.nextp /\ s.spinning = r.spinning /\ s.lm = r.lm /\ s.todo = r.todo
       /\ s.iret = r.iret /\ s.lg = r.lg /\ s.curg = r.curg /\ s.glist = r.glist
    BY <1>2, <2>4, PlaceNames DEF Known, MRec
  <2>6. Wf(s) /\ SameStop(r, s) /\ SameBorn(r, s) /\ SameSpin(r, s) /\ (Runs(s) <=> Runs(r))
       /\ (Runs(r) => s.p = r.p) /\ LpOf(s) = None
    BY <1>2, <1>3, <2>5, Consts DEF Known, SameStop, HoldingSema, Stopped0, SameBorn, SameSpin, Wf,
         ReturnsOf, LocalsOf, OnceInHands, Runs, Stops, Starts, Cont, LpOf, TodoOf, Calls, Injecting,
         Handing, WithP, Stale, Stopping, HandoffRets, WakeRets, Holding, Running
  <2>7. ms' = [ms EXCEPT ![m] = s]
    BY <1>1, <1>2, <1>3, <1>4, <2>4 DEF HandoffIdle, At, Known, Return
  <2>8. ps' = [ps EXCEPT ![p] = h]
    BY <1>1, <1>p, <1>4, <2>3 DEF HandoffIdle, Marked
  <2>9. /\ sched' \in SRec /\ sched'.gomaxprocs = sched.gomaxprocs /\ sched'.gcwaiting = sched.gcwaiting
       /\ sched'.worldsema = sched.worldsema /\ sched'.stopwait = sched.stopwait - 1
       /\ sched'.maxmcount = sched.maxmcount /\ sched'.pidle = sched.pidle /\ sched'.midle = sched.midle
       /\ sched'.stopnote = (sched.stopnote \/ sched.stopwait = 1)
       /\ sched'.nmspinning = sched.nmspinning
    <3>1. sched' = OneStopped(sched)
      BY <1>1, <1>p, <1>4 DEF HandoffIdle
    <3> QED BY <1>2, <3>1, OneStoppedOnly DEF Known
  <2>10. GsSame /\ netready' \subseteq G
    BY <1>2, Unchanged DEF HandoffIdle, Known
  <2>11. SpinCount'
    <3>1. ms'[m] = s /\ \A x \in M : x # m => ms'[x] = ms[x]
      BY <1>2, <2>7 DEF Known
    <3>2. \A x \in M : (ms'[x].spinning <=> ms[x].spinning) /\ (Starts(ms'[x]) <=> Starts(ms[x]))
      BY <1>1, <2>6, <3>1 DEF SameSpin
    <3> QED BY <1>2, <2>9, <3>2, SpinKept DEF Known, SchedOk
  <2> QED BY <1>1, <1>4, <1>p, <1>q, <2>1, <2>3, <2>5, <2>6, <2>7, <2>8, <2>9, <2>10, <2>11, StopStep
<1>5. CASE ~sched.gcwaiting /\ ms' = [ms EXCEPT ![m].pc = "startm"] /\ ps' = ps /\ sched' = sched
  <2>1. PsSame /\ SchedSame /\ GsSame /\ netready' \subseteq G
    BY <1>1, <1>2, <1>5, Unchanged DEF HandoffIdle, Known
  <2>2. PICK s : s = [r EXCEPT !.pc = "startm"]
    OBVIOUS
  <2>3. s \in MRec /\ s.pc = "startm" /\ Kept(r, s) /\ s.ret = r.ret /\ s.iret = r.iret /\ s.lg = r.lg
       /\ s.curg = r.curg
    BY <1>2, <1>3, <2>2, PlaceNames DEF Known, MRec, Kept
  <2>4. Quiet(r, s)
    BY <1>2, <1>3, <2>3, CallQuiet DEF Known, Kept, Handing, Wf, LocalsOf, Cont, Calls, Injecting,
         Handing
  <2>5. ms' = [ms EXCEPT ![m] = s]
    BY <1>1, <1>2, <1>3, <1>5, <2>2 DEF HandoffIdle, At, Known
  <2> QED BY <1>1, <2>1, <2>4, <2>5, QuietMove
<1>6. CASE ~sched.gcwaiting /\ sched' = [sched EXCEPT !.pidle = <<r.lp>> \o sched.pidle] /\ ms' = Return(m) /\ ps' = ps
  <2>4. PICK s : s = [r EXCEPT !.pc = r.ret, !.ret = "none", !.lp = None, !.sp = FALSE]
    OBVIOUS
  <2>5. s \in MRec /\ s.pc = r.ret /\ s.ret = "none" /\ s.lp = None /\ s.sp = FALSE /\ s.p = r.p
       /\ s.nextp = r.nextp /\ s.spinning = r.spinning /\ s.lm = r.lm /\ s.todo = r.todo
       /\ s.iret = r.iret /\ s.lg = r.lg /\ s.curg = r.curg /\ s.glist = r.glist
    BY <1>2, <2>4, PlaceNames DEF Known, MRec
  <2>6. Wf(s) /\ SameStop(r, s) /\ SameBorn(r, s) /\ SameSpin(r, s) /\ (Runs(s) <=> Runs(r))
       /\ (Runs(r) => s.p = r.p) /\ LpOf(s) = None /\ s.nextp = r.nextp /\ TodoOf(s) = TodoOf(r)
       /\ p # r.nextp /\ p \notin TodoOf(r)
    BY <1>2, <1>3, <2>5, Consts, <1>p DEF Known, SameStop, HoldingSema, Stopped0, SameBorn, SameSpin,
         Wf, ReturnsOf, LocalsOf, OnceInHands, Runs, Stops, Starts, Cont, LpOf, TodoOf, Calls,
         Injecting, Handing, WithP, Stale, Stopping, HandoffRets, WakeRets, Holding, Running
  <2>7. ms' = [ms EXCEPT ![m] = s]
    BY <1>1, <1>2, <1>3, <1>6, <2>4 DEF HandoffIdle, At, Known, Return
  <2>8. ms'[m] = s /\ ms' \in [M -> MRec] /\ \A x \in M : x # m => ms'[x] = ms[x]
    BY <1>2, <2>5, <2>7 DEF Known
  <2>9. sched.pidle \in Seq(P) /\ Injective(sched.pidle)
    BY <1>2, IdleIs DEF Known, SRec, SchedOk
  <2>10. PICK t \in Seq(P) : t = <<p>> \o sched.pidle /\ Injective(t)
       /\ \A q : q \in SetOf(t) <=> q = p \/ q \in SetOf(sched.pidle)
    BY <1>q, <2>9, PidleCons
  <2>11. SchedRest /\ sched'.pidle = t /\ sched'.midle = sched.midle
       /\ sched'.nmspinning = sched.nmspinning
    <3>1. sched' = [sched EXCEPT !.pidle = t]
      BY <1>p, <1>6, <2>10
    <3> QED BY <1>2, <3>1 DEF Known, SRec, SchedRest
  <2>12. GsSame /\ netready' \subseteq G
    BY <1>2, Unchanged DEF HandoffIdle, Known
  <2>13. SpinCount'
    <3>1. ms'[m] = s /\ \A x \in M : x # m => ms'[x] = ms[x]
      BY <1>2, <2>7 DEF Known
    <3>2. \A x \in M : (ms'[x].spinning <=> ms[x].spinning) /\ (Starts(ms'[x]) <=> Starts(ms[x]))
      BY <1>1, <2>6, <3>1 DEF SameSpin
    <3> QED BY <1>2, <2>11, <3>2, SpinKept DEF Known, SchedOk
  <2>14. CreatedInv'
    <3>1. \A x \in M : SameBorn(ms[x], ms'[x])
      BY <1>1, <2>6, <2>8 DEF SameBorn
    <3> QED BY <2>11, <2>12, <3>1, CreatedSame DEF SchedRest, SchedOk
  <2>15. \A x \in M : /\ Wf(ms'[x]) /\ SameStop(ms[x], ms'[x]) /\ (Runs(ms'[x]) <=> Runs(ms[x]))
       /\ (Runs(ms[x]) => ms'[x].p = ms[x].p)
    BY <1>1, <2>6, <2>8 DEF SameStop, SchedOk, PlaceInv
  <2>16. p \notin HandsOf(s) /\ \A q \in P : q # p => (q \in HandsOf(s) <=> q \in HandsOf(r))
    BY <1>p, <2>6, Consts, InHands
  <2>17. \A x \in M : p \notin HandsOf(ms'[x])
       /\ \A q \in P : q # p => (q \in HandsOf(ms'[x]) <=> q \in HandsOf(ms[x]))
    BY <1>1, <1>q, <2>8, <2>16
  <2> QED BY <1>6, <1>q, <2>8, <2>10, <2>11, <2>12, <2>13, <2>14, <2>15, <2>17, PassStep DEF GsSame
<1> QED BY <1>1, <1>4, <1>5, <1>6 DEF HandoffIdle

(***************************************************************************)
(* Retaking a processor, and the steps of the one that stops the world.    *)
(***************************************************************************)
(* retake takes a processor away from a system call.                       *)
LEMMA RetakeCasOk ==
    ASSUME SchedOk, thrown = "none", NEW m \in M, RetakeCas(m)
    PROVE  SchedOk'
<1>1. PICK r : r = ms[m]
  OBVIOUS
<1>2. Known(m, r)
  BY <1>1, Thread DEF Known
<1>3. r.pc = "retake"
  BY <1>1 DEF RetakeCas, At
<1>p. PICK p \in P : p = r.lp
  BY <1>2, <1>3 DEF Known, MRec, Wf, LocalsOf
<1>4. CASE CasPsyscall(p)
  <2>1. /\ ps[p].status = "Psyscall" /\ ps[p].m = None /\ p \in Pos /\ p \notin SetOf(sched.pidle)
       /\ \A x \in M : p \notin HandsOf(ms[x])
    BY <1>4, SyscallFree DEF CasPsyscall
  <2>3. PICK h \in PRec : h.m = None /\ h.status = "Pidle" /\ Marked(p, "Pidle") = [ps EXCEPT ![p] = h]
    BY <1>2, <2>1, PsStatus DEF Known
  <2>n. r.nextp # p
    BY <1>1, <2>1, InHands
  <2>4. PICK s : s = [r EXCEPT !.pc = "ho1", !.ret = "smadd"]
    OBVIOUS
  <2>5. s \in MRec /\ s.pc = "ho1" /\ s.ret = "smadd" /\ s.p = r.p /\ s.nextp = r.nextp
       /\ s.spinning = r.spinning /\ s.lp = r.lp /\ s.lm = r.lm /\ s.todo = r.todo /\ s.sp = r.sp
       /\ s.iret = r.iret /\ s.lg = r.lg /\ s.curg = r.curg /\ s.glist = r.glist
    BY <1>2, <2>4, PlaceNames DEF Known, MRec
  <2>6. Wf(s) /\ SameStop(r, s) /\ SameBorn(r, s) /\ SameSpin(r, s) /\ ~Runs(r) /\ ~Runs(s)
       /\ LpOf(s) = p /\ LpOf(r) = None /\ TodoOf(s) = TodoOf(r)
    BY <1>2, <1>3, <2>5, Consts, <1>p, <2>n DEF Known, SameStop, HoldingSema, Stopped0, SameBorn,
         SameSpin, Wf, ReturnsOf, LocalsOf, OnceInHands, Runs, Stops, Starts, Cont, LpOf, TodoOf, Calls,
         Injecting, Handing, WithP, Stale, Stopping, HandoffRets, WakeRets, Holding, Running
  <2>7. ms' = [ms EXCEPT ![m] = s]
    BY <1>1, <1>2, <1>3, <1>p, <1>4, <2>4 DEF RetakeCas, At, Known
  <2>8. ms'[m] = s /\ ms' \in [M -> MRec] /\ \A x \in M : x # m => ms'[x] = ms[x]
    BY <1>2, <2>5, <2>7 DEF Known
  <2>9. ps' \in [P -> PRec] /\ ps'[p] = h /\ \A q \in P : q # p => ps'[q] = ps[q]
    <3>1. ps' = [ps EXCEPT ![p] = h]
      BY <1>1, <1>p, <1>4, <2>3 DEF RetakeCas, Marked
    <3> QED BY <1>2, <2>3, <3>1 DEF Known
  <2>10. sched' = sched /\ SchedSame /\ GsSame /\ netready' \subseteq G
    BY <1>2, Unchanged DEF RetakeCas, Known
  <2>11. SchedTypes' /\ PlaceInv'
    BY <1>2, <2>6, <2>8, <2>9, <2>10 DEF SchedTypes, PlaceInv, SchedSame, SchedKept, GsSame, SchedOk
  <2>12. CreatedInv'
    <3>1. \A x \in M : SameBorn(ms[x], ms'[x])
      BY <1>1, <2>6, <2>8 DEF SameBorn
    <3> QED BY <2>10, <3>1, CreatedSame DEF SchedOk
  <2>13. SpinCount'
    <3>1. ms'[m] = s /\ \A x \in M : x # m => ms'[x] = ms[x]
      BY <1>2, <2>7 DEF Known
    <3>2. \A x \in M : (ms'[x].spinning <=> ms[x].spinning) /\ (Starts(ms'[x]) <=> Starts(ms[x]))
      BY <1>1, <2>6, <3>1 DEF SameSpin
    <3> QED BY <1>2, <2>10, <3>2, SpinKept DEF Known, SchedOk
  <2>14. RunInv'
    <3>1. \A x \in M : /\ (Runs(ms'[x]) <=> Runs(ms[x])) /\ (Stops(ms'[x]) <=> Stops(ms[x]))
         /\ (Runs(ms[x]) => ms'[x].p = ms[x].p)
      BY <1>1, <2>6, <2>8 DEF SameStop
    <3>2. \A q \in P : /\ ps'[q].m = ps[q].m /\ (ps[q].m # None => ps'[q].status = ps[q].status)
         /\ (ps'[q].status = "Prunning" => ps[q].status = "Prunning")
         /\ (ps'[q].status = "Pdead" <=> ps[q].status = "Pdead")
      BY <2>1, <2>3, <2>9
    <3> QED BY <2>10, <3>1, <3>2, RunKept DEF SchedOk
  <2>15. StopInv'
    <3>1. \A x \in M : SameStop(ms[x], ms'[x])
      BY <1>1, <2>6, <2>8 DEF SameStop
    <3>2. \A q \in P : ps'[q].status = "Pgcstop" <=> ps[q].status = "Pgcstop"
      BY <2>1, <2>3, <2>9
    <3> QED BY <2>10, <3>1, <3>2, StopKept DEF SchedOk, SameStop
  <2>16. IdleInv'
    <3>1. p \in HandsOf(s) /\ \A q \in P : q # p => (q \in HandsOf(s) <=> q \in HandsOf(r))
      BY <2>5, <2>6, Consts, InHands
    <3>2. \A q \in P : q # p => \A x \in M : q \in HandsOf(ms'[x]) <=> q \in HandsOf(ms[x])
      BY <1>1, <2>8, <3>1
    <3>3. p \in HandsOf(ms'[m]) /\ \A x \in M : x # m => p \notin HandsOf(ms'[x])
      BY <2>1, <2>8, <3>1
    <3>4. Injective(sched'.pidle) /\ SetOf(sched'.pidle) = SetOf(sched.pidle)
      BY <2>10, IdleIs DEF SchedOk
    <3> QED BY <2>1, <2>3, <2>9, <3>2, <3>3, <3>4, IdleStep DEF SchedOk
  <2> QED BY <2>11, <2>12, <2>13, <2>14, <2>15, <2>16 DEF SchedOk
<1>5. CASE ~CasPsyscall(p)
  <2>1. PsSame /\ SchedSame /\ GsSame /\ netready' \subseteq G
    <3>1. PsSame
      BY <1>1, <1>2, <1>p, <1>5, Unchanged DEF RetakeCas, Known
    <3> QED BY <1>2, <1>5, <3>1, Unchanged DEF RetakeCas, Known
  <2>2. PICK s : s = [r EXCEPT !.lp = None, !.pc = "smadd"]
    OBVIOUS
  <2>3. s \in MRec /\ s.lp = None /\ s.pc = "smadd" /\ s.p = r.p /\ s.nextp = r.nextp
       /\ s.spinning = r.spinning /\ s.lm = r.lm /\ s.todo = r.todo /\ s.sp = r.sp /\ s.iret = r.iret
    BY <1>2, <1>3, <2>2, PlaceNames DEF Known, MRec, Kept
  <2>4. Quiet(r, s)
    BY <1>2, <1>3, <2>3, AloneQuiet DEF Known, Kept, Alone, Elsewhere, Grips, Holding, Running,
         Stopping, Stale
  <2>5. ms' = [ms EXCEPT ![m] = s]
    BY <1>1, <1>2, <1>3, <1>5, <2>2, <1>p DEF RetakeCas, At, Known
  <2> QED BY <1>1, <2>1, <2>4, <2>5, QuietMove
<1> QED BY <1>4, <1>5

(* stoptheworld stops a processor that is in a system call.                *)
LEMMA StopSyscallPOk ==
    ASSUME SchedOk, thrown = "none", NEW m \in M, StopSyscallP(m)
    PROVE  SchedOk'
<1>1. PICK r : r = ms[m]
  OBVIOUS
<1>2. Known(m, r)
  BY <1>1, Thread DEF Known
<1>3. r.pc = "stw1"
  BY <1>1 DEF StopSyscallP, At
<1>p. PICK p \in P : p = r.n /\ p \in Pos /\ p \in Nat
  BY <1>1, <1>2, PosInP, Consts DEF StopSyscallP, Known
<1>k. PICK k \in Nat : k = p + 1
  BY <1>p
<1>g. sched.gcwaiting
  <2>1. Cont(r) \in Stopping
    BY <1>3 DEF Cont, Calls, Injecting, Handing, Stopping
  <2> QED BY <1>1, <2>1 DEF SchedOk, StopInv
<1>4. PICK s : s = [r EXCEPT !.n = k]
  OBVIOUS
<1>5. s \in MRec /\ s.n = k /\ s.pc = r.pc /\ s.p = r.p /\ s.nextp = r.nextp /\ s.spinning = r.spinning
     /\ s.lp = r.lp /\ s.lm = r.lm /\ s.todo = r.todo /\ s.sp = r.sp /\ s.ret = r.ret /\ s.iret = r.iret
     /\ s.lg = r.lg /\ s.curg = r.curg /\ s.glist = r.glist
  BY <1>2, <1>4, PlaceNames DEF Known, MRec
<1>6. Wf(s) /\ SameStop(r, s) /\ SameBorn(r, s) /\ SameSpin(r, s) /\ (Runs(s) <=> Runs(r)) /\ s.p = r.p
     /\ LpOf(s) = LpOf(r) /\ SameHold(r, s)
  BY <1>2, <1>3, <1>5, Consts DEF Known, SameStop, HoldingSema, Stopped0, SameBorn, SameSpin, Wf,
       ReturnsOf, LocalsOf, OnceInHands, Runs, Stops, Starts, Cont, LpOf, TodoOf, Calls, Injecting,
       Handing, WithP, Stale, Stopping, HandoffRets, WakeRets, Holding, Running, SameHold
<1>7. ms' = [ms EXCEPT ![m] = s]
  BY <1>1, <1>2, <1>3, <1>4, <1>p, <1>k DEF StopSyscallP, At, Known
<1>8. CASE CasPsyscall(p)
  <2>1. ps[p].status = "Psyscall" /\ ps[p].m = None
    BY <1>8, SyscallFree DEF CasPsyscall
  <2>2. PICK h \in PRec : h.m = None /\ h.status = "Pgcstop" /\ Marked(p,
       "Pgcstop") = [ps EXCEPT ![p] = h]
    BY <1>2, <2>1, PsStatus DEF Known
  <2>3. ps' = [ps EXCEPT ![p] = h]
    BY <1>1, <1>p, <1>8, <2>2 DEF StopSyscallP, Marked
  <2>4. /\ sched' \in SRec /\ sched'.gomaxprocs = sched.gomaxprocs /\ sched'.gcwaiting = sched.gcwaiting
       /\ sched'.worldsema = sched.worldsema /\ sched'.stopwait = sched.stopwait - 1
       /\ sched'.maxmcount = sched.maxmcount /\ sched'.pidle = sched.pidle /\ sched'.midle = sched.midle
       /\ sched'.stopnote = sched.stopnote /\ sched'.nmspinning = sched.nmspinning
    <3>1. PICK w \in Int : w = sched.stopwait - 1
      BY <1>2 DEF Known, SRec
    <3>2. sched' = [sched EXCEPT !.stopwait = w]
      BY <1>1, <1>p, <1>8, <3>1 DEF StopSyscallP
    <3> QED BY <1>2, <3>1, <3>2 DEF Known, SRec
  <2>5. GsSame /\ netready' \subseteq G
    BY <1>2, Unchanged DEF StopSyscallP, Known
  <2>6. SpinCount'
    <3>1. ms'[m] = s /\ \A x \in M : x # m => ms'[x] = ms[x]
      BY <1>2, <1>7 DEF Known
    <3>2. \A x \in M : (ms'[x].spinning <=> ms[x].spinning) /\ (Starts(ms'[x]) <=> Starts(ms[x]))
      BY <1>1, <1>6, <3>1 DEF SameSpin
    <3> QED BY <1>2, <2>4, <3>2, SpinKept DEF Known, SchedOk
  <2> QED BY <1>1, <1>p, <1>g, <1>5, <1>6, <1>7, <2>1, <2>2, <2>3, <2>4, <2>5, <2>6, StopStep
<1>9. CASE ~CasPsyscall(p)
  <2>1. PsSame /\ SchedSame /\ GsSame /\ netready' \subseteq G
    BY <1>1, <1>2, <1>p, <1>9, Unchanged DEF StopSyscallP, Known
  <2>2. Quiet(r, s)
    BY <1>5, <1>6 DEF Quiet, Keeps
  <2> QED BY <1>1, <1>7, <2>1, <2>2, QuietMove
<1> QED BY <1>8, <1>9

(* stoptheworld is woken by the last processor to stop.                    *)
LEMMA StopWakeOk ==
    ASSUME SchedOk, thrown = "none", NEW m \in M, StopWake(m)
    PROVE  SchedOk'
<1>1. PICK r : r = ms[m]
  OBVIOUS
<1>2. Known(m, r)
  BY <1>1, Thread DEF Known
<1>3. r.pc = "stwwait"
  BY <1>1 DEF StopWake, At
<1>4. PICK s : s = [r EXCEPT !.pc = "stwchk"]
  OBVIOUS
<1>5. s \in MRec /\ s.pc = "stwchk" /\ s.p = r.p /\ s.nextp = r.nextp /\ s.spinning = r.spinning
     /\ s.lp = r.lp /\ s.lm = r.lm /\ s.todo = r.todo /\ s.sp = r.sp /\ s.ret = r.ret /\ s.iret = r.iret
     /\ s.lg = r.lg /\ s.curg = r.curg /\ s.glist = r.glist
  BY <1>2, <1>4, PlaceNames DEF Known, MRec
<1>6. Wf(s) /\ SameHold(r, s) /\ (Stops(s) <=> Stops(r)) /\ Stops(r) /\ SameBorn(r, s) /\ SameSpin(r, s)
     /\ Cont(s) = "stwchk" /\ Cont(r) = "stwwait"
  BY <1>2, <1>3, <1>5, Consts DEF Known, SameStop, HoldingSema, Stopped0, SameBorn, SameSpin, Wf,
       ReturnsOf, LocalsOf, OnceInHands, Runs, Stops, Starts, Cont, LpOf, TodoOf, Calls, Injecting,
       Handing, WithP, Stale, Stopping, HandoffRets, WakeRets, Holding, Running, SameHold
<1>7. ms' = [ms EXCEPT ![m] = s]
  BY <1>1, <1>2, <1>3, <1>4 DEF StopWake, At, Known
<1>8. ms'[m] = s /\ \A x \in M : x # m => ms'[x] = ms[x]
  BY <1>2, <1>7 DEF Known
<1>9. sched' \in SRec /\ sched'.pidle = sched.pidle /\ sched'.midle = sched.midle
     /\ sched'.nmspinning = sched.nmspinning /\ sched'.gomaxprocs = sched.gomaxprocs
     /\ sched'.maxmcount = sched.maxmcount /\ sched'.gcwaiting = sched.gcwaiting
     /\ sched'.stopwait = sched.stopwait /\ sched'.stopnote = FALSE
     /\ sched'.worldsema = sched.worldsema /\ sched.stopnote
  <2>1. sched' = [sched EXCEPT !.stopnote = FALSE] /\ sched.stopnote
    BY DEF StopWake
  <2> QED BY <1>2, <2>1 DEF Known, SRec
<1>10. PsSame /\ GsSame /\ netready' \subseteq G
  BY <1>2, Unchanged DEF StopWake, Known
<1>11. \A x \in M : x # m => ~Stops(ms[x])
  BY <1>1, <1>6 DEF SchedOk, StopInv, Stops
<1>12. StillRunning' = StillRunning
  <2>1. Pos' = Pos /\ Pos \subseteq P
    BY <1>2, <1>9, PosInP DEF Pos, Known
  <2> QED BY <1>10, <2>1 DEF StillRunning, PsSame
<1>13. StopInv'
  <2>1. StopInv
    BY DEF SchedOk
  <2>2. \A x \in M : (Stops(ms'[x]) <=> Stops(ms[x]))
    BY <1>1, <1>6, <1>8
  <2>3. \A q \in P : ps'[q].status = ps[q].status
    BY <1>10 DEF PsSame
  <2>4. \A x \in M : Stops(ms'[x]) => x = m
    BY <1>11, <2>2
  <2>5. sched.gcwaiting /\ sched'.stopwait = 0 /\ ~sched'.stopnote
       /\ \A x \in M : Cont(ms'[x]) \in HoldingSema => ~sched'.worldsema
    BY <1>1, <1>6, <1>8, <1>9, <2>1, <2>4, StopSets DEF StopInv, Stops, HoldingSema
  <2> QED BY <1>9, <1>12, <2>1, <2>2, <2>3, <2>4, <2>5 DEF StopInv, Stops
<1> QED BY <1>1, <1>5, <1>6, <1>7, <1>9, <1>10, <1>13, StopMove

(* The collector is done and releases worldsema.                           *)
LEMMA GcDoneOk ==
    ASSUME SchedOk, thrown = "none", NEW m \in M, GcDone(m)
    PROVE  SchedOk'
<1>1. PICK r : r = ms[m]
  OBVIOUS
<1>2. Known(m, r)
  BY <1>1, Thread DEF Known
<1>3. r.pc = "gcwait"
  BY <1>1 DEF GcDone, At
<1>4. PICK s : s = [r EXCEPT !.pc = "start0"]
  OBVIOUS
<1>5. s \in MRec /\ s.pc = "start0" /\ s.p = r.p /\ s.nextp = r.nextp /\ s.spinning = r.spinning
     /\ s.lp = r.lp /\ s.lm = r.lm /\ s.todo = r.todo /\ s.sp = r.sp /\ s.ret = r.ret /\ s.iret = r.iret
     /\ s.lg = r.lg /\ s.curg = r.curg /\ s.glist = r.glist
  BY <1>2, <1>4, PlaceNames DEF Known, MRec
<1>6. Wf(s) /\ SameHold(r, s) /\ (Stops(s) <=> Stops(r)) /\ Stops(r) /\ SameBorn(r, s) /\ SameSpin(r, s)
     /\ Cont(s) = "start0" /\ Cont(r) = "gcwait"
  BY <1>2, <1>3, <1>5, Consts DEF Known, SameStop, HoldingSema, Stopped0, SameBorn, SameSpin, Wf,
       ReturnsOf, LocalsOf, OnceInHands, Runs, Stops, Starts, Cont, LpOf, TodoOf, Calls, Injecting,
       Handing, WithP, Stale, Stopping, HandoffRets, WakeRets, Holding, Running, SameHold
<1>7. ms' = [ms EXCEPT ![m] = s]
  BY <1>1, <1>2, <1>3, <1>4 DEF GcDone, At, Known
<1>8. ms'[m] = s /\ \A x \in M : x # m => ms'[x] = ms[x]
  BY <1>2, <1>7 DEF Known
<1>9. sched' \in SRec /\ sched'.pidle = sched.pidle /\ sched'.midle = sched.midle
     /\ sched'.nmspinning = sched.nmspinning /\ sched'.gomaxprocs = sched.gomaxprocs
     /\ sched'.maxmcount = sched.maxmcount /\ sched'.gcwaiting = sched.gcwaiting
     /\ sched'.stopwait = sched.stopwait /\ sched'.stopnote = sched.stopnote /\ sched'.worldsema = TRUE
  <2>1. sched' = [sched EXCEPT !.worldsema = TRUE]
    BY DEF GcDone
  <2> QED BY <1>2, <2>1 DEF Known, SRec
<1>10. PsSame /\ GsSame /\ netready' \subseteq G
  BY <1>2, Unchanged DEF GcDone, Known
<1>11. \A x \in M : x # m => ~Stops(ms[x])
  BY <1>1, <1>6 DEF SchedOk, StopInv, Stops
<1>12. StillRunning' = StillRunning
  <2>1. Pos' = Pos /\ Pos \subseteq P
    BY <1>2, <1>9, PosInP DEF Pos, Known
  <2> QED BY <1>10, <2>1 DEF StillRunning, PsSame
<1>13. StopInv'
  <2>1. StopInv
    BY DEF SchedOk
  <2>2. \A x \in M : (Stops(ms'[x]) <=> Stops(ms[x]))
    BY <1>1, <1>6, <1>8
  <2>3. \A q \in P : ps'[q].status = ps[q].status
    BY <1>10 DEF PsSame
  <2>4. \A x \in M : Stops(ms'[x]) => x = m
    BY <1>11, <2>2
  <2>5. sched.gcwaiting /\ sched'.stopwait = 0 /\ ~sched'.stopnote
       /\ \A x \in M : Cont(ms'[x]) \in HoldingSema => ~sched'.worldsema
    BY <1>1, <1>6, <1>8, <1>9, <2>1, <2>4, StopSets DEF StopInv, Stops, HoldingSema, Stopped0, Stopping
  <2> QED BY <1>9, <1>12, <2>1, <2>2, <2>3, <2>4, <2>5 DEF StopInv, Stops
<1> QED BY <1>1, <1>5, <1>6, <1>7, <1>9, <1>10, <1>13, StopMove

(* GOMAXPROCS sets the new number and releases worldsema.                  *)
LEMMA SetProcsOk ==
    ASSUME SchedOk, thrown = "none", NEW m \in M, SetProcs(m)
    PROVE  SchedOk'
<1>1. PICK r : r = ms[m]
  OBVIOUS
<1>2. Known(m, r)
  BY <1>1, Thread DEF Known
<1>3. r.pc = "procs"
  BY <1>1 DEF SetProcs, At
<1>4. PICK s : s = [r EXCEPT !.pc = "start0"]
  OBVIOUS
<1>5. s \in MRec /\ s.pc = "start0" /\ s.p = r.p /\ s.nextp = r.nextp /\ s.spinning = r.spinning
     /\ s.lp = r.lp /\ s.lm = r.lm /\ s.todo = r.todo /\ s.sp = r.sp /\ s.ret = r.ret /\ s.iret = r.iret
     /\ s.lg = r.lg /\ s.curg = r.curg /\ s.glist = r.glist
  BY <1>2, <1>4, PlaceNames DEF Known, MRec
<1>6. Wf(s) /\ SameHold(r, s) /\ (Stops(s) <=> Stops(r)) /\ Stops(r) /\ SameBorn(r, s) /\ SameSpin(r, s)
     /\ Cont(s) = "start0" /\ Cont(r) = "procs"
  BY <1>2, <1>3, <1>5, Consts DEF Known, SameStop, HoldingSema, Stopped0, SameBorn, SameSpin, Wf,
       ReturnsOf, LocalsOf, OnceInHands, Runs, Stops, Starts, Cont, LpOf, TodoOf, Calls, Injecting,
       Handing, WithP, Stale, Stopping, HandoffRets, WakeRets, Holding, Running, SameHold
<1>7. ms' = [ms EXCEPT ![m] = s]
  BY <1>1, <1>2, <1>3, <1>4 DEF SetProcs, At, Known
<1>8. ms'[m] = s /\ \A x \in M : x # m => ms'[x] = ms[x]
  BY <1>2, <1>7 DEF Known
<1>9. sched' \in SRec /\ sched'.pidle = sched.pidle /\ sched'.midle = sched.midle
     /\ sched'.nmspinning = sched.nmspinning /\ sched'.gomaxprocs = sched.gomaxprocs
     /\ sched'.maxmcount = sched.maxmcount /\ sched'.gcwaiting = sched.gcwaiting
     /\ sched'.stopwait = sched.stopwait /\ sched'.stopnote = sched.stopnote /\ sched'.worldsema = TRUE
  <2>1. PICK k \in NewProcs : sched' = [sched EXCEPT !.newprocs = k, !.worldsema = TRUE]
    BY DEF SetProcs
  <2>2. k \in 0 .. Cardinality(P)
    <3>1. k \in 1 .. Cardinality(P)
      BY SchedConstants
    <3> QED BY <3>1, Consts
  <2> QED BY <1>2, <2>1, <2>2 DEF Known, SRec
<1>10. PsSame /\ GsSame /\ netready' \subseteq G
  BY <1>2, Unchanged DEF SetProcs, Known
<1>11. \A x \in M : x # m => ~Stops(ms[x])
  BY <1>1, <1>6 DEF SchedOk, StopInv, Stops
<1>12. StillRunning' = StillRunning
  <2>1. Pos' = Pos /\ Pos \subseteq P
    BY <1>2, <1>9, PosInP DEF Pos, Known
  <2> QED BY <1>10, <2>1 DEF StillRunning, PsSame
<1>13. StopInv'
  <2>1. StopInv
    BY DEF SchedOk
  <2>2. \A x \in M : (Stops(ms'[x]) <=> Stops(ms[x]))
    BY <1>1, <1>6, <1>8
  <2>3. \A q \in P : ps'[q].status = ps[q].status
    BY <1>10 DEF PsSame
  <2>4. \A x \in M : Stops(ms'[x]) => x = m
    BY <1>11, <2>2
  <2>5. sched.gcwaiting /\ sched'.stopwait = 0 /\ ~sched'.stopnote
       /\ \A x \in M : Cont(ms'[x]) \in HoldingSema => ~sched'.worldsema
    BY <1>1, <1>6, <1>8, <1>9, <2>1, <2>4, StopSets DEF StopInv, Stops, HoldingSema, Stopped0, Stopping
  <2> QED BY <1>9, <1>12, <2>1, <2>2, <2>3, <2>4, <2>5 DEF StopInv, Stops
<1> QED BY <1>1, <1>5, <1>6, <1>7, <1>9, <1>10, <1>13, StopMove

(***************************************************************************)
(* Parking, the program's end, and handing a processor to a locked         *)
(* thread.                                                                 *)
(***************************************************************************)
(* Parts of a list of threads.                                             *)
LEMMA MidleCreated == ASSUME SchedOk PROVE sched.midle \in Seq(M) /\ sched.midle \in Seq(Created)
<1>1. sched.midle \in Seq(M) /\ \A i \in DOMAIN sched.midle : sched.midle[i] \in Created
  BY DEF SchedOk, SchedTypes, SRec, CreatedInv
<1> QED BY <1>1

(* Thread u is handed processor p.                                         *)
Alike(u, t) ==
    /\ t.pc = u.pc /\ t.p = u.p /\ t.lp = u.lp /\ t.lm = u.lm /\ t.todo = u.todo /\ t.sp = u.sp
    /\ t.ret = u.ret /\ t.iret = u.iret /\ t.lg = u.lg /\ t.curg = u.curg /\ t.glist = u.glist

(* A thread that processor p is handed to.                                 *)
LEMMA GetsP ==
    ASSUME NEW u, NEW t, Wf(u), u.pc # "none", NEW p \in P, p \notin HandsOf(u), u.nextp = None,
           t.nextp = p, Alike(u, t)
    PROVE  /\ Wf(t) /\ SameStop(u, t) /\ (Runs(t) <=> Runs(u)) /\ (Starts(t) <=> Starts(u))
           /\ p \in HandsOf(t) /\ \A q \in P : q # p => (q \in HandsOf(t) <=> q \in HandsOf(u))
<1>1. LpOf(t) = LpOf(u) /\ TodoOf(t) = TodoOf(u) /\ None \notin P
  BY Consts DEF LpOf, TodoOf, Alike
<1>2. p # LpOf(u) /\ p \notin TodoOf(u)
  BY InHands
<1>3. Cont(t) = Cont(u)
  BY DEF Cont, Alike
<1>4. OnceInHands(t)
  BY <1>1, <1>2 DEF OnceInHands, Wf, Alike
<1>5. ReturnsOf(t)
  BY DEF ReturnsOf, Wf, Alike
<1>6. LocalsOf(t)
  BY <1>3 DEF LocalsOf, Wf, Alike
<1> QED BY <1>1, <1>2, <1>3, <1>4, <1>5, <1>6, InHands DEF Wf, SameStop, Runs, Stops, Starts, Alike

(* exit ends the program.                                                  *)
LEMMA ExitOk == ASSUME thrown = "none", NEW m \in M, Exit(m) PROVE thrown' # "none"
BY DEF Exit, Verdict

(* A thread goes to sleep on sched.midle.                                  *)
LEMMA StopmOk ==
    ASSUME SchedOk, thrown = "none", NEW m \in M, Stopm(m)
    PROVE  SchedOk'
<1>1. PICK r : r = ms[m]
  OBVIOUS
<1>2. Known(m, r)
  BY <1>1, Thread DEF Known
<1>3. r.pc = "stopm"
  BY <1>1 DEF Stopm, At
<1>n. sched.nmspinning \in Int /\ r.spinning \in BOOLEAN
  BY <1>2 DEF Known, SRec, MRec
<1>k. PICK k \in Int : k = sched.nmspinning - (IF r.spinning THEN 1 ELSE 0)
  BY <1>n
<1>t. PICK t \in Seq(M) : t = <<m>> \o sched.midle /\ t \in Seq(Created)
  <2>1. m \in Created
    BY <1>1, <1>3 DEF Created
  <2>2. <<m>> \in Seq(M) /\ <<m>> \in Seq(Created)
    BY <2>1
  <2>3. <<m>> \o sched.midle \in Seq(M) /\ <<m>> \o sched.midle \in Seq(Created)
    BY <2>2, MidleCreated, ConcatProperties
  <2> QED BY <2>3
<1>4. PICK s : s = [r EXCEPT !.pc = "parked", !.spinning = FALSE]
  OBVIOUS
<1>5. s \in MRec /\ s.pc = "parked" /\ s.spinning = FALSE /\ s.p = r.p /\ s.nextp = r.nextp
     /\ s.lp = r.lp /\ s.lm = r.lm /\ s.todo = r.todo /\ s.sp = r.sp /\ s.ret = r.ret /\ s.iret = r.iret
     /\ s.lg = r.lg /\ s.curg = r.curg /\ s.glist = r.glist
  BY <1>2, <1>4, PlaceNames DEF Known, MRec
<1>6. Keeps(r, s) /\ SameBorn(r, s) /\ (Starts(s) <=> FALSE) /\ (Starts(r) <=> FALSE)
  BY <1>2, <1>3, <1>5, Consts DEF Known, SameStop, HoldingSema, Stopped0, SameBorn, SameSpin, Wf,
       ReturnsOf, LocalsOf, OnceInHands, Runs, Stops, Starts, Cont, LpOf, TodoOf, Calls, Injecting,
       Handing, WithP, Stale, Stopping, HandoffRets, WakeRets, Holding, Running, Keeps, SameHold
<1>7. ms' = [ms EXCEPT ![m] = s]
  BY <1>1, <1>2, <1>3, <1>4 DEF Stopm, At, Known
<1>8. ms'[m] = s /\ ms' \in [M -> MRec] /\ \A x \in M : x # m => ms'[x] = ms[x]
  BY <1>2, <1>5, <1>7 DEF Known
<1>9. SchedKept /\ sched'.midle = t /\ sched'.nmspinning = k
  <2>1. sched' = [sched EXCEPT !.midle = t, !.nmspinning = k]
    BY <1>1, <1>k, <1>t DEF Stopm
  <2> QED BY <1>2, <2>1 DEF Known, SRec, SchedKept
<1>10. PsSame /\ gs' = gs /\ GsSame /\ netready' \subseteq G
  BY <1>2, Unchanged DEF Stopm, Known
<1>11. SpinCount'
  <2>2. k = sched.nmspinning + One(s.spinning) - One(r.spinning) + One(Starts(s)) - One(Starts(r))
    BY <1>n, <1>k, <1>5, <1>6 DEF One
  <2> QED BY <1>1, <1>2, <1>8, <1>9, <2>2, SpinStep DEF SchedOk
<1>12. \A x \in M : Keeps(ms[x], ms'[x]) /\ SameBorn(ms[x], ms'[x])
  <2>1. \A x \in M : Quiet(ms[x], ms[x])
    BY QuietSame DEF SchedOk
  <2> QED BY <1>1, <1>6, <1>8, <2>1 DEF Quiet
<1>13. CreatedInv'
  <2>1. CreatedInv
    BY DEF SchedOk
  <2>2. \A x \in M : (ms'[x].pc = "none" <=> ms[x].pc = "none") /\ ms'[x].lm = ms[x].lm
       /\ ms'[x].todo = ms[x].todo
    BY <1>12 DEF SameBorn
  <2>3. \A i \in DOMAIN sched'.midle : sched'.midle[i] \in Created
    BY <1>t, <1>9
  <2>4. \A g \in G : gs'[g].lockedm # None => gs'[g].lockedm \in Created
    BY <1>10, <2>1, <2>2 DEF CreatedInv
  <2>5. \A x \in M : ms'[x].lm # None => ms'[x].lm \in Created /\ ms'[x].lm # x
    BY <1>10, <2>1, <2>2 DEF CreatedInv
  <2>6. \A x \in M : \A i \in DOMAIN ms'[x].todo : ms'[x].todo[i][2] # None => ms'[x].todo[i][2] \in Created
    BY <1>10, <2>1, <2>2 DEF CreatedInv
  <2> QED BY <1>9, <2>1, <2>2, <2>3, <2>4, <2>5, <2>6, CreatedKept DEF SchedKept, SchedSame, SchedRest
<1> QED BY <1>8, <1>9, <1>10, <1>11, <1>12, <1>13, KeptStep DEF GsSame

(* startlockedm picks the thread that the goroutine is locked to.          *)
LEMMA StartLockedmOk ==
    ASSUME SchedOk, thrown = "none", NEW m \in M, StartLockedm(m), thrown' = "none"
    PROVE  SchedOk'
<1>1. PICK r : r = ms[m]
  OBVIOUS
<1>2. Known(m, r)
  BY <1>1, Thread DEF Known
<1>3. r.pc = "gotg"
  BY <1>1 DEF StartLockedm, At
<1>y. PICK y \in M : y = gs[r.lg].lockedm /\ y # m /\ y \in Created
  <2>1. r.lg \in G
    BY <1>2, <1>3 DEF Known, MRec, Holding, Wf, LocalsOf, Cont, Calls, Injecting, Handing
  <2>2. gs[r.lg] \in GRec
    BY <1>2, <2>1 DEF Known
  <2>3. gs[r.lg].lockedm \in M \cup {None}
    BY <2>2 DEF GRec
  <2>4. gs[r.lg].lockedm # None /\ gs[r.lg].lockedm # m
    BY <1>1 DEF StartLockedm, Verdict
  <2>5. gs[r.lg].lockedm \in Created
    BY <2>1, <2>4 DEF SchedOk, CreatedInv
  <2> QED BY <2>3, <2>4, <2>5
<1>4. PICK s : s = [r EXCEPT !.pc = "givep", !.lm = y]
  OBVIOUS
<1>5. s \in MRec /\ s.pc = "givep" /\ s.lm = y /\ s.p = r.p /\ s.nextp = r.nextp
     /\ s.spinning = r.spinning /\ s.lp = r.lp /\ s.todo = r.todo /\ s.sp = r.sp /\ s.ret = r.ret
     /\ s.iret = r.iret /\ s.lg = r.lg /\ s.curg = r.curg /\ s.glist = r.glist
  BY <1>2, <1>4, PlaceNames DEF Known, MRec
<1>6. Keeps(r, s) /\ SameSpin(r, s)
  BY <1>2, <1>3, <1>5, Consts, <1>y DEF Known, SameStop, HoldingSema, Stopped0, SameBorn, SameSpin, Wf,
       ReturnsOf, LocalsOf, OnceInHands, Runs, Stops, Starts, Cont, LpOf, TodoOf, Calls, Injecting,
       Handing, WithP, Stale, Stopping, HandoffRets, WakeRets, Holding, Running, Keeps, SameHold
<1>7. ms' = [ms EXCEPT ![m] = s]
  BY <1>1, <1>2, <1>3, <1>4, <1>y DEF StartLockedm, At, Known
<1>8. ms'[m] = s /\ ms' \in [M -> MRec] /\ \A x \in M : x # m => ms'[x] = ms[x]
  BY <1>2, <1>5, <1>7 DEF Known
<1>9. SchedSame
  <2>1. PICK k \in Int : k = sched.nmidlelocked - 1
    BY <1>2 DEF Known, SRec
  <2>2. sched' = [sched EXCEPT !.nmidlelocked = k]
    BY <2>1 DEF StartLockedm
  <2> QED BY <1>2, <2>2, SchedField DEF Known
<1>10. PsSame /\ gs' = gs /\ GsSame /\ netready' \subseteq G
  BY <1>2, Unchanged DEF StartLockedm, Known
<1>11. SpinCount'
  <2>2. \A x \in M : (ms'[x].spinning <=> ms[x].spinning) /\ (Starts(ms'[x]) <=> Starts(ms[x]))
    BY <1>1, <1>6, <1>8 DEF SameSpin
  <2> QED BY <1>2, <1>9, <2>2, SpinKept DEF Known, SchedOk, SchedSame
<1>12. \A x \in M : Keeps(ms[x], ms'[x])
  <2>1. \A x \in M : Quiet(ms[x], ms[x])
    BY QuietSame DEF SchedOk
  <2> QED BY <1>1, <1>6, <1>8, <2>1 DEF Quiet
<1>13. CreatedInv'
  <2>1. CreatedInv
    BY DEF SchedOk
  <2>2. \A x \in M : (ms'[x].pc = "none" <=> ms[x].pc = "none") /\ (ms'[x].lm = ms[x].lm \/ (x = m
       /\ ms'[x].lm = y)) /\ ms'[x].todo = ms[x].todo
    BY <1>1, <1>3, <1>5, <1>8
  <2>3. \A i \in DOMAIN sched'.midle : sched'.midle[i] \in Created
    BY <1>9, <2>1 DEF CreatedInv, SchedSame
  <2>4. \A g \in G : gs'[g].lockedm # None => gs'[g].lockedm \in Created
    BY <1>y, <1>10, <2>1, <2>2 DEF CreatedInv
  <2>5. \A x \in M : ms'[x].lm # None => ms'[x].lm \in Created /\ ms'[x].lm # x
    BY <1>y, <1>10, <2>1, <2>2 DEF CreatedInv
  <2>6. \A x \in M : \A i \in DOMAIN ms'[x].todo : ms'[x].todo[i][2] # None => ms'[x].todo[i][2] \in Created
    BY <1>y, <1>10, <2>1, <2>2 DEF CreatedInv
  <2> QED BY <1>9, <2>1, <2>2, <2>3, <2>4, <2>5, <2>6, CreatedKept DEF SchedKept, SchedSame, SchedRest
<1> QED BY <1>8, <1>9, <1>10, <1>11, <1>12, <1>13, KeptStep DEF GsSame, SchedSame

(* startlockedm hands its processor over.                                  *)
LEMMA GivePOk ==
    ASSUME SchedOk, thrown = "none", NEW m \in M, GiveP(m), thrown' = "none"
    PROVE  SchedOk'
<1>1. PICK r : r = ms[m]
  OBVIOUS
<1>2. Known(m, r)
  BY <1>1, Thread DEF Known
<1>3. r.pc = "givep"
  BY <1>1 DEF GiveP, At
<1>y. PICK y \in M : y = r.lm /\ y # m /\ y \in Created /\ ms[y].nextp = None
  <2>1. r.lm \in M
    BY <1>2, <1>3 DEF Known, MRec, Wf, LocalsOf
  <2>2. r.lm \in Created /\ r.lm # m
    BY <1>1, <2>1, Consts DEF SchedOk, CreatedInv
  <2>3. ms[r.lm].nextp = None
    BY <1>1 DEF GiveP, Verdict, Handed
  <2> QED BY <2>1, <2>2, <2>3
<1>p. PICK p \in P : p = r.p /\ p \in Pos /\ ps[p].status = "Prunning" /\ p \notin SetOf(sched.pidle)
     /\ \A x \in M : p \notin HandsOf(ms[x])
  <2>1. Cont(r) \in WithP /\ Cont(r) \notin Stopping
    BY <1>3 DEF Cont, Calls, Injecting, Handing, WithP, Stopping
  <2>2. r.p \in P /\ r.p \in Pos /\ ps[r.p].status = "Prunning"
    BY <1>1, <2>1, RunsHasP
  <2>3. r.p \notin SetOf(sched.pidle) /\ \A x \in M : r.p \notin HandsOf(ms[x])
    BY <2>2, HandIdle, ListIdle
  <2> QED BY <2>2, <2>3
<1>h. PICK h \in PRec : h.m = None /\ h.status = "Pidle" /\ Given(p, None,
     "Pidle") = [ps EXCEPT ![p] = h]
  BY <1>2, PsOne DEF Known
<1>4. PICK s : s = [r EXCEPT !.p = None, !.lg = None, !.lm = None, !.pc = "stopm", !.ret = "sched"]
  OBVIOUS
<1>5. s \in MRec /\ s.p = None /\ s.lg = None /\ s.lm = None /\ s.pc = "stopm" /\ s.ret = "sched"
     /\ s.nextp = r.nextp /\ s.spinning = r.spinning /\ s.lp = r.lp /\ s.todo = r.todo /\ s.sp = r.sp
     /\ s.iret = r.iret /\ s.curg = r.curg /\ s.glist = r.glist
  BY <1>2, <1>4, PlaceNames DEF Known, MRec
<1>6. Wf(s) /\ SameStop(r, s) /\ SameSpin(r, s) /\ Runs(r) /\ ~Runs(s) /\ LpOf(s) = LpOf(r)
     /\ TodoOf(s) = TodoOf(r)
  BY <1>2, <1>3, <1>5, Consts DEF Known, SameStop, HoldingSema, Stopped0, SameBorn, SameSpin, Wf,
       ReturnsOf, LocalsOf, OnceInHands, Runs, Stops, Starts, Cont, LpOf, TodoOf, Calls, Injecting,
       Handing, WithP, Stale, Stopping, HandoffRets, WakeRets, Holding, Running
<1>u. PICK u \in MRec : u = ms[y] /\ Wf(u)
  BY Thread
<1>t. PICK t : t = [u EXCEPT !.nextp = p, !.park = TRUE]
  OBVIOUS
<1>t1. t \in MRec /\ t.nextp = p /\ Alike(u, t) /\ t.spinning = u.spinning
  BY <1>t, <1>u DEF MRec, Alike
<1>t2. /\ Wf(t) /\ SameStop(u, t) /\ (Runs(t) <=> Runs(u)) /\ (Starts(t) <=> Starts(u))
     /\ p \in HandsOf(t) /\ (\A q \in P : q # p => (q \in HandsOf(t) <=> q \in HandsOf(u)))
  <2>1. u.pc # "none" /\ p \notin HandsOf(u) /\ u.nextp = None
    BY <1>u, <1>y, <1>p DEF Created
  <2> QED BY <1>u, <1>t1, <2>1, GetsP
<1>7. ms' = [ms EXCEPT ![m] = s, ![y] = t]
  BY <1>1, <1>2, <1>p, <1>y, <1>4, <1>u, <1>t DEF GiveP, Known
<1>8. ms'[m] = s /\ ms'[y] = t /\ ms' \in [M -> MRec] /\ \A x \in M : x # m /\ x # y => ms'[x] = ms[x]
  BY <1>2, <1>y, <1>5, <1>7, <1>t1 DEF Known
<1>9. ps' \in [P -> PRec] /\ ps'[p] = h /\ \A q \in P : q # p => ps'[q] = ps[q]
  <2>1. ps' = [ps EXCEPT ![p] = h]
    BY <1>1, <1>p, <1>h DEF GiveP, Released, Given
  <2> QED BY <1>2, <1>h, <2>1 DEF Known
<1>10. sched' = sched /\ SchedSame /\ gs' = gs /\ GsSame /\ netready' \subseteq G
  BY <1>2, Unchanged DEF GiveP, Known
<1>11. SchedTypes' /\ PlaceInv'
  BY <1>2, <1>6, <1>t2, <1>8, <1>9, <1>10 DEF SchedTypes, PlaceInv, SchedSame, SchedKept, GsSame,
       SchedOk
<1>12. CreatedInv'
  <2>1. CreatedInv
    BY DEF SchedOk
  <2>2. \A x \in M : (ms'[x].pc = "none" <=> ms[x].pc = "none")
       /\ (ms'[x].lm = ms[x].lm \/ ms'[x].lm = None) /\ ms'[x].todo = ms[x].todo
    BY <1>1, <1>3, <1>u, <1>5, <1>t1, <1>8 DEF Alike
  <2>3. \A i \in DOMAIN sched'.midle : sched'.midle[i] \in Created
    BY <1>10, <2>1 DEF CreatedInv
  <2>4. \A g \in G : gs'[g].lockedm # None => gs'[g].lockedm \in Created
    BY <1>10, <2>1, <2>2 DEF CreatedInv
  <2>5. \A x \in M : ms'[x].lm # None => ms'[x].lm \in Created /\ ms'[x].lm # x
    BY <1>10, <2>1, <2>2 DEF CreatedInv
  <2>6. \A x \in M : \A i \in DOMAIN ms'[x].todo : ms'[x].todo[i][2] # None => ms'[x].todo[i][2] \in Created
    BY <1>10, <2>1, <2>2 DEF CreatedInv
  <2> QED BY <1>10, <2>1, <2>2, <2>3, <2>4, <2>5, <2>6, CreatedKept DEF SchedKept, SchedSame, SchedRest
<1>13. SpinCount'
  <2>2. \A x \in M : (ms'[x].spinning <=> ms[x].spinning) /\ (Starts(ms'[x]) <=> Starts(ms[x]))
    BY <1>1, <1>6, <1>u, <1>t1, <1>t2, <1>8 DEF SameSpin
  <2> QED BY <1>2, <1>10, <2>2, SpinKept DEF Known, SchedOk
<1>14. RunInv'
  <2>1. \A x \in M : x # m => /\ (Runs(ms'[x]) <=> Runs(ms[x])) /\ (Stops(ms'[x]) <=> Stops(ms[x]))
       /\ ms'[x].p = ms[x].p
    BY <1>u, <1>t1, <1>t2, <1>8 DEF SameStop, Alike
  <2> QED BY <1>1, <1>p, <1>h, <1>6, <1>8, <1>9, <1>10, <2>1, RunRelease DEF SchedOk
<1>15. StopInv'
  <2>1. \A x \in M : SameStop(ms[x], ms'[x])
    BY <1>1, <1>u, <1>6, <1>t2, <1>8 DEF SameStop
  <2>2. \A q \in P : ps'[q].status = "Pgcstop" <=> ps[q].status = "Pgcstop"
    BY <1>p, <1>h, <1>9
  <2> QED BY <1>10, <2>1, <2>2, StopKept DEF SchedOk, SameStop
<1>16. IdleInv'
  <2>1. HandsOf(s) = HandsOf(r)
    BY <1>5, <1>6 DEF HandsOf
  <2>2. \A q \in P : q # p => \A x \in M : q \in HandsOf(ms'[x]) <=> q \in HandsOf(ms[x])
    BY <1>1, <1>u, <1>t2, <1>8, <2>1
  <2>3. p \in HandsOf(ms'[y]) /\ \A x \in M : x # y => p \notin HandsOf(ms'[x])
    BY <1>1, <1>p, <1>t2, <1>8, <2>1
  <2>4. Injective(sched'.pidle) /\ SetOf(sched'.pidle) = SetOf(sched.pidle)
    BY <1>10, IdleIs DEF SchedOk
  <2> QED BY <1>p, <1>h, <1>9, <2>2, <2>3, <2>4, IdleStep DEF SchedOk
<1> QED BY <1>11, <1>12, <1>13, <1>14, <1>15, <1>16 DEF SchedOk

(***************************************************************************)
(* startm.                                                                 *)
(***************************************************************************)
(* The record of a thread that returns from startm or newm.                *)
LEMMA BackWf ==
    ASSUME NEW r, NEW s, r \in MRec, Wf(r), r.pc \in {"startm", "newm"}, s.pc = r.ret, s.ret = "none",
           s.lp = None, s.sp = FALSE, s.p = r.p, s.nextp = r.nextp, s.spinning = r.spinning, s.lm = r.lm,
           s.todo = r.todo, s.iret = r.iret, s.lg = r.lg, s.curg = r.curg, s.glist = r.glist
    PROVE  /\ Wf(s) /\ SameStop(r, s) /\ (Runs(s) <=> Runs(r)) /\ (Starts(s) <=> FALSE) /\ s.pc # "none"
           /\ LpOf(s) = None /\ LpOf(r) = r.lp /\ TodoOf(s) = TodoOf(r)
           /\ (r.lp # None => r.lp # r.nextp /\ r.lp \notin TodoOf(r))
<1>1. r.ret \in HandoffRets \cup WakeRets \cup {"injloop", "start3"}
  BY DEF Wf, ReturnsOf
<1>2. Cont(s) = Cont(r) /\ (s.pc # "injloop" => Cont(s) = s.pc)
  BY <1>1 DEF Cont, Calls, Injecting, Handing, HandoffRets, WakeRets
<1>3. OnceInHands(s) /\ LpOf(s) = None /\ LpOf(r) = r.lp /\ TodoOf(s) = TodoOf(r) /\ None \notin TodoOf(r)
      /\ (r.lp # None => r.lp # r.nextp /\ r.lp \notin TodoOf(r))
  <2>1. TodoOf(s) = TodoOf(r) /\ LpOf(s) = None /\ LpOf(r) = r.lp
    BY DEF LpOf, TodoOf
  <2>2. None \notin TodoOf(r)
    BY Consts DEF MRec, TodoOf
  <2> QED BY <2>1, <2>2 DEF Wf, OnceInHands
<1>4. ReturnsOf(s)
  BY <1>1 DEF Wf, ReturnsOf, Calls, Injecting, Handing, HandoffRets, WakeRets
<1>5. LocalsOf(s)
  BY <1>1, <1>2 DEF Wf, LocalsOf, Calls, Injecting, Handing, HandoffRets, WakeRets
<1>6. (Starts(s) <=> FALSE) /\ s.pc # "none"
  BY <1>1 DEF Starts, HandoffRets, WakeRets
<1> QED BY <1>2, <1>3, <1>4, <1>5, <1>6 DEF Wf, SameStop, Runs, Stops

(* The fields of the record of a thread whose call returns.                *)
LEMMA BackFields ==
    ASSUME NEW r \in MRec, NEW s, s = Back(r)
    PROVE  s \in MRec /\ s.pc = r.ret /\ s.ret = "none" /\ s.lp = None /\ s.sp = FALSE /\ s.p = r.p
                /\ s.nextp = r.nextp /\ s.spinning = r.spinning /\ s.lm = r.lm /\ s.todo = r.todo
                /\ s.iret = r.iret /\ s.lg = r.lg /\ s.curg = r.curg /\ s.glist = r.glist
BY PlaceNames DEF MRec, Back

Newing(r, p) == [r EXCEPT !.pc = "newm", !.lp = p]

(* The fields of the record of a thread that startm sends to newm.         *)
LEMMA NewmFields ==
    ASSUME NEW r \in MRec, NEW p \in P, NEW s, s = Newing(r, p)
    PROVE  s \in MRec /\ s.pc = "newm" /\ s.lp = p /\ s.p = r.p /\ s.nextp = r.nextp
                /\ s.spinning = r.spinning /\ s.lm = r.lm /\ s.todo = r.todo /\ s.sp = r.sp
                /\ s.ret = r.ret /\ s.iret = r.iret /\ s.lg = r.lg /\ s.curg = r.curg
                /\ s.glist = r.glist
BY PlaceNames DEF MRec, Newing

(* Thread m, from now on s, hands processor p to thread y, which may be m  *)
(* itself.                                                                 *)
Passes(m, s, p, y, t) ==
    /\ s \in MRec /\ Wf(s) /\ SameStop(ms[m], s) /\ (Runs(s) <=> Runs(ms[m])) /\ s.p = ms[m].p
    /\ s.pc # "none" /\ s.nextp = ms[m].nextp /\ p \in P /\ p \notin HandsOf(s)
    /\ \A q \in P : q # p => (q \in HandsOf(s) <=> q \in HandsOf(ms[m]))
    /\ \A x \in M : x # m => p \notin HandsOf(ms[x])
    /\ y \in Created /\ ms[y].nextp = None
    /\ t \in MRec /\ Alike(IF y = m THEN s ELSE ms[y], t) /\ t.nextp = p
    /\ ms' = [ms EXCEPT ![m] = s, ![y] = t]

Passed(m, s, p, y, t) ==
    /\ ms' \in [M -> MRec] /\ y \in M /\ ms'[y] = t /\ (y # m => ms'[m] = s)
    /\ \A x \in M : x # m /\ x # y => ms'[x] = ms[x]
    /\ \A x \in M : /\ Wf(ms'[x]) /\ SameStop(ms[x], ms'[x]) /\ (Runs(ms'[x]) <=> Runs(ms[x]))
                    /\ Runs(ms[x]) => ms'[x].p = ms[x].p
    /\ \A q \in P : q # p => \A x \in M : q \in HandsOf(ms'[x]) <=> q \in HandsOf(ms[x])
    /\ p \in HandsOf(ms'[y]) /\ \A x \in M : x # y => p \notin HandsOf(ms'[x])
    /\ (Starts(ms'[m]) <=> Starts(s)) /\ \A x \in M : x # m => (Starts(ms'[x]) <=> Starts(ms[x]))

(* A processor goes from the hands of thread m into those of thread y,     *)
(* and no other moves.                                                     *)
LEMMA HandOver ==
    ASSUME SchedOk, NEW m \in M, NEW s, NEW p, NEW y, NEW t, Passes(m, s, p, y, t)
    PROVE  Passed(m, s, p, y, t)
<1> USE DEF Passes
<1>0. PICK u : u = IF y = m THEN s ELSE ms[y]
  OBVIOUS
<1>1. ms \in [M -> MRec] /\ y \in M /\ ms[y].pc # "none" /\ \A x \in M : Wf(ms[x])
  BY DEF SchedOk, SchedTypes, PlaceInv, Created
<1>2. ms' \in [M -> MRec] /\ ms'[y] = t /\ (y # m => ms'[m] = s) /\ \A x \in M : x # m /\ x # y => ms'[x] = ms[x]
  BY <1>1
<1>3. Wf(u) /\ u.pc # "none" /\ p \notin HandsOf(u) /\ u.nextp = None
  BY <1>0, <1>1
<1>4. /\ Wf(t) /\ SameStop(u, t) /\ (Runs(t) <=> Runs(u)) /\ (Starts(t) <=> Starts(u))
      /\ p \in HandsOf(t) /\ \A q \in P : q # p => (q \in HandsOf(t) <=> q \in HandsOf(u))
  BY <1>0, <1>3, GetsP
<1>5. \A x \in M : Wf(ms'[x])
  BY <1>1, <1>2, <1>4
<1>6. \A x \in M : SameStop(ms[x], ms'[x])
  BY <1>0, <1>2, <1>4 DEF SameStop
<1>7. \A x \in M : (Runs(ms'[x]) <=> Runs(ms[x])) /\ (Runs(ms[x]) => ms'[x].p = ms[x].p)
  BY <1>0, <1>2, <1>4 DEF Alike
<1>8. \A q \in P : q # p => \A x \in M : q \in HandsOf(ms'[x]) <=> q \in HandsOf(ms[x])
  BY <1>0, <1>2, <1>4
<1>9. p \in HandsOf(ms'[y]) /\ \A x \in M : x # y => p \notin HandsOf(ms'[x])
  BY <1>0, <1>2, <1>4
<1>10. (Starts(ms'[m]) <=> Starts(s)) /\ \A x \in M : x # m => (Starts(ms'[x]) <=> Starts(ms[x]))
  BY <1>0, <1>2, <1>4
<1> QED BY <1>1, <1>2, <1>5, <1>6, <1>7, <1>8, <1>9, <1>10 DEF Passed

(* What startm finds, after its look at lp and the list of idle processors. *)
LEMMA StartmP ==
    ASSUME SchedOk, NEW m \in M, ms[m].pc = "startm"
    PROVE  /\ ms[m].lp # None => ms[m].lp \in P /\ ms[m].lp \in HandsOf(ms[m])
           /\ sched.pidle # << >> => /\ Head(sched.pidle) \in P /\ Head(sched.pidle) \in SetOf(sched.pidle)
                                     /\ Tail(sched.pidle) \in Seq(P) /\ Injective(Tail(sched.pidle))
                                     /\ \A q : q \in SetOf(Tail(sched.pidle)) <=> q \in SetOf(sched.pidle) /\ q # Head(sched.pidle)
<1>1. sched.pidle \in Seq(P) /\ Injective(sched.pidle) /\ ms[m] \in MRec
  BY Thread, IdleIs DEF SchedOk, SchedTypes, SRec
<1>2. ms[m].lp # None => ms[m].lp \in P /\ ms[m].lp \in HandsOf(ms[m])
  BY <1>1, InHands DEF MRec, LpOf
<1> QED BY <1>1, <1>2, PidleTail

(* startm finds no processor.                                              *)
LEMMA StartmNone ==
    ASSUME SchedOk, thrown = "none", NEW m \in M, Startm(m), ms[m].lp = None, sched.pidle = << >>
    PROVE  SchedOk'
<1>1. PICK r : r = ms[m]
  OBVIOUS
<1>2. Known(m, r)
  BY <1>1, Thread DEF Known
<1>3. r.pc = "startm"
  BY <1>1 DEF Startm, At
<1>4. PsSame /\ SchedSame /\ GsSame /\ netready' \subseteq G
  BY <1>1, <1>2, <1>3, Unchanged DEF Startm, Known
<1>5. CASE r.sp
  <2>1. PICK s : s = [r EXCEPT !.pc = "unspin"]
    OBVIOUS
  <2>2. s \in MRec /\ s.pc = "unspin" /\ s.p = r.p /\ s.nextp = r.nextp /\ s.spinning = r.spinning
       /\ s.lp = r.lp /\ s.lm = r.lm /\ s.todo = r.todo /\ s.sp = r.sp /\ s.ret = r.ret
       /\ s.iret = r.iret /\ s.lg = r.lg /\ s.curg = r.curg /\ s.glist = r.glist
    BY <1>2, <2>1, PlaceNames, ZenonT(60) DEF Known, MRec
  <2>3. Quiet(r, s)
    BY <1>2, <1>3, <2>2, Consts, <1>1, <1>5 DEF Known, SameStop, HoldingSema, Stopped0, SameBorn,
         SameSpin, Wf, ReturnsOf, LocalsOf, OnceInHands, Runs, Stops, Starts, Cont, LpOf, TodoOf, Calls,
         Injecting, Handing, WithP, Stale, Stopping, HandoffRets, WakeRets, Holding, Running, Quiet,
         Keeps, SameHold
  <2>4. ms' = [ms EXCEPT ![m] = s]
    BY <1>1, <1>2, <1>3, <1>5, <2>1 DEF Startm, At, Known
  <2> QED BY <1>1, <1>4, <2>3, <2>4, QuietMove
<1>6. CASE ~r.sp
  <2>1. PICK s : s = [r EXCEPT !.pc = r.ret, !.ret = "none", !.lp = None, !.sp = FALSE]
    OBVIOUS
  <2>2. s \in MRec /\ s.pc = r.ret /\ s.ret = "none" /\ s.lp = None /\ s.sp = FALSE /\ s.p = r.p
       /\ s.nextp = r.nextp /\ s.spinning = r.spinning /\ s.lm = r.lm /\ s.todo = r.todo
       /\ s.iret = r.iret /\ s.lg = r.lg /\ s.curg = r.curg /\ s.glist = r.glist
    <3>1. s = Back(r)
      BY <2>1 DEF Back
    <3> QED BY <1>2, <3>1, BackFields DEF Known
  <2>3. Quiet(r, s)
    BY <1>1, <1>2, <1>3, <1>6, <2>2, BackQuiet DEF Known
  <2>4. ms' = [ms EXCEPT ![m] = s]
    BY <1>1, <1>2, <1>3, <1>6, <2>1 DEF Startm, Known, Return
  <2> QED BY <1>1, <1>4, <2>3, <2>4, QuietMove
<1> QED BY <1>5, <1>6

(* startm needs a new thread for the processor that it was called with.    *)
LEMMA StartmNewOwn ==
    ASSUME SchedOk, thrown = "none", NEW m \in M, Startm(m), ms[m].lp # None, sched.midle = << >>
    PROVE  SchedOk'
<1>1. PICK r : r = ms[m]
  OBVIOUS
<1>2. Known(m, r)
  BY <1>1, Thread DEF Known
<1>3. r.pc = "startm"
  BY <1>1 DEF Startm, At
<1>4. PICK s : s = [r EXCEPT !.pc = "newm"]
  OBVIOUS
<1>5. s \in MRec /\ s.pc = "newm" /\ s.p = r.p /\ s.nextp = r.nextp /\ s.spinning = r.spinning
     /\ s.lp = r.lp /\ s.lm = r.lm /\ s.todo = r.todo /\ s.sp = r.sp /\ s.ret = r.ret /\ s.iret = r.iret
     /\ s.lg = r.lg /\ s.curg = r.curg /\ s.glist = r.glist
  BY <1>2, <1>4, PlaceNames DEF Known, MRec
<1>6. Quiet(r, s)
  BY <1>2, <1>3, <1>5, Consts, <1>1 DEF Known, SameStop, HoldingSema, Stopped0, SameBorn, SameSpin, Wf,
       ReturnsOf, LocalsOf, OnceInHands, Runs, Stops, Starts, Cont, LpOf, TodoOf, Calls, Injecting,
       Handing, WithP, Stale, Stopping, HandoffRets, WakeRets, Holding, Running, Quiet, Keeps, SameHold
<1>7. ms' = [ms EXCEPT ![m] = s]
  BY <1>1, <1>2, <1>3, <1>4 DEF Startm, Known, MRec
<1>8. PsSame /\ SchedSame /\ GsSame /\ netready' \subseteq G
  <2>1. sched' = [sched EXCEPT !.pidle = sched.pidle]
    BY DEF Startm, PidleRest
  <2>2. sched' = sched
    BY <1>2, <2>1 DEF Known, SRec
  <2> QED BY <1>2, <2>2, Unchanged DEF Startm, Known
<1> QED BY <1>1, <1>6, <1>7, <1>8, QuietMove

(* startm needs a new thread for the first of the list.                    *)
LEMMA StartmNewIdle ==
    ASSUME SchedOk, thrown = "none", NEW m \in M, Startm(m), ms[m].lp = None, sched.pidle # << >>, sched.midle = << >>
    PROVE  SchedOk'
<1>1. PICK r : r = ms[m]
  OBVIOUS
<1>2. Known(m, r)
  BY <1>1, Thread DEF Known
<1>3. r.pc = "startm"
  BY <1>1 DEF Startm, At
<1>p. PICK p \in P : p = Head(sched.pidle) /\ p # None /\ p \in SetOf(sched.pidle)
  BY <1>1, <1>3, StartmP, Consts
<1>q. ps[p].status = "Pidle" /\ \A x \in M : p \notin HandsOf(ms[x])
  BY <1>p, ListIdle
<1>t. PICK t \in Seq(P) : t = Tail(sched.pidle) /\ Injective(t)
     /\ \A q : q \in SetOf(t) <=> q \in SetOf(sched.pidle) /\ q # p
  BY <1>1, <1>3, <1>p, StartmP
<1>n. p # r.nextp /\ p \notin TodoOf(r)
  BY <1>1, <1>q, InHands
<1>4. PICK s : s = [r EXCEPT !.pc = "newm", !.lp = p]
  OBVIOUS
<1>5. s \in MRec /\ s.pc = "newm" /\ s.lp = p /\ s.p = r.p /\ s.nextp = r.nextp
     /\ s.spinning = r.spinning /\ s.lm = r.lm /\ s.todo = r.todo /\ s.sp = r.sp /\ s.ret = r.ret
     /\ s.iret = r.iret /\ s.lg = r.lg /\ s.curg = r.curg /\ s.glist = r.glist
  <2>1. s = Newing(r, p)
    BY <1>4 DEF Newing
  <2> QED BY <1>2, <2>1, NewmFields DEF Known
<1>6. Wf(s) /\ SameStop(r, s) /\ SameBorn(r, s) /\ SameSpin(r, s) /\ (Runs(s) <=> Runs(r))
     /\ LpOf(s) = p /\ LpOf(r) = None /\ TodoOf(s) = TodoOf(r)
  BY <1>2, <1>3, <1>5, Consts, <1>1, <1>p, <1>n DEF Known, SameStop, HoldingSema, Stopped0, SameBorn,
       SameSpin, Wf, ReturnsOf, LocalsOf, OnceInHands, Runs, Stops, Starts, Cont, LpOf, TodoOf, Calls,
       Injecting, Handing, WithP, Stale, Stopping, HandoffRets, WakeRets, Holding, Running
<1>7. ms' = [ms EXCEPT ![m] = s]
  BY <1>1, <1>2, <1>3, <1>4, <1>p DEF Startm, At, Known
<1>8. ms'[m] = s /\ ms' \in [M -> MRec] /\ \A x \in M : x # m => ms'[x] = ms[x]
  BY <1>2, <1>5, <1>7 DEF Known
<1>9. SchedRest /\ sched'.pidle = t /\ sched'.midle = sched.midle
     /\ sched'.nmspinning = sched.nmspinning
  <2>1. sched' = [sched EXCEPT !.pidle = t]
    BY <1>p, <1>t DEF Startm, PidleRest
  <2> QED BY <1>2, <2>1 DEF Known, SRec, SchedRest
<1>10. ps' = ps /\ GsSame /\ netready' \subseteq G
  BY <1>2, Unchanged DEF Startm, Known
<1>11. SpinCount'
  <2>1. ms'[m] = s /\ \A x \in M : x # m => ms'[x] = ms[x]
    BY <1>2, <1>7 DEF Known
  <2>2. \A x \in M : (ms'[x].spinning <=> ms[x].spinning) /\ (Starts(ms'[x]) <=> Starts(ms[x]))
    BY <1>1, <1>6, <2>1 DEF SameSpin
  <2> QED BY <1>2, <1>9, <2>2, SpinKept DEF Known, SchedOk
<1>12. CreatedInv'
  <2>1. \A x \in M : SameBorn(ms[x], ms'[x])
    BY <1>1, <1>6, <1>8 DEF SameBorn
  <2> QED BY <1>9, <1>10, <2>1, CreatedSame DEF SchedRest, SchedOk
<1>13. \A x \in M : /\ Wf(ms'[x]) /\ SameStop(ms[x], ms'[x]) /\ (Runs(ms'[x]) <=> Runs(ms[x]))
     /\ (Runs(ms[x]) => ms'[x].p = ms[x].p)
  BY <1>1, <1>5, <1>6, <1>8 DEF SameStop, SchedOk, PlaceInv
<1>14. p \in HandsOf(s) /\ \A q \in P : q # p => (q \in HandsOf(s) <=> q \in HandsOf(r))
  BY <1>5, <1>6, Consts, InHands
<1>15. p \in HandsOf(ms'[m]) /\ \A x \in M : x # m => p \notin HandsOf(ms'[x])
  BY <1>q, <1>8, <1>14
<1>16. \A x \in M : \A q \in P : q # p => (q \in HandsOf(ms'[x]) <=> q \in HandsOf(ms[x]))
  BY <1>1, <1>8, <1>14
<1> QED BY <1>q, <1>t, <1>8, <1>9, <1>10, <1>11, <1>12, <1>13, <1>15, <1>16, PassStep DEF GsSame

(* startm hands the processor to the first idle thread.                    *)
LEMMA StartmHand ==
    ASSUME SchedOk, thrown = "none", NEW m \in M, Startm(m), thrown' = "none", sched.midle # << >>, ms[m].lp # None \/ sched.pidle # << >>
    PROVE  SchedOk'
<1>1. PICK r : r = ms[m]
  OBVIOUS
<1>2. Known(m, r)
  BY <1>1, Thread DEF Known
<1>3. r.pc = "startm"
  BY <1>1 DEF Startm, At
<1>y. PICK y \in Created : y = Head(sched.midle) /\ y \in M
  <2>1. Head(sched.midle) \in Created /\ Head(sched.midle) \in M
    BY MidleCreated, HeadTailProperties
  <2> QED BY <2>1
<1>z. PICK z \in Seq(M) : z = Tail(sched.midle) /\ z \in Seq(Created)
  <2>1. Tail(sched.midle) \in Seq(Created) /\ Tail(sched.midle) \in Seq(M)
    BY MidleCreated, HeadTailProperties
  <2> QED BY <2>1
<1>4. PICK s : s = [r EXCEPT !.pc = r.ret, !.ret = "none", !.lp = None, !.sp = FALSE]
  OBVIOUS
<1>5. s \in MRec /\ s.pc = r.ret /\ s.ret = "none" /\ s.lp = None /\ s.sp = FALSE /\ s.p = r.p
     /\ s.nextp = r.nextp /\ s.spinning = r.spinning /\ s.lm = r.lm /\ s.todo = r.todo
     /\ s.iret = r.iret /\ s.lg = r.lg /\ s.curg = r.curg /\ s.glist = r.glist
  <2>1. s = Back(r)
    BY <1>4 DEF Back
  <2> QED BY <1>2, <2>1, BackFields DEF Known
<1>6. Wf(s) /\ SameStop(r, s) /\ (Runs(s) <=> Runs(r)) /\ (Starts(s) <=> FALSE) /\ s.pc # "none"
     /\ LpOf(s) = None /\ LpOf(r) = r.lp /\ TodoOf(s) = TodoOf(r) /\ (r.lp # None => r.lp # r.nextp
     /\ r.lp \notin TodoOf(r))
  BY <1>2, <1>3, <1>5, BackWf, ZenonT(60) DEF Known
<1>p. PICK p \in P : p = (IF r.lp # None THEN r.lp ELSE Head(sched.pidle)) /\ p # None
     /\ ps[p].status = "Pidle" /\ p \notin HandsOf(s)
     /\ (\A q \in P : q # p => (q \in HandsOf(s) <=> q \in HandsOf(r)))
     /\ (\A x \in M : x # m => p \notin HandsOf(ms[x])) /\ (r.lp # None => p \notin SetOf(sched.pidle))
  <2>1. CASE r.lp # None
    <3>1. r.lp \in P /\ r.lp \in HandsOf(ms[m])
      BY <1>1, <1>3, <2>1, StartmP
    <3>2. ps[r.lp].status = "Pidle" /\ r.lp \notin SetOf(sched.pidle)
         /\ \A x \in M : x # m => r.lp \notin HandsOf(ms[x])
      BY <3>1, HandIdle
    <3>3. r.lp \notin HandsOf(s) /\ \A q \in P : q # r.lp => (q \in HandsOf(s) <=> q \in HandsOf(r))
      BY <1>5, <1>6, <2>1, <3>1, Consts, InHands
    <3> QED BY <2>1, <3>1, <3>2, <3>3
  <2>2. CASE r.lp = None
    <3>1. Head(sched.pidle) \in P /\ Head(sched.pidle) \in SetOf(sched.pidle)
      BY <1>1, <1>3, <2>2, StartmP
    <3>2. ps[Head(sched.pidle)].status = "Pidle" /\ \A x \in M : Head(sched.pidle) \notin HandsOf(ms[x])
      BY <3>1, ListIdle
    <3>3. HandsOf(s) = HandsOf(r)
      BY <1>5, <1>6, <2>2 DEF HandsOf
    <3> QED BY <1>1, <2>2, <3>1, <3>2, <3>3, Consts
  <2> QED BY <2>1, <2>2
<1>t. PICK t \in Seq(P) : t = PidleRest(r.lp # None) /\ Injective(t) /\ p \notin SetOf(t)
     /\ \A q : q # p => (q \in SetOf(t) <=> q \in SetOf(sched.pidle))
  <2>1. CASE r.lp # None
    <3>1. sched.pidle \in Seq(P) /\ Injective(sched.pidle)
      BY <1>2, IdleIs DEF Known, SRec, SchedOk
    <3> QED BY <1>p, <2>1, <3>1 DEF PidleRest
  <2>2. CASE r.lp = None
    BY <1>1, <1>3, <1>p, <2>2, StartmP DEF PidleRest
  <2> QED BY <2>1, <2>2
<1>v. ms[y].nextp = None /\ ~ms[y].spinning
  <2>1. Handed(y) /\ ~ms[y].spinning
    BY <1>1, <1>y, <1>p DEF Startm, Verdict
  <2> QED BY <2>1 DEF Handed
<1>u. PICK u : u = IF y = m THEN s ELSE ms[y]
  OBVIOUS
<1>u1. u \in MRec
  BY <1>u, <1>y, <1>5, <1>2 DEF Known
<1>w. PICK w : w = [u EXCEPT !.spinning = r.sp, !.nextp = p, !.park = TRUE]
  OBVIOUS
<1>w1. r.sp \in BOOLEAN
  BY <1>2 DEF Known, MRec
<1>w2. w \in MRec /\ w.nextp = p /\ Alike(u, w) /\ w.spinning = r.sp
  BY <1>u1, <1>w, <1>w1 DEF MRec, Alike
<1>7. ms' = [ms EXCEPT ![m] = s, ![y] = w]
  <2>1. ms' = [Return(m) EXCEPT ![y].spinning = r.sp, ![y].nextp = p, ![y].park = TRUE]
    BY <1>1, <1>y, <1>p DEF Startm
  <2>2. Return(m) = [ms EXCEPT ![m] = s]
    BY <1>1, <1>2, <1>4 DEF Return, Known
  <2> QED BY <1>1, <1>2, <1>y, <1>u, <1>w, <2>1, <2>2 DEF Known
<1>8. Passed(m, s, p, y, w)
  <2>1. s \in MRec /\ Wf(s) /\ SameStop(ms[m], s) /\ (Runs(s) <=> Runs(ms[m])) /\ s.p = ms[m].p
       /\ s.pc # "none" /\ s.nextp = ms[m].nextp
    BY <1>1, <1>5, <1>6
  <2>2. p \notin HandsOf(s) /\ (\A q \in P : q # p => (q \in HandsOf(s) <=> q \in HandsOf(ms[m])))
       /\ (\A x \in M : x # m => p \notin HandsOf(ms[x]))
    BY <1>1, <1>p
  <2>3. Passes(m, s, p, y, w)
    BY <1>v, <1>u, <1>w2, <1>7, <2>1, <2>2 DEF Passes
  <2> QED BY <2>3, HandOver
<1>9. SchedRest /\ sched'.pidle = t /\ sched'.midle = z /\ sched'.nmspinning = sched.nmspinning
  <2>1. sched' = [sched EXCEPT !.pidle = t, !.midle = z]
    BY <1>1, <1>p, <1>t, <1>z DEF Startm
  <2> QED BY <1>2, <2>1 DEF Known, SRec, SchedRest
<1>10. ps' = ps /\ gs' = gs /\ GsSame /\ netready' \subseteq G
  BY <1>2, Unchanged DEF Startm, Known
<1>11. SpinCount'
  <2>1. sched.nmspinning \in Int /\ r.sp \in BOOLEAN /\ (Starts(r) <=> r.sp)
    BY <1>2, <1>3 DEF Known, SRec, MRec, Starts
  <2>2. sched'.nmspinning = sched.nmspinning + One(ms'[y].spinning) - One(ms[y].spinning) + One(Starts(ms'[m])) - One(Starts(ms[m]))
    BY <1>1, <1>6, <1>v, <1>w2, <1>8, <1>9, <2>1 DEF One, Passed
  <2>3. \A x \in M : x # y => (ms'[x].spinning <=> ms[x].spinning)
    BY <1>1, <1>5, <1>8 DEF Passed
  <2>4. \A x \in M : x # m => (Starts(ms'[x]) <=> Starts(ms[x]))
    BY <1>8 DEF Passed
  <2> QED BY <1>y, <2>2, <2>3, <2>4, SpinStep DEF SchedOk
<1>12. CreatedInv'
  <2>1. CreatedInv
    BY DEF SchedOk
  <2>2. \A x \in M : (ms'[x].pc = "none" <=> ms[x].pc = "none") /\ ms'[x].lm = ms[x].lm
       /\ ms'[x].todo = ms[x].todo
    BY <1>1, <1>3, <1>y, <1>u, <1>5, <1>6, <1>w2, <1>8 DEF Alike, Created, Passed
  <2>3. \A i \in DOMAIN sched'.midle : sched'.midle[i] \in Created
    BY <1>z, <1>9
  <2>4. \A g \in G : gs'[g].lockedm # None => gs'[g].lockedm \in Created
    BY <1>10, <2>1, <2>2 DEF CreatedInv
  <2>5. \A x \in M : ms'[x].lm # None => ms'[x].lm \in Created /\ ms'[x].lm # x
    BY <1>10, <2>1, <2>2 DEF CreatedInv
  <2>6. \A x \in M : \A i \in DOMAIN ms'[x].todo : ms'[x].todo[i][2] # None => ms'[x].todo[i][2] \in Created
    BY <1>10, <2>1, <2>2 DEF CreatedInv
  <2> QED BY <1>9, <2>1, <2>2, <2>3, <2>4, <2>5, <2>6, CreatedKept DEF SchedKept, SchedSame, SchedRest
<1> QED BY <1>p, <1>t, <1>y, <1>8, <1>9, <1>10, <1>11, <1>12, PassStep DEF GsSame, Passed

(* startm.                                                                 *)
LEMMA StartmOk ==
    ASSUME SchedOk, thrown = "none", NEW m \in M, Startm(m), thrown' = "none"
    PROVE  SchedOk'
BY StartmNone, StartmNewOwn, StartmNewIdle, StartmHand

(***************************************************************************)
(* newm: a thread is created.                                              *)
(***************************************************************************)
(***************************************************************************)
(* New threads.                                                            *)
(***************************************************************************)
(* The record of a thread that has just been made, for a processor or to   *)
(* help the collector.                                                     *)
Born(p, sp) == [NoM EXCEPT !.pc = "mstart", !.nextp = p, !.spinning = sp]
BornHelper == [NoM EXCEPT !.pc = "mstart", !.helpgc = TRUE]

IsBorn(f, p, sp) ==
    /\ f \in MRec /\ f.pc = "mstart" /\ f.p = None /\ f.nextp = p /\ f.spinning = sp /\ f.lp = None
    /\ f.lm = None /\ f.todo = << >> /\ f.sp = FALSE /\ f.ret = "none" /\ f.iret = "none"

(* The records of new threads.                                             *)
LEMMA BornIs ==
    /\ \A p \in P : \A sp \in BOOLEAN : IsBorn(Born(p, sp), p, sp)
    /\ IsBorn(BornHelper, None, FALSE)
<1>1. NoM \in MRec /\ NoM.p = None /\ NoM.lp = None /\ NoM.lm = None /\ NoM.todo = << >> /\ NoM.sp = FALSE
      /\ NoM.ret = "none" /\ NoM.iret = "none" /\ NoM.nextp = None /\ NoM.spinning = FALSE
  <2>1. << >> \in Seq(G) /\ << >> \in Seq(P \X (M \cup {None})) /\ 0 \in Nat
    OBVIOUS
  <2> QED BY <2>1, PlaceNames DEF MRec, NoM
<1>2. ASSUME NEW p \in P, NEW sp \in BOOLEAN PROVE IsBorn(Born(p, sp), p, sp)
  BY <1>1, PlaceNames DEF MRec, Born, IsBorn
<1>3. IsBorn(BornHelper, None, FALSE)
  BY <1>1, PlaceNames DEF MRec, BornHelper, IsBorn
<1> QED BY <1>2, <1>3

(* What a new thread holds: the processor it was created for.              *)
LEMMA BornWf ==
    ASSUME NEW p, NEW f, NEW sp, IsBorn(f, p, sp)
    PROVE  /\ Wf(f) /\ ~Runs(f) /\ ~Stops(f) /\ ~Starts(f) /\ LpOf(f) = None /\ TodoOf(f) = {}
           /\ \A q \in P : q \in HandsOf(f) <=> q = p
<1> USE DEF IsBorn
<1>1. LpOf(f) = None /\ TodoOf(f) = {} /\ Cont(f) = "mstart"
  BY DEF LpOf, TodoOf, Cont, Calls, Injecting, Handing
<1>2. OnceInHands(f)
  BY <1>1, Consts DEF OnceInHands
<1>3. ReturnsOf(f) /\ ~Starts(f)
  BY DEF ReturnsOf, Handing, Injecting, Starts
<1>4. LocalsOf(f) /\ ~Runs(f) /\ ~Stops(f)
  BY <1>1 DEF LocalsOf, WithP, Stale, Stopping, Handing, Holding, Running, Runs, Stops
<1> QED BY <1>1, <1>2, <1>3, <1>4, InHands, Consts DEF Wf

(* A thread that does not exist yet has nothing.                           *)
LEMMA UnbornHas ==
    ASSUME NEW r \in MRec, Wf(r), r.pc = "none"
    PROVE  /\ ~Runs(r) /\ ~Stops(r) /\ ~Starts(r) /\ ~r.spinning /\ HandsOf(r) = {} /\ Cont(r) = "none"
           /\ r.nextp = None /\ LpOf(r) = None /\ r.todo = << >>
<1>1. Cont(r) = "none" /\ ~Starts(r) /\ ~r.spinning /\ r.nextp = None /\ LpOf(r) = None
  BY DEF Cont, Calls, Injecting, Handing, Starts, Wf, LocalsOf, LpOf
<1>2. r.todo = << >>
  BY <1>1 DEF Wf, LocalsOf
<1>3. TodoOf(r) = {}
  BY <1>2 DEF TodoOf
<1> QED BY <1>1, <1>2, <1>3, InHands, Consts DEF Runs, Stops, WithP, Stopping

(* Below the limit there is a thread yet to be created.                    *)
LEMMA FreshIs ==
    ASSUME SchedOk, Cardinality(Created) # sched.maxmcount
    PROVE  Fresh \in M /\ Fresh \notin Created /\ ms[Fresh].pc = "none"
<1>1. Created \subseteq M /\ IsFiniteSet(Created) /\ Cardinality(Created) \in Nat
  BY Consts, FS_Subset, FS_CardinalityType DEF Created
<1>2. Cardinality(Created) <= sched.maxmcount /\ sched.maxmcount \in 2 .. Cardinality(M)
  BY DEF SchedOk, CreatedInv, SchedTypes, SRec
<1>3. Created # M
  BY <1>1, <1>2, Consts
<1>4. Fresh \in M \ Created
  BY <1>1, <1>3 DEF Fresh
<1> QED BY <1>4 DEF Created

(* Thread y is created.                                                    *)
LEMMA CreatedGrows ==
    ASSUME SchedOk, NEW y \in M, y \notin Created, Cardinality(Created) # sched.maxmcount,
           ms'[y].pc # "none", ms'[y].lm = None, ms'[y].todo = << >>,
           \A x \in M : x # y => SameBorn(ms[x], ms'[x]),
           sched'.maxmcount = sched.maxmcount, sched'.midle = sched.midle, gs' = gs
    PROVE  CreatedInv'
<1>1. IsFiniteSet(Created) /\ Cardinality(Created) \in Nat
  BY Consts, FS_Subset, FS_CardinalityType DEF Created
<1>2. CreatedInv /\ sched.maxmcount \in Nat
  <2>1. sched.maxmcount \in 2 .. Cardinality(M)
    BY DEF SchedOk, SchedTypes, SRec
  <2> QED BY <2>1, Consts DEF SchedOk
<1>3. Created' = Created \cup {y}
  BY DEF Created, SameBorn
<1>4. Cardinality(Created') = Cardinality(Created) + 1
  BY <1>1, <1>3, FS_AddElement
<1>5. Cardinality(Created') <= sched'.maxmcount
  BY <1>1, <1>2, <1>4 DEF CreatedInv
<1>6. \A x \in M : /\ ms'[x].lm # None => ms'[x].lm \in Created' /\ ms'[x].lm # x
                   /\ \A i \in DOMAIN ms'[x].todo :
                        ms'[x].todo[i][2] # None => ms'[x].todo[i][2] \in Created'
  <2>1. ASSUME NEW x \in M, x # y
        PROVE  /\ ms'[x].lm # None => ms'[x].lm \in Created' /\ ms'[x].lm # x
               /\ \A i \in DOMAIN ms'[x].todo : ms'[x].todo[i][2] # None => ms'[x].todo[i][2] \in Created'
    BY <1>2, <1>3, <2>1 DEF CreatedInv, SameBorn
  <2> QED BY <2>1
<1>7. \A i \in DOMAIN sched'.midle : sched'.midle[i] \in Created'
  BY <1>2, <1>3 DEF CreatedInv
<1>8. \A g \in G : gs'[g].lockedm # None => gs'[g].lockedm \in Created'
  BY <1>2, <1>3 DEF CreatedInv
<1> QED BY <1>5, <1>6, <1>7, <1>8 DEF CreatedInv

(* newm.                                                                   *)
LEMMA NewmOk ==
    ASSUME SchedOk, thrown = "none", NEW m \in M, Newm(m), thrown' = "none"
    PROVE  SchedOk'
<1>1. PICK r : r = ms[m]
  OBVIOUS
<1>2. Known(m, r)
  BY <1>1, Thread DEF Known
<1>3. r.pc = "newm"
  BY <1>1 DEF Newm, At
<1>4. Cardinality(Created) # sched.maxmcount
  BY DEF Newm, Verdict
<1>y. PICK y \in M : y = Fresh /\ y \notin Created /\ ms[y].pc = "none" /\ y # m
  BY <1>1, <1>3, <1>4, FreshIs
<1>p. PICK p \in P : p = r.lp /\ p \in HandsOf(r) /\ p # None
  <2>1. r.lp \in P /\ LpOf(r) = r.lp
    BY <1>2, <1>3 DEF Known, MRec, Wf, LocalsOf, LpOf
  <2> QED BY <2>1, InHands, Consts
<1>q. ps[p].status = "Pidle" /\ p \notin SetOf(sched.pidle) /\ \A x \in M : x # m => p \notin HandsOf(ms[x])
  BY <1>1, <1>p, HandIdle
<1>s. PICK s : s = Back(r)
  OBVIOUS
<1>5. s \in MRec /\ s.pc = r.ret /\ s.ret = "none" /\ s.lp = None /\ s.sp = FALSE /\ s.p = r.p
     /\ s.nextp = r.nextp /\ s.spinning = r.spinning /\ s.lm = r.lm /\ s.todo = r.todo
     /\ s.iret = r.iret /\ s.lg = r.lg /\ s.curg = r.curg /\ s.glist = r.glist
  BY <1>2, <1>s, BackFields DEF Known
<1>6. Wf(s) /\ SameStop(r, s) /\ (Runs(s) <=> Runs(r)) /\ (Starts(s) <=> FALSE) /\ s.pc # "none"
     /\ LpOf(s) = None /\ LpOf(r) = r.lp /\ TodoOf(s) = TodoOf(r) /\ (r.lp # None => r.lp # r.nextp
     /\ r.lp \notin TodoOf(r))
  BY <1>2, <1>3, <1>5, BackWf, ZenonT(60) DEF Known
<1>b. r.sp \in BOOLEAN
  BY <1>2 DEF Known, MRec
<1>f. PICK f : f = Born(p, r.sp) /\ IsBorn(f, p, r.sp)
  BY <1>p, <1>b, BornIs
<1>f1. f \in MRec /\ f.pc = "mstart" /\ f.spinning = r.sp /\ f.lm = None /\ f.todo = << >>
  BY <1>f DEF IsBorn
<1>f2. /\ Wf(f) /\ ~Runs(f) /\ ~Stops(f) /\ ~Starts(f) /\ \A q \in P : q \in HandsOf(f) <=> q = p
  BY <1>f, BornWf
<1>7. ms' = [ms EXCEPT ![m] = s, ![y] = f]
  <2>1. ms' = [Return(m) EXCEPT ![y] = f]
    BY <1>1, <1>4, <1>y, <1>p, <1>f DEF Newm, Born
  <2>2. Return(m) = [ms EXCEPT ![m] = s]
    BY <1>1, <1>2, <1>s, BackIs DEF Known
  <2> QED BY <2>1, <2>2
<1>8. ms' \in [M -> MRec] /\ ms'[m] = s /\ ms'[y] = f /\ \A x \in M : x # m /\ x # y => ms'[x] = ms[x]
  BY <1>2, <1>y, <1>5, <1>f1, <1>7 DEF Known
<1>9. /\ ~Runs(ms[y]) /\ ~Stops(ms[y]) /\ ~Starts(ms[y]) /\ ~ms[y].spinning /\ HandsOf(ms[y]) = {}
  BY <1>y, Thread, UnbornHas
<1>10. sched' = sched /\ SchedRest /\ ps' = ps /\ gs' = gs /\ gs' \in [G -> GRec] /\ netready' \subseteq G
  BY <1>2, RestSame DEF Newm, Known
<1>11. SpinCount'
  <2>1. sched.nmspinning \in Int /\ r.sp \in BOOLEAN /\ (Starts(r) <=> r.sp)
    BY <1>2, <1>3 DEF Known, SRec, MRec, Starts
  <2>2. sched'.nmspinning = sched.nmspinning + One(ms'[y].spinning) - One(ms[y].spinning) + One(Starts(ms'[m])) - One(Starts(ms[m]))
    BY <1>1, <1>6, <1>f1, <1>8, <1>9, <1>10, <2>1 DEF One
  <2>3. \A x \in M : x # y => (ms'[x].spinning <=> ms[x].spinning)
    BY <1>1, <1>5, <1>8
  <2>4. \A x \in M : x # m => (Starts(ms'[x]) <=> Starts(ms[x]))
    BY <1>8, <1>9, <1>f2
  <2> QED BY <1>y, <2>2, <2>3, <2>4, SpinStep DEF SchedOk
<1>12. CreatedInv'
  <2>1. \A x \in M : x # y => SameBorn(ms[x], ms'[x])
    BY <1>1, <1>3, <1>5, <1>6, <1>8 DEF SameBorn
  <2> QED BY <1>4, <1>y, <1>f1, <1>8, <1>10, <2>1, CreatedGrows
<1>13. \A x \in M : /\ Wf(ms'[x]) /\ SameStop(ms[x], ms'[x]) /\ (Runs(ms'[x]) <=> Runs(ms[x]))
                    /\ Runs(ms[x]) => ms'[x].p = ms[x].p
  <2>1. SameStop(ms[y], f)
    BY <1>9, <1>f2, StopSets DEF SameStop, Stops, Stopping
  <2> QED BY <1>1, <1>5, <1>6, <1>8, <1>9, <1>f2, <2>1 DEF SameStop, SchedOk, PlaceInv
<1>14. p \notin HandsOf(s) /\ \A q \in P : q # p => (q \in HandsOf(s) <=> q \in HandsOf(r))
  BY <1>p, <1>5, <1>6, InHands, Consts
<1>15. p \in HandsOf(ms'[y]) /\ \A x \in M : x # y => p \notin HandsOf(ms'[x])
  BY <1>q, <1>f2, <1>8, <1>14
<1>16. \A q \in P : q # p => \A x \in M : q \in HandsOf(ms'[x]) <=> q \in HandsOf(ms[x])
  BY <1>1, <1>8, <1>9, <1>f2, <1>14
<1>17. Injective(sched'.pidle)
  BY <1>10, IdleIs DEF SchedOk
<1> QED BY <1>q, <1>y, <1>8, <1>10, <1>11, <1>12, <1>13, <1>15, <1>16, <1>17, PassStep

(***************************************************************************)
(* starttheworld's last step, and helpers of the collector.                *)
(***************************************************************************)
(* starttheworld is done, and may have made one more thread.               *)
LEMMA StartDoneOk ==
    ASSUME SchedOk, thrown = "none", NEW m \in M, StartDone(m), thrown' = "none"
    PROVE  SchedOk'
<1>1. PICK r : r = ms[m]
  OBVIOUS
<1>2. Known(m, r)
  BY <1>1, Thread DEF Known
<1>3. r.pc = "start3" /\ r.todo = << >>
  BY <1>1 DEF StartDone, At
<1>4. PICK s : s = [r EXCEPT !.sp = FALSE, !.pc = "user", !.ret = "none"]
  OBVIOUS
<1>5. s \in MRec /\ s.pc = "user" /\ s.ret = "none" /\ s.sp = FALSE /\ s.p = r.p /\ s.nextp = r.nextp
     /\ s.spinning = r.spinning /\ s.lp = r.lp /\ s.lm = r.lm /\ s.todo = r.todo /\ s.iret = r.iret
     /\ s.lg = r.lg /\ s.curg = r.curg /\ s.glist = r.glist
  BY <1>2, <1>4, PlaceNames DEF Known, MRec
<1>6. Quiet(r, s)
  BY <1>2, <1>3, <1>5, Consts DEF Known, SameStop, HoldingSema, Stopped0, SameBorn, SameSpin, Wf,
       ReturnsOf, LocalsOf, OnceInHands, Runs, Stops, Starts, Cont, LpOf, TodoOf, Calls, Injecting,
       Handing, WithP, Stale, Stopping, HandoffRets, WakeRets, Holding, Running, Quiet, Keeps, SameHold
<1>7. PsSame /\ SchedSame /\ gs' = gs /\ GsSame /\ netready' \subseteq G
  BY <1>2, Unchanged DEF StartDone, Known
<1>8. CASE ~r.sp
  <2>1. ms' = [ms EXCEPT ![m] = s]
    BY <1>1, <1>2, <1>4, <1>8 DEF StartDone, Known
  <2> QED BY <1>1, <1>6, <1>7, <2>1, QuietMove
<1>9. CASE r.sp
  <2>1. Cardinality(Created) < sched.maxmcount
    BY <1>1, <1>9 DEF StartDone, Verdict
  <2>2. Cardinality(Created) # sched.maxmcount
    <3>1. sched.maxmcount \in Int
      BY <1>2, Consts DEF Known, SRec
    <3> QED BY <2>1, <3>1
  <2>y. PICK y \in M : y = Fresh /\ y \notin Created /\ ms[y].pc = "none" /\ y # m
    BY <1>1, <1>3, <2>2, FreshIs
  <2>f. PICK f : f = BornHelper /\ IsBorn(f, None, FALSE)
    BY BornIs
  <2>3. ms' = [ms EXCEPT ![m] = s, ![y] = f]
    <3>1. ms' = [[ms EXCEPT ![m] = s] EXCEPT ![y] = f]
      BY <1>1, <1>2, <1>4, <1>9, <2>1, <2>y, <2>f DEF StartDone, BornHelper, Known
    <3> QED BY <3>1
  <2>4. f \in MRec /\ f.pc = "mstart" /\ f.nextp = None /\ f.spinning = FALSE /\ f.lm = None /\ f.todo = << >>
    BY <2>f DEF IsBorn
  <2>5. Wf(f) /\ ~Runs(f) /\ ~Stops(f) /\ ~Starts(f) /\ LpOf(f) = None
    BY <2>f, BornWf
  <2>6. ms' \in [M -> MRec] /\ ms'[m] = s /\ ms'[y] = f /\ \A x \in M : x # m /\ x # y => ms'[x] = ms[x]
    BY <1>2, <1>5, <2>y, <2>3, <2>4 DEF Known
  <2>7. /\ ~Runs(ms[y]) /\ ~Stops(ms[y]) /\ ~Starts(ms[y]) /\ ~ms[y].spinning /\ ms[y].nextp = None
        /\ LpOf(ms[y]) = None /\ ms[y].todo = << >>
    BY <2>y, Thread, UnbornHas
  <2>8. Keeps(ms[y], f) /\ SameSpin(ms[y], f)
    <3>1. SameStop(ms[y], f)
      BY <2>5, <2>7, StopSets DEF SameStop, Stops, Stopping
    <3> QED BY <2>4, <2>5, <2>7, <3>1 DEF Keeps, SameHold, SameSpin
  <2>9. \A x \in M : Quiet(ms[x], ms[x])
    BY QuietSame DEF SchedOk
  <2>10. \A x \in M : Keeps(ms[x], ms'[x]) /\ SameSpin(ms[x], ms'[x])
    BY <1>1, <1>6, <2>6, <2>8, <2>9 DEF Quiet
  <2>11. \A x \in M : x # y => SameBorn(ms[x], ms'[x])
    BY <1>1, <1>6, <2>6, <2>9 DEF Quiet
  <2>12. CreatedInv'
    BY <1>7, <2>2, <2>y, <2>4, <2>6, <2>11, CreatedGrows DEF SchedSame, SchedKept
  <2>13. SpinCount'
    BY <1>7, <2>10, SpinKept DEF SchedOk, SchedSame, SameSpin
  <2> QED BY <1>7, <2>6, <2>10, <2>12, <2>13, KeptStep DEF GsSame, SchedSame
<1>10. r.sp \in BOOLEAN
  BY <1>2 DEF Known, MRec
<1> QED BY <1>8, <1>9, <1>10

(* helpgc wakes idle threads without a processor.                          *)
Helped(r) == [r EXCEPT !.helpgc = TRUE, !.park = TRUE]

(* A parked thread that is woken to help the collector.                    *)
LEMMA HelpedQuiet ==
    ASSUME NEW r \in MRec, Wf(r)
    PROVE  Quiet(r, Helped(r))
<1>1. PICK s : s = Helped(r)
  OBVIOUS
<1>2. /\ s \in MRec /\ s.pc = r.pc /\ s.p = r.p /\ s.nextp = r.nextp /\ s.spinning = r.spinning
      /\ s.lp = r.lp /\ s.lm = r.lm /\ s.todo = r.todo /\ s.sp = r.sp /\ s.ret = r.ret /\ s.iret = r.iret
      /\ s.lg = r.lg /\ s.curg = r.curg /\ s.glist = r.glist
  BY <1>1 DEF MRec, Helped
<1>3. Cont(s) = Cont(r) /\ LpOf(s) = LpOf(r) /\ TodoOf(s) = TodoOf(r) /\ (Starts(s) <=> Starts(r))
  BY <1>2 DEF Cont, LpOf, TodoOf, Starts
<1>4. ReturnsOf(s)
  BY <1>2 DEF Wf, ReturnsOf
<1>5. LocalsOf(s)
  BY <1>2, <1>3 DEF Wf, LocalsOf
<1>6. OnceInHands(s)
  BY <1>2, <1>3 DEF Wf, OnceInHands
<1> QED BY <1>1, <1>2, <1>3, <1>4, <1>5, <1>6
    DEF Quiet, Keeps, SameBorn, SameHold, SameSpin, SameStop, Wf, Runs, Stops

(* helpgc wakes parked threads.                                            *)
LEMMA HelpgcOk ==
    ASSUME SchedOk, thrown = "none", NEW m \in M, Helpgc(m)
    PROVE  SchedOk'
<1>1. PICK r : r = ms[m]
  OBVIOUS
<1>2. Known(m, r)
  BY <1>1, Thread DEF Known
<1>3. r.pc = "gc"
  BY <1>1 DEF Helpgc, At
<1>n. PICK n \in Nat : n = Gcprocs - 1 /\ n <= Len(sched.midle)
  <2>1. sched.gomaxprocs \in Nat \ {0} /\ Len(sched.midle) \in Nat /\ NCPU \in Nat \ {0}
    BY <1>2, PosInP, SchedConstants DEF Known, SRec
  <2> QED BY <2>1, SMTT(60) DEF Gcprocs, Least
<1>t. PICK t \in Seq(M) : t = SubSeq(sched.midle, n + 1, Len(sched.midle)) /\ t \in Seq(Created)
  <2>1. n + 1 \in 1 .. Len(sched.midle) + 1 /\ Len(sched.midle) \in Nat
    BY <1>n, MidleCreated
  <2>2. SubSeq(sched.midle, n + 1, Len(sched.midle)) \in Seq(M)
        /\ SubSeq(sched.midle, n + 1, Len(sched.midle)) \in Seq(Created)
    BY <2>1, MidleCreated, SubSeqProperties
  <2> QED BY <2>2
<1>4. PICK s : s = [r EXCEPT !.pc = "gcwait"]
  OBVIOUS
<1>5. s \in MRec /\ s.pc = "gcwait" /\ s.p = r.p /\ s.nextp = r.nextp /\ s.spinning = r.spinning
     /\ s.lp = r.lp /\ s.lm = r.lm /\ s.todo = r.todo /\ s.sp = r.sp /\ s.ret = r.ret /\ s.iret = r.iret
     /\ s.lg = r.lg /\ s.curg = r.curg /\ s.glist = r.glist
  BY <1>2, <1>4, PlaceNames DEF Known, MRec
<1>6. Quiet(r, s)
  BY <1>2, <1>3, <1>5, Consts DEF Known, SameStop, HoldingSema, Stopped0, SameBorn, SameSpin, Wf,
       ReturnsOf, LocalsOf, OnceInHands, Runs, Stops, Starts, Cont, LpOf, TodoOf, Calls, Injecting,
       Handing, WithP, Stale, Stopping, HandoffRets, WakeRets, Holding, Running, Quiet, Keeps, SameHold
<1>7. ms' = [x \in M |-> CASE x \in {sched.midle[i] : i \in 1 .. Gcprocs - 1} -> Helped(ms[x])
                           [] x = m -> [ms[x] EXCEPT !.pc = "gcwait"]
                           [] OTHER -> ms[x]]
  BY DEF Helpgc, Helped
<1>8. \A x \in M : Quiet(ms[x], ms'[x])
  <2>1. \A x \in M : Quiet(ms[x], ms[x]) /\ Quiet(ms[x], Helped(ms[x]))
    BY QuietSame, HelpedQuiet, Thread DEF SchedOk
  <2>2. ASSUME NEW x \in M PROVE ms'[x] \in {ms[x], Helped(ms[x])} \/ (x = m /\ ms'[x] = s)
    BY <1>1, <1>4, <1>7
  <2> QED BY <1>1, <1>6, <2>1, <2>2
<1>9. ms' \in [M -> MRec]
  BY <1>7, <1>8 DEF Quiet, Keeps
<1>10. SchedKept /\ sched'.midle = t /\ sched'.nmspinning = sched.nmspinning
  <2>1. sched' = [sched EXCEPT !.midle = t, !.helpers = n]
    BY <1>n, <1>t DEF Helpgc
  <2>2. n \in Int
    OBVIOUS
  <2>3. sched' \in SRec
    BY <1>2, <2>1, <2>2 DEF Known, SRec
  <2> QED BY <1>2, <2>1, <2>3 DEF Known, SRec, SchedKept
<1>11. PsSame /\ gs' = gs /\ GsSame /\ netready' \subseteq G
  BY <1>2, Unchanged DEF Helpgc, Known
<1>12. SpinCount'
  BY <1>8, <1>10, SpinKept DEF SchedOk, Quiet, SameSpin
<1>13. CreatedInv'
  <2>1. CreatedInv
    BY DEF SchedOk
  <2>2. \A x \in M : (ms'[x].pc = "none" <=> ms[x].pc = "none") /\ ms'[x].lm = ms[x].lm
       /\ ms'[x].todo = ms[x].todo
    BY <1>8 DEF Quiet, SameBorn
  <2>3. \A i \in DOMAIN sched'.midle : sched'.midle[i] \in Created
    BY <1>t, <1>10
  <2>4. \A g \in G : gs'[g].lockedm # None => gs'[g].lockedm \in Created
    BY <1>11, <2>1, <2>2 DEF CreatedInv
  <2>5. \A x \in M : ms'[x].lm # None => ms'[x].lm \in Created /\ ms'[x].lm # x
    BY <1>11, <2>1, <2>2 DEF CreatedInv
  <2>6. \A x \in M : \A i \in DOMAIN ms'[x].todo : ms'[x].todo[i][2] # None => ms'[x].todo[i][2] \in Created
    BY <1>11, <2>1, <2>2 DEF CreatedInv
  <2> QED BY <1>10, <2>1, <2>2, <2>3, <2>4, <2>5, <2>6, CreatedKept DEF SchedKept
<1> QED BY <1>8, <1>9, <1>10, <1>11, <1>12, <1>13, KeptStep DEF GsSame, Quiet

(***************************************************************************)
(* starttheworld: one processor after the other.                           *)
(***************************************************************************)
(***************************************************************************)
(* starttheworld hands out the processors that have work.                  *)
(***************************************************************************)
(* The first of the list is taken off it.                                  *)
TodoTail(r, p, y, t) ==
    /\ p \in P /\ y \in M \cup {None} /\ t \in Seq(P \X (M \cup {None}))
    /\ p \in TodoOf(r) /\ p # r.nextp /\ p # LpOf(r)
    /\ \A i, j \in DOMAIN t : t[i][1] = t[j][1] => i = j
    /\ \A q : q \in {t[i][1] : i \in DOMAIN t} <=> q \in TodoOf(r) /\ q # p
    /\ \A i \in DOMAIN t : \E j \in DOMAIN r.todo : t[i] = r.todo[j]
    /\ \E j \in DOMAIN r.todo : y = r.todo[j][2]

(* The first entry of a list of processors to start, and the rest.         *)
LEMMA TodoTailIs ==
    ASSUME NEW r \in MRec, Wf(r), r.todo # << >>
    PROVE  TodoTail(r, Head(r.todo)[1], Head(r.todo)[2], Tail(r.todo))
<1>1. PICK w : w = r.todo
  OBVIOUS
<1>2. w \in Seq(P \X (M \cup {None})) /\ w # << >>
  BY <1>1 DEF MRec
<1>3. PICK p : p = Head(w)[1]
  OBVIOUS
<1>4. PICK y : y = Head(w)[2]
  OBVIOUS
<1>5. PICK t : t = Tail(w)
  OBVIOUS
<1>6. /\ Head(w) \in P \X (M \cup {None}) /\ Head(w) = w[1] /\ t \in Seq(P \X (M \cup {None}))
      /\ Len(w) \in Nat \ {0} /\ DOMAIN w = 1 .. Len(w) /\ DOMAIN t = 1 .. Len(w) - 1
      /\ \A i \in 1 .. Len(w) - 1 : t[i] = w[i + 1]
  BY <1>2, <1>5
<1>7. p \in P /\ y \in M \cup {None} /\ p = w[1][1] /\ y = w[1][2] /\ 1 \in DOMAIN w
  BY <1>3, <1>4, <1>6
<1>8. /\ r.nextp \notin TodoOf(r) /\ LpOf(r) \notin TodoOf(r)
      /\ \A i, j \in DOMAIN w : w[i][1] = w[j][1] => i = j
  BY <1>1 DEF Wf, OnceInHands
<1>9. \A q : q \in TodoOf(r) <=> \E i \in DOMAIN w : q = w[i][1]
  BY <1>1 DEF TodoOf
<1>10. p \in TodoOf(r) /\ p # r.nextp /\ p # LpOf(r)
  BY <1>7, <1>8, <1>9
<1>11. \A i, j \in DOMAIN t : t[i][1] = t[j][1] => i = j
  <2>1. ASSUME NEW i \in DOMAIN t, NEW j \in DOMAIN t, t[i][1] = t[j][1] PROVE i = j
    <3>1. i + 1 \in DOMAIN w /\ j + 1 \in DOMAIN w /\ t[i] = w[i + 1] /\ t[j] = w[j + 1] /\ i \in Nat /\ j \in Nat
      BY <1>6
    <3>2. i + 1 = j + 1
      BY <1>8, <2>1, <3>1
    <3> QED BY <3>1, <3>2
  <2> QED BY <2>1
<1>12. \A i \in DOMAIN t : i + 1 \in DOMAIN w /\ i + 1 # 1 /\ t[i] = w[i + 1]
  BY <1>6
<1>13. ASSUME NEW q PROVE q \in {t[i][1] : i \in DOMAIN t} <=> q \in TodoOf(r) /\ q # p
  <2>1. ASSUME NEW i \in DOMAIN t, q = t[i][1] PROVE q \in TodoOf(r) /\ q # p
    BY <1>7, <1>8, <1>9, <1>12, <2>1
  <2>2. ASSUME q \in TodoOf(r), q # p PROVE \E i \in DOMAIN t : q = t[i][1]
    <3>1. PICK j \in DOMAIN w : q = w[j][1]
      BY <1>9, <2>2
    <3>2. j # 1
      BY <1>7, <2>2, <3>1
    <3>3. j - 1 \in DOMAIN t /\ t[j - 1] = w[j]
      BY <1>6, <3>2
    <3> QED BY <3>1, <3>3
  <2> QED BY <2>1, <2>2
<1>14. \A i \in DOMAIN t : \E j \in DOMAIN r.todo : t[i] = r.todo[j]
  BY <1>1, <1>12
<1>15. \E j \in DOMAIN r.todo : y = r.todo[j][2]
  BY <1>1, <1>7
<1>16. TodoTail(r, p, y, t)
  BY <1>6, <1>7, <1>10, <1>11, <1>13, <1>14, <1>15 DEF TodoTail
<1> QED BY <1>1, <1>3, <1>4, <1>5, <1>16

(* The records after that.                                                 *)
Shorter(r, t) == [r EXCEPT !.todo = t]
StartsFor(r, p, t) == [r EXCEPT !.todo = t, !.lp = p, !.sp = FALSE, !.pc = "newm", !.ret = "start3"]

(* The thread that starts the world has handed out the first of its list.  *)
LEMMA ShorterIs ==
    ASSUME NEW r \in MRec, Wf(r), r.pc = "start3", NEW p, NEW y, NEW t, TodoTail(r, p, y, t),
           NEW s, s = Shorter(r, t)
    PROVE  /\ s \in MRec /\ Wf(s) /\ SameStop(r, s) /\ (Runs(s) <=> Runs(r)) /\ SameSpin(r, s) /\ ~Starts(s)
           /\ s.pc = "start3" /\ s.p = r.p /\ s.nextp = r.nextp /\ s.spinning = r.spinning /\ s.lm = r.lm
           /\ s.todo = t /\ p \notin HandsOf(s) /\ p \in HandsOf(r)
           /\ \A q \in P : q # p => (q \in HandsOf(s) <=> q \in HandsOf(r))
<1>1. /\ s \in MRec /\ s.pc = r.pc /\ s.p = r.p /\ s.nextp = r.nextp /\ s.spinning = r.spinning /\ s.lp = r.lp
      /\ s.lm = r.lm /\ s.todo = t /\ s.sp = r.sp /\ s.ret = r.ret /\ s.iret = r.iret /\ s.lg = r.lg
      /\ s.curg = r.curg /\ s.glist = r.glist
  <2>1. t \in Seq(P \X (M \cup {None}))
    BY DEF TodoTail
  <2> QED BY <2>1 DEF MRec, Shorter
<1>2. Cont(s) = "start3" /\ Cont(r) = "start3" /\ LpOf(s) = LpOf(r) /\ ~Starts(s) /\ ~Starts(r)
  BY <1>1 DEF Cont, LpOf, Starts, Calls, Injecting, Handing
<1>3. \A q : q \in TodoOf(s) <=> q \in TodoOf(r) /\ q # p
  <2>1. TodoOf(s) = {t[i][1] : i \in DOMAIN t}
    BY <1>1 DEF TodoOf
  <2>2. \A q : q \in {t[i][1] : i \in DOMAIN t} <=> q \in TodoOf(r) /\ q # p
    BY DEF TodoTail
  <2> QED BY <2>1, <2>2
<1>4. ReturnsOf(s)
  BY <1>1 DEF Wf, ReturnsOf
<1>5. LocalsOf(s)
  BY <1>1, <1>2 DEF Wf, LocalsOf
<1>6. OnceInHands(s)
  BY <1>1, <1>2, <1>3 DEF Wf, OnceInHands, TodoTail
<1>7. p \in P /\ p \in TodoOf(r) /\ p # r.nextp /\ p # LpOf(r)
  BY DEF TodoTail
<1> QED BY <1>1, <1>2, <1>3, <1>4, <1>5, <1>6, <1>7, InHands DEF Wf, SameStop, SameSpin, Runs, Stops

(* The thread that starts the world creates a thread for the first of its  *)
(* list.                                                                   *)
LEMMA StartsForIs ==
    ASSUME NEW r \in MRec, Wf(r), r.pc = "start3", NEW p, NEW y, NEW t, TodoTail(r, p, y, t),
           NEW s, s = StartsFor(r, p, t)
    PROVE  /\ s \in MRec /\ Wf(s) /\ SameStop(r, s) /\ (Runs(s) <=> Runs(r)) /\ SameSpin(r, s)
           /\ s.pc = "newm" /\ s.p = r.p /\ s.nextp = r.nextp /\ s.lm = r.lm
           /\ s.todo = t /\ p \in HandsOf(s) /\ p \in HandsOf(r)
           /\ \A q \in P : q # p => (q \in HandsOf(s) <=> q \in HandsOf(r))
<1>1. p \in P /\ p \in TodoOf(r) /\ p # r.nextp /\ p # LpOf(r) /\ p # None
  BY Consts DEF TodoTail
<1>2. /\ s \in MRec /\ s.pc = "newm" /\ s.p = r.p /\ s.nextp = r.nextp /\ s.spinning = r.spinning /\ s.lp = p
      /\ s.lm = r.lm /\ s.todo = t /\ s.sp = FALSE /\ s.ret = "start3" /\ s.iret = r.iret /\ s.lg = r.lg
      /\ s.curg = r.curg /\ s.glist = r.glist
  <2>1. t \in Seq(P \X (M \cup {None}))
    BY DEF TodoTail
  <2> QED BY <1>1, <2>1, PlaceNames DEF MRec, StartsFor
<1>3. Cont(s) = "start3" /\ Cont(r) = "start3" /\ LpOf(s) = p /\ LpOf(r) = None /\ ~Starts(s) /\ ~Starts(r)
  BY <1>2 DEF Cont, LpOf, Starts, Calls, Injecting, Handing, Wf, LocalsOf
<1>4. \A q : q \in TodoOf(s) <=> q \in TodoOf(r) /\ q # p
  <2>1. TodoOf(s) = {t[i][1] : i \in DOMAIN t}
    BY <1>2 DEF TodoOf
  <2>2. \A q : q \in {t[i][1] : i \in DOMAIN t} <=> q \in TodoOf(r) /\ q # p
    BY DEF TodoTail
  <2> QED BY <2>1, <2>2
<1>5. ReturnsOf(s)
  BY <1>2 DEF Wf, ReturnsOf, Handing, Injecting
<1>6. LocalsOf(s)
  BY <1>1, <1>2, <1>3 DEF Wf, LocalsOf, Handing
<1>7. OnceInHands(s)
  BY <1>1, <1>2, <1>3, <1>4 DEF Wf, OnceInHands, TodoTail
<1>8. None \notin P
  BY Consts
<1> QED BY <1>1, <1>2, <1>3, <1>4, <1>5, <1>6, <1>7, <1>8, InHands DEF Wf, SameStop, SameSpin, Runs, Stops

(* starttheworld hands the next processor to its thread, or makes one.     *)
LEMMA StartPOk ==
    ASSUME SchedOk, thrown = "none", NEW m \in M, StartP(m), thrown' = "none"
    PROVE  SchedOk'
<1>1. PICK r : r = ms[m]
  OBVIOUS
<1>2. Known(m, r)
  BY <1>1, Thread DEF Known
<1>3. r.pc = "start3" /\ r.todo # << >>
  BY <1>1 DEF StartP, At
<1>4. PICK p, y, t : p = Head(r.todo)[1] /\ y = Head(r.todo)[2] /\ t = Tail(r.todo)
  OBVIOUS
<1>5. TodoTail(r, p, y, t)
  BY <1>2, <1>3, <1>4, TodoTailIs DEF Known
<1>6. p \in P /\ p \in HandsOf(r)
  BY <1>5, InHands DEF TodoTail
<1>7. ps[p].status = "Pidle" /\ p \notin SetOf(sched.pidle) /\ \A x \in M : x # m => p \notin HandsOf(ms[x])
  BY <1>1, <1>6, HandIdle
<1>8. ps' = ps /\ sched' = sched /\ gs' = gs /\ gs' \in [G -> GRec] /\ netready' \subseteq G
  BY <1>2 DEF StartP, Known
<1>9. SchedRest /\ Injective(sched'.pidle)
  BY <1>2, <1>8, RestSame, IdleIs DEF Known, SchedOk
<1>10. CreatedInv /\ \A i \in DOMAIN t : t[i][2] # None => t[i][2] \in Created
  BY <1>1, <1>5 DEF SchedOk, CreatedInv, TodoTail
<1>11. y # None => y \in Created
  BY <1>1, <1>5 DEF SchedOk, CreatedInv, TodoTail
<1>12. ASSUME \A x \in M : (ms'[x].pc = "none" <=> ms[x].pc = "none") /\ ms'[x].lm = ms[x].lm
                           /\ ms'[x].todo \in {ms[x].todo, t}
       PROVE  CreatedInv'
  <2>3. \A i \in DOMAIN sched'.midle : sched'.midle[i] \in Created
    BY <1>8, <1>10 DEF CreatedInv
  <2>4. \A g \in G : gs'[g].lockedm # None => gs'[g].lockedm \in Created
    BY <1>8, <1>10 DEF CreatedInv
  <2>5. \A x \in M : ms'[x].lm # None => ms'[x].lm \in Created /\ ms'[x].lm # x
    BY <1>10, <1>12 DEF CreatedInv
  <2>6. \A x \in M : \A i \in DOMAIN ms'[x].todo : ms'[x].todo[i][2] # None => ms'[x].todo[i][2] \in Created
    BY <1>10, <1>12 DEF CreatedInv
  <2> QED BY <1>8, <1>10, <1>12, <2>3, <2>4, <2>5, <2>6, CreatedKept
<1>13. CASE y = None
  <2>1. PICK s : s = StartsFor(r, p, t)
    OBVIOUS
  <2>2. /\ s \in MRec /\ Wf(s) /\ SameStop(r, s) /\ (Runs(s) <=> Runs(r)) /\ SameSpin(r, s)
        /\ s.pc = "newm" /\ s.p = r.p /\ s.nextp = r.nextp /\ s.lm = r.lm
        /\ s.todo = t /\ p \in HandsOf(s)
        /\ \A q \in P : q # p => (q \in HandsOf(s) <=> q \in HandsOf(r))
    BY <1>2, <1>3, <1>5, <2>1, StartsForIs DEF Known
  <2>3. ms' = [ms EXCEPT ![m] = s]
    BY <1>1, <1>2, <1>4, <1>13, <2>1 DEF StartP, StartsFor, Known
  <2>4. ms' \in [M -> MRec] /\ ms'[m] = s /\ \A x \in M : x # m => ms'[x] = ms[x]
    BY <1>2, <2>2, <2>3 DEF Known
  <2>5. CreatedInv'
    BY <1>1, <1>3, <1>12, <2>2, <2>4
  <2>6. SpinCount'
    <3>1. \A x \in M : (ms'[x].spinning <=> ms[x].spinning) /\ (Starts(ms'[x]) <=> Starts(ms[x]))
      BY <1>1, <2>2, <2>4 DEF SameSpin
    <3> QED BY <1>8, <3>1, SpinKept DEF SchedOk
  <2>7. \A x \in M : /\ Wf(ms'[x]) /\ SameStop(ms[x], ms'[x]) /\ (Runs(ms'[x]) <=> Runs(ms[x]))
                     /\ Runs(ms[x]) => ms'[x].p = ms[x].p
    BY <1>1, <2>2, <2>4 DEF SameStop, SchedOk, PlaceInv
  <2>8. \A q \in P : q # p => \A x \in M : q \in HandsOf(ms'[x]) <=> q \in HandsOf(ms[x])
    BY <1>1, <2>2, <2>4
  <2>9. p \in HandsOf(ms'[m]) /\ \A x \in M : x # m => p \notin HandsOf(ms'[x])
    BY <1>7, <2>2, <2>4
  <2> QED BY <1>6, <1>7, <1>8, <1>9, <2>4, <2>5, <2>6, <2>7, <2>8, <2>9, PassStep
<1>14. CASE y # None
  <2>1. PICK s : s = Shorter(r, t)
    OBVIOUS
  <2>2. /\ s \in MRec /\ Wf(s) /\ SameStop(r, s) /\ (Runs(s) <=> Runs(r)) /\ SameSpin(r, s) /\ ~Starts(s)
        /\ s.pc = "start3" /\ s.p = r.p /\ s.nextp = r.nextp /\ s.spinning = r.spinning /\ s.lm = r.lm
        /\ s.todo = t /\ p \notin HandsOf(s)
        /\ \A q \in P : q # p => (q \in HandsOf(s) <=> q \in HandsOf(r))
    BY <1>2, <1>3, <1>5, <2>1, ShorterIs DEF Known
  <2>v. y \in M /\ y \in Created /\ ms[y].nextp = None
    BY <1>1, <1>4, <1>11, <1>14 DEF StartP, Verdict, Handed, Created
  <2>u. PICK u : u = (IF y = m THEN s ELSE ms[y]) /\ u \in MRec
    BY <1>2, <2>2, <2>v DEF Known
  <2>w. PICK w : w = [u EXCEPT !.nextp = p, !.park = TRUE]
    OBVIOUS
  <2>w1. w \in MRec /\ w.nextp = p /\ Alike(u, w) /\ w.spinning = u.spinning
    BY <1>6, <2>u, <2>w, ZenonT(60) DEF MRec, Alike
  <2>3. ms' = [ms EXCEPT ![m] = s, ![y] = w]
    <3>1. ms' = [ms EXCEPT ![m].todo = t, ![y].nextp = p, ![y].park = TRUE]
      BY <1>1, <1>2, <1>4, <1>14 DEF StartP, Known
    <3> QED BY <1>1, <1>2, <2>v, <2>u, <2>w, <2>1, <3>1 DEF Shorter, Known
  <2>4. Passed(m, s, p, y, w)
    <3>1. Passes(m, s, p, y, w)
      BY <1>1, <1>6, <1>7, <2>2, <2>v, <2>u, <2>w1, <2>3 DEF Passes
    <3> QED BY <3>1, HandOver
  <2>5. SpinCount'
    <3>1. ~Starts(r)
      BY <1>3 DEF Starts
    <3>2. \A x \in M : Starts(ms'[x]) <=> Starts(ms[x])
      BY <1>1, <2>2, <2>4, <3>1 DEF Passed
    <3>3. \A x \in M : ms'[x].spinning <=> ms[x].spinning
      BY <1>1, <2>2, <2>u, <2>w1, <2>4 DEF Passed
    <3> QED BY <1>8, <3>2, <3>3, SpinKept DEF SchedOk
  <2>6. CreatedInv'
    <3>1. \A x \in M : (ms'[x].pc = "none" <=> ms[x].pc = "none") /\ ms'[x].lm = ms[x].lm
                       /\ ms'[x].todo \in {ms[x].todo, t}
      BY <1>1, <1>3, <2>2, <2>u, <2>w1, <2>4 DEF Passed, Alike
    <3> QED BY <1>12, <3>1
  <2> QED BY <1>6, <1>7, <1>8, <1>9, <2>4, <2>5, <2>6, PassStep DEF Passed
<1> QED BY <1>13, <1>14

(***************************************************************************)
(* stoptheworld.                                                           *)
(***************************************************************************)
(***************************************************************************)
(* stoptheworld.                                                           *)
(***************************************************************************)
(* Whoever runs a goroutine and gets worldsema finds no stop under way.    *)
LEMMA NoStopYet ==
    ASSUME SchedOk, NEW m \in M, ms[m].pc = "user", sched.worldsema
    PROVE  /\ ~sched.gcwaiting /\ sched.stopwait = 0 /\ ~sched.stopnote
           /\ \A p \in P : ps[p].status # "Pgcstop"
           /\ \A x \in M : ~Stops(ms[x])
<1>1. Cont(ms[m]) \in WithP /\ Cont(ms[m]) \notin Stopping
  BY DEF Cont, Calls, Injecting, Handing, WithP, Stopping
<1>2. ms[m].p \in P /\ ms[m].p \in Pos /\ ps[ms[m].p].status = "Prunning"
  BY <1>1, RunsHasP
<1>3. ms[m].p \in StillRunning
  BY <1>2 DEF StillRunning
<1>4. Cardinality(StillRunning) # 0
  BY <1>3, StillFinite, FS_EmptySet DEF SchedOk
<1>5. ASSUME NEW x \in M, Cont(ms[x]) \in Stopping PROVE FALSE
  <2>1. StopInv
    BY DEF SchedOk
  <2>2. Cont(ms[x]) \notin HoldingSema
    BY <2>1 DEF StopInv
  <2>3. Cont(ms[x]) \in Stopped0
    BY <1>5, <2>2 DEF Stopping, HoldingSema, Stopped0
  <2>4. sched.gcwaiting /\ sched.stopwait = 0
    BY <1>5, <2>1, <2>3 DEF StopInv
  <2> QED BY <1>4, <2>1, <2>4 DEF StopInv
<1>6. StopInv
  BY DEF SchedOk
<1>7. ~sched.gcwaiting
  BY <1>5, <1>6 DEF StopInv
<1> QED BY <1>5, <1>6, <1>7 DEF StopInv, Stops

(* preemptall asks goroutines to stop and does nothing else.               *)
LEMMA PreemptallIs ==
    ASSUME SchedTypes, NEW m
    PROVE  /\ Preemptall(m) \in [G -> GRec]
           /\ \A g \in G : Preemptall(m)[g].lockedm = gs[g].lockedm /\ Preemptall(m)[g].ops = gs[g].ops
<1>1. gs \in [G -> GRec]
  BY DEF SchedTypes
<1>2. PICK f : f = Preemptall(m)
  OBVIOUS
<1>3. ASSUME NEW g \in G PROVE f[g] \in GRec /\ f[g].lockedm = gs[g].lockedm /\ f[g].ops = gs[g].ops
  <2>1. PICK h \in GRec : h = gs[g]
    BY <1>1
  <2>2. f[g] = h \/ f[g] = [h EXCEPT !.preempt = TRUE]
    BY <1>2, <2>1 DEF Preemptall
  <2> QED BY <2>1, <2>2 DEF GRec
<1>4. f = [g \in G |-> f[g]]
  BY <1>2 DEF Preemptall
<1> QED BY <1>2, <1>3, <1>4

(* A request to stop the world: the requester stops its own processor.     *)
LEMMA StoptheworldOk ==
    ASSUME SchedOk, thrown = "none", NEW m \in M, Stoptheworld(m)
    PROVE  SchedOk'
<1>1. PICK r : r = ms[m]
  OBVIOUS
<1>2. Known(m, r)
  BY <1>1, Thread DEF Known
<1>o. PICK op \in {"gc", "procs"} : User(m, op) /\ ms' = [ms EXCEPT ![m].pc = "stw1", ![m].n = 0, ![m].ret = op]
  BY DEF Stoptheworld
<1>g. PICK g \in G : g = r.curg /\ gs[g].ops > 0
  BY <1>1, <1>o, UserIs
<1>3. r.pc = "user"
  BY <1>1, <1>o, UserIs
<1>c. Cont(r) = "user" /\ ~Stops(r) /\ Runs(r)
  BY <1>3 DEF Cont, Calls, Injecting, Handing, Stops, Stopping, Runs, WithP
<1>p. PICK p \in P : p = r.p /\ p \in Pos /\ ps[p].m = m /\ ps[p].status = "Prunning"
  BY <1>1, <1>c, RunsHasP DEF Runs, Stops
<1>f. /\ ~sched.gcwaiting /\ ~sched.stopnote /\ \A q \in P : ps[q].status # "Pgcstop"
      /\ \A x \in M : ~Stops(ms[x])
  BY <1>1, <1>3, NoStopYet DEF Stoptheworld
<1>4. PICK s : s = [r EXCEPT !.pc = "stw1", !.n = 0, !.ret = op]
  OBVIOUS
<1>5. s \in MRec /\ s.pc = "stw1" /\ s.ret = op /\ s.p = r.p /\ s.nextp = r.nextp /\ s.spinning = r.spinning
     /\ s.lp = r.lp /\ s.lm = r.lm /\ s.todo = r.todo /\ s.sp = r.sp /\ s.iret = r.iret
     /\ s.lg = r.lg /\ s.curg = r.curg /\ s.glist = r.glist
  BY <1>2, <1>4, PlaceNames DEF Known, MRec
<1>6. Wf(s) /\ SameHold(r, s) /\ SameBorn(r, s) /\ SameSpin(r, s) /\ Stops(s) /\ Runs(s) /\ Cont(s) = "stw1"
  BY <1>2, <1>3, <1>5, Consts DEF Known, HoldingSema, Stopped0, SameBorn, SameSpin, Wf,
       ReturnsOf, LocalsOf, OnceInHands, Runs, Stops, Starts, Cont, LpOf, TodoOf, Calls, Injecting,
       Handing, WithP, Stale, Stopping, HandoffRets, WakeRets, Holding, Running, SameHold
<1>7. ms' = [ms EXCEPT ![m] = s]
  BY <1>1, <1>2, <1>4, <1>o DEF Known
<1>8. ms' \in [M -> MRec] /\ ms'[m] = s /\ \A x \in M : x # m => ms'[x] = ms[x]
  BY <1>2, <1>5, <1>7 DEF Known
<1>h. PICK h \in PRec : h.m = m /\ h.status = "Pgcstop" /\ Marked(p, "Pgcstop") = [ps EXCEPT ![p] = h]
  BY <1>2, <1>p, PsStatus DEF Known
<1>9. ps' \in [P -> PRec] /\ ps'[p] = h /\ \A q \in P : q # p => ps'[q] = ps[q]
  <2>1. ps' = [ps EXCEPT ![p] = h]
    BY <1>1, <1>p, <1>h DEF Stoptheworld, Marked
  <2> QED BY <1>2, <1>h, <2>1 DEF Known
<1>10. /\ sched' \in SRec /\ sched'.gomaxprocs = sched.gomaxprocs /\ sched'.gcwaiting = TRUE
       /\ sched'.worldsema = FALSE /\ sched'.stopwait = sched.gomaxprocs - 1
       /\ sched'.maxmcount = sched.maxmcount /\ sched'.pidle = sched.pidle /\ sched'.midle = sched.midle
       /\ sched'.stopnote = sched.stopnote /\ sched'.nmspinning = sched.nmspinning
  <2>1. PICK w \in Int : w = sched.gomaxprocs - 1
    BY <1>2, PosInP DEF Known
  <2>2. sched' = [sched EXCEPT !.worldsema = FALSE, !.stopwait = w, !.gcwaiting = TRUE]
    BY <2>1 DEF Stoptheworld
  <2> QED BY <1>2, <2>1, <2>2 DEF Known, SRec
<1>11. GsSame /\ netready' \subseteq G
  <2>1. PICK f : f = Preemptall(m) /\ f \in [G -> GRec] /\ f[g].ops = gs[g].ops
                 /\ \A x \in G : f[x].lockedm = gs[x].lockedm
    BY <1>2, PreemptallIs DEF Known
  <2>2. PICK u \in GRec : u = f[g] /\ u.ops > 0
    BY <1>g, <2>1
  <2>3. PICK n \in Nat : n = u.ops - 1
    BY <2>2 DEF GRec
  <2>v. PICK v : v = [u EXCEPT !.ops = n]
    OBVIOUS
  <2>4. v \in GRec /\ v.lockedm = u.lockedm
    BY <2>v DEF GRec
  <2>5. gs' = [f EXCEPT ![g] = v]
    BY <1>1, <1>g, <2>1, <2>2, <2>3, <2>v DEF Stoptheworld
  <2>6. gs' \in [G -> GRec] /\ \A x \in G : gs'[x].lockedm = gs[x].lockedm
    BY <2>1, <2>2, <2>4, <2>5
  <2> QED BY <1>2, <2>6 DEF GsSame, Known, Stoptheworld
<1>12. SchedTypes' /\ PlaceInv'
  BY <1>2, <1>6, <1>8, <1>9, <1>10, <1>11 DEF SchedTypes, PlaceInv, GsSame, SchedOk
<1>13. CreatedInv'
  <2>1. \A x \in M : SameBorn(ms[x], ms'[x])
    BY <1>1, <1>6, <1>8 DEF SameBorn
  <2> QED BY <1>10, <1>11, <2>1, CreatedSame DEF SchedOk
<1>14. SpinCount'
  <2>1. \A x \in M : (ms'[x].spinning <=> ms[x].spinning) /\ (Starts(ms'[x]) <=> Starts(ms[x]))
    BY <1>1, <1>6, <1>8 DEF SameSpin
  <2> QED BY <1>10, <2>1, SpinKept DEF SchedOk
<1>15. IdleInv'
  <2>1. \A x \in M : HandsOf(ms'[x]) = HandsOf(ms[x])
    BY <1>1, <1>6, <1>8, HandsSame
  <2>2. \A q \in P : ps'[q].status = "Pidle" <=> ps[q].status = "Pidle"
    BY <1>p, <1>h, <1>9
  <2> QED BY <1>10, <2>1, <2>2, IdleKept DEF SchedOk
<1>16. RunInv'
  <2>1. RunInv /\ Pos' = Pos
    BY <1>10 DEF SchedOk, Pos
  <2>2. ASSUME NEW x \in M, Cont(ms'[x]) \in WithP
        PROVE  /\ ps'[ms'[x].p].m = x
               /\ ps'[ms'[x].p].status = IF Cont(ms'[x]) \in Stopping THEN "Pgcstop" ELSE "Prunning"
    <3>1. CASE x = m
      BY <1>p, <1>h, <1>5, <1>6, <1>8, <1>9, <3>1 DEF Stops
    <3>2. CASE x # m
      <4>1. ms'[x] = ms[x] /\ ms[x].p \in P /\ ps[ms[x].p].m = x
        BY <1>8, <2>2, <3>2, RunsHasP
      <4>2. ms[x].p # p
        BY <1>p, <3>2, <4>1
      <4> QED BY <1>9, <2>1, <2>2, <4>1, <4>2 DEF RunInv
    <3> QED BY <3>1, <3>2
  <2>3. ASSUME NEW q \in P
        PROVE  /\ ps'[q].m # None => ms'[ps'[q].m].p = q /\ Cont(ms'[ps'[q].m]) \in WithP
               /\ ps'[q].status = "Prunning" => ps'[q].m # None
               /\ ps'[q].status = "Pdead" <=> q \notin Pos'
    <3>1. CASE q = p
      BY <1>p, <1>h, <1>5, <1>6, <1>8, <1>9, <2>1, <3>1 DEF Runs
    <3>2. CASE q # p
      <4>1. ps'[q] = ps[q] /\ ps[q] \in PRec
        BY <1>2, <1>9, <3>2 DEF Known
      <4>2. ASSUME ps[q].m # None PROVE ps[q].m \in M /\ ms[ps[q].m].p = q /\ Cont(ms[ps[q].m]) \in WithP
        BY <2>1, <4>1, <4>2 DEF RunInv, PRec
      <4>3. ASSUME ps[q].m # None PROVE ps[q].m # m
        BY <1>1, <1>p, <3>2, <4>2, <4>3
      <4> QED BY <1>8, <2>1, <4>1, <4>2, <4>3 DEF RunInv
    <3> QED BY <3>1, <3>2
  <2> QED BY <2>2, <2>3 DEF RunInv
<1>17. StopInv'
  <2>1. Pos' = Pos /\ SchedTypes
    BY <1>2, <1>10 DEF Pos, Known
  <2>2. StillRunning' = Pos \ {p}
    BY <1>p, <1>f, <1>h, <1>9, <2>1, PosInP DEF StillRunning
  <2>3. IsFiniteSet(Pos) /\ Cardinality(Pos) = sched.gomaxprocs
    <3>1. sched.gomaxprocs \in Nat \ {0}
      BY <2>1, PosInP
    <3>2. IsFiniteSet(Pos) /\ Cardinality(Pos) = IF 0 > sched.gomaxprocs - 1 THEN 0 ELSE (sched.gomaxprocs - 1) - 0 + 1
      BY <3>1, FS_Interval, SMTT(60) DEF Pos
    <3> QED BY <3>1, <3>2
  <2>4. Cardinality(StillRunning') = sched.gomaxprocs - 1
    BY <1>p, <2>2, <2>3, FS_RemoveElement
  <2>5. \A x \in M : Cont(ms'[x]) \in Stopping <=> x = m
    BY <1>f, <1>6, <1>8 DEF Stops
  <2>6. \A x \in M : Cont(ms'[x]) \notin Stopped0
    BY <1>6, <1>8, <2>5, StopSets DEF Stopped0
  <2> QED BY <1>f, <1>10, <2>4, <2>5, <2>6 DEF StopInv
<1> QED BY <1>12, <1>13, <1>14, <1>15, <1>16, <1>17 DEF SchedOk

(* A list without repetition is as long as its set is large.               *)
LEMMA CardOfList ==
    ASSUME NEW S, NEW s \in Seq(S), Injective(s)
    PROVE  IsFiniteSet(SetOf(s)) /\ Cardinality(SetOf(s)) = Len(s)
<1>1. s \in [1 .. Len(s) -> SetOf(s)] /\ DOMAIN s = 1 .. Len(s) /\ Len(s) \in Nat
  BY DEF SetOf
<1>2. s \in Bijection(1 .. Len(s), SetOf(s))
  BY <1>1 DEF Bijection, Injection, IsInjective, Surjection, Injective, SetOf
<1>3. ExistsBijection(1 .. Len(s), SetOf(s))
  BY <1>2 DEF ExistsBijection
<1>4. Cardinality(SetOf(s)) = Len(s)
  BY <1>1, <1>3, FS_CountingElements
<1>5. IsFiniteSet(1 .. Len(s))
  BY <1>1, FS_Interval
<1> QED BY <1>3, <1>4, <1>5, FS_Bijection

(* stoptheworld takes the idle processors.                                 *)
LEMMA StopIdlePsOk ==
    ASSUME SchedOk, thrown = "none", NEW m \in M, StopIdlePs(m)
    PROVE  SchedOk'
<1>1. PICK r : r = ms[m]
  OBVIOUS
<1>2. Known(m, r)
  BY <1>1, Thread DEF Known
<1>3. r.pc = "stw1"
  BY <1>1 DEF StopIdlePs, At
<1>i. PICK idle : idle = SetOf(sched.pidle)
  OBVIOUS
<1>d. IsFiniteSet(idle) /\ Cardinality(idle) = npidle /\ npidle \in Nat
  <2>1. sched.pidle \in Seq(P) /\ Injective(sched.pidle)
    BY <1>2, IdleIs DEF Known, SRec, SchedOk
  <2> QED BY <1>i, <2>1, CardOfList DEF npidle
<1>e. \A q \in idle : q \in P /\ q \in Pos /\ ps[q].status = "Pidle" /\ ps[q].m = None /\ \A x \in M : q \notin HandsOf(ms[x])
  BY <1>i, ListIdle
<1>c. Cont(r) = "stw1" /\ Stops(r) /\ Runs(r)
  BY <1>3 DEF Cont, Calls, Injecting, Handing, Stops, Stopping, Runs, WithP
<1>f. /\ sched.gcwaiting /\ ~sched.stopnote /\ sched.stopwait = Cardinality(StillRunning) /\ ~sched.worldsema
      /\ \A x \in M : Stops(ms[x]) <=> x = m
  BY <1>1, <1>c DEF SchedOk, StopInv, Stops, HoldingSema
<1>k. PICK k \in Int : k = sched.stopwait - npidle
  BY <1>2, <1>d DEF Known, SRec
<1>l. PICK l \in {"stwwait", "stwchk"} : l = IF k > 0 THEN "stwwait" ELSE "stwchk"
  OBVIOUS
<1>4. PICK s : s = [r EXCEPT !.n = 0, !.pc = l]
  OBVIOUS
<1>5. s \in MRec /\ s.pc = l /\ s.ret = r.ret /\ s.p = r.p /\ s.nextp = r.nextp /\ s.spinning = r.spinning
     /\ s.lp = r.lp /\ s.lm = r.lm /\ s.todo = r.todo /\ s.sp = r.sp /\ s.iret = r.iret
     /\ s.lg = r.lg /\ s.curg = r.curg /\ s.glist = r.glist
  BY <1>2, <1>4, PlaceNames DEF Known, MRec
<1>6. Wf(s) /\ SameHold(r, s) /\ SameBorn(r, s) /\ SameSpin(r, s) /\ Stops(s) /\ Runs(s) /\ Cont(s) = l
  BY <1>2, <1>3, <1>5, Consts DEF Known, HoldingSema, Stopped0, SameBorn, SameSpin, Wf,
       ReturnsOf, LocalsOf, OnceInHands, Runs, Stops, Starts, Cont, LpOf, TodoOf, Calls, Injecting,
       Handing, WithP, Stale, Stopping, HandoffRets, WakeRets, Holding, Running, SameHold
<1>7. ms' = [ms EXCEPT ![m] = s]
  BY <1>1, <1>2, <1>k, <1>l, <1>4 DEF StopIdlePs, Known
<1>8. ms' \in [M -> MRec] /\ ms'[m] = s /\ \A x \in M : x # m => ms'[x] = ms[x]
  BY <1>2, <1>5, <1>7 DEF Known
<1>9. ps' \in [P -> PRec] /\ \A q \in P : /\ q \in idle => ps'[q].status = "Pgcstop" /\ ps'[q].m = ps[q].m
                                          /\ q \notin idle => ps'[q] = ps[q]
  <2>1. ps' = [q \in P |-> IF q \in idle THEN Stopped(q) ELSE ps[q]]
    BY <1>i DEF StopIdlePs, SetOf
  <2>2. ASSUME NEW q \in P PROVE Stopped(q) \in PRec /\ Stopped(q).status = "Pgcstop" /\ Stopped(q).m = ps[q].m
    <3>1. PICK h \in PRec : h = ps[q]
      BY <1>2 DEF Known
    <3> QED BY <3>1 DEF Stopped, PRec
  <2> QED BY <1>2, <2>1, <2>2 DEF Known
<1>10. /\ sched' \in SRec /\ sched'.gomaxprocs = sched.gomaxprocs /\ sched'.gcwaiting = sched.gcwaiting
       /\ sched'.worldsema = sched.worldsema /\ sched'.stopwait = k
       /\ sched'.maxmcount = sched.maxmcount /\ sched'.pidle = << >> /\ sched'.midle = sched.midle
       /\ sched'.stopnote = sched.stopnote /\ sched'.nmspinning = sched.nmspinning
  <2>0. << >> \in Seq(P)
    OBVIOUS
  <2>1. PICK t \in Seq(P) : t = << >>
    BY <2>0
  <2>2. sched' = [sched EXCEPT !.pidle = t, !.stopwait = k]
    BY <1>k, <2>1 DEF StopIdlePs
  <2> QED BY <1>2, <2>1, <2>2 DEF Known, SRec
<1>11. GsSame /\ netready' \subseteq G
  BY <1>2, Unchanged DEF StopIdlePs, Known
<1>12. SchedTypes' /\ PlaceInv'
  BY <1>2, <1>6, <1>8, <1>9, <1>10, <1>11 DEF SchedTypes, PlaceInv, GsSame, SchedOk
<1>13. CreatedInv'
  <2>1. \A x \in M : SameBorn(ms[x], ms'[x])
    BY <1>1, <1>6, <1>8 DEF SameBorn
  <2> QED BY <1>10, <1>11, <2>1, CreatedSame DEF SchedOk
<1>14. SpinCount'
  <2>1. \A x \in M : (ms'[x].spinning <=> ms[x].spinning) /\ (Starts(ms'[x]) <=> Starts(ms[x]))
    BY <1>1, <1>6, <1>8 DEF SameSpin
  <2> QED BY <1>10, <2>1, SpinKept DEF SchedOk
<1>h. \A x \in M : HandsOf(ms'[x]) = HandsOf(ms[x])
  BY <1>1, <1>6, <1>8, HandsSame
<1>15. IdleInv'
  <2>1. Injective(sched'.pidle) /\ SetOf(sched'.pidle) = {}
    BY <1>10 DEF Injective, SetOf
  <2>2. /\ \A q \in P : ps[q].status = "Pidle" <=> q \in idle \/ \E x \in M : q \in HandsOf(ms[x])
        /\ \A x, y \in M : x # y => \A q \in HandsOf(ms[x]) : q \notin HandsOf(ms[y])
    BY <1>i, IdleIs DEF SchedOk
  <2>3. \A q \in P : ps'[q].status = "Pidle" <=> \E x \in M : q \in HandsOf(ms'[x])
    BY <1>e, <1>9, <1>h, <2>2
  <2> QED BY <1>h, <2>1, <2>2, <2>3, IdleIs DEF IdleInv, PidleSet, SetOf, Injective
<1>16. RunInv'
  <2>1. \A x \in M : /\ (Runs(ms'[x]) <=> Runs(ms[x])) /\ (Stops(ms'[x]) <=> Stops(ms[x]))
                     /\ Runs(ms[x]) => ms'[x].p = ms[x].p
    BY <1>1, <1>c, <1>5, <1>6, <1>8
  <2>2. \A q \in P : /\ ps'[q].m = ps[q].m /\ (ps[q].m # None => ps'[q].status = ps[q].status)
                     /\ ps'[q].status = "Prunning" => ps[q].status = "Prunning"
                     /\ ps'[q].status = "Pdead" <=> ps[q].status = "Pdead"
    BY <1>e, <1>9
  <2> QED BY <1>10, <2>1, <2>2, RunKept DEF SchedOk
<1>17. StopInv'
  <2>1. Pos' = Pos /\ SchedTypes /\ Pos \subseteq P
    BY <1>2, <1>10, PosInP DEF Pos, Known
  <2>2. StillRunning' = StillRunning \ idle /\ idle \subseteq StillRunning
    BY <1>e, <1>9, <2>1 DEF StillRunning
  <2>3. IsFiniteSet(StillRunning) /\ Cardinality(StillRunning) \in Nat
    BY <2>1, StillFinite
  <2>4. StillRunning \cap idle = idle
    BY <2>2
  <2>5. Cardinality(StillRunning') = Cardinality(StillRunning) - Cardinality(idle)
    BY <2>2, <2>3, <2>4, FS_Difference, ZenonT(60)
  <2>6. IsFiniteSet(StillRunning')
    BY <2>2, <2>3, FS_Subset
  <2>7. Cardinality(StillRunning') \in Nat
    BY <2>6, FS_CardinalityType
  <2>8. k = Cardinality(StillRunning') /\ k \in Nat
    BY <1>d, <1>f, <1>k, <2>3, <2>5, <2>7
  <2>9. \A x \in M : Cont(ms'[x]) \in Stopping <=> x = m
    BY <1>f, <1>6, <1>8 DEF Stops
  <2>10. \A x \in M : Cont(ms'[x]) \in Stopped0 => k = 0
    BY <1>l, <1>6, <1>8, <2>8, <2>9, StopSets DEF Stopped0
  <2> QED BY <1>f, <1>10, <2>8, <2>9, <2>10 DEF StopInv
<1> QED BY <1>12, <1>13, <1>14, <1>15, <1>16, <1>17 DEF SchedOk

(***************************************************************************)
(* The state of a stopped world, and what procresize makes of it.          *)
(***************************************************************************)
(***************************************************************************)
(* starttheworld.                                                          *)
(***************************************************************************)
(* In the stopped world nobody has a processor but thread m.               *)
LEMMA StoppedIs ==
    ASSUME SchedOk, NEW m \in M, Cont(ms[m]) \in Stopped0
    PROVE  /\ sched.stopwait = 0 /\ ~sched.stopnote /\ sched.pidle = << >>
           /\ \A p \in Pos : ps[p].status = "Pgcstop"
           /\ \A x \in M : HandsOf(ms[x]) = {} /\ ms[x].nextp = None /\ (Runs(ms[x]) => x = m)
<1>1. SchedTypes /\ StopInv /\ RunInv /\ IdleInv /\ Pos \subseteq P
  BY PosInP DEF SchedOk
<1>2. Cont(ms[m]) \in Stopping /\ Cont(ms[m]) # "stwwait"
  BY DEF Stopped0
<1>3. sched.gcwaiting /\ sched.stopwait = 0 /\ ~sched.stopnote
  BY <1>1, <1>2 DEF StopInv
<1>4. StillRunning = {}
  <2>1. Cardinality(StillRunning) = 0
    BY <1>1, <1>3 DEF StopInv
  <2> QED BY <1>1, <2>1, StillFinite, FS_EmptySet
<1>5. \A p \in Pos : ps[p].status = "Pgcstop"
  BY <1>4 DEF StillRunning
<1>6. \A x \in M : Runs(ms[x]) => x = m
  <2>1. ASSUME NEW x \in M, Runs(ms[x]) PROVE x = m
    <3>1. ps[ms[x].p].status = "Pgcstop"
      BY <1>5, <2>1, RunsHasP DEF Runs
    <3>2. Cont(ms[x]) \in Stopping
      BY <2>1, <3>1, RunsHasP DEF Runs
    <3> QED BY <1>1, <1>2, <3>2 DEF StopInv
  <2> QED BY <2>1
<1>7. \A x \in M : \A p : p \notin HandsOf(ms[x])
  BY <1>5, HandIdle
<1>8. \A x \in M : ms[x].nextp = None
  <2>1. ASSUME NEW x \in M PROVE ms[x].nextp = None
    <3>1. ms[x].nextp \in P \cup {None}
      BY Thread DEF MRec
    <3> QED BY <1>7, <3>1, InHands
  <2> QED BY <2>1
<1>9. sched.pidle = << >>
  <2>1. SetOf(sched.pidle) = {}
    BY <1>5, ListIdle
  <2>2. sched.pidle \in Seq(P)
    BY <1>1 DEF SchedTypes, SRec
  <2>3. ASSUME sched.pidle # << >> PROVE FALSE
    <3>1. Len(sched.pidle) \in Nat /\ Len(sched.pidle) # 0
      BY <2>2, <2>3, EmptySeq
    <3>2. 1 \in DOMAIN sched.pidle
      BY <2>2, <3>1
    <3> QED BY <2>1, <3>2 DEF SetOf
  <2> QED BY <2>3
<1> QED BY <1>3, <1>5, <1>6, <1>7, <1>8, <1>9

(* The processors 1 .. k are for the threads, k + 1 .. n - 1 are idle.     *)
TodoList(k, th) == [j \in 1 .. k |-> LET i == k + 1 - j IN
                      <<i, IF i <= th THEN sched.midle[i] ELSE None>>]
IdleList(k, n) == [i \in 1 .. n - 1 - k |-> k + i]

(* The list of processors with work that procresize gives to               *)
(* starttheworld.                                                          *)
LEMMA TodoListIs ==
    ASSUME SchedOk, NEW k \in Nat, k < Cardinality(P), NEW th \in Nat, th <= Len(sched.midle),
           NEW w, w = TodoList(k, th)
    PROVE  /\ w \in Seq(P \X (M \cup {None})) /\ DOMAIN w = 1 .. k
           /\ \A j \in 1 .. k : w[j][1] = k + 1 - j /\ (w[j][2] # None => w[j][2] \in Created)
<1>1. sched.midle \in Seq(M) /\ sched.midle \in Seq(Created)
  BY MidleCreated
<1>2. ASSUME NEW j \in 1 .. k
      PROVE  /\ w[j] \in P \X (M \cup {None}) /\ w[j][1] = k + 1 - j
             /\ w[j][2] # None => w[j][2] \in Created
  <2>1. PICK i \in 1 .. k : i = k + 1 - j
    OBVIOUS
  <2>2. i \in P
    BY <2>1, Consts
  <2>3. i <= th => i \in 1 .. Len(sched.midle)
    BY <1>1, <2>1
  <2>4. i <= th => sched.midle[i] \in M /\ sched.midle[i] \in Created
    BY <1>1, <2>3
  <2>5. PICK y : y = IF i <= th THEN sched.midle[i] ELSE None
    OBVIOUS
  <2>6. w[j] = <<i, y>>
    BY <2>1, <2>5 DEF TodoList
  <2>7. y \in M \cup {None} /\ (y # None => y \in Created)
    BY <2>4, <2>5
  <2> QED BY <2>1, <2>2, <2>6, <2>7
<1>3. \A j \in 1 .. k : w[j] \in P \X (M \cup {None})
  BY <1>2
<1>4. w \in [1 .. k -> P \X (M \cup {None})]
  BY <1>3 DEF TodoList
<1>5. w \in Seq(P \X (M \cup {None})) /\ DOMAIN w = 1 .. k
  BY <1>4
<1>6. \A j \in 1 .. k : w[j][1] = k + 1 - j /\ (w[j][2] # None => w[j][2] \in Created)
  BY <1>2
<1> QED BY <1>5, <1>6

(* The list of idle processors that procresize leaves.                     *)
LEMMA IdleListIs ==
    ASSUME NEW n \in Nat, n <= Cardinality(P), NEW k \in Nat, k < n, NEW w, w = IdleList(k, n) \o << >>
    PROVE  /\ w \in Seq(P) /\ Injective(w)
           /\ \A q \in P : q \in SetOf(w) <=> k < q /\ q < n
<1>1. PICK v : v = IdleList(k, n)
  OBVIOUS
<1>2. \A i \in 1 .. n - 1 - k : v[i] = k + i /\ v[i] \in P
  <2>1. ASSUME NEW i \in 1 .. n - 1 - k PROVE v[i] = k + i /\ v[i] \in P
    <3>1. v[i] = k + i /\ k + i \in Int /\ 0 <= k + i /\ k + i < Cardinality(P)
      BY <1>1, Consts DEF IdleList
    <3> QED BY <3>1, Consts
  <2> QED BY <2>1
<1>3. DOMAIN v = 1 .. n - 1 - k /\ v \in [1 .. n - 1 - k -> P] /\ n - 1 - k \in Nat
  BY <1>1, <1>2 DEF IdleList
<1>4. v \in Seq(P)
  BY <1>3
<1>5. w = v
  BY <1>1, <1>4
<1>6. Injective(v)
  BY <1>2, <1>3 DEF Injective
<1>7. ASSUME NEW q \in P PROVE q \in SetOf(v) <=> k < q /\ q < n
  <2>1. q \in Nat
    BY Consts
  <2>2. ASSUME NEW i \in 1 .. n - 1 - k, q = v[i] PROVE k < q /\ q < n
    BY <1>2, <2>2
  <2>3. ASSUME k < q, q < n PROVE q - k \in 1 .. n - 1 - k /\ v[q - k] = q
    BY <1>2, <2>1, <2>3
  <2> QED BY <1>3, <2>2, <2>3 DEF SetOf
<1> QED BY <1>4, <1>5, <1>6, <1>7

(* The record of the thread that has started the world.                    *)
StartedBy(r, w) == [r EXCEPT !.p = 0, !.pc = "start3", !.n = 0, !.todo = w]

(* The thread that has started the world, with the list of processors it   *)
(* must still hand out.                                                    *)
LEMMA StartedByIs ==
    ASSUME NEW r \in MRec, Wf(r), r.pc = "deal", r.nextp = None, NEW k \in Nat, k < Cardinality(P),
           NEW w \in Seq(P \X (M \cup {None})), DOMAIN w = 1 .. k, \A j \in 1 .. k : w[j][1] = k + 1 - j,
           NEW s, s = StartedBy(r, w)
    PROVE  /\ s \in MRec /\ Wf(s) /\ Cont(s) = "start3" /\ s.p = 0 /\ s.nextp = None /\ s.todo = w
           /\ s.lm = r.lm /\ s.pc # "none" /\ SameSpin(r, s)
           /\ \A q \in P : q \in HandsOf(s) <=> 1 <= q /\ q <= k
<1>0. 0 \in P
  BY Consts
<1>1. /\ s \in MRec /\ s.pc = "start3" /\ s.p = 0 /\ s.nextp = r.nextp /\ s.spinning = r.spinning /\ s.lp = r.lp
      /\ s.lm = r.lm /\ s.todo = w /\ s.sp = r.sp /\ s.ret = r.ret /\ s.iret = r.iret /\ s.lg = r.lg
      /\ s.curg = r.curg /\ s.glist = r.glist
  BY <1>0, PlaceNames, ZenonT(60) DEF MRec, StartedBy
<1>2. Cont(s) = "start3" /\ Cont(r) = "deal" /\ LpOf(s) = None /\ ~Starts(s) /\ ~Starts(r) /\ r.lp = None
  BY <1>1 DEF Cont, LpOf, Starts, Calls, Injecting, Handing, Wf, LocalsOf
<1>3. ReturnsOf(s)
  BY <1>1 DEF Wf, ReturnsOf, Handing, Injecting
<1>4. LocalsOf(s)
  <2>1. r.curg # None
    BY <1>2 DEF Wf, LocalsOf, Running, Stopping
  <2>2. s.p # None
    BY <1>0, <1>1, Consts
  <2> QED BY <1>1, <1>2, <2>1, <2>2 DEF LocalsOf, WithP, Stale, Handing, Holding
<1>5. ASSUME NEW q PROVE q \in TodoOf(s) <=> q \in 1 .. k
  <2>1. q \in TodoOf(s) <=> \E j \in 1 .. k : q = k + 1 - j
    <3>1. q \in TodoOf(s) <=> \E j \in DOMAIN w : q = w[j][1]
      BY <1>1 DEF TodoOf
    <3> QED BY <3>1
  <2>2. q \in 1 .. k => k + 1 - q \in 1 .. k /\ q = k + 1 - (k + 1 - q)
    OBVIOUS
  <2> QED BY <2>1, <2>2
<1>6. OnceInHands(s)
  <2>1. \A i, j \in DOMAIN s.todo : s.todo[i][1] = s.todo[j][1] => i = j
    BY <1>1
  <2>2. None \notin 1 .. k
    BY SchedConstants
  <2> QED BY <1>1, <1>2, <1>5, <2>1, <2>2 DEF OnceInHands
<1>7. \A q \in P : q \in HandsOf(s) <=> 1 <= q /\ q <= k
  <2>1. ASSUME NEW q \in P PROVE q \in HandsOf(s) <=> 1 <= q /\ q <= k
    <3>1. q \in Nat /\ q # None
      BY Consts
    <3>2. q \in HandsOf(s) <=> q \in 1 .. k
      BY <1>1, <1>2, <1>5, <3>1, InHands
    <3> QED BY <3>1, <3>2
  <2> QED BY <2>1
<1> QED BY <1>1, <1>2, <1>3, <1>4, <1>6, <1>7 DEF Wf, SameSpin

(* The processors after procresize.                                        *)
LEMMA ResizedIs ==
    ASSUME SchedTypes, NEW m \in M, NEW p \in P
    PROVE  /\ Resized(m, p) \in PRec /\ Resized(m, p).m = (IF p = 0 THEN m ELSE None)
           /\ Resized(m, p).status = IF p = 0 THEN "Prunning"
                                     ELSE IF 1 <= p /\ p < NewCount THEN "Pidle" ELSE "Pdead"
<1>1. PICK h \in PRec : h = ps[p]
  BY DEF SchedTypes
<1>2. p \in Nat /\ NewCount \in Int
  <2>1. sched.newprocs \in 0 .. Cardinality(P) /\ sched.gomaxprocs \in 1 .. Cardinality(P)
    BY DEF SchedTypes, SRec
  <2> QED BY <2>1, Consts DEF NewCount
<1>3. PICK st \in {"Pidle", "Prunning", "Psyscall", "Pgcstop", "Pdead"} :
        st = IF p = 0 THEN "Prunning" ELSE IF 1 <= p /\ p < NewCount THEN "Pidle" ELSE "Pdead"
  OBVIOUS
<1>4. st = CASE p = 0 -> "Prunning" [] p \in 1 .. NewCount - 1 -> "Pidle" [] OTHER -> "Pdead"
  <2>1. p \in 1 .. NewCount - 1 <=> 1 <= p /\ p < NewCount
    BY <1>2
  <2>2. CASE p = 0
    BY <1>2, <1>3, <2>1, <2>2
  <2>3. CASE p # 0 /\ p \in 1 .. NewCount - 1
    BY <1>3, <2>1, <2>3
  <2>4. CASE p # 0 /\ p \notin 1 .. NewCount - 1
    BY <1>3, <2>1, <2>4
  <2> QED BY <2>2, <2>3, <2>4
<1>5. PICK x \in M \cup {None} : x = IF p = 0 THEN m ELSE None
  OBVIOUS
<1>6. Resized(m, p) = [h EXCEPT !.status = st, !.m = x]
  BY <1>1, <1>4, <1>5 DEF Resized
<1>7. [h EXCEPT !.status = st, !.m = x] \in PRec /\ [h EXCEPT !.status = st, !.m = x].m = x
      /\ [h EXCEPT !.status = st, !.m = x].status = st
  BY DEF PRec
<1> QED BY <1>3, <1>5, <1>6, <1>7

(***************************************************************************)
(* starttheworld.                                                          *)
(***************************************************************************)
(* procresize and starttheworld.                                           *)
LEMMA StarttheworldOk ==
    ASSUME SchedOk, thrown = "none", NEW m \in M, Starttheworld(m)
    PROVE  SchedOk'
<1>1. PICK r : r = ms[m]
  OBVIOUS
<1>2. Known(m, r)
  BY <1>1, Thread DEF Known
<1>3. r.pc = "deal"
  BY <1>1 DEF Starttheworld, At
<1>c. Cont(r) = "deal" /\ Cont(r) \in Stopped0 /\ Cont(r) \in Stopping
  BY <1>3 DEF Cont, Calls, Injecting, Handing, Stopped0, Stopping
<1>f. /\ sched.stopwait = 0 /\ ~sched.stopnote /\ sched.pidle = << >>
      /\ \A x \in M : HandsOf(ms[x]) = {} /\ ms[x].nextp = None /\ (Runs(ms[x]) => x = m)
  BY <1>1, <1>c, StoppedIs
<1>n. PICK n \in Nat : n = NewCount /\ n \in 1 .. Cardinality(P)
  <2>1. sched.newprocs \in 0 .. Cardinality(P) /\ sched.gomaxprocs \in 1 .. Cardinality(P)
    BY <1>2 DEF Known, SRec
  <2> QED BY <2>1, Consts DEF NewCount
<1>b. PICK busy : busy = {p \in 1 .. n - 1 : \A i \in 1 .. p : ps[i].runq # << >>}
  OBVIOUS
<1>k. PICK k \in Nat : k = Cardinality(busy) /\ k < n /\ k < Cardinality(P)
  <2>1. busy \subseteq 1 .. n - 1
    BY <1>b
  <2>2. IsFiniteSet(1 .. n - 1) /\ Cardinality(1 .. n - 1) = IF 1 > n - 1 THEN 0 ELSE (n - 1) - 1 + 1
    BY <1>n, FS_Interval
  <2>3. IsFiniteSet(busy) /\ Cardinality(busy) <= Cardinality(1 .. n - 1)
    BY <2>1, <2>2, FS_Subset
  <2>4. Cardinality(busy) \in Nat
    BY <2>3, FS_CardinalityType
  <2>5. Cardinality(busy) < n
    BY <1>n, <2>2, <2>3, <2>4
  <2> QED BY <1>n, <2>4, <2>5, Consts
<1>h. PICK th \in Nat : th = Least(k, Len(sched.midle)) /\ th <= Len(sched.midle)
  <2>1. Len(sched.midle) \in Nat
    BY MidleCreated
  <2> QED BY <2>1 DEF Least
<1>w. PICK w \in Seq(P \X (M \cup {None})) : w = TodoList(k, th) /\ DOMAIN w = 1 .. k
        /\ \A j \in 1 .. k : w[j][1] = k + 1 - j /\ (w[j][2] # None => w[j][2] \in Created)
  BY <1>k, <1>h, TodoListIs
<1>i. PICK t \in Seq(P) : t = IdleList(k, n) \o << >> /\ Injective(t) /\ \A q \in P : q \in SetOf(t) <=> k < q /\ q < n
  BY <1>n, <1>k, IdleListIs
<1>j. PICK u \in Seq(M) : u = SubSeq(sched.midle, th + 1, Len(sched.midle)) /\ u \in Seq(Created)
  <2>1. th + 1 \in 1 .. Len(sched.midle) + 1 /\ Len(sched.midle) \in Nat
    BY <1>h, MidleCreated
  <2>2. SubSeq(sched.midle, th + 1, Len(sched.midle)) \in Seq(M)
        /\ SubSeq(sched.midle, th + 1, Len(sched.midle)) \in Seq(Created)
    BY <2>1, MidleCreated, SubSeqProperties
  <2> QED BY <2>2
<1>4. PICK s : s = StartedBy(r, w)
  OBVIOUS
<1>5. /\ s \in MRec /\ Wf(s) /\ Cont(s) = "start3" /\ s.p = 0 /\ s.nextp = None /\ s.todo = w
      /\ s.lm = r.lm /\ s.pc # "none" /\ SameSpin(r, s)
      /\ \A q \in P : q \in HandsOf(s) <=> 1 <= q /\ q <= k
  <2>1. r.nextp = None /\ \A j \in 1 .. k : w[j][1] = k + 1 - j
    BY <1>1, <1>f, <1>w
  <2>2. r \in MRec /\ Wf(r) /\ DOMAIN w = 1 .. k /\ k < Cardinality(P)
    BY <1>2, <1>k, <1>w DEF Known
  <2> QED BY <1>3, <1>4, <2>1, <2>2, StartedByIs
<1>6. Runs(s) /\ ~Stops(s)
  BY <1>5 DEF Runs, Stops, WithP, Stopping
<1>7. ms' = [ms EXCEPT ![m] = s]
  <2>1. ms' = [ms EXCEPT ![m].p = 0, ![m].pc = "start3", ![m].n = 0, ![m].todo = w]
    BY <1>n, <1>b, <1>k, <1>h, <1>w DEF Starttheworld, TodoList
  <2> QED BY <1>1, <1>2, <1>4, <2>1 DEF StartedBy, Known
<1>8. ms' \in [M -> MRec] /\ ms'[m] = s /\ \A x \in M : x # m => ms'[x] = ms[x]
  BY <1>2, <1>5, <1>7 DEF Known
<1>9. ps' \in [P -> PRec] /\ \A q \in P : /\ ps'[q].m = (IF q = 0 THEN m ELSE None)
                                          /\ ps'[q].status = IF q = 0 THEN "Prunning"
                                               ELSE IF 1 <= q /\ q < n THEN "Pidle" ELSE "Pdead"
  <2>1. ps' = [q \in P |-> Resized(m, q)]
    BY DEF Starttheworld
  <2>2. \A q \in P : /\ Resized(m, q) \in PRec /\ Resized(m, q).m = (IF q = 0 THEN m ELSE None)
                     /\ Resized(m, q).status = IF q = 0 THEN "Prunning"
                                               ELSE IF 1 <= q /\ q < n THEN "Pidle" ELSE "Pdead"
    BY <1>2, <1>n, ResizedIs DEF Known
  <2> QED BY <2>1, <2>2
<1>10. /\ sched' \in SRec /\ sched'.gomaxprocs = n /\ sched'.gcwaiting = FALSE
       /\ sched'.worldsema = sched.worldsema /\ sched'.stopwait = sched.stopwait
       /\ sched'.maxmcount = sched.maxmcount /\ sched'.pidle = t /\ sched'.midle = u
       /\ sched'.stopnote = sched.stopnote /\ sched'.nmspinning = sched.nmspinning
  <2>1. sched' = WakeSysmon([sched EXCEPT !.gomaxprocs = n, !.newprocs = 0, !.gcwaiting = FALSE,
                                          !.pidle = t, !.midle = u])
    BY <1>f, <1>n, <1>b, <1>k, <1>h, <1>i, <1>j DEF Starttheworld, IdleList
  <2>2. PICK c : c = [sched EXCEPT !.gomaxprocs = n, !.newprocs = 0, !.gcwaiting = FALSE,
                                   !.pidle = t, !.midle = u]
    OBVIOUS
  <2>3. 0 \in 0 .. Cardinality(P) /\ n \in 1 .. Cardinality(P)
    BY <1>n, Consts
  <2>4. /\ c \in SRec /\ c.gomaxprocs = n /\ c.gcwaiting = FALSE
        /\ c.worldsema = sched.worldsema /\ c.stopwait = sched.stopwait
        /\ c.maxmcount = sched.maxmcount /\ c.pidle = t /\ c.midle = u
        /\ c.stopnote = sched.stopnote /\ c.nmspinning = sched.nmspinning
    BY <1>2, <2>2, <2>3 DEF Known, SRec
  <2>5. PICK b \in BOOLEAN : b = (c.sysmonnote \/ c.sysmonwait)
    OBVIOUS
  <2>6. sched' = [c EXCEPT !.sysmonnote = b, !.sysmonwait = FALSE]
    BY <2>1, <2>2, <2>5 DEF WakeSysmon
  <2> QED BY <2>4, <2>6 DEF SRec
<1>11. gs' = gs /\ gs' \in [G -> GRec] /\ netready' \subseteq G
  BY <1>2 DEF Starttheworld, Known
<1>12. SchedTypes' /\ PlaceInv'
  BY <1>2, <1>5, <1>8, <1>9, <1>10, <1>11 DEF SchedTypes, PlaceInv, SchedOk
<1>13. CreatedInv'
  <2>1. CreatedInv
    BY DEF SchedOk
  <2>2. \A x \in M : (ms'[x].pc = "none" <=> ms[x].pc = "none") /\ ms'[x].lm = ms[x].lm
       /\ (ms'[x].todo = ms[x].todo \/ ms'[x].todo = w)
    BY <1>1, <1>3, <1>5, <1>8
  <2>3. \A i \in DOMAIN sched'.midle : sched'.midle[i] \in Created
    BY <1>j, <1>10
  <2>4. \A g \in G : gs'[g].lockedm # None => gs'[g].lockedm \in Created
    BY <1>11, <2>1 DEF CreatedInv
  <2>5. \A x \in M : ms'[x].lm # None => ms'[x].lm \in Created /\ ms'[x].lm # x
    BY <2>1, <2>2 DEF CreatedInv
  <2>6. \A x \in M : \A i \in DOMAIN ms'[x].todo : ms'[x].todo[i][2] # None => ms'[x].todo[i][2] \in Created
    <3>1. \A i \in DOMAIN w : w[i][2] # None => w[i][2] \in Created
      BY <1>w
    <3> QED BY <2>1, <2>2, <3>1 DEF CreatedInv
  <2> QED BY <1>10, <2>1, <2>2, <2>3, <2>4, <2>5, <2>6, CreatedKept
<1>14. SpinCount'
  <2>1. \A x \in M : (ms'[x].spinning <=> ms[x].spinning) /\ (Starts(ms'[x]) <=> Starts(ms[x]))
    BY <1>1, <1>5, <1>8 DEF SameSpin
  <2> QED BY <1>10, <2>1, SpinKept DEF SchedOk
<1>p. 0 \in P /\ P \subseteq Nat /\ None \notin M
  BY <1>n, Consts
<1>15. IdleInv'
  <2>1. Injective(sched'.pidle) /\ \A q \in P : q \in SetOf(sched'.pidle) <=> k < q /\ q < n
    BY <1>i, <1>10
  <2>2. \A q \in P : q \in HandsOf(ms'[m]) <=> 1 <= q /\ q <= k
    BY <1>5, <1>8
  <2>3. \A x \in M : x # m => HandsOf(ms'[x]) = {}
    BY <1>f, <1>8
  <2>4. \A x \in M : HandsOf(ms'[x]) \subseteq P
    BY InHands
  <2>5. \A q \in P : ps'[q].status = "Pidle" <=> 1 <= q /\ q < n
    BY <1>9, <1>p
  <2>6. ASSUME NEW q \in P PROVE ps'[q].status = "Pidle" <=> q \in SetOf(sched'.pidle) \/ \E x \in M : q \in HandsOf(ms'[x])
    <3>1. (\E x \in M : q \in HandsOf(ms'[x])) <=> 1 <= q /\ q <= k
      BY <2>2, <2>3
    <3>2. q \in Nat
      BY <1>p
    <3> QED BY <1>k, <2>1, <2>5, <3>1, <3>2
  <2>7. \A x \in M : \A q \in HandsOf(ms'[x]) : q \notin SetOf(sched'.pidle)
    <3>1. ASSUME NEW x \in M, NEW q \in HandsOf(ms'[x]) PROVE q \notin SetOf(sched'.pidle)
      <4>1. x = m /\ q \in P /\ q \in Nat /\ q <= k
        BY <1>p, <2>2, <2>3, <2>4
      <4> QED BY <2>1, <4>1
    <3> QED BY <3>1
  <2>8. \A x, y \in M : x # y => \A q \in HandsOf(ms'[x]) : q \notin HandsOf(ms'[y])
    BY <2>3
  <2> QED BY <2>1, <2>6, <2>7, <2>8 DEF IdleInv, PidleSet, SetOf, Injective
<1>16. RunInv'
  <2>1. Pos' = 0 .. n - 1
    BY <1>10 DEF Pos
  <2>2. \A x \in M : Cont(ms'[x]) \in WithP <=> x = m
    BY <1>f, <1>6, <1>8 DEF Runs
  <2>3. ps'[0].m = m /\ ps'[0].status = "Prunning" /\ ms'[m].p = 0 /\ Cont(ms'[m]) \notin Stopping
    BY <1>5, <1>6, <1>8, <1>9, <1>p DEF Stops
  <2>4. ASSUME NEW q \in P
        PROVE  /\ ps'[q].m # None => ms'[ps'[q].m].p = q /\ Cont(ms'[ps'[q].m]) \in WithP
               /\ ps'[q].status = "Prunning" => ps'[q].m # None
               /\ ps'[q].status = "Pdead" <=> q \notin Pos'
    <3>1. q \in Nat
      BY <1>p
    <3>2. CASE q = 0
      BY <1>n, <1>p, <2>1, <2>2, <2>3, <3>2
    <3>3. CASE q # 0
      <4>1. ps'[q].m = None /\ ps'[q].status = IF 1 <= q /\ q < n THEN "Pidle" ELSE "Pdead"
        BY <1>9, <3>3
      <4>2. q \in Pos' <=> 1 <= q /\ q < n
        BY <2>1, <3>1, <3>3
      <4> QED BY <4>1, <4>2
    <3> QED BY <3>2, <3>3
  <2> QED BY <2>2, <2>3, <2>4 DEF RunInv
<1>17. StopInv'
  <2>1. \A x \in M : Cont(ms'[x]) \notin Stopping
    BY <1>f, <1>6, <1>8, StopsRuns DEF Stops
  <2>2. \A q \in P : ps'[q].status # "Pgcstop"
    BY <1>9
  <2>3. HoldingSema \subseteq Stopping /\ Stopped0 \subseteq Stopping
    BY StopSets
  <2> QED BY <1>f, <1>10, <2>1, <2>2, <2>3 DEF StopInv
<1> QED BY <1>12, <1>13, <1>14, <1>15, <1>16, <1>17 DEF SchedOk

(***************************************************************************)
(* The initial states.                                                     *)
(***************************************************************************)
(***************************************************************************)
(* The invariant.                                                          *)
(***************************************************************************)
(* The threads at the start.                                               *)
LEMMA FirstThreads ==
    ASSUME Init, NEW m \in M
    PROVE  /\ ms \in [M -> MRec] /\ Wf(ms[m]) /\ ~ms[m].spinning /\ ~Starts(ms[m]) /\ ~Stops(ms[m])
           /\ HandsOf(ms[m]) = {} /\ ms[m].lm = None /\ ms[m].todo = << >>
           /\ (Runs(ms[m]) <=> m = M0) /\ (m = M0 => ms[m].p = 0)
           /\ (ms[m].pc # "none" <=> m \in {M0, Sysmon})
<1>1. NoM \in MRec
  <2>1. << >> \in Seq(G) /\ << >> \in Seq(P \X (M \cup {None})) /\ 0 \in Nat
    OBVIOUS
  <2> QED BY <2>1, PlaceNames DEF MRec, NoM
<1>2. Main \in G /\ 0 \in P /\ Main # None /\ 0 # None /\ M0 # Sysmon
  <2>1. PICK pr \in Programs : \E n \in pr.procs : TRUE
    BY DEF Init
  <2>2. DOMAIN pr.menu \subseteq G /\ Main \in DOMAIN pr.menu /\ pr.procs \subseteq 1 .. Cardinality(P)
    BY <2>1, SchedConstants
  <2>3. Main \in G
    BY <2>2
  <2>4. 0 \in P
    BY <2>1, <2>2, Consts
  <2> QED BY <2>3, <2>4, Consts, SchedConstants
<1>3. PICK a, b : a = [NoM EXCEPT !.pc = "user", !.p = 0, !.curg = Main] /\ b = [NoM EXCEPT !.pc = "sysmon"]
  OBVIOUS
<1>4. /\ a \in MRec /\ a.pc = "user" /\ a.p = 0 /\ a.curg = Main /\ a.nextp = None /\ a.lp = None /\ a.todo = << >>
      /\ a.sp = FALSE /\ a.spinning = FALSE /\ a.ret = "none" /\ a.iret = "none" /\ a.lm = None
  BY <1>1, <1>2, <1>3, PlaceNames DEF MRec, NoM
<1>5. /\ b \in MRec /\ b.pc = "sysmon" /\ b.p = None /\ b.nextp = None /\ b.lp = None /\ b.todo = << >>
      /\ b.sp = FALSE /\ b.spinning = FALSE /\ b.ret = "none" /\ b.iret = "none" /\ b.lm = None
  BY <1>1, <1>3, PlaceNames DEF MRec, NoM
<1>6. /\ NoM.pc = "none" /\ NoM.p = None /\ NoM.nextp = None /\ NoM.lp = None /\ NoM.todo = << >>
      /\ NoM.sp = FALSE /\ NoM.spinning = FALSE /\ NoM.ret = "none" /\ NoM.iret = "none" /\ NoM.lm = None
  BY DEF NoM
<1>7. ms = [x \in M |-> CASE x = M0 -> a [] x = Sysmon -> b [] OTHER -> NoM]
  BY <1>3 DEF Init
<1>8. \A x \in M : (x = M0 /\ ms[x] = a) \/ (x = Sysmon /\ x # M0 /\ ms[x] = b) \/ (x \notin {M0, Sysmon} /\ ms[x] = NoM)
  BY <1>2, <1>7
<1>9. ms \in [M -> MRec]
  BY <1>1, <1>4, <1>5, <1>7, <1>8
<1>10. ASSUME NEW r, r.nextp = None, r.lp = None, r.todo = << >>
       PROVE  LpOf(r) = None /\ TodoOf(r) = {} /\ OnceInHands(r) /\ HandsOf(r) = {}
  <2>1. LpOf(r) = None /\ TodoOf(r) = {}
    BY <1>10 DEF LpOf, TodoOf
  <2> QED BY <1>10, <2>1, Consts, InHands DEF OnceInHands
<1>11. Wf(a) /\ Runs(a) /\ ~Stops(a) /\ ~Starts(a) /\ HandsOf(a) = {}
  <2>1. Cont(a) = "user"
    BY <1>4 DEF Cont, Calls, Injecting, Handing
  <2>2. ReturnsOf(a) /\ ~Starts(a)
    BY <1>4 DEF ReturnsOf, Handing, Injecting, Starts
  <2>3. LocalsOf(a) /\ Runs(a) /\ ~Stops(a)
    BY <1>2, <1>4, <2>1 DEF LocalsOf, WithP, Stale, Stopping, Handing, Holding, Running, Runs, Stops
  <2> QED BY <1>4, <1>10, <2>2, <2>3 DEF Wf
<1>12. Wf(b) /\ ~Runs(b) /\ ~Stops(b) /\ ~Starts(b) /\ HandsOf(b) = {}
  <2>1. Cont(b) = "sysmon"
    BY <1>5 DEF Cont, Calls, Injecting, Handing
  <2>2. ReturnsOf(b) /\ ~Starts(b)
    BY <1>5 DEF ReturnsOf, Handing, Injecting, Starts
  <2>3. LocalsOf(b) /\ ~Runs(b) /\ ~Stops(b)
    BY <1>5, <2>1 DEF LocalsOf, WithP, Stale, Stopping, Handing, Holding, Running, Runs, Stops
  <2> QED BY <1>5, <1>10, <2>2, <2>3 DEF Wf
<1>13. Wf(NoM) /\ ~Runs(NoM) /\ ~Stops(NoM) /\ ~Starts(NoM) /\ HandsOf(NoM) = {}
  <2>1. Cont(NoM) = "none"
    BY <1>6 DEF Cont, Calls, Injecting, Handing
  <2>2. ReturnsOf(NoM) /\ ~Starts(NoM)
    BY <1>6 DEF ReturnsOf, Handing, Injecting, Starts
  <2>3. LocalsOf(NoM) /\ ~Runs(NoM) /\ ~Stops(NoM)
    BY <1>6, <2>1 DEF LocalsOf, WithP, Stale, Stopping, Handing, Holding, Running, Runs, Stops
  <2> QED BY <1>6, <1>10, <2>2, <2>3 DEF Wf
<1> QED BY <1>4, <1>5, <1>6, <1>8, <1>9, <1>11, <1>12, <1>13

(* The goroutines and sched at the start.                                  *)
LEMMA FirstRecords ==
    ASSUME NEW pr \in Programs, NEW n \in pr.procs, gs = InitGs(pr),
           ps = [p \in P |-> [status |-> CASE p = 0 -> "Prunning"
                                          [] p \in 1 .. n - 1 -> "Pidle"
                                          [] OTHER -> "Pdead",
                              m |-> IF p = 0 THEN M0 ELSE None, runq |-> << >>]],
           sched = [pidle |-> [i \in 1 .. n - 1 |-> i], midle |-> << >>, runq |-> << >>,
                    nmspinning |-> 0, nmidlelocked |-> 0, gomaxprocs |-> n, newprocs |-> 0,
                    gcwaiting |-> FALSE, stopwait |-> 0, stopnote |-> FALSE, worldsema |-> TRUE,
                    sysmonwait |-> FALSE, sysmonnote |-> FALSE, lastpoll |-> TRUE, helpers |-> 0,
                    maxmcount |-> pr.maxmcount, net |-> pr.net]
    PROVE  /\ gs \in [G -> GRec] /\ \A g \in G : gs[g].lockedm = None
           /\ ps \in [P -> PRec] /\ \A p \in P : /\ ps[p].m = (IF p = 0 THEN M0 ELSE None)
                                                 /\ ps[p].status = IF p = 0 THEN "Prunning"
                                                      ELSE IF 1 <= p /\ p < n THEN "Pidle" ELSE "Pdead"
           /\ sched \in SRec /\ sched.midle = << >> /\ sched.nmspinning = 0 /\ sched.gomaxprocs = n
           /\ ~sched.gcwaiting /\ sched.stopwait = 0 /\ ~sched.stopnote /\ sched.maxmcount \in Nat
           /\ 2 <= sched.maxmcount /\ n \in Nat \ {0}
           /\ Injective(sched.pidle) /\ \A q \in P : q \in SetOf(sched.pidle) <=> 1 <= q /\ q < n
<1>1. /\ DOMAIN pr.menu \subseteq G /\ pr.menu \in [DOMAIN pr.menu -> SUBSET Ops]
      /\ pr.ops \in [DOMAIN pr.menu -> Nat] /\ pr.background \subseteq DOMAIN pr.menu
      /\ pr.procs \subseteq 1 .. Cardinality(P) /\ pr.net \in BOOLEAN /\ pr.maxmcount \in 2 .. Cardinality(M)
  BY SchedConstants
<1>2. n \in Nat \ {0} /\ n \in 1 .. Cardinality(P) /\ n <= Cardinality(P)
  BY <1>1, Consts
<1>3. ASSUME NEW g \in G PROVE gs[g] \in GRec /\ gs[g].lockedm = None
  <2>1. PICK st \in {"Gidle", "Grunnable", "Grunning", "Gsyscall", "Gwaiting", "Gdead"} :
          st = CASE g = Main -> "Grunning" [] g \in DOMAIN pr.menu \ {Main} -> "Gidle" [] OTHER -> "Gdead"
    <3>1. CASE g = Main
      BY <3>1
    <3>2. CASE g # Main /\ g \in DOMAIN pr.menu
      BY <3>2
    <3>3. CASE g # Main /\ g \notin DOMAIN pr.menu
      BY <3>3
    <3> QED BY <3>1, <3>2, <3>3
  <2>2. PICK me \in SUBSET Ops : me = IF g \in DOMAIN pr.menu THEN pr.menu[g] ELSE {}
    BY <1>1
  <2>3. PICK o \in Nat : o = IF g \in DOMAIN pr.ops THEN pr.ops[g] ELSE 0
    BY <1>1
  <2>4. gs[g] = [status |-> st, lockedm |-> None, preempt |-> FALSE, net |-> "no",
                 isbackground |-> g \in pr.background, menu |-> me, ops |-> o]
    BY <2>1, <2>2, <2>3 DEF InitGs
  <2>5. CASE g \in pr.background
    <3>1. gs[g] = [status |-> st, lockedm |-> None, preempt |-> FALSE, net |-> "no",
                   isbackground |-> TRUE, menu |-> me, ops |-> o]
      BY <2>4, <2>5
    <3> QED BY <3>1 DEF GRec
  <2>6. CASE g \notin pr.background
    <3>0. (g \in pr.background) = FALSE
      BY <2>6
    <3>1. gs[g] = [status |-> st, lockedm |-> None, preempt |-> FALSE, net |-> "no",
                   isbackground |-> FALSE, menu |-> me, ops |-> o]
      BY <2>4, <3>0, Zenon
    <3> QED BY <3>1 DEF GRec
  <2> QED BY <2>5, <2>6
<1>4. gs \in [G -> GRec] /\ \A g \in G : gs[g].lockedm = None
  <2>1. gs = [g \in G |-> gs[g]]
    BY DEF InitGs
  <2> QED BY <1>3, <2>1
<1>5. ASSUME NEW p \in P
      PROVE  /\ ps[p] \in PRec /\ ps[p].m = (IF p = 0 THEN M0 ELSE None)
             /\ ps[p].status = IF p = 0 THEN "Prunning" ELSE IF 1 <= p /\ p < n THEN "Pidle" ELSE "Pdead"
  <2>1. PICK st \in {"Pidle", "Prunning", "Psyscall", "Pgcstop", "Pdead"} :
          st = IF p = 0 THEN "Prunning" ELSE IF 1 <= p /\ p < n THEN "Pidle" ELSE "Pdead"
    OBVIOUS
  <2>2. st = CASE p = 0 -> "Prunning" [] p \in 1 .. n - 1 -> "Pidle" [] OTHER -> "Pdead"
    <3>1. p \in Nat /\ (p \in 1 .. n - 1 <=> 1 <= p /\ p < n)
      BY <1>2, Consts
    <3>2. CASE p = 0
      BY <2>1, <3>1, <3>2
    <3>3. CASE p # 0 /\ p \in 1 .. n - 1
      BY <2>1, <3>1, <3>3
    <3>4. CASE p # 0 /\ p \notin 1 .. n - 1
      BY <2>1, <3>1, <3>4
    <3> QED BY <3>2, <3>3, <3>4
  <2>3. PICK x \in M \cup {None} : x = IF p = 0 THEN M0 ELSE None
    BY Consts
  <2>4. ps[p] = [status |-> st, m |-> x, runq |-> << >>] /\ << >> \in Seq(G)
    BY <2>2, <2>3
  <2> QED BY <2>1, <2>3, <2>4 DEF PRec
<1>6. ps \in [P -> PRec]
  BY <1>5
<1>7. PICK l : l = [i \in 1 .. n - 1 |-> i]
  OBVIOUS
<1>8. l \in Seq(P) /\ DOMAIN l = 1 .. n - 1 /\ \A i \in 1 .. n - 1 : l[i] = i
  <2>1. DOMAIN l = 1 .. n - 1 /\ \A i \in 1 .. n - 1 : l[i] = i
    BY <1>7
  <2>2. \A i \in 1 .. n - 1 : i \in P
    BY <1>2, Consts
  <2>3. l \in [1 .. n - 1 -> P] /\ n - 1 \in Nat
    BY <1>2, <1>7, <2>2
  <2> QED BY <2>1, <2>3
<1>9. Injective(l) /\ \A q \in P : q \in SetOf(l) <=> 1 <= q /\ q < n
  <2>1. Injective(l)
    BY <1>8 DEF Injective
  <2>2. SetOf(l) = 1 .. n - 1
    BY <1>8 DEF SetOf
  <2>3. \A q \in P : q \in Nat
    BY Consts
  <2> QED BY <1>2, <2>1, <2>2, <2>3
<1>10. PICK e : e = << >> /\ e \in Seq(M) /\ e \in Seq(G)
  <2>1. << >> \in Seq(M) /\ << >> \in Seq(G)
    OBVIOUS
  <2> QED BY <2>1
<1>11. sched \in SRec /\ sched.pidle = l /\ sched.midle = e
  <2>1. 0 \in 0 .. Cardinality(P) /\ 0 \in Int
    BY Consts
  <2> QED BY <1>1, <1>2, <1>7, <1>8, <1>10, <2>1 DEF SRec
<1>12. sched.maxmcount \in Nat /\ 2 <= sched.maxmcount
  BY <1>1, Consts
<1> QED BY <1>2, <1>4, <1>5, <1>6, <1>9, <1>10, <1>11, <1>12

(* The initial states satisfy the invariant.                               *)
LEMMA InitOk == Init => SchedOk
<1> SUFFICES ASSUME Init PROVE SchedOk
  OBVIOUS
<1>1. /\ ms \in [M -> MRec]
      /\ \A m \in M : /\ Wf(ms[m]) /\ ~ms[m].spinning /\ ~Starts(ms[m]) /\ ~Stops(ms[m])
                      /\ HandsOf(ms[m]) = {} /\ ms[m].lm = None /\ ms[m].todo = << >>
                      /\ (Runs(ms[m]) <=> m = M0) /\ (m = M0 => ms[m].p = 0)
                      /\ (ms[m].pc # "none" <=> m \in {M0, Sysmon})
  BY FirstThreads, Consts
<1>2. PICK n : /\ gs \in [G -> GRec] /\ \A g \in G : gs[g].lockedm = None
               /\ ps \in [P -> PRec] /\ \A p \in P : /\ ps[p].m = (IF p = 0 THEN M0 ELSE None)
                                                     /\ ps[p].status = IF p = 0 THEN "Prunning"
                                                          ELSE IF 1 <= p /\ p < n THEN "Pidle" ELSE "Pdead"
               /\ sched \in SRec /\ sched.midle = << >> /\ sched.nmspinning = 0 /\ sched.gomaxprocs = n
               /\ ~sched.gcwaiting /\ sched.stopwait = 0 /\ ~sched.stopnote /\ sched.maxmcount \in Nat
               /\ 2 <= sched.maxmcount /\ n \in Nat \ {0}
               /\ Injective(sched.pidle) /\ \A q \in P : q \in SetOf(sched.pidle) <=> 1 <= q /\ q < n
  BY FirstRecords, Zenon DEF Init
<1>3. SchedTypes /\ PlaceInv
  BY <1>1, <1>2 DEF SchedTypes, PlaceInv, Init
<1>4. CreatedInv
  <2>1. Created = {M0, Sysmon}
    BY <1>1, SchedConstants DEF Created
  <2>2. Cardinality({M0, Sysmon}) = 2
    <3>1. IsFiniteSet({M0}) /\ Cardinality({M0}) = 1
      BY FS_Singleton
    <3>2. {M0, Sysmon} = {M0} \cup {Sysmon} /\ Sysmon \notin {M0}
      BY SchedConstants
    <3>3. Cardinality({M0} \cup {Sysmon}) = 1 + 1
      BY <3>1, <3>2, FS_AddElement
    <3> QED BY <3>2, <3>3
  <2>3. DOMAIN sched.midle = {}
    BY <1>2
  <2>4. \A m \in M : DOMAIN ms[m].todo = {}
    BY <1>1
  <2>5. Cardinality(Created) <= sched.maxmcount
    BY <1>2, <2>1, <2>2
  <2>6. \A i \in DOMAIN sched.midle : sched.midle[i] \in Created
    BY <2>3
  <2>7. \A g \in G : gs[g].lockedm # None => gs[g].lockedm \in Created
    BY <1>2
  <2>8. \A m \in M : /\ ms[m].lm # None => ms[m].lm \in Created /\ ms[m].lm # m
                     /\ \A i \in DOMAIN ms[m].todo :
                          ms[m].todo[i][2] # None => ms[m].todo[i][2] \in Created
    BY <1>1, <2>4
  <2> QED BY <2>5, <2>6, <2>7, <2>8 DEF CreatedInv
<1>5. SpinCount
  <2>1. {m \in M : ms[m].spinning} = {}
    BY <1>1
  <2>2. {m \in M : ms[m].sp /\ ms[m].pc \in {"startm", "unspin", "newm"}} = {}
    BY <1>1 DEF Starts
  <2>3. Cardinality({m \in M : ms[m].spinning}) = 0
    BY <2>1, FS_EmptySet
  <2>4. Cardinality({m \in M : ms[m].sp /\ ms[m].pc \in {"startm", "unspin", "newm"}}) = 0
    BY <2>2, FS_EmptySet
  <2> QED BY <1>2, <2>3, <2>4 DEF SpinCount
<1>6. 0 \in P /\ P \subseteq Nat /\ None \notin M
  <2>1. n \in 1 .. Cardinality(P)
    BY <1>2 DEF SRec
  <2> QED BY <2>1, Consts
<1>7. RunInv
  <2>1. Pos = 0 .. n - 1
    BY <1>2 DEF Pos
  <2>2. \A m \in M : Cont(ms[m]) \in WithP => /\ ps[ms[m].p].m = m
         /\ ps[ms[m].p].status = IF Cont(ms[m]) \in Stopping THEN "Pgcstop" ELSE "Prunning"
    BY <1>1, <1>2, <1>6 DEF Runs, Stops
  <2>3. ASSUME NEW p \in P
        PROVE  /\ ps[p].m # None => ms[ps[p].m].p = p /\ Cont(ms[ps[p].m]) \in WithP
               /\ ps[p].status = "Prunning" => ps[p].m # None
               /\ ps[p].status = "Pdead" <=> p \notin Pos
    <3>1. CASE p = 0
      BY <1>1, <1>2, <1>6, <2>1, <3>1, Consts DEF Runs
    <3>2. CASE p # 0
      <4>1. ps[p].m = None /\ ps[p].status = IF 1 <= p /\ p < n THEN "Pidle" ELSE "Pdead"
        BY <1>2, <3>2
      <4>2. p \in Pos <=> 1 <= p /\ p < n
        BY <1>2, <1>6, <2>1, <3>2
      <4> QED BY <4>1, <4>2
    <3> QED BY <3>1, <3>2
  <2> QED BY <2>2, <2>3 DEF RunInv
<1>8. IdleInv
  <2>1. \A p \in P : ps[p].status = "Pidle" <=> 1 <= p /\ p < n
    BY <1>2, <1>6
  <2> QED BY <1>1, <1>2, <2>1, IdleIs
<1>9. StopInv
  <2>1. \A m \in M : Cont(ms[m]) \notin Stopping /\ Cont(ms[m]) \notin HoldingSema /\ Cont(ms[m]) \notin Stopped0
    BY <1>1, StopSets DEF Stops
  <2>2. \A p \in P : ps[p].status # "Pgcstop"
    BY <1>2
  <2> QED BY <1>2, <2>1, <2>2 DEF StopInv
<1> QED BY <1>3, <1>4, <1>5, <1>7, <1>8, <1>9 DEF SchedOk

(***************************************************************************)
(* The theorems.                                                           *)
(***************************************************************************)
(* What the program does on a thread keeps the invariant.                   *)
LEMMA OperationKeeps ==
    ASSUME SchedOk, thrown = "none", thrown' = "none", NEW m \in M, Operation(m)
    PROVE  SchedOk'
<1>1. CASE Ready(m)
  BY <1>1, ReadyOk
<1>2. CASE Newproc1(m)
  BY <1>2, Newproc1Ok
<1>3. CASE Park(m)
  BY <1>3, ParkOk
<1>4. CASE Gosched0(m)
  BY <1>4, Gosched0Ok
<1>5. CASE Goexit0(m)
  BY <1>5, Goexit0Ok
<1>6. CASE Exit(m)
  BY <1>6, ExitOk
<1>7. CASE LockOSThread(m)
  BY <1>7, LockOSThreadOk
<1>8. CASE UnlockOSThread(m)
  BY <1>8, UnlockOSThreadOk
<1>9. CASE EnterSyscall(m)
  BY <1>9, EnterSyscallOk
<1>10. CASE EnterSyscallBlock(m)
  BY <1>10, EnterSyscallBlockOk
<1>11. CASE Stoptheworld(m)
  BY <1>11, StoptheworldOk
<1> QED BY <1>1, <1>2, <1>3, <1>4, <1>5, <1>6, <1>7, <1>8, <1>9, <1>10, <1>11, Zenon DEF
  Operation

(* What the runtime does on a thread keeps the invariant.                   *)
LEMMA RuntimeKeeps ==
    ASSUME SchedOk, thrown = "none", thrown' = "none", NEW m \in M, Runtime(m)
    PROVE  SchedOk'
<1>1. CASE WakeCheck(m)
  BY <1>1, WakeCheckOk
<1>2. CASE Wakep(m)
  BY <1>2, WakepOk
<1>3. CASE Startm(m)
  BY <1>3, StartmOk
<1>4. CASE Unspin(m)
  BY <1>4, UnspinOk
<1>5. CASE Newm(m)
  BY <1>5, NewmOk
<1>6. CASE Mstart(m)
  BY <1>6, MstartOk
<1>7. CASE Stopm(m)
  BY <1>7, StopmOk
<1>8. CASE Unpark(m)
  BY <1>8, UnparkOk
<1>9. CASE Gchelper(m)
  BY <1>9, GchelperOk
<1>10. CASE Gcstopm(m)
  BY <1>10, GcstopmOk
<1>11. CASE PickGlobal(m)
  BY <1>11, PickGlobalOk
<1>12. CASE PickLocal(m)
  BY <1>12, PickLocalOk
<1>13. CASE FindLocal(m)
  BY <1>13, FindLocalOk
<1>14. CASE FindGlobal(m)
  BY <1>14, FindGlobalOk
<1>15. CASE FindNet(m)
  BY <1>15, FindNetOk
<1>16. CASE NetGot(m)
  BY <1>16, NetGotOk
<1>17. CASE FindSpin(m)
  BY <1>17, FindSpinOk
<1>18. CASE FindSteal(m)
  BY <1>18, FindStealOk
<1>19. CASE StealFail(m)
  BY <1>19, StealFailOk
<1>20. CASE FindStop(m)
  BY <1>20, FindStopOk
<1>21. CASE FindQuit(m)
  BY <1>21, FindQuitOk
<1>22. CASE FindRecheck(m)
  BY <1>22, FindRecheckOk
<1>23. CASE FindAgain(m)
  BY <1>23, FindAgainOk
<1>24. CASE FindPoll(m)
  BY <1>24, FindPollOk
<1>25. CASE PollReturn(m)
  BY <1>25, PollReturnOk
<1>26. CASE PollGot(m)
  BY <1>26, PollGotOk
<1>27. CASE Injectglist(m)
  BY <1>27, InjectglistOk
<1>28. CASE InjectLoop(m)
  BY <1>28, InjectLoopOk
<1>29. CASE ResetSpinning(m)
  BY <1>29, ResetSpinningOk
<1>30. CASE Execute(m)
  BY <1>30, ExecuteOk
<1>31. CASE StartLockedm(m)
  BY <1>31, StartLockedmOk
<1>32. CASE GiveP(m)
  BY <1>32, GivePOk
<1>33. CASE HandoffWork(m)
  BY <1>33, HandoffWorkOk
<1>34. CASE HandoffSpin(m)
  BY <1>34, HandoffSpinOk
<1>35. CASE HandoffCas(m)
  BY <1>35, HandoffCasOk
<1>36. CASE HandoffIdle(m)
  BY <1>36, HandoffIdleOk
<1>37. CASE StopLockedm(m)
  BY <1>37, StopLockedmOk
<1>38. CASE StopLockedSleep(m)
  BY <1>38, StopLockedSleepOk
<1>39. CASE StopLockedWake(m)
  BY <1>39, StopLockedWakeOk
<1>40. CASE EnterPsyscall(m)
  BY <1>40, EnterPsyscallOk
<1>41. CASE EnterGcstop(m)
  BY <1>41, EnterGcstopOk
<1>42. CASE EnterBackground(m)
  BY <1>42, EnterBackgroundOk
<1>43. CASE ExitSyscall(m)
  BY <1>43, ExitSyscallOk
<1>44. CASE ExitStopwait(m)
  BY <1>44, ExitStopwaitOk
<1>45. CASE ExitSameP(m)
  BY <1>45, ExitSamePOk
<1>46. CASE ExitIdleP(m)
  BY <1>46, ExitIdlePOk
<1>47. CASE ExitSyscall0(m)
  BY <1>47, ExitSyscall0Ok
<1>48. CASE StopSyscallP(m)
  BY <1>48, StopSyscallPOk
<1>49. CASE StopIdlePs(m)
  BY <1>49, StopIdlePsOk
<1>50. CASE StopWake(m)
  BY <1>50, StopWakeOk
<1>51. CASE StopCheck(m)
  BY <1>51, StopCheckOk
<1>52. CASE Helpgc(m)
  BY <1>52, HelpgcOk
<1>53. CASE GcDone(m)
  BY <1>53, GcDoneOk
<1>54. CASE SetProcs(m)
  BY <1>54, SetProcsOk
<1>55. CASE StartPoll(m)
  BY <1>55, StartPollOk
<1>56. CASE NeedAddGcProc(m)
  BY <1>56, NeedAddGcProcOk
<1>57. CASE Collect(m)
  BY <1>57, CollectOk
<1>58. CASE Deal(m)
  BY <1>58, DealOk
<1>59. CASE Starttheworld(m)
  BY <1>59, StarttheworldOk
<1>60. CASE StartP(m)
  BY <1>60, StartPOk
<1>61. CASE StartDone(m)
  BY <1>61, StartDoneOk
<1>62. CASE SysmonWake(m)
  BY <1>62, SysmonWakeOk
<1>63. CASE SysmonCounts(m)
  BY <1>63, SysmonCountsOk
<1>64. CASE SysmonDone(m)
  BY <1>64, SysmonDoneOk
<1>65. CASE RetakeCas(m)
  BY <1>65, RetakeCasOk
<1> QED BY <1>1, <1>2, <1>3, <1>4, <1>5, <1>6, <1>7, <1>8, <1>9, <1>10, <1>11, <1>12,
  <1>13, <1>14, <1>15, <1>16, <1>17, <1>18, <1>19, <1>20, <1>21, <1>22, <1>23, <1>24, <1>25,
  <1>26, <1>27, <1>28, <1>29, <1>30, <1>31, <1>32, <1>33, <1>34, <1>35, <1>36, <1>37, <1>38,
  <1>39, <1>40, <1>41, <1>42, <1>43, <1>44, <1>45, <1>46, <1>47, <1>48, <1>49, <1>50, <1>51,
  <1>52, <1>53, <1>54, <1>55, <1>56, <1>57, <1>58, <1>59, <1>60, <1>61, <1>62, <1>63, <1>64,
  <1>65, Zenon DEF Runtime

(* What time lets happen on a thread keeps the invariant.                   *)
LEMMA TimerKeeps ==
    ASSUME SchedOk, thrown = "none", thrown' = "none", NEW m \in M, Timer(m)
    PROVE  SchedOk'
<1>1. CASE StopRetry(m)
  BY <1>1, StopRetryOk
<1>2. CASE SysmonSleep(m)
  BY <1>2, SysmonSleepOk
<1>3. CASE SysmonPoll(m)
  BY <1>3, SysmonPollOk
<1>4. CASE Retake(m)
  BY <1>4, RetakeOk
<1>5. CASE Preemptone(m)
  BY <1>5, PreemptoneOk
<1> QED BY <1>1, <1>2, <1>3, <1>4, <1>5, Zenon DEF Timer

(* Every step keeps the invariant, unless it ends the program.             *)
LEMMA StepOk == SchedIInv /\ [Next]_vars => SchedIInv'
<1> SUFFICES ASSUME SchedIInv, [Next]_vars, thrown' = "none" PROVE SchedOk'
  BY DEF SchedIInv
<1>1. CASE UNCHANGED vars
  <2>1. SchedOk /\ gs' = gs /\ ms' = ms /\ ps' = ps /\ sched' = sched /\ netready' = netready /\ thrown' = thrown
    BY <1>1 DEF SchedIInv, vars
  <2>2. PsSame /\ SchedSame /\ GsSame /\ netready' \subseteq G
    BY <2>1, Unchanged DEF SchedOk
  <2>3. thrown = "none"
    BY <2>1
  <2> QED BY <2>1, <2>2, <2>3, StillStep
<1>2. CASE Ended
  BY <1>1, <1>2 DEF Ended
<1>3. CASE thrown = "none" /\ \E m \in M : Operation(m) \/ Runtime(m) \/ Timer(m)
  BY <1>3, OperationKeeps, RuntimeKeeps, TimerKeeps DEF SchedIInv
<1>4. CASE thrown = "none" /\ \E g \in G : NetReady(g)
  BY <1>4, NetReadyOk DEF SchedIInv
<1> QED BY <1>1, <1>2, <1>3, <1>4, Zenon DEF Next

(* The inductive invariant holds until the program ends.                   *)
THEOREM SchedInvariant == Spec => []SchedIInv
<1>1. Init => SchedIInv
  BY InitOk DEF SchedIInv
<1> QED BY <1>1, StepOk, PTL DEF Spec

(* sched.nmspinning is the number of the threads that spin and of those    *)
(* that start one which will: no decrement is lost and none is done twice, *)
(* whichever way a thread stops spinning.                                  *)
THEOREM SpinningIsCounted == Spec => []SpinCount
<1>1. SchedIInv => SpinCount
  BY DEF SchedIInv, SchedOk, SpinCount
<1> QED BY <1>1, SchedInvariant, PTL

(* Who uses a processor, one kind of user at a time.                       *)
LEMMA UsersIs ==
    ASSUME NEW p
    PROVE  \A u : u \in Users(p) <=>
             \/ \E x \in M : u = <<"m", x>> /\ ms[x].p = p /\ ps[p].m = x
             \/ \E x \in M : u = <<"nextp", x>> /\ ms[x].nextp = p
             \/ \E x \in M : u = <<"lp", x>> /\ ms[x].lp = p /\ ms[x].pc \notin {"smsub", "retake"}
             \/ \E x \in M : u = <<"todo", x>> /\ p \in TodoOf(ms[x])
             \/ \E j \in DOMAIN sched.pidle : u = <<"pidle", j>> /\ sched.pidle[j] = p
BY DEF Users, TodoOf

(* A processor that a thread uses has no other user.                       *)
LEMMA RunningUser ==
    ASSUME SchedOk, NEW p \in P, ps[p].m # None
    PROVE  \E u : Users(p) = {u}
<1>1. PICK x \in M : x = ps[p].m
  BY DEF SchedOk, SchedTypes, PRec
<1>2. ms[x].p = p /\ ps[p].status # "Pidle"
  <2>1. ms[x].p = p /\ Cont(ms[x]) \in WithP
    BY <1>1 DEF SchedOk, RunInv
  <2> QED BY <2>1 DEF SchedOk, RunInv
<1>3. /\ \A y \in M : p \notin HandsOf(ms[y])
      /\ p \notin SetOf(sched.pidle)
  BY <1>2, IdleIs DEF SchedOk
<1>4. p # None
  BY Consts
<1>5. \A y \in M : /\ ms[y].nextp # p /\ p \notin TodoOf(ms[y])
                   /\ ms[y].pc \notin {"smsub", "retake"} => ms[y].lp # p
  BY <1>3, InHands DEF LpOf
<1>6. \A j \in DOMAIN sched.pidle : sched.pidle[j] # p
  BY <1>3 DEF SetOf
<1>7. \A u : u \in Users(p) <=> u = <<"m", x>>
  BY <1>1, <1>2, <1>5, <1>6, UsersIs
<1>8. Users(p) = {<<"m", x>>}
  BY <1>7
<1> QED BY <1>8, Zenon

(* Nor has one that is on the list of idle ones.                           *)
LEMMA ListedUser ==
    ASSUME SchedOk, NEW p \in P, p \in SetOf(sched.pidle)
    PROVE  \E u : Users(p) = {u}
<1>1. PICK i \in DOMAIN sched.pidle : sched.pidle[i] = p
  BY DEF SetOf
<1>2. \A j \in DOMAIN sched.pidle : sched.pidle[j] = p <=> j = i
  BY <1>1, IdleIs DEF SchedOk, Injective
<1>3. ps[p].m = None
  BY ListIdle
<1>4. \A y \in M : p \notin HandsOf(ms[y])
  BY IdleIs DEF SchedOk
<1>5. \A y \in M : /\ ms[y].nextp # p /\ p \notin TodoOf(ms[y])
                   /\ ms[y].pc \notin {"smsub", "retake"} => ms[y].lp # p
  BY <1>4, InHands DEF LpOf
<1>6. \A x \in M : ps[p].m # x
  BY <1>3, Consts
<1>7. \A u : u \in Users(p) <=> u = <<"pidle", i>>
  BY <1>2, <1>5, <1>6, UsersIs
<1>8. Users(p) = {<<"pidle", i>>}
  BY <1>7
<1> QED BY <1>8, Zenon

(* Nor has one in the hands of a thread.                                   *)
LEMMA HandedUser ==
    ASSUME SchedOk, NEW p \in P, NEW y \in M, p \in HandsOf(ms[y])
    PROVE  \E u : Users(p) = {u}
<1>1. ps[p].m = None /\ p \notin SetOf(sched.pidle) /\ \A x \in M : x # y => p \notin HandsOf(ms[x])
  BY HandIdle
<1>2. \A x \in M : ps[p].m # x
  BY <1>1, Consts
<1>3. \A j \in DOMAIN sched.pidle : sched.pidle[j] # p
  BY <1>1 DEF SetOf
<1>4. \A x \in M : x # y => /\ ms[x].nextp # p /\ p \notin TodoOf(ms[x])
                            /\ ms[x].pc \notin {"smsub", "retake"} => ms[x].lp # p
  BY <1>1, InHands DEF LpOf
<1>5. PICK r : r = ms[y]
  OBVIOUS
<1>6. OnceInHands(r)
  BY <1>5 DEF SchedOk, PlaceInv, Wf
<1>7. p # None
  BY Consts
<1>8. (LpOf(r) = p) <=> (r.lp = p /\ r.pc \notin {"smsub", "retake"})
  BY <1>7 DEF LpOf
<1>9. \A u : u \in Users(p) <=> \/ u = <<"nextp", y>> /\ r.nextp = p
                                \/ u = <<"lp", y>> /\ LpOf(r) = p
                                \/ u = <<"todo", y>> /\ p \in TodoOf(r)
  BY <1>2, <1>3, <1>4, <1>5, <1>8, UsersIs
<1>10. CASE r.nextp = p
  <2>1. LpOf(r) # p /\ p \notin TodoOf(r)
    BY <1>6, <1>7, <1>10 DEF OnceInHands
  <2>2. \A u : u \in Users(p) <=> u = <<"nextp", y>>
    BY <1>9, <1>10, <2>1
  <2>3. Users(p) = {<<"nextp", y>>}
    BY <2>2
  <2> QED BY <2>3, Zenon
<1>11. CASE r.nextp # p /\ LpOf(r) = p
  <2>1. p \notin TodoOf(r)
    BY <1>6, <1>11 DEF OnceInHands
  <2>2. \A u : u \in Users(p) <=> u = <<"lp", y>>
    BY <1>9, <1>11, <2>1
  <2>3. Users(p) = {<<"lp", y>>}
    BY <2>2
  <2> QED BY <2>3, Zenon
<1>12. CASE r.nextp # p /\ LpOf(r) # p
  <2>1. p \in TodoOf(r)
    BY <1>5, <1>12, InHands
  <2>2. \A u : u \in Users(p) <=> u = <<"todo", y>>
    BY <1>9, <1>12, <2>1
  <2>3. Users(p) = {<<"todo", y>>}
    BY <2>2
  <2> QED BY <2>3, Zenon
<1> QED BY <1>10, <1>11, <1>12

(* And the others have none.                                               *)
LEMMA UnusedP ==
    ASSUME SchedOk, NEW p \in P, ps[p].m = None, ps[p].status # "Pidle"
    PROVE  Users(p) = {}
<1>1. /\ \A y \in M : p \notin HandsOf(ms[y])
      /\ p \notin SetOf(sched.pidle)
  BY IdleIs DEF SchedOk
<1>2. \A y \in M : /\ ms[y].nextp # p /\ p \notin TodoOf(ms[y])
                   /\ ms[y].pc \notin {"smsub", "retake"} => ms[y].lp # p
  BY <1>1, InHands DEF LpOf
<1>3. \A j \in DOMAIN sched.pidle : sched.pidle[j] # p
  BY <1>1 DEF SetOf
<1>4. \A x \in M : ps[p].m # x
  BY Consts
<1>5. \A u : u \notin Users(p)
  BY <1>2, <1>3, <1>4, UsersIs
<1> QED BY <1>5

(* A processor that runs or is idle is in exactly one place: with the      *)
(* thread that has it, with one that it has been handed to, with one that  *)
(* looks for a user for it, or on sched.pidle. One that is stopped, dead   *)
(* or left behind in a system call is in none, unless a thread has it.     *)
THEOREM ProcessorsHaveOneUser == Spec => []OneUser
<1>1. SchedIInv => OneUser
  <2> SUFFICES ASSUME SchedOk, NEW p \in P
               PROVE  Cardinality(Users(p)) =
                        IF ps[p].status \in {"Prunning", "Pidle"} \/ ps[p].m # None THEN 1 ELSE 0
    BY DEF SchedIInv, OneUser
  <2>1. ps[p].status = "Prunning" => ps[p].m # None
    BY DEF SchedOk, RunInv
  <2>2. CASE ps[p].status \in {"Prunning", "Pidle"} \/ ps[p].m # None
    <3>1. \E u : Users(p) = {u}
      <4>1. CASE ps[p].m # None
        BY <4>1, RunningUser
      <4>2. CASE ps[p].m = None
        <5>1. p \in SetOf(sched.pidle) \/ \E m \in M : p \in HandsOf(ms[m])
          BY <2>1, <2>2, <4>2, IdleIs DEF SchedOk
        <5> QED BY <5>1, ListedUser, HandedUser
      <4> QED BY <4>1, <4>2
    <3>2. Cardinality(Users(p)) = 1
      BY <3>1, FS_Singleton
    <3> QED BY <2>2, <3>2
  <2>3. CASE ~(ps[p].status \in {"Prunning", "Pidle"} \/ ps[p].m # None)
    <3>1. Users(p) = {}
      BY <2>3, UnusedP
    <3>2. Cardinality(Users(p)) = 0
      BY <3>1, FS_EmptySet
    <3> QED BY <2>3, <3>2
  <2> QED BY <2>2, <2>3
<1> QED BY <1>1, SchedInvariant, PTL

(* While a thread collects garbage or changes the number of processors no  *)
(* processor is idle, each is stopped, no thread holds one for later and   *)
(* no other thread runs a goroutine: stoptheworld has waited for them all. *)
THEOREM WorldIsStopped == Spec => [](thrown = "none" => WorldStopped)
<1>1. SchedIInv => (thrown = "none" => WorldStopped)
  <2> SUFFICES ASSUME SchedOk, NEW m \in M, InStoppedWorld(m)
               PROVE  /\ sched.pidle = << >> /\ \A p \in Pos : ps[p].status = "Pgcstop"
                      /\ \A x \in M \ {m} : ms[x].nextp = None /\ ms[x].pc # "user"
    BY DEF SchedIInv, WorldStopped
  <2>1. PICK r : r = ms[m]
    OBVIOUS
  <2>2. ReturnsOf(r)
    BY <2>1 DEF SchedOk, PlaceInv, Wf
  <2>3. Cont(r) \in Stopped0
    <3>1. CASE r.pc \in {"gc", "gcwait", "procs", "start0", "start1", "start2", "resize", "deal"}
      BY <3>1 DEF Cont, Calls, Handing, Injecting, Stopped0, Stopping
    <3>2. CASE r.iret = "start1"
      <4>1. r.pc \in Injecting \/ (r.pc \in {"startm", "newm"} /\ r.ret = "injloop")
        BY <2>2, <3>2 DEF ReturnsOf
      <4> QED BY <3>2, <4>1 DEF Cont, Calls, Handing, Injecting, Stopped0, Stopping
    <3> QED BY <2>1, <3>1, <3>2 DEF InStoppedWorld
  <2>4. /\ sched.pidle = << >> /\ \A p \in Pos : ps[p].status = "Pgcstop"
        /\ \A x \in M : ms[x].nextp = None /\ (Runs(ms[x]) => x = m)
    BY <2>1, <2>3, StoppedIs
  <2>5. \A x \in M : ms[x].pc = "user" => Runs(ms[x])
    BY DEF Runs, Cont, Calls, Handing, Injecting, WithP
  <2> QED BY <2>4, <2>5
<1> QED BY <1>1, SchedInvariant, PTL
=============================================================================
