----------------------------- MODULE SchedMoves -----------------------------
(***************************************************************************)
(* SchedIInv of SchedInv across the moves of the scheduler: what keeps     *)
(* each part of it, and one lemma for each action after which nobody has   *)
(* given a processor up. Most of these lemmas describe the record of the   *)
(* thread that moves before and after the step and cite a lemma on that    *)
(* kind of move.                                                           *)
(***************************************************************************)
EXTENDS SchedInv, FiniteSetTheorems, SequenceTheorems, WellFoundedInduction, TLAPS

(***************************************************************************)
(* The parts of the invariant, and when a step keeps each of them.         *)
(***************************************************************************)
(* What the assumptions on the constants say of threads and processors.    *)
LEMMA Consts ==
    /\ M0 \in M /\ NCPU \in Nat /\ IsFiniteSet(M) /\ IsFiniteSet(G) /\ None \notin M /\ None \notin P /\ None \notin G
    /\ IsFiniteSet(P) /\ P \subseteq Nat /\ Cardinality(P) \in Nat /\ Cardinality(M) \in Nat
    /\ \A i \in Int : i \in P <=> 0 <= i /\ i < Cardinality(P)
<1>1. PICK c : c = Cardinality(P)
  OBVIOUS
<1>2. IsFiniteSet(P) /\ M0 \in M /\ NCPU \in Nat /\ IsFiniteSet(M) /\ IsFiniteSet(G) /\ M \subseteq Nat /\ G \subseteq Nat /\ None \notin Nat
  BY SchedConstants
<1>3. P = 0 .. c - 1
  BY <1>1, SchedConstants
<1>4. c \in Nat /\ Cardinality(M) \in Nat
  BY <1>1, <1>2, FS_CardinalityType
<1>5. P \subseteq Nat /\ \A i \in Int : i \in P <=> 0 <= i /\ i < c
  BY <1>3, <1>4
<1> QED BY <1>1, <1>2, <1>4, <1>5

(***************************************************************************)
(* Counting.                                                               *)
(***************************************************************************)
(* A Boolean as a number.                                                  *)
One(b) == IF b THEN 1 ELSE 0

(* Two subsets that differ in m at most.                                   *)
LEMMA CardFlip ==
    ASSUME NEW S, IsFiniteSet(S), NEW m, NEW A \in SUBSET S, NEW B \in SUBSET S,
           \A x \in S : x # m => (x \in A <=> x \in B)
    PROVE  /\ Cardinality(A) \in Nat /\ Cardinality(B) \in Nat
           /\ Cardinality(B) = Cardinality(A) + One(m \in B) - One(m \in A)
<1>1. IsFiniteSet(A) /\ IsFiniteSet(B)
  BY FS_Subset
<1>2. Cardinality(A) \in Nat /\ Cardinality(B) \in Nat
  BY <1>1, FS_CardinalityType
<1>3. /\ Cardinality(A \ {m}) = IF m \in A THEN Cardinality(A) - 1 ELSE Cardinality(A)
      /\ Cardinality(B \ {m}) = IF m \in B THEN Cardinality(B) - 1 ELSE Cardinality(B)
  BY <1>1, FS_RemoveElement
<1>4. A \ {m} = B \ {m}
  OBVIOUS
<1> QED BY <1>2, <1>3, <1>4 DEF One

Spinning == {m \in M : ms[m].spinning}
Starts(r) == r.sp /\ r.pc \in {"startm", "unspin", "newm"}
Starting == {m \in M : Starts(ms[m])}

(* Thread a begins or stops to spin, b is about to start a spinning one or *)
(* no longer so.                                                           *)
LEMMA SpinStep ==
    ASSUME SchedTypes, SpinCount, thrown = "none", NEW a \in M, NEW b \in M,
           sched'.nmspinning = sched.nmspinning
                + One(ms'[a].spinning) - One(ms[a].spinning) + One(Starts(ms'[b])) - One(Starts(ms[b])),
           \A x \in M : x # a => (ms'[x].spinning <=> ms[x].spinning),
           \A x \in M : x # b => (Starts(ms'[x]) <=> Starts(ms[x]))
    PROVE  SpinCount'
<1>0. IsFiniteSet(M) /\ sched.nmspinning \in Int
  BY Consts DEF SchedTypes, SRec
<1>1. sched.nmspinning = Cardinality(Spinning) + Cardinality(Starting)
  BY DEF SpinCount, Spinning, Starting, Starts
<1> DEFINE A == {m \in M : ms'[m].spinning}
           B == {m \in M : Starts(ms'[m])}
<1>2. /\ Cardinality(A) = Cardinality(Spinning) + One(ms'[a].spinning) - One(ms[a].spinning)
      /\ Cardinality(A) \in Nat /\ Cardinality(Spinning) \in Nat
  <2>1. A \in SUBSET M /\ Spinning \in SUBSET M /\ \A x \in M : x # a => (x \in Spinning <=> x \in A)
    BY DEF Spinning
  <2>2. (a \in A <=> ms'[a].spinning) /\ (a \in Spinning <=> ms[a].spinning)
    BY DEF Spinning
  <2> HIDE DEF A
  <2> QED BY <1>0, <2>1, <2>2, CardFlip DEF One
<1>3. /\ Cardinality(B) = Cardinality(Starting) + One(Starts(ms'[b])) - One(Starts(ms[b]))
      /\ Cardinality(B) \in Nat /\ Cardinality(Starting) \in Nat
  <2>1. B \in SUBSET M /\ Starting \in SUBSET M /\ \A x \in M : x # b => (x \in Starting <=> x \in B)
    BY DEF Starting
  <2>2. (b \in B <=> Starts(ms'[b])) /\ (b \in Starting <=> Starts(ms[b]))
    BY DEF Starting
  <2> HIDE DEF B
  <2> QED BY <1>0, <2>1, <2>2, CardFlip DEF One
<1>4. sched'.nmspinning = Cardinality(A) + Cardinality(B)
  <2> HIDE DEF A, B
  <2> QED BY <1>0, <1>1, <1>2, <1>3 DEF One
<1> QED BY <1>4 DEF SpinCount, Starts

(* SpinCount holds on when no thread begins or ceases to spin.             *)
LEMMA SpinKept ==
    ASSUME SchedTypes, SpinCount, thrown = "none", sched'.nmspinning = sched.nmspinning,
           \A x \in M : (ms'[x].spinning <=> ms[x].spinning) /\ (Starts(ms'[x]) <=> Starts(ms[x]))
    PROVE  SpinCount'
<1>1. M0 \in M /\ sched.nmspinning \in Int
  BY Consts DEF SchedTypes, SRec
<1>2. One(ms'[M0].spinning) = One(ms[M0].spinning) /\ One(Starts(ms'[M0])) = One(Starts(ms[M0]))
  BY <1>1 DEF One
<1>3. sched'.nmspinning = sched.nmspinning
                + One(ms'[M0].spinning) - One(ms[M0].spinning) + One(Starts(ms'[M0])) - One(Starts(ms[M0]))
  BY <1>1, <1>2 DEF One
<1> QED BY <1>1, <1>3, SpinStep

(* The threads that exist.                                                 *)
LEMMA CreatedKept ==
    ASSUME CreatedInv, \A x \in M : ms'[x].pc = "none" <=> ms[x].pc = "none",
           sched'.maxmcount = sched.maxmcount,
           \A i \in DOMAIN sched'.midle : sched'.midle[i] \in Created,
           \A g \in G : gs'[g].lockedm # None => gs'[g].lockedm \in Created,
           \A x \in M : ms'[x].lm # None => ms'[x].lm \in Created /\ ms'[x].lm # x,
           \A x \in M : \A i \in DOMAIN ms'[x].todo : ms'[x].todo[i][2] # None => ms'[x].todo[i][2] \in Created
    PROVE  CreatedInv'
<1>1. Created' = Created
  BY DEF Created
<1> QED BY <1>1 DEF CreatedInv

(***************************************************************************)
(* Processors in use.                                                      *)
(***************************************************************************)
Runs(r) == Cont(r) \in WithP
Stops(r) == Cont(r) \in Stopping

(* A thread that stops the world has a processor.                          *)
LEMMA StopsRuns == \A r : Stops(r) => Runs(r)
BY DEF Stops, Runs, WithP

(* RunInv holds on when no thread gains or loses a processor.              *)
LEMMA RunKept ==
    ASSUME SchedTypes, PlaceInv, RunInv, sched'.gomaxprocs = sched.gomaxprocs,
           \A x \in M : /\ (Runs(ms'[x]) <=> Runs(ms[x])) /\ (Stops(ms'[x]) <=> Stops(ms[x]))
                        /\ Runs(ms[x]) => ms'[x].p = ms[x].p,
           \A p \in P : /\ ps'[p].m = ps[p].m /\ (ps[p].m # None => ps'[p].status = ps[p].status)
                        /\ ps'[p].status = "Prunning" => ps[p].status = "Prunning"
                        /\ ps'[p].status = "Pdead" <=> ps[p].status = "Pdead"
    PROVE  RunInv'
<1>1. \A p \in P : ps[p].m \in M \cup {None}
  BY DEF SchedTypes, PRec
<1>2. None \notin M /\ None \notin P
  BY Consts
<1>3. \A x \in M : Runs(ms[x]) => ms[x].p \in P
  BY DEF SchedTypes, MRec, PlaceInv, Wf, LocalsOf, Runs
<1>4. Pos' = Pos
  BY DEF Pos
<1>5. \A x \in M : Runs(ms'[x]) =>
         /\ ps'[ms'[x].p].m = x
         /\ ps'[ms'[x].p].status = IF Stops(ms'[x]) THEN "Pgcstop" ELSE "Prunning"
  BY <1>2, <1>3 DEF RunInv, Runs, Stops
<1>6. \A p \in P : ps'[p].m # None => ms'[ps'[p].m].p = p /\ Runs(ms'[ps'[p].m])
  BY <1>1, <1>2 DEF RunInv, Runs
<1>7. \A p \in P : /\ ps'[p].status = "Prunning" => ps'[p].m # None
                   /\ ps'[p].status = "Pdead" <=> p \notin Pos'
  BY <1>4 DEF RunInv
<1> QED BY <1>5, <1>6, <1>7 DEF RunInv, Runs, Stops

(* Nobody has processor p, and m gets it.                                  *)
LEMMA RunAcquire ==
    ASSUME SchedTypes, PlaceInv, RunInv, sched'.gomaxprocs = sched.gomaxprocs,
           NEW m \in M, NEW p \in P, ~Runs(ms[m]), ps[p].m = None, ps[p].status # "Pdead",
           Runs(ms'[m]), ~Stops(ms'[m]), ms'[m].p = p, ps'[p].m = m, ps'[p].status = "Prunning",
           \A x \in M : x # m => /\ (Runs(ms'[x]) <=> Runs(ms[x])) /\ (Stops(ms'[x]) <=> Stops(ms[x]))
                                 /\ ms'[x].p = ms[x].p,
           \A q \in P : q # p => ps'[q].m = ps[q].m /\ ps'[q].status = ps[q].status
    PROVE  RunInv'
<1>1. \A q \in P : ps[q].m \in M \cup {None}
  BY DEF SchedTypes, PRec
<1>2. None \notin M /\ None \notin P
  BY Consts
<1>3. \A x \in M : Runs(ms[x]) => ms[x].p \in P
  BY DEF SchedTypes, MRec, PlaceInv, Wf, LocalsOf, Runs
<1>4. Pos' = Pos
  BY DEF Pos
<1>5. \A x \in M : x # m /\ Runs(ms[x]) => ms[x].p # p
  BY <1>2, <1>3 DEF RunInv, Runs
<1>6. \A x \in M : Runs(ms'[x]) =>
         /\ ps'[ms'[x].p].m = x
         /\ ps'[ms'[x].p].status = IF Stops(ms'[x]) THEN "Pgcstop" ELSE "Prunning"
  BY <1>2, <1>3, <1>5 DEF RunInv, Runs, Stops
<1>7. \A q \in P : ps'[q].m # None => ms'[ps'[q].m].p = q /\ Runs(ms'[ps'[q].m])
  BY <1>1, <1>2 DEF RunInv, Runs
<1>8. \A q \in P : /\ ps'[q].status = "Prunning" => ps'[q].m # None
                   /\ ps'[q].status = "Pdead" <=> q \notin Pos'
  BY <1>2, <1>4 DEF RunInv
<1> QED BY <1>6, <1>7, <1>8 DEF RunInv, Runs, Stops

(* m gives up its processor p.                                             *)
LEMMA RunRelease ==
    ASSUME SchedTypes, PlaceInv, RunInv, sched'.gomaxprocs = sched.gomaxprocs,
           NEW m \in M, NEW p, p = ms[m].p, Runs(ms[m]), ~Runs(ms'[m]), ps'[p].m = None,
           ps'[p].status \notin {"Prunning", "Pdead"},
           \A x \in M : x # m => /\ (Runs(ms'[x]) <=> Runs(ms[x])) /\ (Stops(ms'[x]) <=> Stops(ms[x]))
                                 /\ ms'[x].p = ms[x].p,
           \A q \in P : q # p => ps'[q].m = ps[q].m /\ ps'[q].status = ps[q].status
    PROVE  RunInv'
<1>1. \A q \in P : ps[q].m \in M \cup {None}
  BY DEF SchedTypes, PRec
<1>2. None \notin M /\ None \notin P
  BY Consts
<1>3. \A x \in M : Runs(ms[x]) => ms[x].p \in P
  BY DEF SchedTypes, MRec, PlaceInv, Wf, LocalsOf, Runs
<1>4. Pos' = Pos
  BY DEF Pos
<1>5. \A x \in M : x # m /\ Runs(ms[x]) => ms[x].p # p
  BY <1>2, <1>3 DEF RunInv, Runs
<1>6. \A x \in M : Runs(ms'[x]) =>
         /\ ps'[ms'[x].p].m = x
         /\ ps'[ms'[x].p].status = IF Stops(ms'[x]) THEN "Pgcstop" ELSE "Prunning"
  BY <1>2, <1>3, <1>5 DEF RunInv, Runs, Stops
<1>7. \A q \in P : ps'[q].m # None => ms'[ps'[q].m].p = q /\ Runs(ms'[ps'[q].m])
  <2>1. \A q \in P : q # p => ps[q].m # m
    BY <1>2 DEF RunInv
  <2> QED BY <1>1, <1>2, <2>1 DEF RunInv, Runs
<1>8. ps[p].status # "Pdead" /\ p \in P
  BY <1>3 DEF RunInv, Runs
<1>9. \A q \in P : /\ ps'[q].status = "Prunning" => ps'[q].m # None
                   /\ ps'[q].status = "Pdead" <=> q \notin Pos'
  BY <1>2, <1>4, <1>8 DEF RunInv
<1> QED BY <1>6, <1>7, <1>9 DEF RunInv, Runs, Stops

(***************************************************************************)
(* Idle processors.                                                        *)
(***************************************************************************)
Injective(s) == \A i, j \in DOMAIN s : s[i] = s[j] => i = j
SetOf(s) == {s[i] : i \in DOMAIN s}

(* IdleInv in terms of Injective and SetOf.                                *)
LEMMA IdleIs ==
    /\ PidleSet = SetOf(sched.pidle)
    /\ IdleInv <=>
       /\ Injective(sched.pidle)
       /\ \A p \in P : ps[p].status = "Pidle" <=> p \in SetOf(sched.pidle) \/ \E m \in M : p \in HandsOf(ms[m])
       /\ \A m \in M : \A p \in HandsOf(ms[m]) : p \notin SetOf(sched.pidle)
       /\ \A m, x \in M : m # x => \A p \in HandsOf(ms[m]) : p \notin HandsOf(ms[x])
BY DEF IdleInv, PidleSet, Injective, SetOf

(* IdleInv holds on when no processor becomes idle or ceases to be.        *)
LEMMA IdleKept ==
    ASSUME IdleInv, sched'.pidle = sched.pidle,
           \A x \in M : HandsOf(ms'[x]) = HandsOf(ms[x]),
           \A p \in P : ps'[p].status = "Pidle" <=> ps[p].status = "Pidle"
    PROVE  IdleInv'
<1>1. PidleSet' = PidleSet
  BY DEF PidleSet
<1> QED BY <1>1 DEF IdleInv

(* Only processor p goes from one to another.  It is nobody's afterwards,  *)
(* and not idle, or it is idle and on the list only, or in y's hands only. *)
LEMMA IdleStep ==
    ASSUME IdleInv, NEW p \in P, Injective(sched'.pidle),
           \A q \in P : q # p =>
             /\ q \in SetOf(sched'.pidle) <=> q \in SetOf(sched.pidle)
             /\ ps'[q].status = "Pidle" <=> ps[q].status = "Pidle"
             /\ \A x \in M : q \in HandsOf(ms'[x]) <=> q \in HandsOf(ms[x]),
           \/ /\ ps'[p].status # "Pidle" /\ p \notin SetOf(sched'.pidle)
              /\ \A x \in M : p \notin HandsOf(ms'[x])
           \/ /\ ps'[p].status = "Pidle" /\ p \in SetOf(sched'.pidle)
              /\ \A x \in M : p \notin HandsOf(ms'[x])
           \/ /\ ps'[p].status = "Pidle" /\ p \notin SetOf(sched'.pidle)
              /\ \E y \in M : p \in HandsOf(ms'[y]) /\ \A x \in M : x # y => p \notin HandsOf(ms'[x])
    PROVE  IdleInv'
<1>0. \A r : HandsOf(r) \subseteq P
  BY DEF HandsOf
<1>1. \A q \in P : ps'[q].status = "Pidle" <=> q \in SetOf(sched'.pidle) \/ \E m \in M : q \in HandsOf(ms'[m])
  BY IdleIs
<1>2. \A m \in M : \A q \in HandsOf(ms'[m]) : q \notin SetOf(sched'.pidle)
  BY <1>0, IdleIs
<1>3. \A m, x \in M : m # x => \A q \in HandsOf(ms'[m]) : q \notin HandsOf(ms'[x])
  BY <1>0, IdleIs
<1> QED BY <1>1, <1>2, <1>3 DEF IdleInv, PidleSet, Injective, SetOf

(* Taking the first off the list, and putting one on it.                   *)
LEMMA PidleTail ==
    ASSUME NEW s \in Seq(P), s # << >>, Injective(s)
    PROVE  /\ Head(s) \in P /\ Head(s) \in SetOf(s) /\ Injective(Tail(s)) /\ Tail(s) \in Seq(P)
           /\ \A q : q \in SetOf(Tail(s)) <=> q \in SetOf(s) /\ q # Head(s)
<1>1. /\ Tail(s) \in Seq(P) /\ Len(Tail(s)) = Len(s) - 1 /\ Head(s) = s[1] /\ Len(s) \in Nat \ {0}
      /\ \A i \in 1 .. Len(s) - 1 : Tail(s)[i] = s[i + 1]
  OBVIOUS
<1>2. DOMAIN s = 1 .. Len(s) /\ DOMAIN Tail(s) = 1 .. Len(s) - 1
  BY <1>1
<1>3. Head(s) \in P /\ Head(s) \in SetOf(s)
  BY <1>1, <1>2 DEF SetOf
<1>4. Injective(Tail(s))
  BY <1>1, <1>2 DEF Injective
<1>5. ASSUME NEW q, q \in SetOf(Tail(s)) PROVE q \in SetOf(s) /\ q # Head(s)
  <2>1. PICK i \in 1 .. Len(s) - 1 : q = s[i + 1]
    BY <1>1, <1>2, <1>5 DEF SetOf
  <2> QED BY <1>1, <1>2, <2>1 DEF SetOf, Injective
<1>6. ASSUME NEW q, q \in SetOf(s), q # Head(s) PROVE q \in SetOf(Tail(s))
  <2>1. PICK i \in 1 .. Len(s) : q = s[i]
    BY <1>1, <1>2, <1>6 DEF SetOf
  <2>2. i - 1 \in 1 .. Len(s) - 1 /\ Tail(s)[i - 1] = q
    BY <1>1, <1>6, <2>1
  <2> QED BY <1>2, <2>2 DEF SetOf
<1> QED BY <1>1, <1>3, <1>4, <1>5, <1>6

(* pidleput on a list that the processor is not on.                        *)
LEMMA PidleCons ==
    ASSUME NEW s \in Seq(P), NEW p \in P, Injective(s), p \notin SetOf(s)
    PROVE  /\ <<p>> \o s \in Seq(P) /\ Injective(<<p>> \o s)
           /\ \A q : q \in SetOf(<<p>> \o s) <=> q = p \/ q \in SetOf(s)
<1>1. <<p>> \in Seq(P) /\ Len(<<p>>) = 1 /\ <<p>>[1] = p
  OBVIOUS
<1> DEFINE t == <<p>> \o s
<1>2. /\ t \in Seq(P) /\ Len(t) = 1 + Len(s)
      /\ \A i \in 1 .. 1 + Len(s) : t[i] = IF i <= 1 THEN <<p>>[i] ELSE s[i - 1]
  BY <1>1, ConcatProperties
<1> HIDE DEF t
<1>3. Len(s) \in Nat /\ DOMAIN s = 1 .. Len(s) /\ DOMAIN t = 1 .. Len(s) + 1
  BY <1>2
<1>4. t[1] = p /\ \A i \in 1 .. Len(s) : t[i + 1] = s[i] /\ i + 1 \in 2 .. Len(s) + 1
  BY <1>1, <1>2, <1>3
<1>5. \A i \in DOMAIN t : i = 1 \/ (i - 1 \in 1 .. Len(s) /\ t[i] = s[i - 1])
  BY <1>2, <1>3
<1>6. Injective(t)
  <2> SUFFICES ASSUME NEW i \in DOMAIN t, NEW j \in DOMAIN t, t[i] = t[j] PROVE i = j
    BY DEF Injective
  <2> QED BY <1>3, <1>4, <1>5 DEF Injective, SetOf
<1>7. \A q : q \in SetOf(t) <=> q = p \/ q \in SetOf(s)
  BY <1>3, <1>4, <1>5, SMTT(60) DEF SetOf
<1> QED BY <1>2, <1>6, <1>7 DEF t

(***************************************************************************)
(* The stop of the world.                                                  *)
(***************************************************************************)
LEMMA PosInP == SchedTypes => Pos \subseteq P /\ IsFiniteSet(Pos) /\ sched.gomaxprocs \in Nat \ {0} /\ 0 \in Pos
<1> SUFFICES ASSUME SchedTypes PROVE Pos \subseteq P /\ IsFiniteSet(Pos) /\ sched.gomaxprocs \in Nat \ {0} /\ 0 \in Pos
  OBVIOUS
<1>1. sched.gomaxprocs \in 1 .. Cardinality(P)
  BY DEF SchedTypes, SRec
<1>2. sched.gomaxprocs \in Nat \ {0} /\ sched.gomaxprocs <= Cardinality(P) /\ Cardinality(P) \in Nat
  BY <1>1, Consts
<1>3. \A i \in Int : 0 <= i /\ i < sched.gomaxprocs => i \in P
  BY <1>2, Consts
<1>4. Pos \subseteq P /\ 0 \in Pos
  BY <1>2, <1>3 DEF Pos
<1>5. IsFiniteSet(Pos)
  BY <1>4, Consts, FS_Subset
<1> QED BY <1>2, <1>4, <1>5

(* StopInv holds on when no processor stops and no stop proceeds.          *)
LEMMA StopKept ==
    ASSUME SchedTypes, StopInv, sched'.gomaxprocs = sched.gomaxprocs, sched'.gcwaiting = sched.gcwaiting,
           sched'.stopwait = sched.stopwait, sched'.stopnote = sched.stopnote,
           sched'.worldsema = sched.worldsema,
           \A x \in M : /\ (Stops(ms'[x]) <=> Stops(ms[x]))
                        /\ Cont(ms'[x]) \in HoldingSema => Cont(ms[x]) \in HoldingSema
                        /\ Cont(ms'[x]) \in Stopped0 => Cont(ms[x]) \in Stopped0
                        /\ Cont(ms[x]) = "stwwait" => Cont(ms'[x]) = "stwwait",
           \A p \in P : ps'[p].status = "Pgcstop" <=> ps[p].status = "Pgcstop"
    PROVE  StopInv'
<1>1. StillRunning' = StillRunning
  <2>1. Pos' = Pos
    BY DEF Pos
  <2>2. Pos \subseteq P
    BY PosInP
  <2> QED BY <2>1, <2>2 DEF StillRunning
<1> QED BY <1>1 DEF StopInv, Stops

(***************************************************************************)
(* Steps of one thread that keep its processors: Quiet moves.              *)
(***************************************************************************)
(***************************************************************************)
(* Steps that leave alone what the invariant is about.                     *)
(***************************************************************************)
(* The thread's record r becomes s: it holds what it held, and is as far   *)
(* as it was with stopping the world.                                      *)
SameHold(r, s) ==
    /\ s.nextp = r.nextp /\ LpOf(s) = LpOf(r) /\ s.todo = r.todo
    /\ Runs(s) <=> Runs(r)
    /\ Runs(r) => s.p = r.p
SameSpin(r, s) == (s.spinning <=> r.spinning) /\ (Starts(s) <=> Starts(r))
SameStop(r, s) ==
    /\ Stops(s) <=> Stops(r)
    /\ Cont(s) \in HoldingSema => Cont(r) \in HoldingSema
    /\ Cont(s) \in Stopped0 => Cont(r) \in Stopped0
    /\ Cont(r) = "stwwait" => Cont(s) = "stwwait"
SameBorn(r, s) == (s.pc = "none" <=> r.pc = "none") /\ s.lm = r.lm /\ s.todo = r.todo
Keeps(r, s) == s \in MRec /\ Wf(s) /\ SameHold(r, s) /\ SameStop(r, s)
Quiet(r, s) == Keeps(r, s) /\ SameBorn(r, s) /\ SameSpin(r, s)

(* A thread that does not move is quiet.                                   *)
LEMMA QuietSame == \A m \in M : SchedTypes /\ PlaceInv => Quiet(ms[m], ms[m])
BY DEF Quiet, Keeps, SameBorn, SameHold, SameSpin, SameStop, SchedTypes, PlaceInv

PsSame == ps' \in [P -> PRec] /\ \A p \in P : ps'[p].status = ps[p].status /\ ps'[p].m = ps[p].m
SchedKept ==
    /\ sched' \in SRec /\ sched'.pidle = sched.pidle /\ sched'.gomaxprocs = sched.gomaxprocs
    /\ sched'.gcwaiting = sched.gcwaiting /\ sched'.stopwait = sched.stopwait
    /\ sched'.stopnote = sched.stopnote /\ sched'.worldsema = sched.worldsema
    /\ sched'.maxmcount = sched.maxmcount
SchedSame == SchedKept /\ sched'.midle = sched.midle /\ sched'.nmspinning = sched.nmspinning
GsSame == gs' \in [G -> GRec] /\ \A g \in G : gs'[g].lockedm \in {gs[g].lockedm, None} \cup Created

(* What decides what is in a thread's hands.                               *)
LEMMA HandsSame ==
    ASSUME NEW r, NEW s, SameHold(r, s)
    PROVE  HandsOf(s) = HandsOf(r)
<1>1. TodoOf(s) = TodoOf(r)
  BY DEF SameHold, TodoOf
<1> QED BY <1>1 DEF SameHold, HandsOf

(* A step in which every thread keeps its processors and its part in       *)
(* stopping the world.                                                     *)
LEMMA KeptStep ==
    ASSUME SchedOk, ms' \in [M -> MRec], \A x \in M : Keeps(ms[x], ms'[x]),
           PsSame, SchedKept, gs' \in [G -> GRec], netready' \subseteq G, CreatedInv', SpinCount'
    PROVE  SchedOk'
<1> USE DEF SchedOk
<1>1. SchedTypes'
  BY DEF SchedTypes, PsSame, SchedKept
<1>2. PlaceInv'
  BY DEF PlaceInv, Keeps
<1>5. RunInv'
  <2>1. \A x \in M : /\ (Runs(ms'[x]) <=> Runs(ms[x])) /\ (Stops(ms'[x]) <=> Stops(ms[x]))
                     /\ Runs(ms[x]) => ms'[x].p = ms[x].p
    BY DEF Keeps, SameHold, SameStop
  <2> QED BY <2>1, RunKept DEF PsSame, SchedKept
<1>6. IdleInv'
  <2>1. \A x \in M : HandsOf(ms'[x]) = HandsOf(ms[x])
    BY HandsSame DEF Keeps
  <2> QED BY <2>1, IdleKept DEF PsSame, SchedKept
<1>7. StopInv'
  <2>1. \A x \in M : SameStop(ms[x], ms'[x])
    BY DEF Keeps
  <2> QED BY <2>1, StopKept DEF PsSame, SchedKept, SameStop
<1> QED BY <1>1, <1>2, <1>5, <1>6, <1>7

(* No thread is created, none goes to sleep on the list or is locked.      *)
LEMMA CreatedSame ==
    ASSUME CreatedInv, \A x \in M : SameBorn(ms[x], ms'[x]), GsSame,
           sched'.maxmcount = sched.maxmcount, sched'.midle = sched.midle
    PROVE  CreatedInv'
<1>1. \A x \in M : (ms'[x].pc = "none" <=> ms[x].pc = "none") /\ ms'[x].lm = ms[x].lm /\ ms'[x].todo = ms[x].todo
  BY DEF SameBorn
<1>2. \A g \in G : gs'[g].lockedm \in {gs[g].lockedm, None} \cup Created
  BY DEF GsSame
<1>3. /\ \A i \in DOMAIN sched'.midle : sched'.midle[i] \in Created
      /\ \A g \in G : gs'[g].lockedm # None => gs'[g].lockedm \in Created
      /\ \A x \in M : ms'[x].lm # None => ms'[x].lm \in Created /\ ms'[x].lm # x
      /\ \A x \in M : \A i \in DOMAIN ms'[x].todo : ms'[x].todo[i][2] # None => ms'[x].todo[i][2] \in Created
  BY <1>1, <1>2 DEF CreatedInv
<1> QED BY <1>1, <1>2, <1>3, CreatedKept

(* A step in which every thread is quiet.                                  *)
LEMMA QuietStep ==
    ASSUME SchedOk, thrown = "none", ms' \in [M -> MRec], \A x \in M : Quiet(ms[x], ms'[x]),
           PsSame, SchedSame, GsSame, netready' \subseteq G
    PROVE  SchedOk'
<1>1. CreatedInv'
  BY CreatedSame DEF Quiet, SchedSame, SchedKept, SchedOk
<1>2. SpinCount'
  BY SpinKept DEF Quiet, SameSpin, SchedSame, SchedOk
<1>3. \A x \in M : Keeps(ms[x], ms'[x])
  BY DEF Quiet
<1> QED BY <1>1, <1>2, <1>3, KeptStep DEF SchedSame, GsSame

(* The same for a step of one thread.                                      *)
LEMMA QuietMove ==
    ASSUME SchedOk, thrown = "none", NEW m \in M, NEW s, Quiet(ms[m], s), ms' = [ms EXCEPT ![m] = s],
           PsSame, SchedSame, GsSame, netready' \subseteq G
    PROVE  SchedOk'
<1>1. SchedTypes /\ PlaceInv /\ ms \in [M -> MRec] /\ s \in MRec
  BY DEF SchedOk, SchedTypes, Quiet, Keeps
<1>2. ms' \in [M -> MRec] /\ ms'[m] = s /\ \A x \in M : x # m => ms'[x] = ms[x]
  BY <1>1
<1>3. \A x \in M : Quiet(ms[x], ms'[x])
  BY <1>1, <1>2, QuietSame
<1> QED BY <1>2, <1>3, QuietStep

(* A step of one thread that changes how many threads spin.                *)
LEMMA SpinMove ==
    ASSUME SchedOk, thrown = "none", NEW m \in M, NEW s, Keeps(ms[m], s), SameBorn(ms[m], s),
           ms' = [ms EXCEPT ![m] = s],
           sched'.nmspinning = sched.nmspinning
              + One(s.spinning) - One(ms[m].spinning) + One(Starts(s)) - One(Starts(ms[m])),
           PsSame, SchedKept, sched'.midle = sched.midle, GsSame, netready' \subseteq G
    PROVE  SchedOk'
<1>1. SchedTypes /\ PlaceInv /\ ms \in [M -> MRec] /\ s \in MRec /\ CreatedInv /\ SpinCount
  BY DEF SchedOk, SchedTypes, Keeps
<1>2. ms' \in [M -> MRec] /\ ms'[m] = s /\ \A x \in M : x # m => ms'[x] = ms[x]
  BY <1>1
<1>3. \A x \in M : Quiet(ms[x], ms[x])
  BY <1>1, QuietSame
<1>4. \A x \in M : Keeps(ms[x], ms'[x]) /\ SameBorn(ms[x], ms'[x])
  BY <1>2, <1>3 DEF Quiet
<1>5. CreatedInv'
  BY <1>1, <1>4, CreatedSame DEF SchedKept
<1>6. SpinCount'
  BY <1>1, <1>2, SpinStep
<1> QED BY <1>2, <1>4, <1>5, <1>6, KeptStep DEF GsSame

(* Variables that stay as they are.                                        *)
LEMMA Unchanged ==
    /\ SchedTypes /\ ps' = ps => PsSame
    /\ SchedTypes /\ sched' = sched => SchedSame
    /\ SchedTypes /\ gs' = gs => GsSame
    /\ SchedTypes /\ netready' = netready => netready' \subseteq G
BY DEF SchedTypes, PsSame, SchedSame, SchedKept, GsSame

(* The record of a thread whose call returns.                              *)
Back(r) == [r EXCEPT !.pc = r.ret, !.ret = "none", !.lp = None, !.sp = FALSE]

(* Return, in terms of the record.                                         *)
LEMMA BackIs ==
    ASSUME SchedTypes, NEW m \in M
    PROVE  Return(m) = [ms EXCEPT ![m] = Back(ms[m])]
BY DEF SchedTypes, Return, Back

(* What is known of every thread.                                          *)
LEMMA Thread ==
    ASSUME SchedOk, NEW m \in M
    PROVE  /\ SchedTypes /\ ms \in [M -> MRec] /\ ms[m] \in MRec /\ Wf(ms[m])
           /\ sched \in SRec /\ ps \in [P -> PRec] /\ gs \in [G -> GRec] /\ netready \subseteq G
BY DEF SchedOk, SchedTypes, PlaceInv

(***************************************************************************)
(* Quiet moves, by place.                                                  *)
(***************************************************************************)
(***************************************************************************)
(* Quiet changes of a thread's record.                                     *)
(***************************************************************************)
LEMMA PlaceNames ==
    /\ "deal" \in Place /\ "esb2" \in Place /\ "esys2" \in Place /\ "esys3" \in Place
    /\ "fagain" \in Place /\ "fglob" \in Place /\ "find" \in Place /\ "fnet" \in Place
    /\ "fpoll" \in Place /\ "fquit" \in Place /\ "frecheck" \in Place /\ "fspin" \in Place
    /\ "fsteal" \in Place /\ "fstop" \in Place /\ "gc" \in Place /\ "gchelper" \in Place
    /\ "gcwait" \in Place /\ "givep" \in Place /\ "gotg" \in Place /\ "ho1" \in Place /\ "ho2" \in Place
    /\ "ho3" \in Place /\ "ho4" \in Place /\ "inject" \in Place /\ "injloop" \in Place
    /\ "mstart" \in Place /\ "netgot" \in Place /\ "netpoll" \in Place /\ "newm" \in Place
    /\ "none" \in Place /\ "parked" \in Place /\ "pollgot" \in Place /\ "procs" \in Place
    /\ "reset" \in Place /\ "resize" \in Place /\ "retake" \in Place /\ "sched" \in Place
    /\ "slk" \in Place /\ "slk2" \in Place /\ "slkwait" \in Place /\ "smadd" \in Place
    /\ "smsub" \in Place /\ "smwait" \in Place /\ "start0" \in Place /\ "start1" \in Place
    /\ "start2" \in Place /\ "start3" \in Place /\ "startm" \in Place /\ "stopm" \in Place
    /\ "stw1" \in Place /\ "stwchk" \in Place /\ "stwwait" \in Place /\ "syscall" \in Place
    /\ "sysmon" \in Place /\ "unspin" \in Place /\ "user" \in Place /\ "wakechk" \in Place
    /\ "wakep" \in Place /\ "xsys1" \in Place /\ "xsys2" \in Place /\ "xsys3" \in Place
    /\ "xsys4" \in Place
BY DEF Place, Calls, Injecting, Handing, WithP, Stale, Elsewhere, Stopping

(* Fields of sched that the invariant has nothing to say about.            *)
LEMMA SchedField ==
    ASSUME SchedTypes,
           \/ \E k \in Int : sched' = [sched EXCEPT !.nmidlelocked = k]
           \/ \E k \in Int : sched' = [sched EXCEPT !.helpers = k]
           \/ \E q \in Seq(G) : sched' = [sched EXCEPT !.runq = q]
    PROVE  SchedSame
<1>1. sched \in SRec
  BY DEF SchedTypes
<1>2. ASSUME NEW k \in Int, sched' = [sched EXCEPT !.nmidlelocked = k] PROVE SchedSame
  BY <1>1, <1>2 DEF SRec, SchedSame, SchedKept
<1>3. ASSUME NEW k \in Int, sched' = [sched EXCEPT !.helpers = k] PROVE SchedSame
  BY <1>1, <1>3 DEF SRec, SchedSame, SchedKept
<1>4. ASSUME NEW q \in Seq(G), sched' = [sched EXCEPT !.runq = q] PROVE SchedSame
  BY <1>1, <1>4 DEF SRec, SchedSame, SchedKept
<1> QED BY <1>2, <1>3, <1>4

(* What is known of thread m, whose record is r.                           *)
Known(m, r) ==
    /\ SchedTypes /\ ms \in [M -> MRec] /\ r \in MRec /\ Wf(r)
    /\ sched \in SRec /\ ps \in [P -> PRec] /\ gs \in [G -> GRec] /\ netready \subseteq G

Alone == (Elsewhere \cup Stale) \ {"none", "esys3"}
Plain == WithP \ (Stopping \cup {"start3", "givep"})

Kept(r, s) ==
    /\ s.p = r.p /\ s.nextp = r.nextp /\ s.spinning = r.spinning /\ s.lp = r.lp /\ s.lm = r.lm
    /\ s.todo = r.todo /\ s.sp = r.sp
Grips(s) == (s.pc \in Holding => s.lg # None) /\ (s.pc \in Running => s.curg # None)

(* A thread with a processor goes from one place to another.               *)
LEMMA PlainQuiet ==
    ASSUME NEW r, NEW s, s \in MRec, Wf(r), r.pc \in Plain, s.pc \in Plain, Kept(r, s),
           s.iret = r.iret, Grips(s)
    PROVE  Quiet(r, s)
BY DEF Quiet, Keeps, SameBorn, Wf, ReturnsOf, LocalsOf, OnceInHands, SameHold, SameSpin, SameStop,
       Runs, Stops, Starts, Cont, LpOf, TodoOf, Calls, Injecting, Handing, WithP, Stale, Stopping,
       HoldingSema, Stopped0, HandoffRets, WakeRets, Kept, Grips, Plain, Holding, Running

(* A move between places where a thread has no processor.                  *)
LEMMA AloneQuiet ==
    ASSUME NEW r, NEW s, s \in MRec, Wf(r), r.pc \in Alone \cup {"esys3"}, s.pc \in Alone, s.iret = r.iret, Grips(s),
           s.nextp = r.nextp, s.spinning = r.spinning, s.lm = r.lm, s.todo = r.todo, s.sp = r.sp,
           s.p = None \/ s.pc \in Stale \/ (s.p = r.p /\ r.pc \in Elsewhere),
           s.lp = None \/ s.pc \in {"smsub", "retake"} \/ (s.lp = r.lp /\ r.pc \notin {"smsub", "retake"}),
           s.pc = "retake" => s.lp # None,
           s.pc \in {"stopm", "parked", "gchelper"} => s.ret \in {"sched", "find"},
           s.pc \in {"netpoll", "pollgot"} => s.ret = "find", s.pc = "pollgot" => s.glist # << >>
    PROVE  Quiet(r, s)
BY DEF Quiet, Keeps, SameBorn, Wf, ReturnsOf, LocalsOf, OnceInHands, SameHold, SameSpin, SameStop,
       Runs, Stops, Starts, Cont, LpOf, TodoOf, Calls, Injecting, Handing, WithP, Stale, Stopping,
       HoldingSema, Stopped0, HandoffRets, WakeRets, Grips, Holding, Running, Alone, Elsewhere

(* A move of the thread that has stopped the world.                        *)
LEMMA StopQuiet ==
    ASSUME NEW r, NEW s, s \in MRec, Wf(r), r.pc \in Stopped0, s.pc \in Stopped0 \ {"stwchk"},
           s.pc \in HoldingSema => r.pc \in HoldingSema,
           s.p = r.p, s.nextp = r.nextp, s.spinning = r.spinning, s.lp = r.lp, s.lm = r.lm, s.todo = r.todo,
           s.sp => s.pc \in {"start2", "resize", "deal"},
           s.iret = r.iret, Grips(s)
    PROVE  Quiet(r, s)
BY DEF Quiet, Keeps, SameBorn, Wf, ReturnsOf, LocalsOf, OnceInHands, SameHold, SameSpin, SameStop,
       Runs, Stops, Starts, Cont, LpOf, TodoOf, Calls, Injecting, Handing, WithP, Stale, Stopping,
       HoldingSema, Stopped0, HandoffRets, WakeRets, Grips, Holding, Running

(* On in a call: wakep, handoffp.                                          *)
LEMMA CallQuiet ==
    ASSUME NEW r, NEW s, s \in MRec, Wf(r), Kept(r, s), s.ret = r.ret, s.iret = r.iret,
           s.lg = r.lg, s.curg = r.curg,
           \/ r.pc = "wakechk" /\ s.pc = "wakep"
           \/ r.pc \in Handing /\ s.pc \in Handing
           \/ r.pc \in Handing /\ s.pc = "startm" /\ ~s.sp
    PROVE  Quiet(r, s)
BY DEF Quiet, Keeps, SameBorn, Wf, ReturnsOf, LocalsOf, OnceInHands, SameHold, SameSpin, SameStop,
       Runs, Stops, Starts, Cont, LpOf, TodoOf, Calls, Injecting, Handing, WithP, Stale, Stopping,
       HoldingSema, Stopped0, HandoffRets, WakeRets, Grips, Holding, Running, Kept

(* A call returns that has no processor in its hands and starts nobody.    *)
LEMMA BackQuiet ==
    ASSUME NEW r, NEW s, s \in MRec, Wf(r), r.pc \in {"wakechk", "wakep", "startm"}, ~r.sp, r.lp = None,
           s.pc = r.ret, s.ret = "none", s.iret = r.iret, s.p = r.p, s.nextp = r.nextp, s.spinning = r.spinning,
           s.lp = None, s.lm = r.lm, s.todo = r.todo, s.sp = FALSE, s.lg = r.lg, s.curg = r.curg
    PROVE  Quiet(r, s)
BY DEF Quiet, Keeps, SameBorn, Wf, ReturnsOf, LocalsOf, OnceInHands, SameHold, SameSpin, SameStop,
       Runs, Stops, Starts, Cont, LpOf, TodoOf, Calls, Injecting, Handing, WithP, Stale, Stopping,
       HoldingSema, Stopped0, HandoffRets, WakeRets, Grips, Holding, Running, Kept

(* Into injectglist, on in it and out of it.                               *)
LEMMA InjectQuiet ==
    ASSUME NEW r, NEW s, s \in MRec, Wf(r), Kept(r, s), s.pc = "inject",
           \/ r.pc = "fnet" /\ s.iret = "netgot" /\ s.lg # None
           \/ r.pc = "pollgot" /\ s.iret = "stopm" /\ s.ret = r.ret
           \/ r.pc = "start0" /\ s.iret = "start1" /\ s.curg = r.curg
           \/ r.pc = "smsub" /\ s.iret = "smadd" /\ s.lp = None
    PROVE  Quiet(r, s)
BY DEF Quiet, Keeps, SameBorn, Wf, ReturnsOf, LocalsOf, OnceInHands, SameHold, SameSpin, SameStop,
       Runs, Stops, Starts, Cont, LpOf, TodoOf, Calls, Injecting, Handing, WithP, Stale, Stopping,
       HoldingSema, Stopped0, HandoffRets, WakeRets, Grips, Holding, Running, Kept

(* The moves of injectglist.                                               *)
LEMMA LoopQuiet ==
    ASSUME NEW r, NEW s, s \in MRec, Wf(r), Kept(r, s), s.lg = r.lg, s.curg = r.curg,
           \/ r.pc = "inject" /\ s.pc = "injloop" /\ s.iret = r.iret
           \/ r.pc = "injloop" /\ s.pc = "startm" /\ s.ret = "injloop" /\ s.iret = r.iret
           \/ /\ r.pc \in Injecting /\ s.pc = r.iret /\ s.iret = "none"
              /\ IF r.iret = "stopm" THEN s.ret = "find" ELSE TRUE
    PROVE  Quiet(r, s)
BY DEF Quiet, Keeps, SameBorn, Wf, ReturnsOf, LocalsOf, OnceInHands, SameHold, SameSpin, SameStop,
       Runs, Stops, Starts, Cont, LpOf, TodoOf, Calls, Injecting, Handing, WithP, Stale, Stopping,
       HoldingSema, Stopped0, HandoffRets, WakeRets, Grips, Holding, Running, Kept

(* Into wakep's check.                                                     *)
LEMMA WakeQuiet ==
    ASSUME NEW r, NEW s, s \in MRec, Wf(r), Kept(r, s), s.curg = r.curg, s.iret = r.iret,
           r.pc = "user", s.pc = "wakechk", s.ret = "user"
    PROVE  Quiet(r, s)
BY DEF Quiet, Keeps, SameBorn, Wf, ReturnsOf, LocalsOf, OnceInHands, SameHold, SameSpin, SameStop,
       Runs, Stops, Starts, Cont, LpOf, TodoOf, Calls, Injecting, Handing, WithP, Stale, Stopping,
       HoldingSema, Stopped0, HandoffRets, WakeRets, Grips, Holding, Running, Kept

(***************************************************************************)
(* Goroutines and run queues.                                              *)
(***************************************************************************)
(***************************************************************************)
(* Queues and lists of goroutines.                                         *)
(***************************************************************************)
LEMMA PartOf ==
    ASSUME NEW q \in Seq(G), NEW i \in Nat \ {0}, NEW j \in Int, j <= Len(q)
    PROVE  SubSeq(q, i, j) \in Seq(G)
<1>1. \A k \in i .. j : q[k] \in G
  OBVIOUS
<1> QED BY <1>1, SubSeqProperties

(* A change of a run queue of a processor.                                 *)
LEMMA PsRunq ==
    ASSUME SchedTypes, NEW p, NEW q \in Seq(G), ps' = [ps EXCEPT ![p].runq = q]
    PROVE  PsSame
<1>1. ps \in [P -> PRec]
  BY DEF SchedTypes
<1>2. \A x \in P : ps[x] \in PRec /\ ps'[x] = IF x = p THEN [ps[x] EXCEPT !.runq = q] ELSE ps[x]
  BY <1>1
<1>3. ASSUME NEW x \in P PROVE ps'[x] \in PRec /\ ps'[x].status = ps[x].status /\ ps'[x].m = ps[x].m
  <2>1. PICK r \in PRec : r = ps[x]
    BY <1>2
  <2>2. [r EXCEPT !.runq = q] \in PRec /\ [r EXCEPT !.runq = q].status = r.status /\ [r EXCEPT !.runq = q].m = r.m
    BY DEF PRec
  <2> QED BY <1>2, <2>1, <2>2
<1>4. DOMAIN ps' = P /\ ps' = [x \in P |-> ps'[x]]
  BY <1>1
<1> QED BY <1>3, <1>4 DEF PsSame

(* What netpoll returns.                                                   *)
LEMMA ReadyIs ==
    ASSUME SchedTypes, NEW l \in ReadyLists
    PROVE  /\ l \in Seq(G)
           /\ netready # {} => l # << >> /\ Head(l) \in G /\ Head(l) # None /\ Tail(l) \in Seq(G)
<1> DEFINE n == Cardinality(netready)
<1>1. netready \subseteq G /\ IsFiniteSet(netready)
  BY Consts, FS_Subset DEF SchedTypes
<1>2. n \in Nat /\ (netready # {} => n # 0)
  BY <1>1, FS_CardinalityType, FS_EmptySet
<1>3. l \in [1 .. n -> netready]
  BY DEF ReadyLists
<1> HIDE DEF n
<1>4. l \in Seq(netready) /\ Len(l) = n
  BY <1>2, <1>3
<1>5. l \in Seq(G) /\ (netready # {} => l # << >>)
  BY <1>1, <1>2, <1>4
<1> QED BY <1>5, Consts

(* A change of one goroutine.                                              *)
LEMMA GsOne ==
    ASSUME SchedTypes, NEW g, NEW h \in GRec, gs' = [gs EXCEPT ![g] = h],
           g \in G => h.lockedm \in {gs[g].lockedm, None} \cup Created
    PROVE  GsSame
BY DEF SchedTypes, GsSame

(* A goroutine has used up an operation; then another one changes.         *)
LEMMA SpentIs ==
    ASSUME SchedTypes, NEW g, g \in G => gs[g].ops > 0
    PROVE  /\ Spent(g) \in [G -> GRec]
           /\ \A x \in G : Spent(g)[x].lockedm = gs[x].lockedm /\ Spent(g)[x].menu = gs[x].menu
<1>1. gs \in [G -> GRec]
  BY DEF SchedTypes
<1>2. ASSUME NEW x \in G
      PROVE Spent(g)[x] \in GRec /\ Spent(g)[x].lockedm = gs[x].lockedm /\ Spent(g)[x].menu = gs[x].menu
  <2>1. gs[x] \in GRec /\ Spent(g)[x] = IF x = g THEN [gs[x] EXCEPT !.ops = gs[x].ops - 1] ELSE gs[x]
    BY <1>1 DEF Spent
  <2>2. CASE x = g
    <3>1. PICK k \in Nat : k = gs[x].ops - 1
      BY <2>1, <2>2 DEF GRec
    <3>2. Spent(g)[x] = [gs[x] EXCEPT !.ops = k]
      BY <2>1, <2>2, <3>1
    <3> QED BY <2>1, <3>2 DEF GRec
  <2> QED BY <2>1, <2>2
<1>3. Spent(g) = [x \in G |-> Spent(g)[x]]
  BY <1>1 DEF Spent
<1> QED BY <1>2, <1>3

(* The least of a set of numbers.                                          *)
LEMMA LeastOf == ASSUME NEW S \in SUBSET Nat, S # {} PROVE \E n \in S : \A x \in S : n <= x
<1> DEFINE R == OpToRel(<, Nat)
<1>1. PICK n \in S : \A y \in S : ~(<<y, n>> \in R)
  <2> HIDE DEF R
  <2>1. IsWellFoundedOn(R, Nat)
    BY NatLessThanWellFounded DEF R
  <2> QED BY <2>1, WFMin
<1>2. \A y \in S : ~(y < n)
  BY <1>1 DEF OpToRel
<1> QED BY <1>2

(* An operation of goroutine g that also changes a goroutine.              *)
LEMMA SpentThen ==
    ASSUME SchedTypes, NEW g \in G, gs[g].ops > 0, NEW x, NEW h \in GRec, gs' = [Spent(g) EXCEPT ![x] = h],
           x \in G => h.lockedm \in {gs[x].lockedm, None} \cup Created
    PROVE  GsSame
<1>1. /\ Spent(g) \in [G -> GRec]
      /\ \A y \in G : Spent(g)[y].lockedm = gs[y].lockedm
  BY SpentIs
<1> QED BY <1>1 DEF GsSame

(* No thread moves.                                                        *)
LEMMA StillStep ==
    ASSUME SchedOk, thrown = "none", ms' = ms, PsSame, SchedSame, GsSame, netready' \subseteq G
    PROVE  SchedOk'
BY QuietSame, QuietStep DEF SchedOk, SchedTypes

(* A goroutine that runs on m decides to do something.                     *)
LEMMA UserIs ==
    ASSUME SchedOk, NEW m \in M, NEW op, User(m, op)
    PROVE  ms[m].pc = "user" /\ ms[m].curg \in G /\ gs[ms[m].curg].ops > 0
BY Thread DEF User, At, MRec, Wf, LocalsOf, Cont, Calls, Injecting, Handing, Running

(* The processor of a thread in WithP.                                     *)
LEMMA RunsHasP ==
    ASSUME SchedOk, NEW m \in M, Cont(ms[m]) \in WithP
    PROVE  /\ ms[m].p \in P /\ ms[m].p \in Pos /\ ps[ms[m].p].m = m
           /\ ps[ms[m].p].status = IF Cont(ms[m]) \in Stopping THEN "Pgcstop" ELSE "Prunning"
<1>1. ms[m].p \in P
  BY Thread DEF MRec, Wf, LocalsOf
<1>2. /\ ps[ms[m].p].m = m
      /\ ps[ms[m].p].status = IF Cont(ms[m]) \in Stopping THEN "Pgcstop" ELSE "Prunning"
  BY DEF SchedOk, RunInv
<1> QED BY <1>1, <1>2 DEF SchedOk, RunInv

(***************************************************************************)
(* Steps in which a thread gains a processor.                              *)
(***************************************************************************)
(***************************************************************************)
(* Processors that change hands.                                           *)
(***************************************************************************)
(* Everything in sched but the two lists and the counts of spinning.       *)
SchedRest ==
    /\ sched' \in SRec /\ sched'.gomaxprocs = sched.gomaxprocs
    /\ sched'.gcwaiting = sched.gcwaiting /\ sched'.stopwait = sched.stopwait
    /\ sched'.stopnote = sched.stopnote /\ sched'.worldsema = sched.worldsema
    /\ sched'.maxmcount = sched.maxmcount

(* HandsOf, element by element.                                            *)
LEMMA InHands == \A r, q : q \in HandsOf(r) <=> q \in P /\ (q = r.nextp \/ q = LpOf(r) \/ q \in TodoOf(r))
BY DEF HandsOf

(* The sets of places of stopping the world.                               *)
LEMMA StopSets == HoldingSema \subseteq Stopping /\ Stopped0 \subseteq Stopping /\ Stopping \subseteq WithP
BY DEF HoldingSema, Stopped0, Stopping, WithP

(* Where a processor is that somebody has in hand, or that is on the list. *)
LEMMA HandIdle ==
    ASSUME SchedOk, NEW m \in M, NEW p \in HandsOf(ms[m])
    PROVE  /\ p \in P /\ ps[p].status = "Pidle" /\ p \notin SetOf(sched.pidle) /\ p \in Pos /\ ps[p].m = None
           /\ \A x \in M : x # m => p \notin HandsOf(ms[x])
<1>1. p \in P
  BY InHands
<1>2. /\ ps[p].status = "Pidle" /\ p \notin SetOf(sched.pidle)
      /\ \A x \in M : x # m => p \notin HandsOf(ms[x])
  BY <1>1, IdleIs DEF SchedOk
<1>3. p \in Pos /\ ps[p].m = None
  BY <1>1, <1>2 DEF SchedOk, SchedTypes, PRec, RunInv
<1> QED BY <1>1, <1>2, <1>3

(* A processor on sched.pidle is idle and nowhere else.                    *)
LEMMA ListIdle ==
    ASSUME SchedOk, NEW p \in SetOf(sched.pidle)
    PROVE  /\ p \in P /\ ps[p].status = "Pidle" /\ p \in Pos /\ ps[p].m = None
           /\ \A x \in M : p \notin HandsOf(ms[x])
<1>1. p \in P
  BY DEF SetOf, SchedOk, SchedTypes, SRec
<1>2. ps[p].status = "Pidle" /\ \A x \in M : p \notin HandsOf(ms[x])
  BY <1>1, IdleIs DEF SchedOk
<1>3. p \in Pos /\ ps[p].m = None
  BY <1>1, <1>2 DEF SchedOk, SchedTypes, PRec, RunInv
<1> QED BY <1>1, <1>2, <1>3

(* Thread m gets processor p: the one it was handed, the first of the      *)
(* list, or the one that it had left behind in a system call.              *)
LEMMA AcquireStep ==
    ASSUME SchedOk, thrown = "none", NEW m \in M, NEW s \in MRec, Wf(s), ms' = [ms EXCEPT ![m] = s],
           NEW p \in P, ps' = Acquired(m, p), ps[p].m = None,
           ~Runs(ms[m]), Runs(s), ~Stops(s), s.p = p, LpOf(s) = LpOf(ms[m]),
           SameBorn(ms[m], s), SameSpin(ms[m], s),
           SchedRest, sched'.midle = sched.midle, sched'.nmspinning = sched.nmspinning,
           GsSame, netready' \subseteq G,
           \/ ps[p].status = "Psyscall" /\ sched'.pidle = sched.pidle /\ s.nextp = ms[m].nextp
           \/ p = ms[m].nextp /\ sched'.pidle = sched.pidle /\ s.nextp = None
           \/ /\ sched.pidle # << >> /\ p = Head(sched.pidle)
              /\ sched'.pidle = Tail(sched.pidle) /\ s.nextp = ms[m].nextp
    PROVE  SchedOk'
<1>1. SchedTypes /\ PlaceInv /\ CreatedInv /\ SpinCount /\ RunInv /\ IdleInv /\ StopInv
      /\ ms \in [M -> MRec] /\ ps \in [P -> PRec]
  BY DEF SchedOk, SchedTypes
<1>2. ms' \in [M -> MRec] /\ ms'[m] = s /\ \A x \in M : x # m => ms'[x] = ms[x]
  BY <1>1
<1>3. /\ ps' \in [P -> PRec] /\ ps'[p].m = m /\ ps'[p].status = "Prunning"
      /\ \A q \in P : q # p => ps'[q] = ps[q]
  <2>1. PICK h : h = [ps[p] EXCEPT !.m = m, !.status = "Prunning"]
    OBVIOUS
  <2>2. h \in PRec /\ h.m = m /\ h.status = "Prunning"
    BY <1>1, <2>1 DEF PRec
  <2>3. ps' = [ps EXCEPT ![p] = h]
    BY <1>1, <2>1 DEF Acquired
  <2> QED BY <1>1, <2>2, <2>3
<1>4. /\ sched.pidle \in Seq(P) /\ Injective(sched.pidle)
      /\ None \notin P
  BY <1>1, Consts, IdleIs DEF SchedTypes, SRec
<1>5. ps[p].status \in {"Pidle", "Psyscall"}
  <2>1. CASE p = ms[m].nextp
    BY <2>1, InHands, HandIdle
  <2>2. CASE sched.pidle # << >> /\ p = Head(sched.pidle)
    BY <1>4, <2>2, PidleTail, ListIdle
  <2> QED BY <2>1, <2>2
<1>6. SchedTypes'
  BY <1>1, <1>2, <1>3 DEF SchedTypes, SchedRest, GsSame
<1>7. PlaceInv'
  BY <1>1, <1>2 DEF PlaceInv
<1>8. CreatedInv'
  <2>1. \A x \in M : SameBorn(ms[x], ms'[x])
    BY <1>2 DEF SameBorn
  <2> QED BY <1>1, <2>1, CreatedSame DEF SchedRest
<1>9. SpinCount'
  <2>1. \A x \in M : (ms'[x].spinning <=> ms[x].spinning) /\ (Starts(ms'[x]) <=> Starts(ms[x]))
    BY <1>2 DEF SameSpin
  <2> QED BY <1>1, <2>1, SpinKept
<1>10. RunInv'
  <2>1. \A x \in M : x # m => /\ (Runs(ms'[x]) <=> Runs(ms[x])) /\ (Stops(ms'[x]) <=> Stops(ms[x]))
                              /\ ms'[x].p = ms[x].p
    BY <1>2
  <2> QED BY <1>1, <1>2, <1>3, <1>5, <2>1, RunAcquire DEF SchedRest
<1>11. StopInv'
  <2>1. ~Stops(ms[m])
    BY StopsRuns
  <2>2. \A x \in M : /\ (Stops(ms'[x]) <=> Stops(ms[x]))
                     /\ Cont(ms'[x]) \in HoldingSema => Cont(ms[x]) \in HoldingSema
                     /\ Cont(ms'[x]) \in Stopped0 => Cont(ms[x]) \in Stopped0
                     /\ Cont(ms[x]) = "stwwait" => Cont(ms'[x]) = "stwwait"
    BY <1>2, <2>1, StopSets DEF Stops, Stopping
  <2>3. \A q \in P : ps'[q].status = "Pgcstop" <=> ps[q].status = "Pgcstop"
    BY <1>3, <1>5
  <2> QED BY <1>1, <2>2, <2>3, StopKept DEF SchedRest
<1>12. IdleInv'
  <2>1. TodoOf(s) = TodoOf(ms[m])
    BY DEF SameBorn, TodoOf
  <2>2. p \notin HandsOf(s)
    <3>1. CASE ps[p].status = "Psyscall" /\ s.nextp = ms[m].nextp
      <4>1. p \notin HandsOf(ms[m])
        BY <3>1, HandIdle
      <4> QED BY <2>1, <3>1, <4>1, InHands
    <3>2. CASE p = ms[m].nextp /\ s.nextp = None
      <4>1. p # LpOf(ms[m]) /\ p \notin TodoOf(ms[m])
        BY <1>1, <1>4, <3>2 DEF PlaceInv, Wf, OnceInHands
      <4> QED BY <1>4, <2>1, <3>2, <4>1, InHands
    <3>3. CASE sched.pidle # << >> /\ p = Head(sched.pidle) /\ s.nextp = ms[m].nextp
      <4>1. p \notin HandsOf(ms[m])
        BY <1>4, <3>3, PidleTail, ListIdle
      <4> QED BY <2>1, <3>3, <4>1, InHands
    <3> QED BY <3>1, <3>2, <3>3
  <2>3. /\ Injective(sched'.pidle) /\ p \notin SetOf(sched'.pidle)
        /\ \A q \in P : q # p => (q \in SetOf(sched'.pidle) <=> q \in SetOf(sched.pidle))
        /\ \A x \in M : x # m => p \notin HandsOf(ms[x])
    <3>1. CASE ps[p].status = "Psyscall" /\ sched'.pidle = sched.pidle
      BY <1>1, <1>4, <3>1, IdleIs
    <3>2. CASE p = ms[m].nextp /\ sched'.pidle = sched.pidle
      BY <1>4, <3>2, InHands, HandIdle
    <3>3. CASE sched.pidle # << >> /\ p = Head(sched.pidle) /\ sched'.pidle = Tail(sched.pidle)
      BY <1>4, <3>3, PidleTail, ListIdle
    <3> QED BY <3>1, <3>2, <3>3
  <2>4. \A q \in P : q # p => \A x \in M : q \in HandsOf(ms'[x]) <=> q \in HandsOf(ms[x])
    <3>1. \A q \in P : q # p => (q \in HandsOf(s) <=> q \in HandsOf(ms[m]))
      BY <1>4, <2>1, InHands
    <3> QED BY <1>2, <3>1
  <2>5. \A x \in M : p \notin HandsOf(ms'[x])
    BY <1>2, <2>2, <2>3
  <2> QED BY <1>1, <1>3, <2>3, <2>4, <2>5, IdleStep
<1> QED BY <1>6, <1>7, <1>8, <1>9, <1>10, <1>11, <1>12 DEF SchedOk

(***************************************************************************)
(* The invariant across the actions: those that move one thread.           *)
(***************************************************************************)
(* ready and newproc1 look whether somebody has to be woken.               *)
LEMMA WakeCheckOk ==
    ASSUME SchedOk, thrown = "none", NEW m \in M, WakeCheck(m)
    PROVE  SchedOk'
<1>1. PICK r : r = ms[m]
  OBVIOUS
<1>2. Known(m, r)
  BY <1>1, Thread DEF Known
<1>3. r.pc = "wakechk"
  BY <1>1 DEF WakeCheck, At
<1>4. PsSame /\ SchedSame /\ GsSame /\ netready' \subseteq G
  BY <1>2, Unchanged DEF WakeCheck, Known
<1>5. CASE npidle # 0 /\ sched.nmspinning = 0
  <2>1. PICK s : s = [r EXCEPT !.pc = "wakep"]
    OBVIOUS
  <2>2. s \in MRec /\ s.pc = "wakep" /\ Kept(r, s) /\ s.ret = r.ret /\ s.iret = r.iret /\ s.lg = r.lg
       /\ s.curg = r.curg
    BY <1>2, <1>3, <2>1, PlaceNames DEF Known, MRec, Kept
  <2>3. Quiet(r, s)
    BY <1>2, <1>3, <2>2, CallQuiet DEF Known, Kept, Handing
  <2>4. ms' = [ms EXCEPT ![m] = s]
    BY <1>1, <1>2, <1>3, <1>5, <2>1 DEF WakeCheck, At, Known
  <2> QED BY <1>1, <1>4, <2>3, <2>4, QuietMove
<1>6. CASE ~(npidle # 0 /\ sched.nmspinning = 0)
  <2>1. PICK s : s = [r EXCEPT !.pc = r.ret, !.ret = "none", !.lp = None, !.sp = FALSE]
    OBVIOUS
  <2>2. s \in MRec /\ s.pc = r.ret /\ s.ret = "none" /\ s.lp = None /\ s.sp = FALSE /\ s.p = r.p
       /\ s.nextp = r.nextp /\ s.spinning = r.spinning /\ s.lm = r.lm /\ s.todo = r.todo
       /\ s.iret = r.iret /\ s.lg = r.lg /\ s.curg = r.curg
    BY <1>2, <1>3, <2>1, PlaceNames DEF Known, MRec, Kept
  <2>3. Quiet(r, s)
    BY <1>2, <1>3, <2>2, BackQuiet DEF Known, Kept, Wf, LocalsOf, Handing
  <2>4. ms' = [ms EXCEPT ![m] = s]
    BY <1>1, <1>2, <1>3, <1>6, <2>1 DEF WakeCheck, At, Known, Return
  <2> QED BY <1>1, <1>4, <2>3, <2>4, QuietMove
<1> QED BY <1>5, <1>6

(* handoffp looks at the queues.                                           *)
LEMMA HandoffWorkOk ==
    ASSUME SchedOk, thrown = "none", NEW m \in M, HandoffWork(m)
    PROVE  SchedOk'
<1>1. PICK r : r = ms[m]
  OBVIOUS
<1>2. Known(m, r)
  BY <1>1, Thread DEF Known
<1>3. r.pc = "ho1"
  BY <1>1 DEF HandoffWork, At
<1>4. PsSame /\ SchedSame /\ GsSame /\ netready' \subseteq G
  BY <1>2, Unchanged DEF HandoffWork, Known
<1>5. CASE ps[r.lp].runq # << >> \/ sched.runq # << >>
  <2>1. PICK s : s = [r EXCEPT !.pc = "startm"]
    OBVIOUS
  <2>2. s \in MRec /\ s.pc = "startm" /\ Kept(r, s) /\ s.ret = r.ret /\ s.iret = r.iret /\ s.lg = r.lg
       /\ s.curg = r.curg
    BY <1>2, <1>3, <2>1, PlaceNames DEF Known, MRec, Kept
  <2>3. Quiet(r, s)
    BY <1>2, <1>3, <2>2, CallQuiet DEF Known, Kept, Handing, Wf, LocalsOf
  <2>4. ms' = [ms EXCEPT ![m] = s]
    BY <1>1, <1>2, <1>3, <1>5, <2>1 DEF HandoffWork, At, Known
  <2> QED BY <1>1, <1>4, <2>3, <2>4, QuietMove
<1>6. CASE ~(ps[r.lp].runq # << >> \/ sched.runq # << >>)
  <2>1. PICK s : s = [r EXCEPT !.pc = "ho2"]
    OBVIOUS
  <2>2. s \in MRec /\ s.pc = "ho2" /\ Kept(r, s) /\ s.ret = r.ret /\ s.iret = r.iret /\ s.lg = r.lg
       /\ s.curg = r.curg
    BY <1>2, <1>3, <2>1, PlaceNames DEF Known, MRec, Kept
  <2>3. Quiet(r, s)
    BY <1>2, <1>3, <2>2, CallQuiet DEF Known, Kept, Handing
  <2>4. ms' = [ms EXCEPT ![m] = s]
    BY <1>1, <1>2, <1>3, <1>6, <2>1 DEF HandoffWork, At, Known
  <2> QED BY <1>1, <1>4, <2>3, <2>4, QuietMove
<1> QED BY <1>5, <1>6

(* handoffp looks for spinning threads and idle processors.                *)
LEMMA HandoffSpinOk ==
    ASSUME SchedOk, thrown = "none", NEW m \in M, HandoffSpin(m)
    PROVE  SchedOk'
<1>1. PICK r : r = ms[m]
  OBVIOUS
<1>2. Known(m, r)
  BY <1>1, Thread DEF Known
<1>3. r.pc = "ho2"
  BY <1>1 DEF HandoffSpin, At
<1>4. PsSame /\ SchedSame /\ GsSame /\ netready' \subseteq G
  BY <1>2, Unchanged DEF HandoffSpin, Known
<1>5. CASE sched.nmspinning + npidle = 0
  <2>1. PICK s : s = [r EXCEPT !.pc = "ho3"]
    OBVIOUS
  <2>2. s \in MRec /\ s.pc = "ho3" /\ Kept(r, s) /\ s.ret = r.ret /\ s.iret = r.iret /\ s.lg = r.lg
       /\ s.curg = r.curg
    BY <1>2, <1>3, <2>1, PlaceNames DEF Known, MRec, Kept
  <2>3. Quiet(r, s)
    BY <1>2, <1>3, <2>2, CallQuiet DEF Known, Kept, Handing
  <2>4. ms' = [ms EXCEPT ![m] = s]
    BY <1>1, <1>2, <1>3, <1>5, <2>1 DEF HandoffSpin, At, Known
  <2> QED BY <1>1, <1>4, <2>3, <2>4, QuietMove
<1>6. CASE sched.nmspinning + npidle # 0
  <2>1. PICK s : s = [r EXCEPT !.pc = "ho4"]
    OBVIOUS
  <2>2. s \in MRec /\ s.pc = "ho4" /\ Kept(r, s) /\ s.ret = r.ret /\ s.iret = r.iret /\ s.lg = r.lg
       /\ s.curg = r.curg
    BY <1>2, <1>3, <2>1, PlaceNames DEF Known, MRec, Kept
  <2>3. Quiet(r, s)
    BY <1>2, <1>3, <2>2, CallQuiet DEF Known, Kept, Handing
  <2>4. ms' = [ms EXCEPT ![m] = s]
    BY <1>1, <1>2, <1>3, <1>6, <2>1 DEF HandoffSpin, At, Known
  <2> QED BY <1>1, <1>4, <2>3, <2>4, QuietMove
<1> QED BY <1>5, <1>6

(* Nothing was found to steal.                                             *)
LEMMA StealFailOk ==
    ASSUME SchedOk, thrown = "none", NEW m \in M, StealFail(m)
    PROVE  SchedOk'
<1>1. PICK r : r = ms[m]
  OBVIOUS
<1>2. Known(m, r)
  BY <1>1, Thread DEF Known
<1>3. r.pc = "fsteal"
  BY <1>1 DEF StealFail, At
<1>4. PsSame /\ SchedSame /\ GsSame /\ netready' \subseteq G
  BY <1>2, Unchanged DEF StealFail, Known
<1>5. CASE sched.gcwaiting
  <2>1. PICK s : s = [r EXCEPT !.pc = "find"]
    OBVIOUS
  <2>2. s \in MRec /\ s.pc = "find" /\ Kept(r, s) /\ s.iret = r.iret
    BY <1>2, <1>3, <2>1, PlaceNames DEF Known, MRec, Kept
  <2>3. Quiet(r, s)
    BY <1>2, <1>3, <2>2, PlainQuiet DEF Known, Kept, Plain, WithP, Grips, Holding, Running, Stopping,
         Stale
  <2>4. ms' = [ms EXCEPT ![m] = s]
    BY <1>1, <1>2, <1>3, <1>5, <2>1 DEF StealFail, At, Known
  <2> QED BY <1>1, <1>4, <2>3, <2>4, QuietMove
<1>6. CASE ~sched.gcwaiting
  <2>1. PICK s : s = [r EXCEPT !.pc = "fstop"]
    OBVIOUS
  <2>2. s \in MRec /\ s.pc = "fstop" /\ Kept(r, s) /\ s.iret = r.iret
    BY <1>2, <1>3, <2>1, PlaceNames DEF Known, MRec, Kept
  <2>3. Quiet(r, s)
    BY <1>2, <1>3, <2>2, PlainQuiet DEF Known, Kept, Plain, WithP, Grips, Holding, Running, Stopping,
         Stale
  <2>4. ms' = [ms EXCEPT ![m] = s]
    BY <1>1, <1>2, <1>3, <1>6, <2>1 DEF StealFail, At, Known
  <2> QED BY <1>1, <1>4, <2>3, <2>4, QuietMove
<1> QED BY <1>5, <1>6

(* The second look at the queues.                                          *)
LEMMA FindRecheckOk ==
    ASSUME SchedOk, thrown = "none", NEW m \in M, FindRecheck(m)
    PROVE  SchedOk'
<1>1. PICK r : r = ms[m]
  OBVIOUS
<1>2. Known(m, r)
  BY <1>1, Thread DEF Known
<1>3. r.pc = "frecheck"
  BY <1>1 DEF FindRecheck, At
<1>4. PsSame /\ SchedSame /\ GsSame /\ netready' \subseteq G
  BY <1>2, Unchanged DEF FindRecheck, Known
<1>5. CASE r.n \in Pos /\ ps[r.n].runq # << >>
  <2>1. PICK s : s = [r EXCEPT !.pc = "fagain", !.n = 0]
    OBVIOUS
  <2>2. s \in MRec /\ s.pc = "fagain" /\ s.n = 0 /\ Kept(r, s) /\ s.iret = r.iret
    BY <1>2, <1>3, <2>1, PlaceNames DEF Known, MRec, Kept
  <2>3. Quiet(r, s)
    BY <1>2, <1>3, <2>2, AloneQuiet DEF Known, Kept, Alone, Elsewhere, Grips, Holding, Running,
         Stopping, Stale
  <2>4. ms' = [ms EXCEPT ![m] = s]
    BY <1>1, <1>2, <1>3, <1>5, <2>1 DEF FindRecheck, At, Known
  <2> QED BY <1>1, <1>4, <2>3, <2>4, QuietMove
<1>6. CASE r.n \in Pos /\ ps[r.n].runq = << >>
  <2>k. PICK k \in Nat : k = r.n + 1
    BY <1>2 DEF Known, MRec
  <2>1. PICK s : s = [r EXCEPT !.n = k]
    OBVIOUS
  <2>2. s \in MRec /\ s.n = k /\ Kept(r, s) /\ s.pc = r.pc /\ s.iret = r.iret
    BY <1>2, <1>3, <2>1, PlaceNames DEF Known, MRec, Kept
  <2>3. Quiet(r, s)
    BY <1>2, <1>3, <2>2, AloneQuiet DEF Known, Kept, Alone, Elsewhere, Grips, Holding, Running,
         Stopping, Stale
  <2>4. ms' = [ms EXCEPT ![m] = s]
    BY <1>1, <1>2, <1>3, <1>6, <2>1, <2>k DEF FindRecheck, At, Known
  <2> QED BY <1>1, <1>4, <2>3, <2>4, QuietMove
<1>7. CASE r.n \notin Pos
  <2>1. PICK s : s = [r EXCEPT !.pc = "fpoll", !.n = 0]
    OBVIOUS
  <2>2. s \in MRec /\ s.pc = "fpoll" /\ s.n = 0 /\ Kept(r, s) /\ s.iret = r.iret
    BY <1>2, <1>3, <2>1, PlaceNames DEF Known, MRec, Kept
  <2>3. Quiet(r, s)
    BY <1>2, <1>3, <2>2, AloneQuiet DEF Known, Kept, Alone, Elsewhere, Grips, Holding, Running,
         Stopping, Stale
  <2>4. ms' = [ms EXCEPT ![m] = s]
    BY <1>1, <1>2, <1>3, <1>7, <2>1 DEF FindRecheck, At, Known
  <2> QED BY <1>1, <1>4, <2>3, <2>4, QuietMove
<1> QED BY <1>5, <1>6, <1>7

(* One thread at a time blocks in the network poller.                      *)
LEMMA FindPollOk ==
    ASSUME SchedOk, thrown = "none", NEW m \in M, FindPoll(m)
    PROVE  SchedOk'
<1>1. PICK r : r = ms[m]
  OBVIOUS
<1>2. Known(m, r)
  BY <1>1, Thread DEF Known
<1>3. r.pc = "fpoll"
  BY <1>1 DEF FindPoll, At
<1>4. PsSame /\ SchedSame /\ GsSame /\ netready' \subseteq G
  <2>1. SchedSame
    BY <1>2 DEF FindPoll, Known, SRec, SchedSame, SchedKept
  <2> QED BY <1>2, <2>1, Unchanged DEF FindPoll, Known
<1>5. CASE sched.lastpoll
  <2>1. PICK s : s = [r EXCEPT !.pc = "netpoll", !.ret = "find"]
    OBVIOUS
  <2>2. s \in MRec /\ s.pc = "netpoll" /\ s.ret = "find" /\ Kept(r, s) /\ s.iret = r.iret
    BY <1>2, <1>3, <2>1, PlaceNames DEF Known, MRec, Kept
  <2>3. Quiet(r, s)
    BY <1>2, <1>3, <2>2, AloneQuiet DEF Known, Kept, Alone, Elsewhere, Grips, Holding, Running,
         Stopping, Stale
  <2>4. ms' = [ms EXCEPT ![m] = s]
    BY <1>1, <1>2, <1>3, <1>5, <2>1 DEF FindPoll, At, Known
  <2> QED BY <1>1, <1>4, <2>3, <2>4, QuietMove
<1>6. CASE ~sched.lastpoll
  <2>1. PICK s : s = [r EXCEPT !.pc = "stopm", !.ret = "find"]
    OBVIOUS
  <2>2. s \in MRec /\ s.pc = "stopm" /\ s.ret = "find" /\ Kept(r, s) /\ s.iret = r.iret
    BY <1>2, <1>3, <2>1, PlaceNames DEF Known, MRec, Kept
  <2>3. Quiet(r, s)
    BY <1>2, <1>3, <2>2, AloneQuiet DEF Known, Kept, Alone, Elsewhere, Grips, Holding, Running,
         Stopping, Stale
  <2>4. ms' = [ms EXCEPT ![m] = s]
    BY <1>1, <1>2, <1>3, <1>6, <2>1 DEF FindPoll, At, Known
  <2> QED BY <1>1, <1>4, <2>3, <2>4, QuietMove
<1> QED BY <1>5, <1>6

(* The monitor goes to sleep.                                              *)
LEMMA SysmonSleepOk ==
    ASSUME SchedOk, thrown = "none", NEW m \in M, SysmonSleep(m)
    PROVE  SchedOk'
<1>1. PICK r : r = ms[m]
  OBVIOUS
<1>2. Known(m, r)
  BY <1>1, Thread DEF Known
<1>3. r.pc = "sysmon"
  BY <1>1 DEF SysmonSleep, At
<1>4. PsSame /\ SchedSame /\ GsSame /\ netready' \subseteq G
  <2>1. SchedSame
    BY <1>2 DEF SysmonSleep, Known, SRec, SchedSame, SchedKept
  <2> QED BY <1>2, <2>1, Unchanged DEF SysmonSleep, Known
<1>5. PICK s : s = [r EXCEPT !.pc = "smwait"]
  OBVIOUS
<1>6. s \in MRec /\ s.pc = "smwait" /\ Kept(r, s) /\ s.iret = r.iret
  BY <1>2, <1>3, <1>5, PlaceNames DEF Known, MRec, Kept
<1>7. Quiet(r, s)
  BY <1>2, <1>3, <1>6, AloneQuiet DEF Known, Kept, Alone, Elsewhere, Grips, Holding, Running, Stopping,
       Stale
<1>8. ms' = [ms EXCEPT ![m] = s]
  BY <1>1, <1>2, <1>3, <1>5 DEF SysmonSleep, At, Known
<1> QED BY <1>1, <1>4, <1>7, <1>8, QuietMove

(* The monitor wakes up.                                                   *)
LEMMA SysmonWakeOk ==
    ASSUME SchedOk, thrown = "none", NEW m \in M, SysmonWake(m)
    PROVE  SchedOk'
<1>1. PICK r : r = ms[m]
  OBVIOUS
<1>2. Known(m, r)
  BY <1>1, Thread DEF Known
<1>3. r.pc = "smwait"
  BY <1>1 DEF SysmonWake, At
<1>4. PsSame /\ SchedSame /\ GsSame /\ netready' \subseteq G
  <2>1. SchedSame
    BY <1>2 DEF SysmonWake, Known, SRec, SchedSame, SchedKept
  <2> QED BY <1>2, <2>1, Unchanged DEF SysmonWake, Known
<1>5. PICK s : s = [r EXCEPT !.pc = "sysmon"]
  OBVIOUS
<1>6. s \in MRec /\ s.pc = "sysmon" /\ Kept(r, s) /\ s.iret = r.iret
  BY <1>2, <1>3, <1>5, PlaceNames DEF Known, MRec, Kept
<1>7. Quiet(r, s)
  BY <1>2, <1>3, <1>6, AloneQuiet DEF Known, Kept, Alone, Elsewhere, Grips, Holding, Running, Stopping,
       Stale
<1>8. ms' = [ms EXCEPT ![m] = s]
  BY <1>1, <1>2, <1>3, <1>5 DEF SysmonWake, At, Known
<1> QED BY <1>1, <1>4, <1>7, <1>8, QuietMove

(* The monitor counts as idle again.                                       *)
LEMMA SysmonDoneOk ==
    ASSUME SchedOk, thrown = "none", NEW m \in M, SysmonDone(m)
    PROVE  SchedOk'
<1>1. PICK r : r = ms[m]
  OBVIOUS
<1>2. Known(m, r)
  BY <1>1, Thread DEF Known
<1>3. r.pc = "smadd"
  BY <1>1 DEF SysmonDone, At
<1>4. PsSame /\ SchedSame /\ GsSame /\ netready' \subseteq G
  <2>1. SchedSame
    <3>1. sched.nmidlelocked + 1 \in Int
      BY <1>1, <1>2 DEF Known, SRec
    <3>2. sched' = [sched EXCEPT !.nmidlelocked = sched.nmidlelocked + 1]
      BY <1>1, <1>2 DEF SysmonDone
    <3> QED BY <1>2, <3>1, <3>2, SchedField DEF Known
  <2> QED BY <1>2, <2>1, Unchanged DEF SysmonDone, Known
<1>5. PICK s : s = [r EXCEPT !.pc = "sysmon", !.ret = "none"]
  OBVIOUS
<1>6. s \in MRec /\ s.pc = "sysmon" /\ s.ret = "none" /\ Kept(r, s) /\ s.iret = r.iret
  BY <1>2, <1>3, <1>5, PlaceNames DEF Known, MRec, Kept
<1>7. Quiet(r, s)
  BY <1>2, <1>3, <1>6, AloneQuiet DEF Known, Kept, Alone, Elsewhere, Grips, Holding, Running, Stopping,
       Stale
<1>8. ms' = [ms EXCEPT ![m] = s]
  BY <1>1, <1>2, <1>3, <1>5 DEF SysmonDone, At, Known
<1> QED BY <1>1, <1>4, <1>7, <1>8, QuietMove

(* A thread waits for the goroutine that is locked to it.                  *)
LEMMA StopLockedSleepOk ==
    ASSUME SchedOk, thrown = "none", NEW m \in M, StopLockedSleep(m)
    PROVE  SchedOk'
<1>1. PICK r : r = ms[m]
  OBVIOUS
<1>2. Known(m, r)
  BY <1>1, Thread DEF Known
<1>3. r.pc = "slk2"
  BY <1>1 DEF StopLockedSleep, At
<1>4. PsSame /\ SchedSame /\ GsSame /\ netready' \subseteq G
  <2>1. SchedSame
    <3>1. sched.nmidlelocked + 1 \in Int
      BY <1>1, <1>2 DEF Known, SRec
    <3>2. sched' = [sched EXCEPT !.nmidlelocked = sched.nmidlelocked + 1]
      BY <1>1, <1>2 DEF StopLockedSleep
    <3> QED BY <1>2, <3>1, <3>2, SchedField DEF Known
  <2> QED BY <1>2, <2>1, Unchanged DEF StopLockedSleep, Known
<1>5. PICK s : s = [r EXCEPT !.pc = "slkwait", !.ret = "none"]
  OBVIOUS
<1>6. s \in MRec /\ s.pc = "slkwait" /\ s.ret = "none" /\ Kept(r, s) /\ s.iret = r.iret /\ s.lg = r.lg
  BY <1>2, <1>3, <1>5, PlaceNames DEF Known, MRec, Kept
<1>7. Quiet(r, s)
  BY <1>2, <1>3, <1>6, AloneQuiet DEF Known, Kept, Alone, Elsewhere, Grips, Holding, Running, Stopping,
       Stale, Wf, LocalsOf, Cont, Calls, Injecting, Handing
<1>8. ms' = [ms EXCEPT ![m] = s]
  BY <1>1, <1>2, <1>3, <1>5 DEF StopLockedSleep, At, Known
<1> QED BY <1>1, <1>4, <1>7, <1>8, QuietMove

(* A background goroutine is in its system call.                           *)
LEMMA EnterBackgroundOk ==
    ASSUME SchedOk, thrown = "none", NEW m \in M, EnterBackground(m)
    PROVE  SchedOk'
<1>1. PICK r : r = ms[m]
  OBVIOUS
<1>2. Known(m, r)
  BY <1>1, Thread DEF Known
<1>3. r.pc = "esb2"
  BY <1>1 DEF EnterBackground, At
<1>4. PsSame /\ SchedSame /\ GsSame /\ netready' \subseteq G
  <2>1. SchedSame
    <3>1. sched.nmidlelocked + 1 \in Int
      BY <1>1, <1>2 DEF Known, SRec
    <3>2. sched' = [sched EXCEPT !.nmidlelocked = sched.nmidlelocked + 1]
      BY <1>1, <1>2 DEF EnterBackground
    <3> QED BY <1>2, <3>1, <3>2, SchedField DEF Known
  <2> QED BY <1>2, <2>1, Unchanged DEF EnterBackground, Known
<1>5. PICK s : s = [r EXCEPT !.pc = "syscall", !.ret = "none"]
  OBVIOUS
<1>6. s \in MRec /\ s.pc = "syscall" /\ s.ret = "none" /\ Kept(r, s) /\ s.iret = r.iret
     /\ s.curg = r.curg
  BY <1>2, <1>3, <1>5, PlaceNames DEF Known, MRec, Kept
<1>7. Quiet(r, s)
  BY <1>2, <1>3, <1>6, AloneQuiet DEF Known, Kept, Alone, Elsewhere, Grips, Holding, Running, Stopping,
       Stale, Wf, LocalsOf, Cont, Calls, Injecting, Handing
<1>8. ms' = [ms EXCEPT ![m] = s]
  BY <1>1, <1>2, <1>3, <1>5 DEF EnterBackground, At, Known
<1> QED BY <1>1, <1>4, <1>7, <1>8, QuietMove

(* A system call returns.                                                  *)
LEMMA ExitSyscallOk ==
    ASSUME SchedOk, thrown = "none", NEW m \in M, ExitSyscall(m)
    PROVE  SchedOk'
<1>1. PICK r : r = ms[m]
  OBVIOUS
<1>2. Known(m, r)
  BY <1>1, Thread DEF Known
<1>3. r.pc = "syscall"
  BY <1>1 DEF ExitSyscall, At
<1>4. PsSame /\ SchedSame /\ GsSame /\ netready' \subseteq G
  <2>1. SchedSame
    <3>1. sched.nmidlelocked - (IF gs[r.curg].isbackground THEN 1 ELSE 0) \in Int
      BY <1>1, <1>2 DEF Known, SRec
    <3>2. sched' = [sched EXCEPT !.nmidlelocked = sched.nmidlelocked - (IF gs[r.curg].isbackground THEN 1 ELSE 0)]
      BY <1>1, <1>2 DEF ExitSyscall
    <3> QED BY <1>2, <3>1, <3>2, SchedField DEF Known
  <2> QED BY <1>2, <2>1, Unchanged DEF ExitSyscall, Known
<1>5. PICK s : s = [r EXCEPT !.pc = "xsys1", !.ret = "none"]
  OBVIOUS
<1>6. s \in MRec /\ s.pc = "xsys1" /\ s.ret = "none" /\ Kept(r, s) /\ s.iret = r.iret /\ s.curg = r.curg
  BY <1>2, <1>3, <1>5, PlaceNames DEF Known, MRec, Kept
<1>7. Quiet(r, s)
  BY <1>2, <1>3, <1>6, AloneQuiet DEF Known, Kept, Alone, Elsewhere, Grips, Holding, Running, Stopping,
       Stale, Wf, LocalsOf, Cont, Calls, Injecting, Handing
<1>8. ms' = [ms EXCEPT ![m] = s]
  BY <1>1, <1>2, <1>3, <1>5 DEF ExitSyscall, At, Known
<1> QED BY <1>1, <1>4, <1>7, <1>8, QuietMove

(* A thread that leaves a system call looks at stopwait.                   *)
LEMMA ExitStopwaitOk ==
    ASSUME SchedOk, thrown = "none", NEW m \in M, ExitStopwait(m)
    PROVE  SchedOk'
<1>1. PICK r : r = ms[m]
  OBVIOUS
<1>2. Known(m, r)
  BY <1>1, Thread DEF Known
<1>3. r.pc = "xsys1"
  BY <1>1 DEF ExitStopwait, At
<1>4. PsSame /\ SchedSame /\ GsSame /\ netready' \subseteq G
  BY <1>2, Unchanged DEF ExitStopwait, Known
<1>5. CASE sched.stopwait # 0
  <2>1. PICK s : s = [r EXCEPT !.pc = "xsys4", !.p = None]
    OBVIOUS
  <2>2. s \in MRec /\ s.pc = "xsys4" /\ s.p = None /\ s.nextp = r.nextp /\ s.spinning = r.spinning
       /\ s.lp = r.lp /\ s.lm = r.lm /\ s.todo = r.todo /\ s.sp = r.sp /\ s.iret = r.iret
       /\ s.curg = r.curg
    BY <1>2, <1>3, <2>1, PlaceNames DEF Known, MRec, Kept
  <2>3. Quiet(r, s)
    BY <1>2, <1>3, <2>2, AloneQuiet DEF Known, Kept, Alone, Elsewhere, Grips, Holding, Running,
         Stopping, Stale, Wf, LocalsOf, Cont, Calls, Injecting, Handing
  <2>4. ms' = [ms EXCEPT ![m] = s]
    BY <1>1, <1>2, <1>3, <1>5, <2>1 DEF ExitStopwait, At, Known
  <2> QED BY <1>1, <1>4, <2>3, <2>4, QuietMove
<1>6. CASE sched.stopwait = 0
  <2>1. PICK s : s = [r EXCEPT !.pc = "xsys2"]
    OBVIOUS
  <2>2. s \in MRec /\ s.pc = "xsys2" /\ Kept(r, s) /\ s.iret = r.iret /\ s.curg = r.curg
    BY <1>2, <1>3, <2>1, PlaceNames DEF Known, MRec, Kept
  <2>3. Quiet(r, s)
    BY <1>2, <1>3, <2>2, AloneQuiet DEF Known, Kept, Alone, Elsewhere, Grips, Holding, Running,
         Stopping, Stale, Wf, LocalsOf, Cont, Calls, Injecting, Handing
  <2>4. ms' = [ms EXCEPT ![m] = s]
    BY <1>1, <1>2, <1>3, <1>6, <2>1 DEF ExitStopwait, At, Known
  <2> QED BY <1>1, <1>4, <2>3, <2>4, QuietMove
<1> QED BY <1>5, <1>6

(* A helper of the collector is done.                                      *)
LEMMA GchelperOk ==
    ASSUME SchedOk, thrown = "none", NEW m \in M, Gchelper(m)
    PROVE  SchedOk'
<1>1. PICK r : r = ms[m]
  OBVIOUS
<1>2. Known(m, r)
  BY <1>1, Thread DEF Known
<1>3. r.pc = "gchelper"
  BY <1>1 DEF Gchelper, At
<1>4. PsSame /\ SchedSame /\ GsSame /\ netready' \subseteq G
  <2>1. SchedSame
    <3>1. sched.helpers - 1 \in Int
      BY <1>1, <1>2 DEF Known, SRec
    <3>2. sched' = [sched EXCEPT !.helpers = sched.helpers - 1]
      BY <1>1, <1>2 DEF Gchelper
    <3> QED BY <1>2, <3>1, <3>2, SchedField DEF Known
  <2> QED BY <1>2, <2>1, Unchanged DEF Gchelper, Known
<1>5. PICK s : s = [r EXCEPT !.pc = "stopm", !.helpgc = FALSE]
  OBVIOUS
<1>6. s \in MRec /\ s.pc = "stopm" /\ s.helpgc = FALSE /\ Kept(r, s) /\ s.iret = r.iret /\ s.ret = r.ret
  BY <1>2, <1>3, <1>5, PlaceNames DEF Known, MRec, Kept
<1>7. Quiet(r, s)
  BY <1>2, <1>3, <1>6, AloneQuiet DEF Known, Kept, Alone, Elsewhere, Grips, Holding, Running, Stopping,
       Stale, Wf, ReturnsOf
<1>8. ms' = [ms EXCEPT ![m] = s]
  BY <1>1, <1>2, <1>3, <1>5 DEF Gchelper, At, Known
<1> QED BY <1>1, <1>4, <1>7, <1>8, QuietMove

(* injectglist starts threads as long as there are idle processors.        *)
LEMMA InjectLoopOk ==
    ASSUME SchedOk, thrown = "none", NEW m \in M, InjectLoop(m)
    PROVE  SchedOk'
<1>1. PICK r : r = ms[m]
  OBVIOUS
<1>2. Known(m, r)
  BY <1>1, Thread DEF Known
<1>3. r.pc = "injloop"
  BY <1>1 DEF InjectLoop, At
<1>4. PsSame /\ SchedSame /\ GsSame /\ netready' \subseteq G
  BY <1>2, Unchanged DEF InjectLoop, Known
<1>5. CASE MoreToStart(m)
  <2>k. PICK k \in Nat : k = r.n - 1
    BY <1>1, <1>2, <1>5 DEF Known, MRec, MoreToStart
  <2>1. PICK s : s = [r EXCEPT !.n = k, !.pc = "startm", !.ret = "injloop"]
    OBVIOUS
  <2>2. s \in MRec /\ s.n = k /\ s.pc = "startm" /\ s.ret = "injloop" /\ Kept(r, s) /\ s.iret = r.iret
       /\ s.lg = r.lg /\ s.curg = r.curg
    BY <1>2, <1>3, <2>1, PlaceNames DEF Known, MRec, Kept
  <2>3. Quiet(r, s)
    BY <1>2, <1>3, <2>2, LoopQuiet DEF Known, Kept, Injecting
  <2>4. ms' = [ms EXCEPT ![m] = s]
    BY <1>1, <1>2, <1>3, <1>5, <2>1, <2>k DEF InjectLoop, At, Known
  <2> QED BY <1>1, <1>4, <2>3, <2>4, QuietMove
<1>6. CASE ~MoreToStart(m)
  <2>k. PICK k \in Place : k = IF r.iret = "stopm" THEN "find" ELSE "none"
    BY PlaceNames
  <2>1. PICK s : s = [r EXCEPT !.n = 0, !.pc = r.iret, !.iret = "none", !.ret = k]
    OBVIOUS
  <2>2. s \in MRec /\ s.n = 0 /\ s.pc = r.iret /\ s.iret = "none" /\ s.ret = k /\ Kept(r, s)
       /\ s.lg = r.lg /\ s.curg = r.curg
    BY <1>2, <1>3, <2>1, PlaceNames DEF Known, MRec, Kept
  <2>3. Quiet(r, s)
    BY <1>2, <1>3, <2>2, LoopQuiet, <2>k DEF Known, Kept, Injecting
  <2>4. ms' = [ms EXCEPT ![m] = s]
    BY <1>1, <1>2, <1>3, <1>6, <2>1, <2>k DEF InjectLoop, At, Known
  <2> QED BY <1>1, <1>4, <2>3, <2>4, QuietMove
<1> QED BY <1>5, <1>6

(***************************************************************************)
(* Actions that take a goroutine from a queue.                             *)
(***************************************************************************)
(* globrunqget in schedule, findrunnable's first look and its last one.     *)
LEMMA GlobrunqgetOk ==
    ASSUME SchedOk, thrown = "none", NEW m \in M, ms[m].pc \in {"sched", "fglob", "fstop"},
           NEW max \in {0, 1}, Globrunqget(m, max), gs' = gs, netready' = netready
    PROVE  SchedOk'
<1>1. PICK r : r = ms[m]
  OBVIOUS
<1>2. Known(m, r)
  BY <1>1, Thread DEF Known
<1>3. r.pc \in {"sched", "fglob", "fstop"}
  BY <1>1
<1>4. PICK n : n = Share(max)
  OBVIOUS
<1>5. PICK q \in Seq(G) : q = sched.runq
  BY <1>2 DEF Known, SRec
<1>6. q # << >> /\ Len(q) \in Nat \ {0} /\ Head(q) \in G
  BY <1>5 DEF Globrunqget
<1>7. n \in 1 .. Len(q)
  <2>1. sched.gomaxprocs \in Nat \ {0}
    BY <1>2, PosInP DEF Known
  <2>2. PICK d \in Nat : d = Len(q) \div sched.gomaxprocs
    BY <1>6, <2>1
  <2> QED BY <1>4, <1>5, <1>6, <2>2 DEF Share, Least
<1>8. SubSeq(q, 2, n) \in Seq(G) /\ SubSeq(q, n + 1, Len(q)) \in Seq(G)
  BY <1>6, <1>7, PartOf
<1>9. PsSame
  <2>1. PICK p : p = r.p
    OBVIOUS
  <2>2. ps' = [ps EXCEPT ![p].runq = ps[p].runq \o SubSeq(q, 2, n)]
    BY <1>1, <1>4, <1>5, <2>1 DEF Globrunqget
  <2>3. CASE p \in P
    <3>1. ps[p].runq \in Seq(G)
      BY <1>2, <2>3 DEF Known, PRec
    <3>2. ps[p].runq \o SubSeq(q, 2, n) \in Seq(G)
      BY <1>8, <3>1, ConcatProperties
    <3> QED BY <1>2, <2>2, <3>2, PsRunq DEF Known
  <2>4. CASE p \notin P
    <3>1. ps' = ps
      BY <1>2, <2>2, <2>4 DEF Known
    <3> QED BY <1>2, <3>1, Unchanged DEF Known
  <2> QED BY <2>3, <2>4
<1>10. SchedSame
  <2>1. sched' = [sched EXCEPT !.runq = SubSeq(q, n + 1, Len(q))]
    BY <1>4, <1>5 DEF Globrunqget
  <2> QED BY <1>2, <1>8, <2>1, SchedField DEF Known
<1>11. PICK h \in G : h = Head(q)
  BY <1>6
<1>12. PICK s : s = [r EXCEPT !.lg = h, !.pc = "reset"]
  OBVIOUS
<1>13. s \in MRec /\ s.lg = h /\ s.pc = "reset" /\ Kept(r, s) /\ s.iret = r.iret
  BY <1>2, <1>12, PlaceNames DEF Known, MRec, Kept
<1>14. Quiet(r, s)
  BY <1>2, <1>3, <1>13, Consts, PlainQuiet DEF Known, Plain, WithP, Grips, Holding, Running, Stopping, Stale
<1>15. ms' = [ms EXCEPT ![m] = s]
  BY <1>1, <1>2, <1>5, <1>11, <1>12 DEF Globrunqget, Known
<1> QED BY <1>1, <1>2, <1>9, <1>10, <1>14, <1>15, Unchanged, QuietMove DEF Known

(* schedule takes from the global queue.                                   *)
LEMMA PickGlobalOk ==
    ASSUME SchedOk, thrown = "none", NEW m \in M, PickGlobal(m)
    PROVE  SchedOk'
BY GlobrunqgetOk DEF PickGlobal, At

(* The thread's own queue, in schedule.                                    *)
LEMMA PickLocalOk ==
    ASSUME SchedOk, thrown = "none", NEW m \in M, PickLocal(m)
    PROVE  SchedOk'
<1>1. PICK r : r = ms[m]
  OBVIOUS
<1>2. Known(m, r)
  BY <1>1, Thread DEF Known
<1>3. r.pc = "sched"
  BY <1>1 DEF PickLocal, At
<1>5. CASE ps[r.p].runq # << >>
  <2>p. r.p \in P
    BY <1>2, <1>3 DEF Known, MRec, Wf, LocalsOf, Cont, Calls, Injecting, Handing, WithP
  <2>q. PICK q \in Seq(G) : q = ps[r.p].runq
    BY <1>2, <2>p DEF Known, PRec
  <2>t. Head(q) \in G /\ Tail(q) \in Seq(G)
    BY <1>5, <2>q
  <2>h. PICK h \in G : h = Head(q)
    BY <2>t
  <2>f. PsSame /\ SchedSame /\ GsSame /\ netready' \subseteq G
    <3>1. PsSame
      <4>1. ps' = [ps EXCEPT ![r.p].runq = Tail(q)]
        BY <1>1, <1>5, <2>q DEF PickLocal
      <4> QED BY <1>2, <2>t, <4>1, PsRunq DEF Known
    <3> QED BY <1>2, <1>5, <3>1, Unchanged DEF PickLocal, Known
  <2>1. PICK s : s = [r EXCEPT !.lg = h, !.pc = "gotg"]
    OBVIOUS
  <2>2. s \in MRec /\ s.lg = h /\ s.pc = "gotg" /\ Kept(r, s) /\ s.iret = r.iret
    BY <1>2, <1>3, <2>1, PlaceNames DEF Known, MRec, Kept
  <2>3. Quiet(r, s)
    BY <1>2, <1>3, <2>2, PlainQuiet, <2>h, Consts DEF Known, Kept, Plain, WithP, Grips, Holding,
         Running, Stopping, Stale
  <2>4. ms' = [ms EXCEPT ![m] = s]
    BY <1>1, <1>2, <1>3, <1>5, <2>1, <2>q, <2>h DEF PickLocal, At, Known
  <2> QED BY <1>1, <2>f, <2>3, <2>4, QuietMove
<1>6. CASE ps[r.p].runq = << >>
  <2>f. PsSame /\ SchedSame /\ GsSame /\ netready' \subseteq G
    <3>1. PsSame
      BY <1>1, <1>2, <1>6, Unchanged DEF PickLocal, Known
    <3> QED BY <1>2, <1>6, <3>1, Unchanged DEF PickLocal, Known
  <2>1. PICK s : s = [r EXCEPT !.pc = "find"]
    OBVIOUS
  <2>2. s \in MRec /\ s.pc = "find" /\ Kept(r, s) /\ s.iret = r.iret
    BY <1>2, <1>3, <2>1, PlaceNames DEF Known, MRec, Kept
  <2>3. Quiet(r, s)
    BY <1>2, <1>3, <2>2, PlainQuiet DEF Known, Kept, Plain, WithP, Grips, Holding, Running, Stopping,
         Stale
  <2>4. ms' = [ms EXCEPT ![m] = s]
    BY <1>1, <1>2, <1>3, <1>6, <2>1 DEF PickLocal, At, Known
  <2> QED BY <1>1, <2>f, <2>3, <2>4, QuietMove
<1> QED BY <1>5, <1>6

(* The thread's own queue, in findrunnable.                                *)
LEMMA FindLocalOk ==
    ASSUME SchedOk, thrown = "none", NEW m \in M, FindLocal(m)
    PROVE  SchedOk'
<1>1. PICK r : r = ms[m]
  OBVIOUS
<1>2. Known(m, r)
  BY <1>1, Thread DEF Known
<1>3. r.pc = "find"
  BY <1>1 DEF FindLocal, At
<1>5. CASE ps[r.p].runq # << >>
  <2>p. r.p \in P
    BY <1>2, <1>3 DEF Known, MRec, Wf, LocalsOf, Cont, Calls, Injecting, Handing, WithP
  <2>q. PICK q \in Seq(G) : q = ps[r.p].runq
    BY <1>2, <2>p DEF Known, PRec
  <2>t. Head(q) \in G /\ Tail(q) \in Seq(G)
    BY <1>5, <2>q
  <2>h. PICK h \in G : h = Head(q)
    BY <2>t
  <2>f. PsSame /\ SchedSame /\ GsSame /\ netready' \subseteq G
    <3>1. PsSame
      <4>1. ps' = [ps EXCEPT ![r.p].runq = Tail(q)]
        BY <1>1, <1>5, <2>q DEF FindLocal
      <4> QED BY <1>2, <2>t, <4>1, PsRunq DEF Known
    <3> QED BY <1>2, <1>5, <3>1, Unchanged DEF FindLocal, Known
  <2>1. PICK s : s = [r EXCEPT !.lg = h, !.pc = "reset"]
    OBVIOUS
  <2>2. s \in MRec /\ s.lg = h /\ s.pc = "reset" /\ Kept(r, s) /\ s.iret = r.iret
    BY <1>2, <1>3, <2>1, PlaceNames DEF Known, MRec, Kept
  <2>3. Quiet(r, s)
    BY <1>2, <1>3, <2>2, PlainQuiet, <2>h, Consts DEF Known, Kept, Plain, WithP, Grips, Holding,
         Running, Stopping, Stale
  <2>4. ms' = [ms EXCEPT ![m] = s]
    BY <1>1, <1>2, <1>3, <1>5, <2>1, <2>q, <2>h DEF FindLocal, At, Known
  <2> QED BY <1>1, <2>f, <2>3, <2>4, QuietMove
<1>6. CASE ps[r.p].runq = << >>
  <2>f. PsSame /\ SchedSame /\ GsSame /\ netready' \subseteq G
    <3>1. PsSame
      BY <1>1, <1>2, <1>6, Unchanged DEF FindLocal, Known
    <3> QED BY <1>2, <1>6, <3>1, Unchanged DEF FindLocal, Known
  <2>1. PICK s : s = [r EXCEPT !.pc = "fglob"]
    OBVIOUS
  <2>2. s \in MRec /\ s.pc = "fglob" /\ Kept(r, s) /\ s.iret = r.iret
    BY <1>2, <1>3, <2>1, PlaceNames DEF Known, MRec, Kept
  <2>3. Quiet(r, s)
    BY <1>2, <1>3, <2>2, PlainQuiet DEF Known, Kept, Plain, WithP, Grips, Holding, Running, Stopping,
         Stale
  <2>4. ms' = [ms EXCEPT ![m] = s]
    BY <1>1, <1>2, <1>3, <1>6, <2>1 DEF FindLocal, At, Known
  <2> QED BY <1>1, <2>f, <2>3, <2>4, QuietMove
<1> QED BY <1>5, <1>6

(* A goroutine from the network poller is made runnable.                   *)
LEMMA NetGotOk ==
    ASSUME SchedOk, thrown = "none", NEW m \in M, NetGot(m)
    PROVE  SchedOk'
<1>1. PICK r : r = ms[m]
  OBVIOUS
<1>2. Known(m, r)
  BY <1>1, Thread DEF Known
<1>3. r.pc = "netgot"
  BY <1>1 DEF NetGot, At
<1>4. PsSame /\ SchedSame /\ GsSame /\ netready' \subseteq G
  <2>1. GsSame
    <3>1. PICK g : g = r.lg
      OBVIOUS
    <3>2. gs' = [gs EXCEPT ![g] = [gs[g] EXCEPT !.status = "Grunnable", !.net = "no"]]
      BY <1>1, <1>2, <3>1 DEF NetGot, Known
    <3>3. CASE g \in G
      <4>1. PICK h : h = [gs[g] EXCEPT !.status = "Grunnable", !.net = "no"]
        OBVIOUS
      <4>2. h \in GRec /\ h.lockedm = gs[g].lockedm
        BY <1>2, <3>3, <4>1 DEF Known, GRec
      <4> QED BY <1>2, <3>2, <4>1, <4>2, GsOne DEF Known
    <3>4. CASE g \notin G
      BY <1>2, <3>2, <3>4, Unchanged DEF Known
    <3> QED BY <3>3, <3>4
  <2> QED BY <1>2, <2>1, Unchanged DEF NetGot, Known
<1>5. PICK s : s = [r EXCEPT !.pc = "reset"]
  OBVIOUS
<1>6. s \in MRec /\ s.pc = "reset" /\ Kept(r, s) /\ s.iret = r.iret /\ s.lg = r.lg
  BY <1>2, <1>3, <1>5, PlaceNames DEF Known, MRec, Kept
<1>7. Quiet(r, s)
  BY <1>2, <1>3, <1>6, PlainQuiet DEF Known, Kept, Plain, WithP, Grips, Holding, Running, Stopping,
       Stale, Wf, LocalsOf, Cont, Calls, Injecting, Handing
<1>8. ms' = [ms EXCEPT ![m] = s]
  BY <1>1, <1>2, <1>3, <1>5 DEF NetGot, At, Known
<1> QED BY <1>1, <1>4, <1>7, <1>8, QuietMove

(* findrunnable looks at the global queue.                                 *)
LEMMA FindGlobalOk ==
    ASSUME SchedOk, thrown = "none", NEW m \in M, FindGlobal(m)
    PROVE  SchedOk'
<1>1. PICK r : r = ms[m]
  OBVIOUS
<1>2. Known(m, r)
  BY <1>1, Thread DEF Known
<1>3. r.pc = "fglob"
  BY <1>1 DEF FindGlobal, At
<1>5. CASE sched.runq = << >>
  <2>k. PICK k : k = (IF sched.net THEN "fnet" ELSE "fspin") /\ k \in Place
    BY PlaceNames
  <2>g. ~(\E max \in {0} : Globrunqget(m, max))
    BY <1>5 DEF Globrunqget
  <2>f. PsSame /\ SchedSame /\ GsSame /\ netready' \subseteq G
    <3>1. PsSame
      BY <1>2, <2>g, Unchanged DEF FindGlobal, Known
    <3>2. SchedSame
      BY <1>2, <2>g, Unchanged DEF FindGlobal, Known
    <3> QED BY <1>2, <1>5, <3>1, <3>2, Unchanged DEF FindGlobal, Known
  <2>1. PICK s : s = [r EXCEPT !.pc = k]
    OBVIOUS
  <2>2. s \in MRec /\ s.pc = k /\ Kept(r, s) /\ s.iret = r.iret
    BY <1>2, <1>3, <2>1, PlaceNames, <2>k, ZenonT(60) DEF Known, MRec, Kept
  <2>3. Quiet(r, s)
    BY <1>2, <1>3, <2>2, PlainQuiet, <2>k DEF Known, Kept, Plain, WithP, Grips, Holding, Running,
         Stopping, Stale
  <2>4. ms' = [ms EXCEPT ![m] = s]
    BY <1>1, <1>2, <1>3, <1>5, <2>1, <2>k, <2>g DEF FindGlobal, At, Known
  <2> QED BY <1>1, <2>f, <2>3, <2>4, QuietMove
<1>6. CASE sched.runq # << >>
  BY <1>1, <1>3, <1>6, GlobrunqgetOk DEF FindGlobal
<1> QED BY <1>5, <1>6

(* execute.                                                                *)
LEMMA ExecuteOk ==
    ASSUME SchedOk, thrown = "none", NEW m \in M, Execute(m)
    PROVE  SchedOk'
<1>1. PICK r : r = ms[m]
  OBVIOUS
<1>2. Known(m, r)
  BY <1>1, Thread DEF Known
<1>3. r.pc = "gotg"
  BY <1>1 DEF Execute, At
<1>4. PsSame /\ SchedSame /\ GsSame /\ netready' \subseteq G
  <2>1. GsSame
    <3>1. PICK g : g = r.lg
      OBVIOUS
    <3>2. g \in G
      BY <1>2, <1>3, <3>1 DEF Known, MRec, Wf, LocalsOf, Cont, Calls, Injecting, Handing, Holding
    <3>3. PICK h : h = [gs[g] EXCEPT !.status = "Grunning", !.preempt = FALSE]
      OBVIOUS
    <3>4. h \in GRec /\ h.lockedm = gs[g].lockedm
      BY <1>2, <3>2, <3>3 DEF Known, GRec
    <3>5. gs' = [gs EXCEPT ![g] = h]
      BY <1>1, <1>2, <3>1, <3>2, <3>3 DEF Execute, Executed, Known
    <3> QED BY <1>2, <3>4, <3>5, GsOne DEF Known
  <2> QED BY <1>2, <2>1, Unchanged DEF Execute, Known
<1>5. PICK s : s = [r EXCEPT !.curg = r.lg, !.lg = None, !.pc = "user", !.ret = "none"]
  OBVIOUS
<1>6. s \in MRec /\ s.curg = r.lg /\ s.lg = None /\ s.pc = "user" /\ s.ret = "none" /\ Kept(r, s)
     /\ s.iret = r.iret
  BY <1>2, <1>3, <1>5, PlaceNames DEF Known, MRec, Kept
<1>7. Quiet(r, s)
  BY <1>2, <1>3, <1>6, PlainQuiet DEF Known, Kept, Plain, WithP, Grips, Holding, Running, Stopping,
       Stale, Wf, LocalsOf, Cont, Calls, Injecting, Handing
<1>8. ms' = [ms EXCEPT ![m] = s]
  BY <1>1, <1>2, <1>3, <1>5 DEF Execute, At, Known
<1> QED BY <1>1, <1>4, <1>7, <1>8, QuietMove

(***************************************************************************)
(* Actions of the network poller, the monitor and procresize.              *)
(***************************************************************************)
(* findrunnable asks the network poller.                                   *)
LEMMA FindNetOk ==
    ASSUME SchedOk, thrown = "none", NEW m \in M, FindNet(m)
    PROVE  SchedOk'
<1>1. PICK r : r = ms[m]
  OBVIOUS
<1>2. Known(m, r)
  BY <1>1, Thread DEF Known
<1>3. r.pc = "fnet"
  BY <1>1 DEF FindNet, At
<1>4. PsSame /\ SchedSame /\ GsSame /\ netready' \subseteq G
  <2>1. netready' \subseteq G
    BY DEF FindNet
  <2> QED BY <1>2, <2>1, Unchanged DEF FindNet, Known
<1>5. CASE netready = {}
  <2>1. PICK s : s = [r EXCEPT !.pc = "fspin"]
    OBVIOUS
  <2>2. s \in MRec /\ s.pc = "fspin" /\ Kept(r, s) /\ s.iret = r.iret
    BY <1>2, <1>3, <2>1, PlaceNames DEF Known, MRec, Kept
  <2>3. Quiet(r, s)
    BY <1>2, <1>3, <2>2, PlainQuiet DEF Known, Kept, Plain, WithP, Grips, Holding, Running, Stopping,
         Stale
  <2>4. ms' = [ms EXCEPT ![m] = s]
    BY <1>1, <1>2, <1>3, <1>5, <2>1 DEF FindNet, At, Known
  <2> QED BY <1>1, <1>4, <2>3, <2>4, QuietMove
<1>6. CASE netready # {}
  <2>l. PICK l \in ReadyLists : ms' = [ms EXCEPT ![m].lg = Head(l), ![m].glist = Others(l),
       ![m].pc = "inject", ![m].iret = "netgot"]
    BY <1>6 DEF FindNet
  <2>h. PICK g \in G : g = Head(l) /\ g # None
    BY <1>2, <1>6, ReadyIs DEF Known
  <2>t. PICK t \in Seq(G) : t = Others(l)
    BY <1>2, <1>6, ReadyIs DEF Known, Others
  <2>1. PICK s : s = [r EXCEPT !.lg = g, !.glist = t, !.pc = "inject", !.iret = "netgot"]
    OBVIOUS
  <2>2. s \in MRec /\ s.lg = g /\ s.glist = t /\ s.pc = "inject" /\ s.iret = "netgot" /\ Kept(r, s)
    BY <1>2, <1>3, <2>1, PlaceNames DEF Known, MRec, Kept
  <2>3. Quiet(r, s)
    BY <1>2, <1>3, <2>2, InjectQuiet, <2>h DEF Known, Kept
  <2>4. ms' = [ms EXCEPT ![m] = s]
    BY <1>1, <1>2, <1>3, <1>6, <2>1, <2>l, <2>h, <2>t DEF FindNet, At, Known
  <2> QED BY <1>1, <1>4, <2>3, <2>4, QuietMove
<1> QED BY <1>5, <1>6

(* The blocking call of the network poller returns.                        *)
LEMMA PollReturnOk ==
    ASSUME SchedOk, thrown = "none", NEW m \in M, PollReturn(m)
    PROVE  SchedOk'
<1>1. PICK r : r = ms[m]
  OBVIOUS
<1>2. Known(m, r)
  BY <1>1, Thread DEF Known
<1>3. r.pc = "netpoll"
  BY <1>1 DEF PollReturn, At
<1>4. PsSame /\ SchedSame /\ GsSame /\ netready' \subseteq G
  <2>1. SchedSame
    BY <1>2 DEF PollReturn, Known, SRec, SchedSame, SchedKept
  <2>2. netready' \subseteq G
    BY DEF PollReturn
  <2> QED BY <1>2, <2>1, <2>2, Unchanged DEF PollReturn, Known
<1>5. CASE sched.net
  <2>l. PICK l \in ReadyLists : ms' = [ms EXCEPT ![m].glist = l, ![m].pc = "pollgot"]
    BY <1>5 DEF PollReturn
  <2>h. l \in Seq(G) /\ l # << >>
    BY <1>2, <1>5, ReadyIs DEF Known, PollReturn
  <2>1. PICK s : s = [r EXCEPT !.glist = l, !.pc = "pollgot"]
    OBVIOUS
  <2>2. s \in MRec /\ s.glist = l /\ s.pc = "pollgot" /\ Kept(r, s) /\ s.iret = r.iret /\ s.ret = r.ret
    BY <1>2, <1>3, <2>1, PlaceNames, <2>h DEF Known, MRec, Kept
  <2>3. Quiet(r, s)
    BY <1>2, <1>3, <2>2, AloneQuiet, <2>h DEF Known, Kept, Alone, Elsewhere, Grips, Holding, Running,
         Stopping, Stale, Wf, ReturnsOf, Injecting
  <2>4. ms' = [ms EXCEPT ![m] = s]
    BY <1>1, <1>2, <1>3, <1>5, <2>1, <2>l DEF PollReturn, At, Known
  <2> QED BY <1>1, <1>4, <2>3, <2>4, QuietMove
<1>6. CASE ~sched.net
  <2>1. PICK s : s = [r EXCEPT !.pc = "stopm"]
    OBVIOUS
  <2>2. s \in MRec /\ s.pc = "stopm" /\ Kept(r, s) /\ s.iret = r.iret /\ s.ret = r.ret
    BY <1>2, <1>3, <2>1, PlaceNames DEF Known, MRec, Kept
  <2>3. Quiet(r, s)
    BY <1>2, <1>3, <2>2, AloneQuiet DEF Known, Kept, Alone, Elsewhere, Grips, Holding, Running,
         Stopping, Stale, Wf, ReturnsOf, Injecting
  <2>4. ms' = [ms EXCEPT ![m] = s]
    BY <1>1, <1>2, <1>3, <1>6, <2>1 DEF PollReturn, At, Known
  <2> QED BY <1>1, <1>4, <2>3, <2>4, QuietMove
<1> QED BY <1>5, <1>6

(* The network poller before the world is started.                         *)
LEMMA StartPollOk ==
    ASSUME SchedOk, thrown = "none", NEW m \in M, StartPoll(m)
    PROVE  SchedOk'
<1>1. PICK r : r = ms[m]
  OBVIOUS
<1>2. Known(m, r)
  BY <1>1, Thread DEF Known
<1>3. r.pc = "start0"
  BY <1>1 DEF StartPoll, At
<1>l. PICK l \in ReadyLists : ms' = [ms EXCEPT ![m].glist = l, ![m].pc = "inject", ![m].iret = "start1"]
  BY DEF StartPoll
<1>m. l \in Seq(G)
  BY <1>2, ReadyIs DEF Known
<1>4. PsSame /\ SchedSame /\ GsSame /\ netready' \subseteq G
  <2>1. netready' \subseteq G
    BY DEF StartPoll
  <2> QED BY <1>2, <2>1, Unchanged DEF StartPoll, Known
<1>5. PICK s : s = [r EXCEPT !.glist = l, !.pc = "inject", !.iret = "start1"]
  OBVIOUS
<1>6. s \in MRec /\ s.glist = l /\ s.pc = "inject" /\ s.iret = "start1" /\ Kept(r, s) /\ s.curg = r.curg
  BY <1>2, <1>3, <1>5, PlaceNames, <1>m DEF Known, MRec, Kept
<1>7. Quiet(r, s)
  BY <1>2, <1>3, <1>6, InjectQuiet DEF Known, Kept
<1>8. ms' = [ms EXCEPT ![m] = s]
  BY <1>1, <1>2, <1>3, <1>5, <1>l DEF StartPoll, At, Known
<1> QED BY <1>1, <1>4, <1>7, <1>8, QuietMove

(* The monitor polls the network.                                          *)
LEMMA SysmonPollOk ==
    ASSUME SchedOk, thrown = "none", NEW m \in M, SysmonPoll(m)
    PROVE  SchedOk'
<1>1. PICK r : r = ms[m]
  OBVIOUS
<1>2. Known(m, r)
  BY <1>1, Thread DEF Known
<1>3. r.pc = "sysmon"
  BY <1>1 DEF SysmonPoll, At
<1>l. PICK l \in ReadyLists : ms' = [ms EXCEPT ![m].glist = l, ![m].pc = "smsub"]
  BY DEF SysmonPoll
<1>m. l \in Seq(G)
  BY <1>2, ReadyIs DEF Known
<1>4. PsSame /\ SchedSame /\ GsSame /\ netready' \subseteq G
  <2>1. netready' \subseteq G
    BY DEF SysmonPoll
  <2> QED BY <1>2, <2>1, Unchanged DEF SysmonPoll, Known
<1>5. PICK s : s = [r EXCEPT !.glist = l, !.pc = "smsub"]
  OBVIOUS
<1>6. s \in MRec /\ s.glist = l /\ s.pc = "smsub" /\ Kept(r, s) /\ s.iret = r.iret
  BY <1>2, <1>3, <1>5, PlaceNames, <1>m DEF Known, MRec, Kept
<1>7. Quiet(r, s)
  BY <1>2, <1>3, <1>6, AloneQuiet DEF Known, Kept, Alone, Elsewhere, Grips, Holding, Running, Stopping,
       Stale
<1>8. ms' = [ms EXCEPT ![m] = s]
  BY <1>1, <1>2, <1>3, <1>5, <1>l DEF SysmonPoll, At, Known
<1> QED BY <1>1, <1>4, <1>7, <1>8, QuietMove

(* The monitor finds a processor that is left in a system call.            *)
LEMMA RetakeOk ==
    ASSUME SchedOk, thrown = "none", NEW m \in M, Retake(m)
    PROVE  SchedOk'
<1>1. PICK r : r = ms[m]
  OBVIOUS
<1>2. Known(m, r)
  BY <1>1, Thread DEF Known
<1>3. r.pc = "sysmon"
  BY <1>1 DEF Retake, At
<1>p. PICK p \in Pos : ms' = [ms EXCEPT ![m].lp = p, ![m].pc = "smsub"]
  BY DEF Retake
<1>i. p \in P
  BY <1>2, PosInP DEF Known
<1>4. PsSame /\ SchedSame /\ GsSame /\ netready' \subseteq G
  BY <1>2, Unchanged DEF Retake, Known
<1>5. PICK s : s = [r EXCEPT !.lp = p, !.pc = "smsub"]
  OBVIOUS
<1>6. s \in MRec /\ s.lp = p /\ s.pc = "smsub" /\ s.p = r.p /\ s.nextp = r.nextp
     /\ s.spinning = r.spinning /\ s.lm = r.lm /\ s.todo = r.todo /\ s.sp = r.sp /\ s.iret = r.iret
  BY <1>2, <1>3, <1>5, PlaceNames, <1>i DEF Known, MRec, Kept
<1>7. Quiet(r, s)
  BY <1>2, <1>3, <1>6, AloneQuiet DEF Known, Kept, Alone, Elsewhere, Grips, Holding, Running, Stopping,
       Stale, Wf, LocalsOf, Cont, Calls, Injecting, Handing
<1>8. ms' = [ms EXCEPT ![m] = s]
  BY <1>1, <1>2, <1>3, <1>5, <1>p DEF Retake, At, Known
<1> QED BY <1>1, <1>4, <1>7, <1>8, QuietMove

(* The monitor counts as running while it injects or retakes.              *)
LEMMA SysmonCountsOk ==
    ASSUME SchedOk, thrown = "none", NEW m \in M, SysmonCounts(m)
    PROVE  SchedOk'
<1>1. PICK r : r = ms[m]
  OBVIOUS
<1>2. Known(m, r)
  BY <1>1, Thread DEF Known
<1>3. r.pc = "smsub"
  BY <1>1 DEF SysmonCounts, At
<1>4. PsSame /\ SchedSame /\ GsSame /\ netready' \subseteq G
  <2>1. SchedSame
    <3>1. sched.nmidlelocked - 1 \in Int
      BY <1>2 DEF Known, SRec
    <3>2. sched' = [sched EXCEPT !.nmidlelocked = sched.nmidlelocked - 1]
      BY DEF SysmonCounts, Borrowed
    <3> QED BY <1>2, <3>1, <3>2, SchedField DEF Known
  <2> QED BY <1>2, <2>1, Unchanged DEF SysmonCounts, Known
<1>5. CASE r.lp = None
  <2>1. PICK s : s = [r EXCEPT !.pc = "inject", !.iret = "smadd"]
    OBVIOUS
  <2>2. s \in MRec /\ s.pc = "inject" /\ s.iret = "smadd" /\ Kept(r, s)
    BY <1>2, <1>3, <2>1, PlaceNames DEF Known, MRec, Kept
  <2>3. Quiet(r, s)
    BY <1>2, <1>3, <1>5, <2>2, InjectQuiet DEF Known, Kept
  <2>4. ms' = [ms EXCEPT ![m] = s]
    BY <1>1, <1>2, <1>3, <1>5, <2>1 DEF SysmonCounts, At, Known
  <2> QED BY <1>1, <1>4, <2>3, <2>4, QuietMove
<1>6. CASE r.lp # None
  <2>1. PICK s : s = [r EXCEPT !.pc = "retake"]
    OBVIOUS
  <2>2. s \in MRec /\ s.pc = "retake" /\ Kept(r, s) /\ s.iret = r.iret
    BY <1>2, <1>3, <2>1, PlaceNames DEF Known, MRec, Kept
  <2>3. Quiet(r, s)
    BY <1>2, <1>3, <1>6, <2>2, AloneQuiet DEF Known, Kept, Alone, Elsewhere, Grips, Holding, Running,
         Stopping, Stale
  <2>4. ms' = [ms EXCEPT ![m] = s]
    BY <1>1, <1>2, <1>3, <1>6, <2>1 DEF SysmonCounts, At, Known
  <2> QED BY <1>1, <1>4, <2>3, <2>4, QuietMove
<1> QED BY <1>5, <1>6

(* injectglist queues the goroutines.                                      *)
LEMMA InjectglistOk ==
    ASSUME SchedOk, thrown = "none", NEW m \in M, Injectglist(m)
    PROVE  SchedOk'
<1>1. PICK r : r = ms[m]
  OBVIOUS
<1>2. Known(m, r)
  BY <1>1, Thread DEF Known
<1>3. r.pc = "inject"
  BY <1>1 DEF Injectglist, At
<1>4. PsSame /\ SchedSame /\ GsSame /\ netready' \subseteq G
  <2>1. SchedSame
    <3>1. sched.runq \o r.glist \in Seq(G)
      BY <1>2, ConcatProperties DEF Known, SRec, MRec
    <3>2. sched' = [sched EXCEPT !.runq = sched.runq \o r.glist]
      BY <1>1 DEF Injectglist
    <3> QED BY <1>2, <3>1, <3>2, SchedField DEF Known
  <2>2. GsSame
    <3>1. ASSUME NEW g \in G PROVE gs'[g] \in GRec /\ gs'[g].lockedm = gs[g].lockedm
      <4>1. PICK h \in GRec : h = gs[g]
        BY <1>2 DEF Known
      <4>2. gs'[g] = h \/ gs'[g] = [h EXCEPT !.status = "Grunnable", !.net = "no"]
        BY <4>1 DEF Injectglist
      <4> QED BY <4>1, <4>2 DEF GRec
    <3>2. gs' = [g \in G |-> gs'[g]]
      BY DEF Injectglist
    <3> QED BY <3>1, <3>2 DEF GsSame
  <2> QED BY <1>2, <2>1, <2>2, Unchanged DEF Injectglist, Known
<1>5. CASE r.glist = << >>
  <2>1. PICK s : s = [r EXCEPT !.pc = r.iret, !.iret = "none"]
    OBVIOUS
  <2>2. s \in MRec /\ s.pc = r.iret /\ s.iret = "none" /\ Kept(r, s) /\ s.lg = r.lg /\ s.curg = r.curg
       /\ s.ret = r.ret
    BY <1>2, <1>3, <2>1, PlaceNames DEF Known, MRec, Kept
  <2>3. Quiet(r, s)
    BY <1>2, <1>3, <2>2, LoopQuiet DEF Known, Kept, Injecting, Wf, ReturnsOf
  <2>4. ms' = [ms EXCEPT ![m] = s]
    BY <1>1, <1>2, <1>3, <1>5, <2>1 DEF Injectglist, At, Known
  <2> QED BY <1>1, <1>4, <2>3, <2>4, QuietMove
<1>6. CASE r.glist # << >>
  <2>d. << >> \in Seq(G)
    OBVIOUS
  <2>e. PICK e \in Seq(G) : e = << >>
    BY <2>d
  <2>k. PICK k \in Nat : k = Len(r.glist)
    BY <1>2 DEF Known, MRec
  <2>1. PICK s : s = [r EXCEPT !.glist = e, !.n = k, !.pc = "injloop"]
    OBVIOUS
  <2>2. s \in MRec /\ s.glist = e /\ s.n = k /\ s.pc = "injloop" /\ Kept(r, s) /\ s.iret = r.iret
       /\ s.lg = r.lg /\ s.curg = r.curg
    BY <1>2, <1>3, <2>1, PlaceNames DEF Known, MRec, Kept
  <2>3. Quiet(r, s)
    BY <1>2, <1>3, <2>2, LoopQuiet DEF Known, Kept, Injecting
  <2>4. ms' = [ms EXCEPT ![m] = s]
    BY <1>1, <1>2, <1>3, <1>6, <2>1, <2>k, <2>e DEF Injectglist, At, Known
  <2> QED BY <1>1, <1>4, <2>3, <2>4, QuietMove
<1> QED BY <1>5, <1>6

(* The world has stopped.                                                  *)
LEMMA StopCheckOk ==
    ASSUME SchedOk, thrown = "none", NEW m \in M, StopCheck(m)
    PROVE  SchedOk'
<1>1. PICK r : r = ms[m]
  OBVIOUS
<1>2. Known(m, r)
  BY <1>1, Thread DEF Known
<1>3. r.pc = "stwchk"
  BY <1>1 DEF StopCheck, At
<1>4. PsSame /\ SchedSame /\ GsSame /\ netready' \subseteq G
  BY <1>2, Unchanged DEF StopCheck, Known
<1>5. PICK s : s = [r EXCEPT !.pc = r.ret]
  OBVIOUS
<1>6. s \in MRec /\ s.pc = r.ret /\ Kept(r, s) /\ s.iret = r.iret /\ s.curg = r.curg
  BY <1>2, <1>3, <1>5, PlaceNames DEF Known, MRec, Kept
<1>7. Quiet(r, s)
  BY <1>2, <1>3, <1>6, StopQuiet DEF Known, Kept, Stopped0, HoldingSema, Grips, Holding, Running,
       Stopping, Stale, Wf, LocalsOf, Cont, Calls, Injecting, Handing, ReturnsOf
<1>8. ms' = [ms EXCEPT ![m] = s]
  BY <1>1, <1>2, <1>3, <1>5 DEF StopCheck, At, Known
<1> QED BY <1>1, <1>4, <1>7, <1>8, QuietMove

(* Another thread for the next collection?                                 *)
LEMMA NeedAddGcProcOk ==
    ASSUME SchedOk, thrown = "none", NEW m \in M, NeedAddGcProc(m)
    PROVE  SchedOk'
<1>1. PICK r : r = ms[m]
  OBVIOUS
<1>2. Known(m, r)
  BY <1>1, Thread DEF Known
<1>3. r.pc = "start1"
  BY <1>1 DEF NeedAddGcProc, At
<1>4. PsSame /\ SchedSame /\ GsSame /\ netready' \subseteq G
  BY <1>2, Unchanged DEF NeedAddGcProc, Known
<1>5. CASE Least(sched.gomaxprocs, NCPU) > Len(sched.midle) + 1
  <2>1. PICK s : s = [r EXCEPT !.pc = "start2", !.n = 0, !.sp = TRUE]
    OBVIOUS
  <2>2. s \in MRec /\ s.pc = "start2" /\ s.n = 0 /\ s.sp = TRUE /\ s.p = r.p /\ s.nextp = r.nextp
       /\ s.spinning = r.spinning /\ s.lp = r.lp /\ s.lm = r.lm /\ s.todo = r.todo /\ s.iret = r.iret
       /\ s.curg = r.curg
    BY <1>2, <1>3, <2>1, PlaceNames DEF Known, MRec, Kept
  <2>3. Quiet(r, s)
    BY <1>2, <1>3, <2>2, StopQuiet DEF Known, Kept, Stopped0, HoldingSema, Grips, Holding, Running,
         Stopping, Stale, Wf, LocalsOf, Cont, Calls, Injecting, Handing
  <2>4. ms' = [ms EXCEPT ![m] = s]
    BY <1>1, <1>2, <1>3, <1>5, <2>1 DEF NeedAddGcProc, At, Known
  <2> QED BY <1>1, <1>4, <2>3, <2>4, QuietMove
<1>6. CASE ~(Least(sched.gomaxprocs, NCPU) > Len(sched.midle) + 1)
  <2>x. PICK x \in Int, y \in Int : x = Least(sched.gomaxprocs, NCPU) /\ y = Len(sched.midle) + 1
    BY <1>2, Consts, PosInP DEF Known, SRec, Least
  <2>y. (x > y) = FALSE
    BY <1>6, <2>x
  <2>b. (Least(sched.gomaxprocs, NCPU) > Len(sched.midle) + 1) = FALSE
    BY <2>x, <2>y, Zenon
  <2>1. PICK s : s = [r EXCEPT !.pc = "start2", !.n = 0, !.sp = FALSE]
    OBVIOUS
  <2>2. s \in MRec /\ s.pc = "start2" /\ s.n = 0 /\ s.sp = FALSE /\ s.p = r.p /\ s.nextp = r.nextp
       /\ s.spinning = r.spinning /\ s.lp = r.lp /\ s.lm = r.lm /\ s.todo = r.todo /\ s.iret = r.iret
       /\ s.curg = r.curg
    BY <1>2, <1>3, <2>1, PlaceNames DEF Known, MRec, Kept
  <2>3. Quiet(r, s)
    BY <1>2, <1>3, <2>2, StopQuiet DEF Known, Kept, Stopped0, HoldingSema, Grips, Holding, Running,
         Stopping, Stale, Wf, LocalsOf, Cont, Calls, Injecting, Handing
  <2>4. ms' = [ms EXCEPT ![m] = s]
    BY <1>1, <1>2, <1>3, <1>6, <2>1, <2>b, Zenon DEF NeedAddGcProc, At, Known
  <2> QED BY <1>1, <1>4, <2>3, <2>4, QuietMove
<1> QED BY <1>5, <1>6

(* procresize empties a local queue.                                       *)
LEMMA CollectOk ==
    ASSUME SchedOk, thrown = "none", NEW m \in M, Collect(m)
    PROVE  SchedOk'
<1>1. PICK r : r = ms[m]
  OBVIOUS
<1>2. Known(m, r)
  BY <1>1, Thread DEF Known
<1>3. r.pc \in {"start2", "resize"}
  BY <1>1 DEF Collect, At
<1>i. PICK i \in P : i = r.n /\ ps[i].runq \in Seq(G)
  BY <1>1, <1>2, PosInP DEF Known, PRec, Collect
<1>k. PICK k : k = (IF r.n + 1 \in Pos THEN "resize" ELSE "deal") /\ k \in Place
  BY PlaceNames
<1>n. PICK n \in Nat : n = IF r.n + 1 \in Pos THEN r.n + 1 ELSE 1
  BY <1>2 DEF Known, MRec
<1>4. PsSame /\ SchedSame /\ GsSame /\ netready' \subseteq G
  <2>1. PsSame
    <3>1. ps' = [ps EXCEPT ![i].runq = << >>]
      BY <1>1, <1>i DEF Collect
    <3>2. << >> \in Seq(G)
      OBVIOUS
    <3> QED BY <1>2, <3>1, <3>2, PsRunq DEF Known
  <2>2. SchedSame
    <3>1. sched.runq \o ps[i].runq \in Seq(G)
      BY <1>2, <1>i, ConcatProperties DEF Known, SRec
    <3>2. sched' = [sched EXCEPT !.runq = sched.runq \o ps[i].runq]
      BY <1>1, <1>i DEF Collect
    <3> QED BY <1>2, <3>1, <3>2, SchedField DEF Known
  <2> QED BY <1>2, <2>1, <2>2, Unchanged DEF Collect, Known
<1>5. PICK s : s = [r EXCEPT !.pc = k, !.n = n]
  OBVIOUS
<1>6. s \in MRec /\ s.pc = k /\ s.n = n /\ Kept(r, s) /\ s.iret = r.iret /\ s.curg = r.curg
  BY <1>2, <1>3, <1>5, PlaceNames, <1>k, ZenonT(60) DEF Known, MRec, Kept
<1>7. Quiet(r, s)
  BY <1>2, <1>3, <1>6, StopQuiet, <1>k DEF Known, Kept, Stopped0, HoldingSema, Grips, Holding, Running,
       Stopping, Stale, Wf, LocalsOf, Cont, Calls, Injecting, Handing
<1>8. ms' = [ms EXCEPT ![m] = s]
  BY <1>1, <1>2, <1>3, <1>5, <1>k, <1>n DEF Collect, At, Known
<1> QED BY <1>1, <1>4, <1>7, <1>8, QuietMove

(* procresize deals out a goroutine.                                       *)
LEMMA DealOk ==
    ASSUME SchedOk, thrown = "none", NEW m \in M, Deal(m)
    PROVE  SchedOk'
<1>1. PICK r : r = ms[m]
  OBVIOUS
<1>2. Known(m, r)
  BY <1>1, Thread DEF Known
<1>3. r.pc = "deal"
  BY <1>1 DEF Deal, At
<1>q. PICK q \in Seq(G) : q = sched.runq /\ q # << >>
  BY <1>2 DEF Known, SRec, Deal
<1>n. PICK n \in Nat : n = r.n + 1
  BY <1>2 DEF Known, MRec
<1>i. PICK i : i = r.n % NewCount
  OBVIOUS
<1>4. PsSame /\ SchedSame /\ GsSame /\ netready' \subseteq G
  <2>1. PsSame
    <3>1. ps' = [ps EXCEPT ![i].runq = Append(ps[i].runq, Head(q))]
      BY <1>1, <1>i, <1>q DEF Deal
    <3>2. CASE i \in P
      <4>1. Append(ps[i].runq, Head(q)) \in Seq(G)
        BY <1>2, <1>q, <3>2 DEF Known, PRec
      <4> QED BY <1>2, <3>1, <4>1, PsRunq DEF Known
    <3>3. CASE i \notin P
      <4>1. ps' = ps
        BY <1>2, <3>1, <3>3 DEF Known
      <4> QED BY <1>2, <4>1, Unchanged DEF Known
    <3> QED BY <3>2, <3>3
  <2>2. SchedSame
    <3>1. Tail(q) \in Seq(G)
      BY <1>q
    <3>2. sched' = [sched EXCEPT !.runq = Tail(q)]
      BY <1>q DEF Deal
    <3> QED BY <1>2, <3>1, <3>2, SchedField DEF Known
  <2> QED BY <1>2, <2>1, <2>2, Unchanged DEF Deal, Known
<1>5. PICK s : s = [r EXCEPT !.n = n]
  OBVIOUS
<1>6. s \in MRec /\ s.n = n /\ Kept(r, s) /\ s.pc = r.pc /\ s.iret = r.iret /\ s.curg = r.curg
  BY <1>2, <1>3, <1>5, PlaceNames DEF Known, MRec, Kept
<1>7. Quiet(r, s)
  BY <1>2, <1>3, <1>6, StopQuiet DEF Known, Kept, Stopped0, HoldingSema, Grips, Holding, Running,
       Stopping, Stale, Wf, LocalsOf, Cont, Calls, Injecting, Handing
<1>8. ms' = [ms EXCEPT ![m] = s]
  BY <1>1, <1>2, <1>3, <1>5, <1>n DEF Deal, At, Known
<1> QED BY <1>1, <1>4, <1>7, <1>8, QuietMove

(***************************************************************************)
(* Operations of the program, and actions that queue a goroutine.          *)
(***************************************************************************)
(* LockOSThread.                                                           *)
LEMMA LockOSThreadOk ==
    ASSUME SchedOk, thrown = "none", NEW m \in M, LockOSThread(m)
    PROVE  SchedOk'
<1>1. PICK g : g = ms[m].curg
  OBVIOUS
<1>2. g \in G /\ gs[g].ops > 0 /\ ms[m].pc = "user" /\ SchedTypes
  BY <1>1, UserIs, Thread DEF LockOSThread
<1>3. PICK h : h = [Spent(g)[g] EXCEPT !.lockedm = m]
  OBVIOUS
<1>4. Spent(g) \in [G -> GRec]
  BY <1>2, SpentIs
<1>5. h \in GRec /\ h.lockedm = m
  BY <1>2, <1>3, <1>4 DEF GRec
<1>6. gs' = [Spent(g) EXCEPT ![g] = h]
  BY <1>1, <1>3, <1>4 DEF LockOSThread
<1>7. GsSame
  BY <1>2, <1>5, <1>6, SpentThen DEF Created
<1> QED BY <1>2, <1>7, Unchanged, StillStep DEF LockOSThread

(* UnlockOSThread.                                                         *)
LEMMA UnlockOSThreadOk ==
    ASSUME SchedOk, thrown = "none", NEW m \in M, UnlockOSThread(m)
    PROVE  SchedOk'
<1>1. PICK g : g = ms[m].curg
  OBVIOUS
<1>2. g \in G /\ gs[g].ops > 0 /\ ms[m].pc = "user" /\ SchedTypes
  BY <1>1, UserIs, Thread DEF UnlockOSThread
<1>3. PICK h : h = [Spent(g)[g] EXCEPT !.lockedm = None]
  OBVIOUS
<1>4. Spent(g) \in [G -> GRec]
  BY <1>2, SpentIs
<1>5. h \in GRec /\ h.lockedm = None
  BY <1>2, <1>3, <1>4 DEF GRec
<1>6. gs' = [Spent(g) EXCEPT ![g] = h]
  BY <1>1, <1>3, <1>4 DEF UnlockOSThread
<1>7. GsSame
  BY <1>2, <1>5, <1>6, SpentThen DEF Created
<1> QED BY <1>2, <1>7, Unchanged, StillStep DEF UnlockOSThread

(* stoptheworld repeats its request.                                       *)
LEMMA StopRetryOk ==
    ASSUME SchedOk, thrown = "none", NEW m \in M, StopRetry(m)
    PROVE  SchedOk'
<1>1. SchedTypes /\ gs \in [G -> GRec]
  BY Thread
<1>2. ASSUME NEW g \in G PROVE gs'[g] \in GRec /\ gs'[g].lockedm = gs[g].lockedm
  <2>1. PICK h \in GRec : h = gs[g]
    BY <1>1
  <2>2. gs'[g] = h \/ gs'[g] = [h EXCEPT !.preempt = TRUE]
    BY <2>1 DEF StopRetry, Preemptall
  <2> QED BY <2>1, <2>2 DEF GRec
<1>3. gs' = [g \in G |-> gs'[g]]
  BY DEF StopRetry, Preemptall
<1>4. GsSame
  BY <1>2, <1>3 DEF GsSame
<1> QED BY <1>1, <1>4, Unchanged, StillStep DEF StopRetry

(* The monitor asks a goroutine to yield.                                  *)
LEMMA PreemptoneOk ==
    ASSUME SchedOk, thrown = "none", NEW m \in M, Preemptone(m)
    PROVE  SchedOk'
<1>1. SchedTypes /\ gs \in [G -> GRec]
  BY Thread
<1>2. PICK g : gs' = [gs EXCEPT ![g].preempt = TRUE]
  BY DEF Preemptone
<1>3. CASE g \in G
  <2>1. PICK h : h = [gs[g] EXCEPT !.preempt = TRUE]
    OBVIOUS
  <2>2. h \in GRec /\ h.lockedm = gs[g].lockedm
    BY <1>1, <1>3, <2>1 DEF GRec
  <2>3. gs' = [gs EXCEPT ![g] = h]
    BY <1>1, <1>2, <1>3, <2>1
  <2>4. GsSame
    BY <1>1, <2>2, <2>3, GsOne
  <2> QED BY <1>1, <2>4, Unchanged, StillStep DEF Preemptone
<1>4. CASE g \notin G
  <2>1. gs' = gs
    BY <1>1, <1>2, <1>4
  <2> QED BY <1>1, <2>1, Unchanged, StillStep DEF Preemptone
<1> QED BY <1>3, <1>4

(* The network makes a goroutine ready.                                    *)
LEMMA NetReadyOk ==
    ASSUME SchedOk, thrown = "none", NEW g \in G, NetReady(g)
    PROVE  SchedOk'
<1>1. SchedTypes /\ gs \in [G -> GRec] /\ netready \subseteq G
  BY DEF SchedOk, SchedTypes
<1>2. PICK h : h = [gs[g] EXCEPT !.net = "fired"]
  OBVIOUS
<1>3. h \in GRec /\ h.lockedm = gs[g].lockedm
  BY <1>1, <1>2 DEF GRec
<1>4. gs' = [gs EXCEPT ![g] = h]
  BY <1>1, <1>2 DEF NetReady
<1>5. GsSame
  BY <1>1, <1>3, <1>4, GsOne
<1>6. netready' \subseteq G
  BY <1>1 DEF NetReady
<1> QED BY <1>1, <1>5, <1>6, Unchanged, StillStep DEF NetReady

(* A goroutine enters a system call.                                       *)
LEMMA EnterSyscallOk ==
    ASSUME SchedOk, thrown = "none", NEW m \in M, EnterSyscall(m)
    PROVE  SchedOk'
<1>1. PICK r : r = ms[m]
  OBVIOUS
<1>2. Known(m, r)
  BY <1>1, Thread DEF Known
<1>3. r.pc = "user"
  BY <1>1 DEF EnterSyscall, At, User
<1>g. PICK g \in G : g = r.curg /\ gs[g].ops > 0
  BY <1>1, UserIs DEF EnterSyscall
<1>4. PsSame /\ SchedSame /\ GsSame /\ netready' \subseteq G
  <2>1. SchedSame
    BY <1>2 DEF EnterSyscall, WakeSysmon, Known, SRec, SchedSame, SchedKept
  <2>2. GsSame
    <3>1. Spent(g) \in [G -> GRec] /\ Spent(g)[g].lockedm = gs[g].lockedm
      BY <1>2, <1>g, SpentIs DEF Known
    <3>2. PICK h : h = [Spent(g)[g] EXCEPT !.status = "Gsyscall"]
      OBVIOUS
    <3>3. h \in GRec /\ h.lockedm = gs[g].lockedm
      BY <1>g, <3>1, <3>2 DEF GRec
    <3>4. gs' = [Spent(g) EXCEPT ![g] = h]
      BY <1>1, <1>g, <3>1, <3>2 DEF EnterSyscall
    <3> QED BY <1>2, <1>g, <3>3, <3>4, SpentThen DEF Known
  <2> QED BY <1>2, <2>1, <2>2, Unchanged DEF EnterSyscall, Known
<1>5. PICK s : s = [r EXCEPT !.pc = "esys2"]
  OBVIOUS
<1>6. s \in MRec /\ s.pc = "esys2" /\ Kept(r, s) /\ s.iret = r.iret /\ s.curg = r.curg
  BY <1>2, <1>3, <1>5, PlaceNames DEF Known, MRec, Kept
<1>7. Quiet(r, s)
  BY <1>2, <1>3, <1>6, PlainQuiet DEF Known, Kept, Plain, WithP, Grips, Holding, Running, Stopping,
       Stale, Wf, LocalsOf, Cont, Calls, Injecting, Handing
<1>8. ms' = [ms EXCEPT ![m] = s]
  BY <1>1, <1>2, <1>3, <1>5 DEF EnterSyscall, At, Known
<1> QED BY <1>1, <1>4, <1>7, <1>8, QuietMove

(* A goroutine has come to its end.                                        *)
LEMMA Goexit0Ok ==
    ASSUME SchedOk, thrown = "none", NEW m \in M, Goexit0(m)
    PROVE  SchedOk'
<1>1. PICK r : r = ms[m]
  OBVIOUS
<1>2. Known(m, r)
  BY <1>1, Thread DEF Known
<1>3. r.pc = "user"
  BY <1>1 DEF Goexit0, At
<1>g. PICK g \in G : g = r.curg
  BY <1>2, <1>3 DEF Known, MRec, Running, Wf, LocalsOf, Cont, Calls, Injecting, Handing
<1>4. PsSame /\ SchedSame /\ GsSame /\ netready' \subseteq G
  <2>1. GsSame
    <3>1. PICK h : h = [gs[g] EXCEPT !.status = "Gdead", !.lockedm = None]
      OBVIOUS
    <3>2. h \in GRec /\ h.lockedm = None
      BY <1>2, <3>1 DEF GRec, Known
    <3>3. gs' = [gs EXCEPT ![g] = h]
      BY <1>1, <1>2, <1>g, <3>1 DEF Goexit0, Known
    <3> QED BY <1>2, <3>2, <3>3, GsOne DEF Known
  <2> QED BY <1>2, <2>1, Unchanged DEF Goexit0, Known
<1>5. PICK s : s = [r EXCEPT !.curg = None, !.pc = "sched"]
  OBVIOUS
<1>6. s \in MRec /\ s.curg = None /\ s.pc = "sched" /\ Kept(r, s) /\ s.iret = r.iret
  BY <1>2, <1>3, <1>5, PlaceNames DEF Known, MRec, Kept
<1>7. Quiet(r, s)
  BY <1>2, <1>3, <1>6, PlainQuiet DEF Known, Kept, Plain, WithP, Grips, Holding, Running, Stopping,
       Stale
<1>8. ms' = [ms EXCEPT ![m] = s]
  BY <1>1, <1>2, <1>3, <1>5 DEF Goexit0, At, Known
<1> QED BY <1>1, <1>4, <1>7, <1>8, QuietMove

(* A goroutine waits.                                                      *)
LEMMA ParkOk ==
    ASSUME SchedOk, thrown = "none", NEW m \in M, Park(m)
    PROVE  SchedOk'
<1>1. PICK r : r = ms[m]
  OBVIOUS
<1>2. Known(m, r)
  BY <1>1, Thread DEF Known
<1>3. r.pc = "user"
  BY <1>1 DEF Park, At, User
<1>o. PICK op \in {"park", "net"} : User(m, op)
     /\ gs' = [Spent(r.curg) EXCEPT ![r.curg].status = "Gwaiting",
     ![r.curg].net = IF op = "net" THEN "waiting" ELSE "no"]
  BY <1>1 DEF Park
<1>g. PICK g \in G : g = r.curg /\ gs[g].ops > 0
  BY <1>1, <1>o, UserIs
<1>4. PsSame /\ SchedSame /\ GsSame /\ netready' \subseteq G
  <2>1. GsSame
    <3>1. Spent(g) \in [G -> GRec] /\ Spent(g)[g].lockedm = gs[g].lockedm
      BY <1>2, <1>g, SpentIs DEF Known
    <3>w. PICK w \in {"no", "waiting", "fired"} : w = IF op = "net" THEN "waiting" ELSE "no"
      OBVIOUS
    <3>u. PICK u \in GRec : u = Spent(g)[g] /\ u.lockedm = gs[g].lockedm
      BY <3>1
    <3>2. PICK h : h = [u EXCEPT !.status = "Gwaiting", !.net = w]
      OBVIOUS
    <3>3. h \in GRec /\ h.lockedm = gs[g].lockedm
      BY <3>2, <3>u DEF GRec
    <3>4. gs' = [Spent(g) EXCEPT ![g] = h]
      BY <1>o, <1>g, <3>1, <3>2, <3>w, <3>u
    <3> QED BY <1>2, <1>g, <3>3, <3>4, SpentThen DEF Known
  <2> QED BY <1>2, <2>1, Unchanged DEF Park, Known
<1>5. CASE IsLocked(m, g)
  <2>1. PICK s : s = [r EXCEPT !.curg = None, !.lg = g, !.pc = "slk"]
    OBVIOUS
  <2>2. s \in MRec /\ s.curg = None /\ s.lg = g /\ s.pc = "slk" /\ Kept(r, s) /\ s.iret = r.iret
    BY <1>2, <1>3, <2>1, PlaceNames DEF Known, MRec, Kept
  <2>3. Quiet(r, s)
    BY <1>2, <1>3, <2>2, PlainQuiet, Consts DEF Known, Kept, Plain, WithP, Grips, Holding, Running,
         Stopping, Stale
  <2>4. ms' = [ms EXCEPT ![m] = s]
    BY <1>1, <1>2, <1>3, <1>5, <2>1, <1>g DEF Park, At, Known, PutDown
  <2> QED BY <1>1, <1>4, <2>3, <2>4, QuietMove
<1>6. CASE ~IsLocked(m, g)
  <2>1. PICK s : s = [r EXCEPT !.curg = None, !.lg = None, !.pc = "sched"]
    OBVIOUS
  <2>2. s \in MRec /\ s.curg = None /\ s.lg = None /\ s.pc = "sched" /\ Kept(r, s) /\ s.iret = r.iret
    BY <1>2, <1>3, <2>1, PlaceNames DEF Known, MRec, Kept
  <2>3. Quiet(r, s)
    BY <1>2, <1>3, <2>2, PlainQuiet DEF Known, Kept, Plain, WithP, Grips, Holding, Running, Stopping,
         Stale
  <2>4. ms' = [ms EXCEPT ![m] = s]
    BY <1>1, <1>2, <1>3, <1>6, <2>1, <1>g DEF Park, At, Known, PutDown
  <2> QED BY <1>1, <1>4, <2>3, <2>4, QuietMove
<1> QED BY <1>5, <1>6

(* A goroutine yields.                                                     *)
LEMMA Gosched0Ok ==
    ASSUME SchedOk, thrown = "none", NEW m \in M, Gosched0(m)
    PROVE  SchedOk'
<1>1. PICK r : r = ms[m]
  OBVIOUS
<1>2. Known(m, r)
  BY <1>1, Thread DEF Known
<1>3. r.pc = "user"
  BY <1>1 DEF Gosched0, At, User
<1>g. PICK g \in G : g = r.curg
  BY <1>2, <1>3 DEF Known, MRec, Running, Wf, LocalsOf, Cont, Calls, Injecting, Handing
<1>4. PsSame /\ SchedSame /\ GsSame /\ netready' \subseteq G
  <2>1. SchedSame
    <3>1. Append(sched.runq, g) \in Seq(G)
      BY <1>2 DEF Known, SRec
    <3>2. sched' = [sched EXCEPT !.runq = Append(sched.runq, g)]
      BY <1>1, <1>g DEF Gosched0
    <3> QED BY <1>2, <3>1, <3>2, SchedField DEF Known
  <2>2. GsSame
    <3>1. CASE User(m, "gosched") /\ gs' = [Spent(g) EXCEPT ![g].status = "Grunnable"]
      <4>1. gs[g].ops > 0
        BY <1>1, <1>g, <3>1 DEF User
      <4>2. Spent(g) \in [G -> GRec] /\ Spent(g)[g].lockedm = gs[g].lockedm
        BY <1>2, <4>1, SpentIs DEF Known
      <4>3. PICK h : h = [Spent(g)[g] EXCEPT !.status = "Grunnable"]
        OBVIOUS
      <4>4. h \in GRec /\ h.lockedm = gs[g].lockedm
        BY <1>g, <4>2, <4>3 DEF GRec
      <4>5. gs' = [Spent(g) EXCEPT ![g] = h]
        BY <3>1, <4>2, <4>3
      <4> QED BY <1>2, <4>1, <4>4, <4>5, SpentThen DEF Known
    <3>2. CASE gs' = [gs EXCEPT ![g].status = "Grunnable"]
      <4>1. PICK h : h = [gs[g] EXCEPT !.status = "Grunnable"]
        OBVIOUS
      <4>2. h \in GRec /\ h.lockedm = gs[g].lockedm
        BY <1>2, <4>1 DEF GRec, Known
      <4>3. gs' = [gs EXCEPT ![g] = h]
        BY <1>2, <3>2, <4>1 DEF Known
      <4> QED BY <1>2, <4>2, <4>3, GsOne DEF Known
    <3> QED BY <1>1, <1>g, <3>1, <3>2 DEF Gosched0
  <2> QED BY <1>2, <2>1, <2>2, Unchanged DEF Gosched0, Known
<1>5. CASE IsLocked(m, g)
  <2>1. PICK s : s = [r EXCEPT !.curg = None, !.lg = g, !.pc = "slk"]
    OBVIOUS
  <2>2. s \in MRec /\ s.curg = None /\ s.lg = g /\ s.pc = "slk" /\ Kept(r, s) /\ s.iret = r.iret
    BY <1>2, <1>3, <2>1, PlaceNames DEF Known, MRec, Kept
  <2>3. Quiet(r, s)
    BY <1>2, <1>3, <2>2, PlainQuiet, Consts DEF Known, Kept, Plain, WithP, Grips, Holding, Running,
         Stopping, Stale
  <2>4. ms' = [ms EXCEPT ![m] = s]
    BY <1>1, <1>2, <1>3, <1>5, <2>1, <1>g DEF Gosched0, At, Known, PutDown
  <2> QED BY <1>1, <1>4, <2>3, <2>4, QuietMove
<1>6. CASE ~IsLocked(m, g)
  <2>1. PICK s : s = [r EXCEPT !.curg = None, !.lg = None, !.pc = "sched"]
    OBVIOUS
  <2>2. s \in MRec /\ s.curg = None /\ s.lg = None /\ s.pc = "sched" /\ Kept(r, s) /\ s.iret = r.iret
    BY <1>2, <1>3, <2>1, PlaceNames DEF Known, MRec, Kept
  <2>3. Quiet(r, s)
    BY <1>2, <1>3, <2>2, PlainQuiet DEF Known, Kept, Plain, WithP, Grips, Holding, Running, Stopping,
         Stale
  <2>4. ms' = [ms EXCEPT ![m] = s]
    BY <1>1, <1>2, <1>3, <1>6, <2>1, <1>g DEF Gosched0, At, Known, PutDown
  <2> QED BY <1>1, <1>4, <2>3, <2>4, QuietMove
<1> QED BY <1>5, <1>6

(* A goroutine is created.                                                 *)
LEMMA Newproc1Ok ==
    ASSUME SchedOk, thrown = "none", NEW m \in M, Newproc1(m)
    PROVE  SchedOk'
<1>1. PICK r : r = ms[m]
  OBVIOUS
<1>2. Known(m, r)
  BY <1>1, Thread DEF Known
<1>3. r.pc = "user"
  BY <1>1 DEF Newproc1, At, User
<1>g. PICK g \in G : g = r.curg /\ gs[g].ops > 0
  BY <1>1, UserIs DEF Newproc1
<1>n. PICK x \in G : x = CHOOSE g0 \in {y \in G : gs[y].status = "Gidle"} : \A z \in {y \in G : gs[y].status = "Gidle"} : g0 <= z
  <2>1. {y \in G : gs[y].status = "Gidle"} # {} /\ {y \in G : gs[y].status = "Gidle"} \in SUBSET Nat
    BY SchedConstants DEF Newproc1
  <2>2. \E g0 \in {y \in G : gs[y].status = "Gidle"} : \A z \in {y \in G : gs[y].status = "Gidle"} : g0 <= z
    BY <2>1, LeastOf
  <2> QED BY <2>2
<1>4. PsSame /\ SchedSame /\ GsSame /\ netready' \subseteq G
  <2>1. PsSame
    <3>1. PICK p \in P : p = r.p
      BY <1>2, <1>3 DEF Known, MRec, Wf, LocalsOf, Cont, Calls, Injecting, Handing, WithP
    <3>2. Append(ps[p].runq, x) \in Seq(G)
      BY <1>2 DEF Known, PRec
    <3>3. ps' = [ps EXCEPT ![p].runq = Append(ps[p].runq, x)]
      BY <1>1, <1>n, <3>1 DEF Newproc1
    <3> QED BY <1>2, <3>2, <3>3, PsRunq DEF Known
  <2>2. GsSame
    <3>1. Spent(g) \in [G -> GRec] /\ Spent(g)[x].lockedm = gs[x].lockedm
      BY <1>2, <1>g, SpentIs DEF Known
    <3>2. PICK h : h = [Spent(g)[x] EXCEPT !.status = "Grunnable"]
      OBVIOUS
    <3>3. h \in GRec /\ h.lockedm = gs[x].lockedm
      BY <1>g, <3>1, <3>2 DEF GRec
    <3>4. gs' = [Spent(g) EXCEPT ![x] = h]
      BY <1>1, <1>g, <1>n, <3>1, <3>2 DEF Newproc1
    <3> QED BY <1>2, <1>g, <3>3, <3>4, SpentThen DEF Known
  <2> QED BY <1>2, <2>1, <2>2, Unchanged DEF Newproc1, Known
<1>5. PICK s : s = [r EXCEPT !.pc = "wakechk", !.ret = "user"]
  OBVIOUS
<1>6. s \in MRec /\ s.pc = "wakechk" /\ s.ret = "user" /\ Kept(r, s) /\ s.iret = r.iret
     /\ s.curg = r.curg
  BY <1>2, <1>3, <1>5, PlaceNames DEF Known, MRec, Kept
<1>7. Quiet(r, s)
  BY <1>2, <1>3, <1>6, WakeQuiet DEF Known, Kept
<1>8. ms' = [ms EXCEPT ![m] = s]
  BY <1>1, <1>2, <1>3, <1>5 DEF Newproc1, At, Known
<1> QED BY <1>1, <1>4, <1>7, <1>8, QuietMove

(* A goroutine readies another one, if somebody waits.                     *)
LEMMA ReadyOk ==
    ASSUME SchedOk, thrown = "none", NEW m \in M, Ready(m)
    PROVE  SchedOk'
<1>1. PICK r : r = ms[m]
  OBVIOUS
<1>2. Known(m, r)
  BY <1>1, Thread DEF Known
<1>3. r.pc = "user"
  BY <1>1 DEF Ready, User, At
<1>4. PICK g \in G : g = r.curg /\ gs[g].ops > 0
  BY <1>1, UserIs DEF Ready
<1>5. Spent(g) \in [G -> GRec] /\ \A x \in G : Spent(g)[x].lockedm = gs[x].lockedm
  BY <1>2, <1>4, SpentIs DEF Known
<1>6. CASE gs' = Spent(g) /\ UNCHANGED <<ms, ps>>
  <2>1. GsSame
    BY <1>5, <1>6 DEF GsSame
  <2> QED BY <1>2, <1>6, <2>1, Unchanged, StillStep DEF Ready, Known
<1>7. ASSUME NEW x \in G, gs' = [Spent(g) EXCEPT ![x].status = "Grunnable"],
             ps' = [ps EXCEPT ![r.p].runq = Append(ps[r.p].runq, x)],
             ms' = [ms EXCEPT ![m].pc = "wakechk", ![m].ret = "user"]
      PROVE  SchedOk'
  <2>1. GsSame
    <3>1. PICK h : h = [Spent(g)[x] EXCEPT !.status = "Grunnable"]
      OBVIOUS
    <3>2. h \in GRec /\ h.lockedm = gs[x].lockedm
      BY <1>5, <3>1 DEF GRec
    <3>3. gs' = [Spent(g) EXCEPT ![x] = h]
      BY <1>5, <1>7, <3>1
    <3> QED BY <1>2, <1>4, <3>2, <3>3, SpentThen DEF Known
  <2>2. PsSame
    <3>1. r.p \in P
      BY <1>2, <1>3 DEF Known, MRec, Wf, LocalsOf, Cont, Calls, Injecting, Handing, WithP
    <3>2. Append(ps[r.p].runq, x) \in Seq(G)
      BY <1>2, <3>1 DEF Known, PRec
    <3> QED BY <1>2, <1>7, <3>2, PsRunq DEF Known
  <2>3. PICK s : s = [r EXCEPT !.pc = "wakechk", !.ret = "user"]
    OBVIOUS
  <2>4. s \in MRec /\ s.pc = "wakechk" /\ s.ret = "user" /\ Kept(r, s) /\ s.iret = r.iret /\ s.curg = r.curg
    BY <1>2, <2>3, PlaceNames DEF Known, MRec, Kept
  <2>5. Quiet(r, s)
    BY <1>2, <1>3, <2>4, WakeQuiet DEF Known
  <2>6. ms' = [ms EXCEPT ![m] = s]
    BY <1>1, <1>2, <1>7, <2>3 DEF Known
  <2> QED BY <1>1, <1>2, <2>1, <2>2, <2>5, <2>6, Unchanged, QuietMove DEF Ready, Known
<1> QED BY <1>1, <1>4, <1>6, <1>7 DEF Ready

(* Stealing from another processor's queue.                                *)
LEMMA FindStealOk ==
    ASSUME SchedOk, thrown = "none", NEW m \in M, FindSteal(m)
    PROVE  SchedOk'
<1>1. PICK r : r = ms[m]
  OBVIOUS
<1>2. Known(m, r)
  BY <1>1, Thread DEF Known
<1>3. r.pc = "fsteal"
  BY <1>1 DEF FindSteal, At
<1>4. PICK p2 \in Pos :
         /\ ps[p2].runq # << >>
         /\ ms' = [ms EXCEPT ![m].lg = Head(ps[p2].runq), ![m].pc = "reset"]
         /\ ps' = LET c == IF p2 = r.p THEN 0 ELSE (Len(ps[p2].runq) - 1) \div 2 IN
                  [ps EXCEPT ![p2].runq = RestOf(@, c),
                             ![r.p].runq = IF p2 = r.p THEN Tail(ps[p2].runq)
                                           ELSE @ \o SubSeq(ps[p2].runq, 2, c + 1)]
  BY <1>1 DEF FindSteal
<1>5. PICK q \in Seq(G) : q = ps[p2].runq
  BY <1>2, <1>4, PosInP DEF Known, PRec
<1>6. p2 \in P /\ r.p \in P
  BY <1>2, <1>3, <1>4, PosInP DEF Known, MRec, Wf, LocalsOf, Cont, Calls, Injecting, Handing, WithP
<1>7. q # << >> /\ Len(q) \in Nat \ {0} /\ Head(q) \in G /\ Tail(q) \in Seq(G)
  BY <1>4, <1>5
<1>8. PsSame
  <2>1. CASE p2 = r.p
    <3>1. ps' = [ps EXCEPT ![p2].runq = Tail(q)]
      BY <1>2, <1>4, <1>5, <1>6, <2>1 DEF Known
    <3> QED BY <1>2, <1>7, <3>1, PsRunq DEF Known
  <2>2. CASE p2 # r.p
    <3>1. PICK c \in Nat : c = (Len(q) - 1) \div 2 /\ c + 1 <= Len(q)
      BY <1>7
    <3>a. c + 2 \in Nat \ {0} /\ Len(q) \in Int
      BY <1>7, <3>1
    <3>b. SubSeq(q, c + 2, Len(q)) \in Seq(G)
      BY <3>a, PartOf
    <3>2. PICK q1 \in Seq(G) : q1 = RestOf(q, c)
      BY <3>b DEF RestOf
    <3>3. SubSeq(q, 2, c + 1) \in Seq(G) /\ ps[r.p].runq \in Seq(G)
      BY <1>2, <1>6, <3>1, PartOf DEF Known, PRec
    <3>4. PICK q2 \in Seq(G) : q2 = ps[r.p].runq \o SubSeq(q, 2, c + 1)
      BY <3>3, ConcatProperties
    <3>5. ps' = [ps EXCEPT ![p2].runq = q1, ![r.p].runq = q2]
      BY <1>2, <1>4, <1>5, <1>6, <2>2, <3>1, <3>2, <3>4 DEF Known
    <3>6. ASSUME NEW x \in P PROVE ps'[x] \in PRec /\ ps'[x].status = ps[x].status /\ ps'[x].m = ps[x].m
      <4>1. PICK h \in PRec : h = ps[x]
        BY <1>2 DEF Known
      <4>2. ps'[x] = h \/ ps'[x] = [h EXCEPT !.runq = q1] \/ ps'[x] = [h EXCEPT !.runq = q2]
        BY <1>2, <1>6, <2>2, <3>5, <4>1 DEF Known
      <4> QED BY <4>1, <4>2 DEF PRec
    <3>7. ps' = [x \in P |-> ps'[x]]
      BY <1>2, <3>5 DEF Known
    <3> QED BY <3>6, <3>7 DEF PsSame
  <2> QED BY <2>1, <2>2
<1>9. PICK h \in G : h = Head(q)
  BY <1>7
<1>10. PICK s : s = [r EXCEPT !.lg = h, !.pc = "reset"]
  OBVIOUS
<1>11. s \in MRec /\ s.lg = h /\ s.pc = "reset" /\ Kept(r, s) /\ s.iret = r.iret
  BY <1>2, <1>10, PlaceNames DEF Known, MRec, Kept
<1>12. Quiet(r, s)
  BY <1>2, <1>3, <1>11, Consts, PlainQuiet DEF Known, Plain, WithP, Grips, Holding, Running, Stopping, Stale
<1>13. ms' = [ms EXCEPT ![m] = s]
  BY <1>1, <1>2, <1>4, <1>5, <1>9, <1>10 DEF Known
<1> QED BY <1>1, <1>2, <1>8, <1>12, <1>13, Unchanged, QuietMove DEF FindSteal, Known

(***************************************************************************)
(* Actions that change how many threads spin.                              *)
(***************************************************************************)
(* A change of sched.nmspinning alone.                                     *)
LEMMA SchedSpin ==
    ASSUME SchedTypes, NEW k \in Int, sched' = [sched EXCEPT !.nmspinning = k]
    PROVE  SchedKept /\ sched'.midle = sched.midle /\ sched'.nmspinning = k
BY DEF SchedTypes, SRec, SchedKept

(* wakep: a spinning thread is to be started, unless there is one.         *)
LEMMA WakepOk ==
    ASSUME SchedOk, thrown = "none", NEW m \in M, Wakep(m)
    PROVE  SchedOk'
<1>1. PICK r : r = ms[m]
  OBVIOUS
<1>2. Known(m, r)
  BY <1>1, Thread DEF Known
<1>3. r.pc = "wakep"
  BY <1>1 DEF Wakep, At
<1>4. PsSame /\ GsSame /\ netready' \subseteq G
  BY <1>2, Unchanged DEF Wakep, Known
<1>n. sched.nmspinning \in Int /\ r.spinning \in BOOLEAN /\ r.sp \in BOOLEAN
  BY <1>2 DEF Known, SRec, MRec
<1>5. CASE sched.nmspinning = 0
  <2>1. PICK s : s = [r EXCEPT !.pc = "startm", !.sp = TRUE]
    OBVIOUS
  <2>2. s \in MRec /\ s.pc = "startm" /\ s.sp = TRUE /\ s.p = r.p /\ s.nextp = r.nextp
       /\ s.spinning = r.spinning /\ s.lp = r.lp /\ s.lm = r.lm /\ s.todo = r.todo /\ s.ret = r.ret
       /\ s.iret = r.iret /\ s.lg = r.lg /\ s.curg = r.curg
    BY <1>2, <1>3, <2>1, PlaceNames DEF Known, MRec
  <2>3. Keeps(r, s) /\ SameBorn(r, s) /\ (Starts(s) <=> TRUE) /\ (Starts(r) <=> FALSE)
    BY <1>2, <1>3, <2>2 DEF Known, Keeps, SameBorn, Wf, ReturnsOf, LocalsOf, OnceInHands, SameHold,
         SameStop, Runs, Stops, Starts, Cont, LpOf, TodoOf, Calls, Injecting, Handing, WithP, Stale,
         Stopping, HoldingSema, Stopped0, HandoffRets, WakeRets, Holding, Running
  <2>4. ms' = [ms EXCEPT ![m] = s]
    BY <1>1, <1>2, <1>3, <1>5, <2>1 DEF Wakep, At, Known
  <2>5. PICK k \in Int : k = 1
    BY <1>n, <1>5
  <2>6. SchedKept /\ sched'.midle = sched.midle /\ sched'.nmspinning = k
    <3>1. sched' = [sched EXCEPT !.nmspinning = k]
      BY <1>1, <1>5, <2>5 DEF Wakep, At
    <3> QED BY <1>2, <3>1, SchedSpin DEF Known
  <2>7. k = sched.nmspinning + One(s.spinning) - One(r.spinning) + One(Starts(s)) - One(Starts(r))
    BY <1>n, <1>5, <2>2, <2>3, <2>5 DEF One
  <2> QED BY <1>1, <1>4, <2>3, <2>4, <2>6, <2>7, SpinMove
<1>6. CASE sched.nmspinning # 0
  <2>1. PICK s : s = [r EXCEPT !.pc = r.ret, !.ret = "none", !.lp = None, !.sp = FALSE]
    OBVIOUS
  <2>2. s \in MRec /\ s.pc = r.ret /\ s.ret = "none" /\ s.lp = None /\ s.sp = FALSE /\ s.p = r.p
       /\ s.nextp = r.nextp /\ s.spinning = r.spinning /\ s.lm = r.lm /\ s.todo = r.todo
       /\ s.iret = r.iret /\ s.lg = r.lg /\ s.curg = r.curg
    BY <1>2, <1>3, <2>1, PlaceNames DEF Known, MRec
  <2>3. Keeps(r, s) /\ SameBorn(r, s) /\ (Starts(s) <=> FALSE) /\ (Starts(r) <=> FALSE)
    BY <1>2, <1>3, <2>2 DEF Known, Keeps, SameBorn, Wf, ReturnsOf, LocalsOf, OnceInHands, SameHold,
         SameStop, Runs, Stops, Starts, Cont, LpOf, TodoOf, Calls, Injecting, Handing, WithP, Stale,
         Stopping, HoldingSema, Stopped0, HandoffRets, WakeRets, Holding, Running
  <2>4. ms' = [ms EXCEPT ![m] = s]
    BY <1>1, <1>2, <1>3, <1>6, <2>1 DEF Wakep, At, Known, Return
  <2>5. PICK k \in Int : k = sched.nmspinning
    BY <1>n, <1>6
  <2>6. SchedKept /\ sched'.midle = sched.midle /\ sched'.nmspinning = k
    BY <1>1, <1>2, <1>6, <2>5, Unchanged DEF Wakep, Known, SchedSame, Return
  <2>7. k = sched.nmspinning + One(s.spinning) - One(r.spinning) + One(Starts(s)) - One(Starts(r))
    BY <1>n, <1>6, <2>2, <2>3, <2>5 DEF One
  <2> QED BY <1>1, <1>4, <2>3, <2>4, <2>6, <2>7, SpinMove
<1> QED BY <1>5, <1>6

(* startm found no processor.                                              *)
LEMMA UnspinOk ==
    ASSUME SchedOk, thrown = "none", NEW m \in M, Unspin(m)
    PROVE  SchedOk'
<1>1. PICK r : r = ms[m]
  OBVIOUS
<1>2. Known(m, r)
  BY <1>1, Thread DEF Known
<1>3. r.pc = "unspin"
  BY <1>1 DEF Unspin, At
<1>4. PsSame /\ GsSame /\ netready' \subseteq G
  BY <1>2, Unchanged DEF Unspin, Known
<1>n. sched.nmspinning \in Int /\ r.spinning \in BOOLEAN /\ r.sp \in BOOLEAN
  BY <1>2 DEF Known, SRec, MRec
<1>5. PICK s : s = [r EXCEPT !.pc = r.ret, !.ret = "none", !.lp = None, !.sp = FALSE]
  OBVIOUS
<1>6. s \in MRec /\ s.pc = r.ret /\ s.ret = "none" /\ s.lp = None /\ s.sp = FALSE /\ s.p = r.p
     /\ s.nextp = r.nextp /\ s.spinning = r.spinning /\ s.lm = r.lm /\ s.todo = r.todo
     /\ s.iret = r.iret /\ s.lg = r.lg /\ s.curg = r.curg
  BY <1>2, <1>3, <1>5, PlaceNames DEF Known, MRec
<1>7. Keeps(r, s) /\ SameBorn(r, s) /\ (Starts(s) <=> FALSE) /\ (Starts(r) <=> TRUE)
  BY <1>2, <1>3, <1>6 DEF Known, Keeps, SameBorn, Wf, ReturnsOf, LocalsOf, OnceInHands, SameHold,
       SameStop, Runs, Stops, Starts, Cont, LpOf, TodoOf, Calls, Injecting, Handing, WithP, Stale,
       Stopping, HoldingSema, Stopped0, HandoffRets, WakeRets, Holding, Running
<1>8. ms' = [ms EXCEPT ![m] = s]
  BY <1>1, <1>2, <1>3, <1>5 DEF Unspin, At, Known, Return
<1>9. PICK k \in Int : k = sched.nmspinning - 1
  BY <1>n
<1>10. SchedKept /\ sched'.midle = sched.midle /\ sched'.nmspinning = k
  <2>1. sched' = [sched EXCEPT !.nmspinning = k]
    BY <1>1, <1>9 DEF Unspin, At
  <2> QED BY <1>2, <2>1, SchedSpin DEF Known
<1>11. k = sched.nmspinning + One(s.spinning) - One(r.spinning) + One(Starts(s)) - One(Starts(r))
  BY <1>n, <1>6, <1>7, <1>9 DEF One
<1> QED BY <1>1, <1>4, <1>7, <1>8, <1>10, <1>11, SpinMove

(* handoffp wants a spinning thread.                                       *)
LEMMA HandoffCasOk ==
    ASSUME SchedOk, thrown = "none", NEW m \in M, HandoffCas(m)
    PROVE  SchedOk'
<1>1. PICK r : r = ms[m]
  OBVIOUS
<1>2. Known(m, r)
  BY <1>1, Thread DEF Known
<1>3. r.pc = "ho3"
  BY <1>1 DEF HandoffCas, At
<1>4. PsSame /\ GsSame /\ netready' \subseteq G
  BY <1>2, Unchanged DEF HandoffCas, Known
<1>n. sched.nmspinning \in Int /\ r.spinning \in BOOLEAN /\ r.sp \in BOOLEAN
  BY <1>2 DEF Known, SRec, MRec
<1>5. CASE sched.nmspinning = 0
  <2>1. PICK s : s = [r EXCEPT !.pc = "startm", !.sp = TRUE]
    OBVIOUS
  <2>2. s \in MRec /\ s.pc = "startm" /\ s.sp = TRUE /\ s.p = r.p /\ s.nextp = r.nextp
       /\ s.spinning = r.spinning /\ s.lp = r.lp /\ s.lm = r.lm /\ s.todo = r.todo /\ s.ret = r.ret
       /\ s.iret = r.iret /\ s.lg = r.lg /\ s.curg = r.curg
    BY <1>2, <1>3, <2>1, PlaceNames DEF Known, MRec
  <2>3. Keeps(r, s) /\ SameBorn(r, s) /\ (Starts(s) <=> TRUE) /\ (Starts(r) <=> FALSE)
    BY <1>2, <1>3, <2>2 DEF Known, Keeps, SameBorn, Wf, ReturnsOf, LocalsOf, OnceInHands, SameHold,
         SameStop, Runs, Stops, Starts, Cont, LpOf, TodoOf, Calls, Injecting, Handing, WithP, Stale,
         Stopping, HoldingSema, Stopped0, HandoffRets, WakeRets, Holding, Running
  <2>4. ms' = [ms EXCEPT ![m] = s]
    BY <1>1, <1>2, <1>3, <1>5, <2>1 DEF HandoffCas, At, Known
  <2>5. PICK k \in Int : k = 1
    BY <1>n, <1>5
  <2>6. SchedKept /\ sched'.midle = sched.midle /\ sched'.nmspinning = k
    <3>1. sched' = [sched EXCEPT !.nmspinning = k]
      BY <1>1, <1>5, <2>5 DEF HandoffCas, At
    <3> QED BY <1>2, <3>1, SchedSpin DEF Known
  <2>7. k = sched.nmspinning + One(s.spinning) - One(r.spinning) + One(Starts(s)) - One(Starts(r))
    BY <1>n, <1>5, <2>2, <2>3, <2>5 DEF One
  <2> QED BY <1>1, <1>4, <2>3, <2>4, <2>6, <2>7, SpinMove
<1>6. CASE sched.nmspinning # 0
  <2>1. PICK s : s = [r EXCEPT !.pc = "ho4"]
    OBVIOUS
  <2>2. s \in MRec /\ s.pc = "ho4" /\ s.p = r.p /\ s.nextp = r.nextp /\ s.spinning = r.spinning
       /\ s.lp = r.lp /\ s.lm = r.lm /\ s.todo = r.todo /\ s.sp = r.sp /\ s.ret = r.ret
       /\ s.iret = r.iret /\ s.lg = r.lg /\ s.curg = r.curg
    BY <1>2, <1>3, <2>1, PlaceNames DEF Known, MRec
  <2>3. Keeps(r, s) /\ SameBorn(r, s) /\ (Starts(s) <=> FALSE) /\ (Starts(r) <=> FALSE)
    BY <1>2, <1>3, <2>2 DEF Known, Keeps, SameBorn, Wf, ReturnsOf, LocalsOf, OnceInHands, SameHold,
         SameStop, Runs, Stops, Starts, Cont, LpOf, TodoOf, Calls, Injecting, Handing, WithP, Stale,
         Stopping, HoldingSema, Stopped0, HandoffRets, WakeRets, Holding, Running
  <2>4. ms' = [ms EXCEPT ![m] = s]
    BY <1>1, <1>2, <1>3, <1>6, <2>1 DEF HandoffCas, At, Known
  <2>5. PICK k \in Int : k = sched.nmspinning
    BY <1>n, <1>6
  <2>6. SchedKept /\ sched'.midle = sched.midle /\ sched'.nmspinning = k
    BY <1>1, <1>2, <1>6, <2>5, Unchanged DEF HandoffCas, Known, SchedSame
  <2>7. k = sched.nmspinning + One(s.spinning) - One(r.spinning) + One(Starts(s)) - One(Starts(r))
    BY <1>n, <1>6, <2>2, <2>3, <2>5 DEF One
  <2> QED BY <1>1, <1>4, <2>3, <2>4, <2>6, <2>7, SpinMove
<1> QED BY <1>5, <1>6

(* A thread that found nothing stops spinning.                             *)
LEMMA FindQuitOk ==
    ASSUME SchedOk, thrown = "none", NEW m \in M, FindQuit(m)
    PROVE  SchedOk'
<1>1. PICK r : r = ms[m]
  OBVIOUS
<1>2. Known(m, r)
  BY <1>1, Thread DEF Known
<1>3. r.pc = "fquit"
  BY <1>1 DEF FindQuit, At
<1>4. PsSame /\ GsSame /\ netready' \subseteq G
  BY <1>2, Unchanged DEF FindQuit, Known
<1>n. sched.nmspinning \in Int /\ r.spinning \in BOOLEAN /\ r.sp \in BOOLEAN
  BY <1>2 DEF Known, SRec, MRec
<1>5. PICK s : s = [r EXCEPT !.pc = "frecheck", !.spinning = FALSE]
  OBVIOUS
<1>6. s \in MRec /\ s.pc = "frecheck" /\ s.spinning = FALSE /\ s.p = r.p /\ s.nextp = r.nextp
     /\ s.lp = r.lp /\ s.lm = r.lm /\ s.todo = r.todo /\ s.sp = r.sp /\ s.ret = r.ret /\ s.iret = r.iret
     /\ s.lg = r.lg /\ s.curg = r.curg
  BY <1>2, <1>3, <1>5, PlaceNames DEF Known, MRec
<1>7. Keeps(r, s) /\ SameBorn(r, s) /\ (Starts(s) <=> FALSE) /\ (Starts(r) <=> FALSE)
  BY <1>2, <1>3, <1>6 DEF Known, Keeps, SameBorn, Wf, ReturnsOf, LocalsOf, OnceInHands, SameHold,
       SameStop, Runs, Stops, Starts, Cont, LpOf, TodoOf, Calls, Injecting, Handing, WithP, Stale,
       Stopping, HoldingSema, Stopped0, HandoffRets, WakeRets, Holding, Running
<1>8. ms' = [ms EXCEPT ![m] = s]
  BY <1>1, <1>2, <1>3, <1>5 DEF FindQuit, At, Known
<1>9. PICK k \in Int : k = sched.nmspinning - IF r.spinning THEN 1 ELSE 0
  BY <1>n
<1>10. SchedKept /\ sched'.midle = sched.midle /\ sched'.nmspinning = k
  <2>1. sched' = [sched EXCEPT !.nmspinning = k]
    BY <1>1, <1>9 DEF FindQuit, At
  <2> QED BY <1>2, <2>1, SchedSpin DEF Known
<1>11. k = sched.nmspinning + One(s.spinning) - One(r.spinning) + One(Starts(s)) - One(Starts(r))
  BY <1>n, <1>6, <1>7, <1>9 DEF One
<1> QED BY <1>1, <1>4, <1>7, <1>8, <1>10, <1>11, SpinMove

(* A thread begins to spin, unless enough others do.                       *)
LEMMA FindSpinOk ==
    ASSUME SchedOk, thrown = "none", NEW m \in M, FindSpin(m)
    PROVE  SchedOk'
<1>1. PICK r : r = ms[m]
  OBVIOUS
<1>2. Known(m, r)
  BY <1>1, Thread DEF Known
<1>3. r.pc = "fspin"
  BY <1>1 DEF FindSpin, At
<1>4. PsSame /\ GsSame /\ netready' \subseteq G
  BY <1>2, Unchanged DEF FindSpin, Known
<1>n. sched.nmspinning \in Int /\ r.spinning \in BOOLEAN /\ r.sp \in BOOLEAN
  BY <1>2 DEF Known, SRec, MRec
<1>5. CASE ~r.spinning /\ 2 * sched.nmspinning >= sched.gomaxprocs - npidle
  <2>1. PICK s : s = [r EXCEPT !.pc = "fstop"]
    OBVIOUS
  <2>2. s \in MRec /\ s.pc = "fstop" /\ s.p = r.p /\ s.nextp = r.nextp /\ s.spinning = r.spinning
       /\ s.lp = r.lp /\ s.lm = r.lm /\ s.todo = r.todo /\ s.sp = r.sp /\ s.ret = r.ret
       /\ s.iret = r.iret /\ s.lg = r.lg /\ s.curg = r.curg
    BY <1>2, <1>3, <2>1, PlaceNames DEF Known, MRec
  <2>3. Keeps(r, s) /\ SameBorn(r, s) /\ (Starts(s) <=> FALSE) /\ (Starts(r) <=> FALSE)
    BY <1>2, <1>3, <2>2 DEF Known, Keeps, SameBorn, Wf, ReturnsOf, LocalsOf, OnceInHands, SameHold,
         SameStop, Runs, Stops, Starts, Cont, LpOf, TodoOf, Calls, Injecting, Handing, WithP, Stale,
         Stopping, HoldingSema, Stopped0, HandoffRets, WakeRets, Holding, Running
  <2>4. ms' = [ms EXCEPT ![m] = s]
    BY <1>1, <1>2, <1>3, <1>5, <2>1 DEF FindSpin, At, Known
  <2>5. PICK k \in Int : k = sched.nmspinning
    BY <1>n, <1>5
  <2>6. SchedKept /\ sched'.midle = sched.midle /\ sched'.nmspinning = k
    BY <1>1, <1>2, <1>5, <2>5, Unchanged DEF FindSpin, Known, SchedSame
  <2>7. k = sched.nmspinning + One(s.spinning) - One(r.spinning) + One(Starts(s)) - One(Starts(r))
    BY <1>n, <1>5, <2>2, <2>3, <2>5 DEF One
  <2> QED BY <1>1, <1>4, <2>3, <2>4, <2>6, <2>7, SpinMove
<1>6. CASE ~(~r.spinning /\ 2 * sched.nmspinning >= sched.gomaxprocs - npidle)
  <2>1. PICK s : s = [r EXCEPT !.pc = "fsteal", !.spinning = TRUE]
    OBVIOUS
  <2>2. s \in MRec /\ s.pc = "fsteal" /\ s.spinning = TRUE /\ s.p = r.p /\ s.nextp = r.nextp
       /\ s.lp = r.lp /\ s.lm = r.lm /\ s.todo = r.todo /\ s.sp = r.sp /\ s.ret = r.ret
       /\ s.iret = r.iret /\ s.lg = r.lg /\ s.curg = r.curg
    BY <1>2, <1>3, <2>1, PlaceNames DEF Known, MRec
  <2>3. Keeps(r, s) /\ SameBorn(r, s) /\ (Starts(s) <=> FALSE) /\ (Starts(r) <=> FALSE)
    BY <1>2, <1>3, <2>2 DEF Known, Keeps, SameBorn, Wf, ReturnsOf, LocalsOf, OnceInHands, SameHold,
         SameStop, Runs, Stops, Starts, Cont, LpOf, TodoOf, Calls, Injecting, Handing, WithP, Stale,
         Stopping, HoldingSema, Stopped0, HandoffRets, WakeRets, Holding, Running
  <2>4. ms' = [ms EXCEPT ![m] = s]
    BY <1>1, <1>2, <1>3, <1>6, <2>1 DEF FindSpin, At, Known
  <2>5. PICK k \in Int : k = sched.nmspinning + IF r.spinning THEN 0 ELSE 1
    BY <1>n, <1>6
  <2>6. SchedKept /\ sched'.midle = sched.midle /\ sched'.nmspinning = k
    <3>1. sched' = [sched EXCEPT !.nmspinning = k]
      BY <1>1, <1>6, <2>5 DEF FindSpin, At
    <3> QED BY <1>2, <3>1, SchedSpin DEF Known
  <2>7. k = sched.nmspinning + One(s.spinning) - One(r.spinning) + One(Starts(s)) - One(Starts(r))
    BY <1>n, <1>6, <2>2, <2>3, <2>5 DEF One
  <2> QED BY <1>1, <1>4, <2>3, <2>4, <2>6, <2>7, SpinMove
<1> QED BY <1>5, <1>6

(* A thread that found work stops spinning.                                *)
LEMMA ResetSpinningOk ==
    ASSUME SchedOk, thrown = "none", NEW m \in M, ResetSpinning(m)
    PROVE  SchedOk'
<1>1. PICK r : r = ms[m]
  OBVIOUS
<1>2. Known(m, r)
  BY <1>1, Thread DEF Known
<1>3. r.pc = "reset"
  BY <1>1 DEF ResetSpinning, At
<1>4. PsSame /\ GsSame /\ netready' \subseteq G
  BY <1>2, Unchanged DEF ResetSpinning, Known
<1>n. sched.nmspinning \in Int /\ r.spinning \in BOOLEAN /\ r.sp \in BOOLEAN
  BY <1>2 DEF Known, SRec, MRec
<1>5. CASE sched.nmspinning - (IF r.spinning THEN 1 ELSE 0) = 0 /\ npidle > 0
  <2>1. PICK s : s = [r EXCEPT !.spinning = FALSE, !.pc = "wakep", !.ret = "gotg"]
    OBVIOUS
  <2>2. s \in MRec /\ s.spinning = FALSE /\ s.pc = "wakep" /\ s.ret = "gotg" /\ s.p = r.p
       /\ s.nextp = r.nextp /\ s.lp = r.lp /\ s.lm = r.lm /\ s.todo = r.todo /\ s.sp = r.sp
       /\ s.iret = r.iret /\ s.lg = r.lg /\ s.curg = r.curg
    BY <1>2, <1>3, <2>1, PlaceNames DEF Known, MRec
  <2>3. Keeps(r, s) /\ SameBorn(r, s) /\ (Starts(s) <=> FALSE) /\ (Starts(r) <=> FALSE)
    BY <1>2, <1>3, <2>2 DEF Known, Keeps, SameBorn, Wf, ReturnsOf, LocalsOf, OnceInHands, SameHold,
         SameStop, Runs, Stops, Starts, Cont, LpOf, TodoOf, Calls, Injecting, Handing, WithP, Stale,
         Stopping, HoldingSema, Stopped0, HandoffRets, WakeRets, Holding, Running
  <2>4. ms' = [ms EXCEPT ![m] = s]
    BY <1>1, <1>2, <1>3, <1>5, <2>1 DEF ResetSpinning, At, Known
  <2>5. PICK k \in Int : k = sched.nmspinning - (IF r.spinning THEN 1 ELSE 0)
    BY <1>n, <1>5
  <2>6. SchedKept /\ sched'.midle = sched.midle /\ sched'.nmspinning = k
    <3>1. sched' = [sched EXCEPT !.nmspinning = k]
      BY <1>1, <1>5, <2>5 DEF ResetSpinning, At
    <3> QED BY <1>2, <3>1, SchedSpin DEF Known
  <2>7. k = sched.nmspinning + One(s.spinning) - One(r.spinning) + One(Starts(s)) - One(Starts(r))
    BY <1>n, <1>5, <2>2, <2>3, <2>5 DEF One
  <2> QED BY <1>1, <1>4, <2>3, <2>4, <2>6, <2>7, SpinMove
<1>6. CASE ~(sched.nmspinning - (IF r.spinning THEN 1 ELSE 0) = 0 /\ npidle > 0)
  <2>1. PICK s : s = [r EXCEPT !.spinning = FALSE, !.pc = "gotg"]
    OBVIOUS
  <2>2. s \in MRec /\ s.spinning = FALSE /\ s.pc = "gotg" /\ s.p = r.p /\ s.nextp = r.nextp
       /\ s.lp = r.lp /\ s.lm = r.lm /\ s.todo = r.todo /\ s.sp = r.sp /\ s.ret = r.ret
       /\ s.iret = r.iret /\ s.lg = r.lg /\ s.curg = r.curg
    BY <1>2, <1>3, <2>1, PlaceNames DEF Known, MRec
  <2>3. Keeps(r, s) /\ SameBorn(r, s) /\ (Starts(s) <=> FALSE) /\ (Starts(r) <=> FALSE)
    BY <1>2, <1>3, <2>2 DEF Known, Keeps, SameBorn, Wf, ReturnsOf, LocalsOf, OnceInHands, SameHold,
         SameStop, Runs, Stops, Starts, Cont, LpOf, TodoOf, Calls, Injecting, Handing, WithP, Stale,
         Stopping, HoldingSema, Stopped0, HandoffRets, WakeRets, Holding, Running
  <2>4. ms' = [ms EXCEPT ![m] = s]
    BY <1>1, <1>2, <1>3, <1>6, <2>1 DEF ResetSpinning, At, Known
  <2>5. PICK k \in Int : k = sched.nmspinning - (IF r.spinning THEN 1 ELSE 0)
    BY <1>n, <1>6
  <2>6. SchedKept /\ sched'.midle = sched.midle /\ sched'.nmspinning = k
    <3>1. sched' = [sched EXCEPT !.nmspinning = k]
      BY <1>1, <1>6, <2>5 DEF ResetSpinning, At
    <3> QED BY <1>2, <3>1, SchedSpin DEF Known
  <2>7. k = sched.nmspinning + One(s.spinning) - One(r.spinning) + One(Starts(s)) - One(Starts(r))
    BY <1>n, <1>6, <2>2, <2>3, <2>5 DEF One
  <2> QED BY <1>1, <1>4, <2>3, <2>4, <2>6, <2>7, SpinMove
<1> QED BY <1>5, <1>6

(***************************************************************************)
(* Actions that gain a processor.                                          *)
(***************************************************************************)
(* sched as it is.                                                         *)
LEMMA RestSame ==
    ASSUME SchedTypes, sched' = sched
    PROVE  SchedRest /\ sched'.pidle = sched.pidle /\ sched'.midle = sched.midle /\ sched'.nmspinning = sched.nmspinning
BY DEF SchedTypes, SchedRest

(* The first of the list of idle processors is taken off.                  *)
LEMMA Popped ==
    ASSUME SchedTypes, sched.pidle # << >>,
           \/ sched' = [sched EXCEPT !.pidle = Tail(sched.pidle)]
           \/ sched' = WakeSysmon([sched EXCEPT !.pidle = Tail(sched.pidle)])
    PROVE  SchedRest /\ sched'.pidle = Tail(sched.pidle) /\ sched'.midle = sched.midle /\ sched'.nmspinning = sched.nmspinning
<1>0. sched.pidle \in Seq(P)
  BY DEF SchedTypes, SRec
<1>t. Tail(sched.pidle) \in Seq(P)
  BY <1>0, HeadTailProperties
<1>1. PICK t \in Seq(P) : t = Tail(sched.pidle)
  BY <1>t
<1>2. PICK u : u = [sched EXCEPT !.pidle = t]
  OBVIOUS
<1>3. /\ u \in SRec /\ u.pidle = t /\ u.midle = sched.midle /\ u.nmspinning = sched.nmspinning /\ u.gomaxprocs = sched.gomaxprocs
      /\ u.gcwaiting = sched.gcwaiting /\ u.stopwait = sched.stopwait /\ u.stopnote = sched.stopnote
      /\ u.worldsema = sched.worldsema /\ u.maxmcount = sched.maxmcount
  BY <1>1, <1>2 DEF SchedTypes, SRec
<1>4. CASE sched' = u
  BY <1>1, <1>3, <1>4 DEF SchedRest
<1>5. CASE sched' = WakeSysmon(u)
  <2>1. sched' = [u EXCEPT !.sysmonnote = u.sysmonnote \/ u.sysmonwait, !.sysmonwait = FALSE]
    BY <1>5 DEF WakeSysmon
  <2> QED BY <1>1, <1>3, <2>1 DEF SchedRest, SRec
<1> QED BY <1>1, <1>2, <1>4, <1>5

(* The first of the list is idle and nobody's.                             *)
LEMMA HeadIdle ==
    ASSUME SchedOk, sched.pidle # << >>
    PROVE  Head(sched.pidle) \in P /\ ps[Head(sched.pidle)].m = None
<1>1. sched.pidle \in Seq(P) /\ Injective(sched.pidle)
  BY IdleIs DEF SchedOk, SchedTypes, SRec
<1> QED BY <1>1, PidleTail, ListIdle

(* A new thread begins.                                                    *)
LEMMA MstartOk ==
    ASSUME SchedOk, thrown = "none", NEW m \in M, Mstart(m), thrown' = "none"
    PROVE  SchedOk'
<1>1. PICK r : r = ms[m]
  OBVIOUS
<1>2. Known(m, r)
  BY <1>1, Thread DEF Known
<1>3. r.pc = "mstart"
  BY <1>1 DEF Mstart, At
<1>4. CASE ~r.helpgc
  <2>p. PICK p \in P : p = r.nextp /\ p # None /\ ps[p].m = None
    <3>1. MayAcquire(m, r.nextp)
      BY <1>1, <1>4 DEF Mstart, Verdict
    <3> QED BY <1>2, <3>1 DEF MayAcquire, Known, MRec
  <2>1. PICK s : s = [r EXCEPT !.p = p, !.nextp = None, !.pc = "sched"]
    OBVIOUS
  <2>2. s \in MRec /\ s.p = p /\ s.nextp = None /\ s.pc = "sched" /\ s.spinning = r.spinning
       /\ s.lp = r.lp /\ s.lm = r.lm /\ s.todo = r.todo /\ s.sp = r.sp /\ s.ret = r.ret
       /\ s.iret = r.iret /\ s.lg = r.lg /\ s.curg = r.curg /\ s.glist = r.glist
    BY <1>2, <2>1, PlaceNames DEF Known, MRec
  <2>3. Wf(s) /\ ~Runs(r) /\ Runs(s) /\ ~Stops(s) /\ LpOf(s) = LpOf(r) /\ SameBorn(r, s) /\ SameSpin(r,
       s)
    BY <1>2, <1>3, <2>2, <2>p, Consts DEF Known, SameBorn, SameSpin, Wf, ReturnsOf, LocalsOf,
         OnceInHands, Runs, Stops, Starts, Cont, LpOf, TodoOf, Calls, Injecting, Handing, WithP, Stale,
         Stopping, HandoffRets, WakeRets, Holding, Running
  <2>4. ms' = [ms EXCEPT ![m] = s] /\ ps' = Acquired(m, p)
    BY <1>1, <1>2, <1>3, <1>4, <2>1, <2>p DEF Mstart, At, Known
  <2>5. SchedRest /\ sched'.pidle = sched.pidle /\ sched'.midle = sched.midle
       /\ sched'.nmspinning = sched.nmspinning
    BY <1>2, RestSame DEF Mstart, Known
  <2>6. GsSame /\ netready' \subseteq G
    BY <1>2, <1>4, Unchanged DEF Mstart, Known
  <2> QED BY <1>1, <1>4, <2>p, <2>2, <2>3, <2>4, <2>5, <2>6, AcquireStep
<1>5. CASE r.helpgc
  <2>1. PsSame /\ SchedSame /\ GsSame /\ netready' \subseteq G
    BY <1>1, <1>2, <1>5, Unchanged DEF Mstart, Known
  <2>2. PICK s : s = [r EXCEPT !.helpgc = FALSE, !.pc = "stopm", !.ret = "sched"]
    OBVIOUS
  <2>3. s \in MRec /\ s.helpgc = FALSE /\ s.pc = "stopm" /\ s.ret = "sched" /\ Kept(r, s)
       /\ s.iret = r.iret
    BY <1>2, <1>3, <2>2, PlaceNames DEF Known, MRec, Kept
  <2>4. Quiet(r, s)
    BY <1>2, <1>3, <2>3, AloneQuiet DEF Known, Kept, Alone, Elsewhere, Grips, Holding, Running,
         Stopping, Stale
  <2>5. ms' = [ms EXCEPT ![m] = s]
    BY <1>1, <1>2, <1>3, <1>5, <2>2 DEF Mstart, At, Known
  <2> QED BY <1>1, <2>1, <2>4, <2>5, QuietMove
<1> QED BY <1>4, <1>5

(* A thread is woken.                                                      *)
LEMMA UnparkOk ==
    ASSUME SchedOk, thrown = "none", NEW m \in M, Unpark(m), thrown' = "none"
    PROVE  SchedOk'
<1>1. PICK r : r = ms[m]
  OBVIOUS
<1>2. Known(m, r)
  BY <1>1, Thread DEF Known
<1>3. r.pc = "parked"
  BY <1>1 DEF Unpark, At
<1>4. CASE ~r.helpgc
  <2>p. PICK p \in P : p = r.nextp /\ p # None /\ ps[p].m = None
    <3>1. MayAcquire(m, r.nextp)
      BY <1>1, <1>4 DEF Unpark, Verdict
    <3> QED BY <1>2, <3>1 DEF MayAcquire, Known, MRec
  <2>1. PICK s : s = [r EXCEPT !.park = FALSE, !.p = p, !.nextp = None, !.pc = r.ret, !.ret = "none"]
    OBVIOUS
  <2>2. s \in MRec /\ s.park = FALSE /\ s.p = p /\ s.nextp = None /\ s.pc = r.ret /\ s.ret = "none"
       /\ s.spinning = r.spinning /\ s.lp = r.lp /\ s.lm = r.lm /\ s.todo = r.todo /\ s.sp = r.sp
       /\ s.iret = r.iret /\ s.lg = r.lg /\ s.curg = r.curg /\ s.glist = r.glist
    BY <1>2, <2>1, PlaceNames DEF Known, MRec
  <2>3. Wf(s) /\ ~Runs(r) /\ Runs(s) /\ ~Stops(s) /\ LpOf(s) = LpOf(r) /\ SameBorn(r, s) /\ SameSpin(r,
       s)
    BY <1>2, <1>3, <2>2, <2>p, Consts DEF Known, SameBorn, SameSpin, Wf, ReturnsOf, LocalsOf,
         OnceInHands, Runs, Stops, Starts, Cont, LpOf, TodoOf, Calls, Injecting, Handing, WithP, Stale,
         Stopping, HandoffRets, WakeRets, Holding, Running
  <2>4. ms' = [ms EXCEPT ![m] = s] /\ ps' = Acquired(m, p)
    BY <1>1, <1>2, <1>3, <1>4, <2>1, <2>p DEF Unpark, At, Known
  <2>5. SchedRest /\ sched'.pidle = sched.pidle /\ sched'.midle = sched.midle
       /\ sched'.nmspinning = sched.nmspinning
    BY <1>2, RestSame DEF Unpark, Known
  <2>6. GsSame /\ netready' \subseteq G
    BY <1>2, <1>4, Unchanged DEF Unpark, Known
  <2> QED BY <1>1, <1>4, <2>p, <2>2, <2>3, <2>4, <2>5, <2>6, AcquireStep
<1>5. CASE r.helpgc
  <2>1. PsSame /\ SchedSame /\ GsSame /\ netready' \subseteq G
    BY <1>1, <1>2, <1>5, Unchanged DEF Unpark, Known
  <2>2. PICK s : s = [r EXCEPT !.park = FALSE, !.pc = "gchelper"]
    OBVIOUS
  <2>3. s \in MRec /\ s.park = FALSE /\ s.pc = "gchelper" /\ Kept(r, s) /\ s.iret = r.iret
       /\ s.ret = r.ret
    BY <1>2, <1>3, <2>2, PlaceNames DEF Known, MRec, Kept
  <2>4. Quiet(r, s)
    BY <1>2, <1>3, <2>3, AloneQuiet DEF Known, Kept, Alone, Elsewhere, Grips, Holding, Running,
         Stopping, Stale, Wf, ReturnsOf
  <2>5. ms' = [ms EXCEPT ![m] = s]
    BY <1>1, <1>2, <1>3, <1>5, <2>2 DEF Unpark, At, Known
  <2> QED BY <1>1, <2>1, <2>4, <2>5, QuietMove
<1> QED BY <1>4, <1>5

(* findrunnable takes an idle processor for the work it has seen.          *)
LEMMA FindAgainOk ==
    ASSUME SchedOk, thrown = "none", NEW m \in M, FindAgain(m)
    PROVE  SchedOk'
<1>1. PICK r : r = ms[m]
  OBVIOUS
<1>2. Known(m, r)
  BY <1>1, Thread DEF Known
<1>3. r.pc = "fagain"
  BY <1>1 DEF FindAgain, At
<1>4. CASE sched.pidle # << >>
  <2>p. PICK p \in P : p = Head(sched.pidle) /\ ps[p].m = None
    BY <1>4, HeadIdle
  <2>1. PICK s : s = [r EXCEPT !.p = p, !.pc = "find"]
    OBVIOUS
  <2>2. s \in MRec /\ s.p = p /\ s.pc = "find" /\ s.nextp = r.nextp /\ s.spinning = r.spinning
       /\ s.lp = r.lp /\ s.lm = r.lm /\ s.todo = r.todo /\ s.sp = r.sp /\ s.ret = r.ret
       /\ s.iret = r.iret /\ s.lg = r.lg /\ s.curg = r.curg /\ s.glist = r.glist
    BY <1>2, <2>1, PlaceNames DEF Known, MRec
  <2>3. Wf(s) /\ ~Runs(r) /\ Runs(s) /\ ~Stops(s) /\ LpOf(s) = LpOf(r) /\ SameBorn(r, s) /\ SameSpin(r,
       s)
    BY <1>2, <1>3, <2>2, <2>p, Consts DEF Known, SameBorn, SameSpin, Wf, ReturnsOf, LocalsOf,
         OnceInHands, Runs, Stops, Starts, Cont, LpOf, TodoOf, Calls, Injecting, Handing, WithP, Stale,
         Stopping, HandoffRets, WakeRets, Holding, Running
  <2>4. ms' = [ms EXCEPT ![m] = s] /\ ps' = Acquired(m, p)
    BY <1>1, <1>2, <1>3, <1>4, <2>1, <2>p DEF FindAgain, At, Known
  <2>5. SchedRest /\ sched'.pidle = Tail(sched.pidle) /\ sched'.midle = sched.midle
       /\ sched'.nmspinning = sched.nmspinning
    BY <1>2, <1>4, Popped DEF FindAgain, Known
  <2>6. GsSame /\ netready' \subseteq G
    BY <1>2, <1>4, Unchanged DEF FindAgain, Known
  <2> QED BY <1>1, <1>4, <2>p, <2>2, <2>3, <2>4, <2>5, <2>6, AcquireStep
<1>5. CASE sched.pidle = << >>
  <2>1. PsSame /\ SchedSame /\ GsSame /\ netready' \subseteq G
    BY <1>1, <1>2, <1>5, Unchanged DEF FindAgain, Known
  <2>2. PICK s : s = [r EXCEPT !.pc = "fpoll"]
    OBVIOUS
  <2>3. s \in MRec /\ s.pc = "fpoll" /\ Kept(r, s) /\ s.iret = r.iret
    BY <1>2, <1>3, <2>2, PlaceNames DEF Known, MRec, Kept
  <2>4. Quiet(r, s)
    BY <1>2, <1>3, <2>3, AloneQuiet DEF Known, Kept, Alone, Elsewhere, Grips, Holding, Running,
         Stopping, Stale
  <2>5. ms' = [ms EXCEPT ![m] = s]
    BY <1>1, <1>2, <1>3, <1>5, <2>2 DEF FindAgain, At, Known
  <2> QED BY <1>1, <2>1, <2>4, <2>5, QuietMove
<1> QED BY <1>4, <1>5

(* The blocking poller has found goroutines.                               *)
LEMMA PollGotOk ==
    ASSUME SchedOk, thrown = "none", NEW m \in M, PollGot(m)
    PROVE  SchedOk'
<1>1. PICK r : r = ms[m]
  OBVIOUS
<1>2. Known(m, r)
  BY <1>1, Thread DEF Known
<1>3. r.pc = "pollgot"
  BY <1>1 DEF PollGot, At
<1>4. CASE sched.pidle # << >>
  <2>p. PICK p \in P : p = Head(sched.pidle) /\ ps[p].m = None
    BY <1>4, HeadIdle
  <2>g. PICK g \in G : g = Head(r.glist) /\ g # None
    BY <1>2, <1>3, Consts DEF Known, MRec, Wf, LocalsOf, Cont, Calls, Injecting, Handing
  <2>l. r.glist \in Seq(G) /\ r.glist # << >>
    BY <1>2, <1>3 DEF Known, MRec, Wf, LocalsOf, Cont, Calls, Injecting, Handing
  <2>t. PICK t \in Seq(G) : t = Others(r.glist)
    <3>1. Tail(r.glist) \in Seq(G)
      BY <2>l, HeadTailProperties
    <3> QED BY <3>1 DEF Others
  <2>1. PICK s : s = [r EXCEPT !.p = p, !.lg = g, !.glist = t, !.ret = "none", !.pc = "inject",
       !.iret = "netgot"]
    OBVIOUS
  <2>2. s \in MRec /\ s.p = p /\ s.lg = g /\ s.glist = t /\ s.ret = "none" /\ s.pc = "inject"
       /\ s.iret = "netgot" /\ s.nextp = r.nextp /\ s.spinning = r.spinning /\ s.lp = r.lp
       /\ s.lm = r.lm /\ s.todo = r.todo /\ s.sp = r.sp /\ s.curg = r.curg
    BY <1>2, <2>1, PlaceNames DEF Known, MRec
  <2>3. Wf(s) /\ ~Runs(r) /\ Runs(s) /\ ~Stops(s) /\ LpOf(s) = LpOf(r) /\ SameBorn(r, s) /\ SameSpin(r,
       s)
    BY <1>2, <1>3, <2>2, <2>p, Consts, <2>g DEF Known, SameBorn, SameSpin, Wf, ReturnsOf, LocalsOf,
         OnceInHands, Runs, Stops, Starts, Cont, LpOf, TodoOf, Calls, Injecting, Handing, WithP, Stale,
         Stopping, HandoffRets, WakeRets, Holding, Running
  <2>4. ms' = [ms EXCEPT ![m] = s] /\ ps' = Acquired(m, p)
    BY <1>1, <1>2, <1>3, <1>4, <2>1, <2>p, <2>g, <2>t DEF PollGot, At, Known
  <2>5. SchedRest /\ sched'.pidle = Tail(sched.pidle) /\ sched'.midle = sched.midle
       /\ sched'.nmspinning = sched.nmspinning
    BY <1>2, <1>4, Popped DEF PollGot, Known
  <2>6. GsSame /\ netready' \subseteq G
    BY <1>2, <1>4, Unchanged DEF PollGot, Known
  <2> QED BY <1>1, <1>4, <2>p, <2>2, <2>3, <2>4, <2>5, <2>6, AcquireStep
<1>5. CASE sched.pidle = << >>
  <2>1. PsSame /\ SchedSame /\ GsSame /\ netready' \subseteq G
    BY <1>1, <1>2, <1>5, Unchanged DEF PollGot, Known
  <2>2. PICK s : s = [r EXCEPT !.pc = "inject", !.iret = "stopm"]
    OBVIOUS
  <2>3. s \in MRec /\ s.pc = "inject" /\ s.iret = "stopm" /\ Kept(r, s) /\ s.ret = r.ret
    BY <1>2, <1>3, <2>2, PlaceNames DEF Known, MRec, Kept
  <2>4. Quiet(r, s)
    BY <1>2, <1>3, <2>3, InjectQuiet DEF Known, Kept
  <2>5. ms' = [ms EXCEPT ![m] = s]
    BY <1>1, <1>2, <1>3, <1>5, <2>2 DEF PollGot, At, Known
  <2> QED BY <1>1, <2>1, <2>4, <2>5, QuietMove
<1> QED BY <1>4, <1>5

(* A thread takes back the processor that it left behind.                  *)
LEMMA ExitSamePOk ==
    ASSUME SchedOk, thrown = "none", NEW m \in M, ExitSameP(m)
    PROVE  SchedOk'
<1>1. PICK r : r = ms[m]
  OBVIOUS
<1>2. Known(m, r)
  BY <1>1, Thread DEF Known
<1>3. r.pc = "xsys2"
  BY <1>1 DEF ExitSameP, At
<1>4. CASE r.p # None /\ CasPsyscall(r.p)
  <2>p. PICK p \in P : p = r.p /\ p # None /\ ps[p].status = "Psyscall" /\ ps[p].m = None
    <3>1. r.p \in P /\ ps[r.p].status = "Psyscall"
      BY <1>2, <1>4 DEF Known, MRec, CasPsyscall
    <3>2. ps[r.p].m = None
      BY <1>2, <3>1, ZenonT(60) DEF Known, PRec, SchedOk, RunInv
    <3> QED BY <3>1, <3>2, Consts
  <2>1. PICK s : s = [r EXCEPT !.pc = "user"]
    OBVIOUS
  <2>2. s \in MRec /\ s.pc = "user" /\ s.p = r.p /\ s.nextp = r.nextp /\ s.spinning = r.spinning
       /\ s.lp = r.lp /\ s.lm = r.lm /\ s.todo = r.todo /\ s.sp = r.sp /\ s.ret = r.ret
       /\ s.iret = r.iret /\ s.lg = r.lg /\ s.curg = r.curg /\ s.glist = r.glist
    BY <1>2, <2>1, PlaceNames DEF Known, MRec
  <2>3. Wf(s) /\ ~Runs(r) /\ Runs(s) /\ ~Stops(s) /\ LpOf(s) = LpOf(r) /\ SameBorn(r, s) /\ SameSpin(r,
       s)
    BY <1>2, <1>3, <2>2, <2>p, Consts DEF Known, SameBorn, SameSpin, Wf, ReturnsOf, LocalsOf,
         OnceInHands, Runs, Stops, Starts, Cont, LpOf, TodoOf, Calls, Injecting, Handing, WithP, Stale,
         Stopping, HandoffRets, WakeRets, Holding, Running
  <2>4. ms' = [ms EXCEPT ![m] = s] /\ ps' = Acquired(m, p)
    BY <1>1, <1>2, <1>3, <1>4, <2>1, <2>p DEF ExitSameP, At, Known, Acquired
  <2>5. SchedRest /\ sched'.pidle = sched.pidle /\ sched'.midle = sched.midle
       /\ sched'.nmspinning = sched.nmspinning
    BY <1>2, RestSame DEF ExitSameP, Known
  <2>6. GsSame /\ netready' \subseteq G
    <3>1. PICK g \in G : g = r.curg
      BY <1>2, <1>3 DEF Known, MRec, Running, Stale, Wf, LocalsOf, Cont, Calls, Injecting, Handing
    <3>2. PICK h : h = [gs[g] EXCEPT !.status = "Grunning"]
      OBVIOUS
    <3>3. h \in GRec /\ h.lockedm = gs[g].lockedm
      BY <1>2, <3>2 DEF GRec, Known
    <3>4. gs' = [gs EXCEPT ![g] = h]
      BY <1>1, <1>2, <1>4, <3>1, <3>2 DEF ExitSameP, Known
    <3>5. GsSame
      BY <1>2, <3>3, <3>4, GsOne DEF Known
    <3> QED BY <1>2, <3>5 DEF ExitSameP, Known
  <2> QED BY <1>1, <1>4, <2>p, <2>2, <2>3, <2>4, <2>5, <2>6, AcquireStep
<1>5. CASE ~(r.p # None /\ CasPsyscall(r.p))
  <2>1. PsSame /\ SchedSame /\ GsSame /\ netready' \subseteq G
    BY <1>1, <1>2, <1>5, Unchanged DEF ExitSameP, Known
  <2>2. PICK s : s = [r EXCEPT !.p = None, !.pc = "xsys3"]
    OBVIOUS
  <2>3. s \in MRec /\ s.p = None /\ s.pc = "xsys3" /\ s.nextp = r.nextp /\ s.spinning = r.spinning
       /\ s.lp = r.lp /\ s.lm = r.lm /\ s.todo = r.todo /\ s.sp = r.sp /\ s.iret = r.iret
       /\ s.curg = r.curg
    BY <1>2, <1>3, <2>2, PlaceNames DEF Known, MRec, Kept
  <2>4. Quiet(r, s)
    BY <1>2, <1>3, <2>3, AloneQuiet DEF Known, Kept, Alone, Elsewhere, Grips, Holding, Running,
         Stopping, Stale, Wf, LocalsOf, Cont, Calls, Injecting, Handing
  <2>5. ms' = [ms EXCEPT ![m] = s]
    BY <1>1, <1>2, <1>3, <1>5, <2>2 DEF ExitSameP, At, Known
  <2> QED BY <1>1, <2>1, <2>4, <2>5, QuietMove
<1> QED BY <1>4, <1>5

(* A thread takes an idle processor after its system call.                 *)
LEMMA ExitIdlePOk ==
    ASSUME SchedOk, thrown = "none", NEW m \in M, ExitIdleP(m)
    PROVE  SchedOk'
<1>1. PICK r : r = ms[m]
  OBVIOUS
<1>2. Known(m, r)
  BY <1>1, Thread DEF Known
<1>3. r.pc = "xsys3"
  BY <1>1 DEF ExitIdleP, At
<1>4. CASE sched.pidle # << >>
  <2>p. PICK p \in P : p = Head(sched.pidle) /\ ps[p].m = None
    BY <1>4, HeadIdle
  <2>1. PICK s : s = [r EXCEPT !.p = p, !.pc = "user"]
    OBVIOUS
  <2>2. s \in MRec /\ s.p = p /\ s.pc = "user" /\ s.nextp = r.nextp /\ s.spinning = r.spinning
       /\ s.lp = r.lp /\ s.lm = r.lm /\ s.todo = r.todo /\ s.sp = r.sp /\ s.ret = r.ret
       /\ s.iret = r.iret /\ s.lg = r.lg /\ s.curg = r.curg /\ s.glist = r.glist
    BY <1>2, <2>1, PlaceNames DEF Known, MRec
  <2>3. Wf(s) /\ ~Runs(r) /\ Runs(s) /\ ~Stops(s) /\ LpOf(s) = LpOf(r) /\ SameBorn(r, s) /\ SameSpin(r,
       s)
    BY <1>2, <1>3, <2>2, <2>p, Consts DEF Known, SameBorn, SameSpin, Wf, ReturnsOf, LocalsOf,
         OnceInHands, Runs, Stops, Starts, Cont, LpOf, TodoOf, Calls, Injecting, Handing, WithP, Stale,
         Stopping, HandoffRets, WakeRets, Holding, Running
  <2>4. ms' = [ms EXCEPT ![m] = s] /\ ps' = Acquired(m, p)
    BY <1>1, <1>2, <1>3, <1>4, <2>1, <2>p DEF ExitIdleP, At, Known
  <2>5. SchedRest /\ sched'.pidle = Tail(sched.pidle) /\ sched'.midle = sched.midle
       /\ sched'.nmspinning = sched.nmspinning
    BY <1>2, <1>4, Popped DEF ExitIdleP, Known
  <2>6. GsSame /\ netready' \subseteq G
    <3>1. PICK g \in G : g = r.curg
      BY <1>2, <1>3 DEF Known, MRec, Running, Stale, Wf, LocalsOf, Cont, Calls, Injecting, Handing
    <3>2. PICK h : h = [gs[g] EXCEPT !.status = "Grunning"]
      OBVIOUS
    <3>3. h \in GRec /\ h.lockedm = gs[g].lockedm
      BY <1>2, <3>2 DEF GRec, Known
    <3>4. gs' = [gs EXCEPT ![g] = h]
      BY <1>1, <1>2, <1>4, <3>1, <3>2 DEF ExitIdleP, Known
    <3>5. GsSame
      BY <1>2, <3>3, <3>4, GsOne DEF Known
    <3> QED BY <1>2, <3>5 DEF ExitIdleP, Known
  <2> QED BY <1>1, <1>4, <2>p, <2>2, <2>3, <2>4, <2>5, <2>6, AcquireStep
<1>5. CASE sched.pidle = << >>
  <2>1. PsSame /\ SchedSame /\ GsSame /\ netready' \subseteq G
    BY <1>1, <1>2, <1>5, Unchanged DEF ExitIdleP, Known
  <2>2. PICK s : s = [r EXCEPT !.pc = "xsys4"]
    OBVIOUS
  <2>3. s \in MRec /\ s.pc = "xsys4" /\ Kept(r, s) /\ s.iret = r.iret /\ s.curg = r.curg
    BY <1>2, <1>3, <2>2, PlaceNames DEF Known, MRec, Kept
  <2>4. Quiet(r, s)
    BY <1>2, <1>3, <2>3, AloneQuiet DEF Known, Kept, Alone, Elsewhere, Grips, Holding, Running,
         Stopping, Stale, Wf, LocalsOf, Cont, Calls, Injecting, Handing
  <2>5. ms' = [ms EXCEPT ![m] = s]
    BY <1>1, <1>2, <1>3, <1>5, <2>2 DEF ExitIdleP, At, Known
  <2> QED BY <1>1, <2>1, <2>4, <2>5, QuietMove
<1> QED BY <1>4, <1>5

(* The last try for a processor after a system call.                       *)
LEMMA ExitSyscall0Ok ==
    ASSUME SchedOk, thrown = "none", NEW m \in M, ExitSyscall0(m)
    PROVE  SchedOk'
<1>1. PICK r : r = ms[m]
  OBVIOUS
<1>2. Known(m, r)
  BY <1>1, Thread DEF Known
<1>3. r.pc = "xsys4"
  BY <1>1 DEF ExitSyscall0, At
<1>4. CASE sched.pidle # << >>
  <2>p. PICK p \in P : p = Head(sched.pidle) /\ ps[p].m = None
    BY <1>4, HeadIdle
  <2>1. PICK s : s = [r EXCEPT !.p = p, !.pc = "user"]
    OBVIOUS
  <2>2. s \in MRec /\ s.p = p /\ s.pc = "user" /\ s.nextp = r.nextp /\ s.spinning = r.spinning
       /\ s.lp = r.lp /\ s.lm = r.lm /\ s.todo = r.todo /\ s.sp = r.sp /\ s.ret = r.ret
       /\ s.iret = r.iret /\ s.lg = r.lg /\ s.curg = r.curg /\ s.glist = r.glist
    BY <1>2, <2>1, PlaceNames DEF Known, MRec
  <2>3. Wf(s) /\ ~Runs(r) /\ Runs(s) /\ ~Stops(s) /\ LpOf(s) = LpOf(r) /\ SameBorn(r, s) /\ SameSpin(r,
       s)
    BY <1>2, <1>3, <2>2, <2>p, Consts DEF Known, SameBorn, SameSpin, Wf, ReturnsOf, LocalsOf,
         OnceInHands, Runs, Stops, Starts, Cont, LpOf, TodoOf, Calls, Injecting, Handing, WithP, Stale,
         Stopping, HandoffRets, WakeRets, Holding, Running
  <2>4. ms' = [ms EXCEPT ![m] = s] /\ ps' = Acquired(m, p)
    BY <1>1, <1>2, <1>3, <1>4, <2>1, <2>p DEF ExitSyscall0, At, Known
  <2>5. SchedRest /\ sched'.pidle = Tail(sched.pidle) /\ sched'.midle = sched.midle
       /\ sched'.nmspinning = sched.nmspinning
    BY <1>2, <1>4, Popped DEF ExitSyscall0, Known
  <2>6. GsSame /\ netready' \subseteq G
    <3>1. PICK g \in G : g = r.curg
      BY <1>2, <1>3 DEF Known, MRec, Running, Stale, Wf, LocalsOf, Cont, Calls, Injecting, Handing
    <3>2. PICK h : h = [gs[g] EXCEPT !.status = "Grunning", !.preempt = FALSE]
      OBVIOUS
    <3>3. h \in GRec /\ h.lockedm = gs[g].lockedm
      BY <1>2, <3>2 DEF GRec, Known
    <3>4. gs' = [gs EXCEPT ![g] = h]
      BY <1>1, <1>2, <1>4, <3>1, <3>2 DEF ExitSyscall0, Known, Executed
    <3>5. GsSame
      BY <1>2, <3>3, <3>4, GsOne DEF Known
    <3> QED BY <1>2, <3>5 DEF ExitSyscall0, Known
  <2> QED BY <1>1, <1>4, <2>p, <2>2, <2>3, <2>4, <2>5, <2>6, AcquireStep
<1>5. CASE sched.pidle = << >> /\ IsLocked(m, r.curg)
  <2>1. PsSame /\ SchedSame /\ GsSame /\ netready' \subseteq G
    <3>1. SchedSame
      <4>1. PICK g \in G : g = r.curg
        BY <1>2, <1>3 DEF Known, MRec, Running, Wf, LocalsOf, Cont, Calls, Injecting, Handing
      <4>2. Append(sched.runq, g) \in Seq(G)
        BY <1>2, <4>1 DEF Known, SRec
      <4>3. sched' = [sched EXCEPT !.runq = Append(sched.runq, g)]
        BY <1>1, <1>5, <4>1 DEF ExitSyscall0
      <4> QED BY <1>2, <4>2, <4>3, SchedField DEF Known
    <3>2. GsSame
      <4>1. PICK g \in G : g = r.curg
        BY <1>2, <1>3 DEF Known, MRec, Running, Stale, Wf, LocalsOf, Cont, Calls, Injecting, Handing
      <4>2. PICK h : h = [gs[g] EXCEPT !.status = "Grunnable"]
        OBVIOUS
      <4>3. h \in GRec /\ h.lockedm = gs[g].lockedm
        BY <1>2, <4>2 DEF GRec, Known
      <4>4. gs' = [gs EXCEPT ![g] = h]
        BY <1>1, <1>2, <1>5, <4>1, <4>2 DEF ExitSyscall0, Known
      <4>5. GsSame
        BY <1>2, <4>3, <4>4, GsOne DEF Known
      <4> QED BY <4>5
    <3> QED BY <1>2, <1>5, <3>1, <3>2, Unchanged DEF ExitSyscall0, Known
  <2>2. PICK s : s = [r EXCEPT !.curg = None, !.lg = r.curg, !.pc = "slk2"]
    OBVIOUS
  <2>3. s \in MRec /\ s.curg = None /\ s.lg = r.curg /\ s.pc = "slk2" /\ Kept(r, s) /\ s.iret = r.iret
    BY <1>2, <1>3, <2>2, PlaceNames DEF Known, MRec, Kept
  <2>4. Quiet(r, s)
    BY <1>2, <1>3, <2>3, AloneQuiet DEF Known, Kept, Alone, Elsewhere, Grips, Holding, Running,
         Stopping, Stale, Wf, LocalsOf, Cont, Calls, Injecting, Handing
  <2>5. ms' = [ms EXCEPT ![m] = s]
    BY <1>1, <1>2, <1>3, <1>5, <2>2 DEF ExitSyscall0, At, Known
  <2> QED BY <1>1, <2>1, <2>4, <2>5, QuietMove
<1>6. CASE sched.pidle = << >> /\ ~IsLocked(m, r.curg)
  <2>1. PsSame /\ SchedSame /\ GsSame /\ netready' \subseteq G
    <3>1. SchedSame
      <4>1. PICK g \in G : g = r.curg
        BY <1>2, <1>3 DEF Known, MRec, Running, Wf, LocalsOf, Cont, Calls, Injecting, Handing
      <4>2. Append(sched.runq, g) \in Seq(G)
        BY <1>2, <4>1 DEF Known, SRec
      <4>3. sched' = [sched EXCEPT !.runq = Append(sched.runq, g)]
        BY <1>1, <1>6, <4>1 DEF ExitSyscall0
      <4> QED BY <1>2, <4>2, <4>3, SchedField DEF Known
    <3>2. GsSame
      <4>1. PICK g \in G : g = r.curg
        BY <1>2, <1>3 DEF Known, MRec, Running, Stale, Wf, LocalsOf, Cont, Calls, Injecting, Handing
      <4>2. PICK h : h = [gs[g] EXCEPT !.status = "Grunnable"]
        OBVIOUS
      <4>3. h \in GRec /\ h.lockedm = gs[g].lockedm
        BY <1>2, <4>2 DEF GRec, Known
      <4>4. gs' = [gs EXCEPT ![g] = h]
        BY <1>1, <1>2, <1>6, <4>1, <4>2 DEF ExitSyscall0, Known
      <4>5. GsSame
        BY <1>2, <4>3, <4>4, GsOne DEF Known
      <4> QED BY <4>5
    <3> QED BY <1>2, <1>6, <3>1, <3>2, Unchanged DEF ExitSyscall0, Known
  <2>2. PICK s : s = [r EXCEPT !.curg = None, !.pc = "stopm", !.ret = "sched"]
    OBVIOUS
  <2>3. s \in MRec /\ s.curg = None /\ s.pc = "stopm" /\ s.ret = "sched" /\ Kept(r, s)
       /\ s.iret = r.iret
    BY <1>2, <1>3, <2>2, PlaceNames DEF Known, MRec, Kept
  <2>4. Quiet(r, s)
    BY <1>2, <1>3, <2>3, AloneQuiet DEF Known, Kept, Alone, Elsewhere, Grips, Holding, Running,
         Stopping, Stale
  <2>5. ms' = [ms EXCEPT ![m] = s]
    BY <1>1, <1>2, <1>3, <1>6, <2>2 DEF ExitSyscall0, At, Known
  <2> QED BY <1>1, <2>1, <2>4, <2>5, QuietMove
<1> QED BY <1>4, <1>5, <1>6

(* A thread is handed a processor for the goroutine that is locked to it.  *)
LEMMA StopLockedWakeOk ==
    ASSUME SchedOk, thrown = "none", NEW m \in M, StopLockedWake(m), thrown' = "none"
    PROVE  SchedOk'
<1>1. PICK r : r = ms[m]
  OBVIOUS
<1>2. Known(m, r)
  BY <1>1, Thread DEF Known
<1>3. r.pc = "slkwait"
  BY <1>1 DEF StopLockedWake, At
<1>4. CASE TRUE
  <2>p. PICK p \in P : p = r.nextp /\ p # None /\ ps[p].m = None
    <3>1. MayAcquire(m, r.nextp)
      BY <1>1 DEF StopLockedWake, Verdict
    <3> QED BY <1>2, <3>1 DEF MayAcquire, Known, MRec
  <2>1. PICK s : s = [r EXCEPT !.park = FALSE, !.p = p, !.nextp = None, !.curg = r.lg, !.lg = None,
       !.pc = "user"]
    OBVIOUS
  <2>2. s \in MRec /\ s.park = FALSE /\ s.p = p /\ s.nextp = None /\ s.curg = r.lg /\ s.lg = None
       /\ s.pc = "user" /\ s.spinning = r.spinning /\ s.lp = r.lp /\ s.lm = r.lm /\ s.todo = r.todo
       /\ s.sp = r.sp /\ s.ret = r.ret /\ s.iret = r.iret /\ s.glist = r.glist
    BY <1>2, <2>1, PlaceNames DEF Known, MRec
  <2>3. Wf(s) /\ ~Runs(r) /\ Runs(s) /\ ~Stops(s) /\ LpOf(s) = LpOf(r) /\ SameBorn(r, s) /\ SameSpin(r,
       s)
    BY <1>2, <1>3, <2>2, <2>p, Consts DEF Known, SameBorn, SameSpin, Wf, ReturnsOf, LocalsOf,
         OnceInHands, Runs, Stops, Starts, Cont, LpOf, TodoOf, Calls, Injecting, Handing, WithP, Stale,
         Stopping, HandoffRets, WakeRets, Holding, Running
  <2>4. ms' = [ms EXCEPT ![m] = s] /\ ps' = Acquired(m, p)
    BY <1>1, <1>2, <1>3, <1>4, <2>1, <2>p DEF StopLockedWake, At, Known
  <2>5. SchedRest /\ sched'.pidle = sched.pidle /\ sched'.midle = sched.midle
       /\ sched'.nmspinning = sched.nmspinning
    BY <1>2, RestSame DEF StopLockedWake, Known
  <2>6. GsSame /\ netready' \subseteq G
    <3>1. PICK g \in G : g = r.lg
      BY <1>2, <1>3 DEF Known, MRec, Holding, Wf, LocalsOf, Cont, Calls, Injecting, Handing
    <3>2. PICK h : h = [gs[g] EXCEPT !.status = "Grunning", !.preempt = FALSE]
      OBVIOUS
    <3>3. h \in GRec /\ h.lockedm = gs[g].lockedm
      BY <1>2, <3>2 DEF GRec, Known
    <3>4. gs' = [gs EXCEPT ![g] = h]
      BY <1>1, <1>2, <3>1, <3>2 DEF StopLockedWake, Known, Executed
    <3>5. GsSame
      BY <1>2, <3>3, <3>4, GsOne DEF Known
    <3> QED BY <1>2, <3>5 DEF StopLockedWake, Known
  <2> QED BY <1>1, <1>4, <2>p, <2>2, <2>3, <2>4, <2>5, <2>6, AcquireStep
<1> QED BY <1>4
=============================================================================
