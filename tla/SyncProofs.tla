----------------------------- MODULE SyncProofs -----------------------------
(***************************************************************************)
(* The semaphores under package sync, for any goroutines and any programs: *)
(* no wakeup is lost, and a Mutex's woken bit stands for one wakeup.       *)
(***************************************************************************)
EXTENDS SyncInv, FiniteSetTheorems, SequenceTheorems, WellFoundedInduction, TLAPS

(***************************************************************************)
(* Stacks of return places.                                                *)
(***************************************************************************)
(* Calling and returning.                                                  *)
LEMMA Push ==
    ASSUME NEW r \in Place, NEW s \in Seq(Place)
    PROVE  /\ <<r>> \o s \in Seq(Place) /\ <<r>> \o s # << >>
           /\ Head(<<r>> \o s) = r /\ Tail(<<r>> \o s) = s
<1>1. <<r>> \in Seq(Place) /\ Len(<<r>>) = 1 /\ <<r>>[1] = r
  OBVIOUS
<1>2. /\ <<r>> \o s \in Seq(Place) /\ Len(<<r>> \o s) = 1 + Len(s)
      /\ \A i \in 1 .. 1 + Len(s) : (<<r>> \o s)[i] = IF i <= 1 THEN <<r>>[i] ELSE s[i - 1]
  BY <1>1, ConcatProperties
<1>3. (<<r>> \o s)[1] = r
  BY <1>1, <1>2
<1>4. Head(<<r>> \o s) = r /\ <<r>> \o s # << >>
  BY <1>2, <1>3
<1>5. Tail(<<r>> \o s) = s
  <2> DEFINE t == <<r>> \o s
  <2>1. t \in Seq(Place) /\ Len(t) = 1 + Len(s) /\ \A i \in 1 .. Len(s) : t[i + 1] = s[i]
    BY <1>2
  <2> HIDE DEF t
  <2>2. Tail(t) \in Seq(Place) /\ Len(Tail(t)) = Len(s) /\ \A i \in 1 .. Len(s) : Tail(t)[i] = s[i]
    BY <2>1
  <2>3. Tail(t) = s
    BY <2>2, SeqEqual
  <2> QED BY <2>3 DEF t
<1> QED BY <1>2, <1>4, <1>5

(* The stacks that occur.                                                  *)
LEMMA Stacks ==
    /\ Top \in Seq(Place) /\ Head(Top) = "next" /\ Tail(Top) = << >> /\ Top # << >>
    /\ \A p \in Place : /\ Ret(p) \in Seq(Place) /\ Head(Ret(p)) = p /\ Tail(Ret(p)) = Top
                        /\ Ret(p) # Top /\ Ret(p) # << >>
    /\ \A p \in Place, s \in Seq(Place) :
         /\ <<p>> \o s \in Seq(Place) /\ Head(<<p>> \o s) = p /\ Tail(<<p>> \o s) = s /\ <<p>> \o s # << >>
    /\ \A p \in Place : Ret(p) = <<p>> \o Top
<1>1. "next" \in Place
  BY DEF Place
<1>2. Top \in Seq(Place) /\ Head(Top) = "next" /\ Tail(Top) = << >> /\ Top # << >>
  <2>1. Top \in Seq(Place) /\ Len(Top) = 1 /\ Top[1] = "next"
    BY <1>1 DEF Top
  <2>2. Tail(Top) \in Seq(Place) /\ Len(Tail(Top)) = 0
    BY <2>1
  <2>3. Tail(Top) = << >>
    BY <2>2, EmptySeq
  <2> QED BY <2>1, <2>3
<1>3. \A p \in Place, s \in Seq(Place) :
        /\ <<p>> \o s \in Seq(Place) /\ Head(<<p>> \o s) = p /\ Tail(<<p>> \o s) = s /\ <<p>> \o s # << >>
  BY Push
<1>4. ASSUME NEW p \in Place
      PROVE  /\ Ret(p) = <<p>> \o Top /\ Ret(p) \in Seq(Place) /\ Head(Ret(p)) = p /\ Tail(Ret(p)) = Top
             /\ Ret(p) # Top /\ Ret(p) # << >>
  <2>1. Ret(p) = <<p>> \o Top
    BY DEF Ret
  <2>2. Ret(p) \in Seq(Place) /\ Head(Ret(p)) = p /\ Tail(Ret(p)) = Top /\ Ret(p) # << >>
    BY <1>2, <1>3, <2>1
  <2> QED BY <1>2, <2>1, <2>2
<1> QED BY <1>2, <1>3, <1>4

(* No two of the stacks are the same.                                      *)
LEMMA StacksDiffer ==
    /\ \A p, q \in Place : Ret(p) = Ret(q) => p = q
    /\ \A p, q \in Place : <<"lread">> \o Ret(p) # Ret(q) /\ <<"lread">> \o Ret(p) # Top
    /\ \A p \in Place : <<"lread">> \o Top # Ret(p) \/ p = "lread"
    /\ <<"lread">> \o Top # Top
    /\ \A p, q \in Place : <<"lread">> \o Ret(p) = <<"lread">> \o Ret(q) => p = q
    /\ \A p \in Place : <<"lread">> \o Ret(p) # <<"lread">> \o Top
    /\ \A p \in Place : <<"lread">> \o Ret(p) # << >>
<1>0. "lread" \in Place
  BY DEF Place, Locking
<1>1. ASSUME NEW p \in Place, NEW q \in Place PROVE Ret(p) = Ret(q) => p = q
  BY Stacks
<1>2. ASSUME NEW p \in Place
      PROVE  /\ Head(<<"lread">> \o Ret(p)) = "lread" /\ Tail(<<"lread">> \o Ret(p)) = Ret(p)
             /\ <<"lread">> \o Ret(p) # << >>
  BY <1>0, Stacks
<1>3. Tail(<<"lread">> \o Top) = Top /\ Head(<<"lread">> \o Top) = "lread"
  BY <1>0, Stacks
<1>4. ASSUME NEW p \in Place, NEW q \in Place
      PROVE  /\ <<"lread">> \o Ret(p) # Ret(q) /\ <<"lread">> \o Ret(p) # Top
             /\ <<"lread">> \o Ret(p) = <<"lread">> \o Ret(q) => p = q
             /\ <<"lread">> \o Ret(p) # <<"lread">> \o Top
  <2>1. Ret(p) # Top
    BY Stacks
  <2>2. <<"lread">> \o Ret(p) # Ret(q)
    BY <1>2, <2>1, Stacks
  <2>3. <<"lread">> \o Ret(p) # Top
    BY <1>2, Stacks
  <2>4. <<"lread">> \o Ret(p) # <<"lread">> \o Top
    BY <1>2, <1>3, <2>1
  <2>5. <<"lread">> \o Ret(p) = <<"lread">> \o Ret(q) => p = q
    BY <1>1, <1>2
  <2> QED BY <2>2, <2>3, <2>4, <2>5
<1>5. ASSUME NEW p \in Place PROVE <<"lread">> \o Top # Ret(p) \/ p = "lread"
  BY <1>3, Stacks
<1>6. <<"lread">> \o Top # Top
  BY <1>3, Stacks
<1> QED BY <1>1, <1>2, <1>4, <1>5, <1>6

(* The return places and the others are places.                            *)
LEMMA Places ==
    /\ Body \subseteq Place /\ Locking \subseteq Place /\ Unlocking \subseteq Place
    /\ Waking \subseteq Place /\ Releasing \subseteq Place /\ Pairing \subseteq Place
    /\ "next" \in Place /\ "unborn" \in Place /\ "lread" \in Place
BY DEF Place, Locking

(* Where a goroutine with one of these stacks goes on.                     *)
LEMMA GoesOn ==
    ASSUME NEW s, NEW l \in Place, l # "lread", s.pc # l
    PROVE  /\ s.k = Top => ~GoesOnAt(s, l)
           /\ \A p \in Place : s.k = Ret(p) /\ p # l => ~GoesOnAt(s, l)
           /\ s.k = <<"lread">> \o Top => ~GoesOnAt(s, l)
           /\ \A p \in Place : s.k = <<"lread">> \o Ret(p) /\ p # l => ~GoesOnAt(s, l)
<1>1. GoesOnAt(s, l) => s.k = Ret(l) \/ s.k = <<"lread">> \o Ret(l)
  BY DEF GoesOnAt
<1>2. Ret(l) # Top /\ <<"lread">> \o Ret(l) # Top
  BY Stacks, StacksDiffer
<1>3. \A p \in Place : p # l => Ret(l) # Ret(p) /\ <<"lread">> \o Ret(l) # Ret(p)
  BY StacksDiffer
<1>4. Ret(l) # <<"lread">> \o Top /\ <<"lread">> \o Ret(l) # <<"lread">> \o Top
  BY StacksDiffer
<1>5. \A p \in Place : p # l => Ret(l) # <<"lread">> \o Ret(p) /\ <<"lread">> \o Ret(l) # <<"lread">> \o Ret(p)
  BY StacksDiffer
<1> HIDE DEF Ret, Top
<1> QED BY <1>1, <1>2, <1>3, <1>4, <1>5

(***************************************************************************)
(* What the record of a goroutine has to look like at a place.             *)
(***************************************************************************)
(* In a call of the package, outside of Mutex and semaphores.              *)
LEMMA WfBody ==
    ASSUME NEW s \in Gr, s.pc \in Body, s.k = Top, ~s.awoke,
           s.pc = "waitsleep" => s.ws \in WgSet,
           s.n # 0 => s.pc \in {"wwait", "wrelease", "scas", "bcas", "addwake"},
           s.pc = "addwake" => s.n >= 0, s.pc \in {"scas", "bcas"} => s.n >= 1
    PROVE  Wf(s)
<1>1. \A l \in Body : GoesOnAt(s, l) => s.pc = l
  BY Stacks, StacksDiffer, Places DEF GoesOnAt
<1>2. s.pc \notin {"next", "unborn"} \cup Locking \cup Unlocking \cup Waking \cup Releasing \cup {"yacq", "yparked"}
  BY DEF Body, Locking, Unlocking, Waking, Releasing
<1>3. StackOf(s)
  BY <1>2 DEF StackOf
<1>4. "waitsleep" \in Body /\ "wrelease" \in Body /\ "addwake" \in Body
  BY DEF Body
<1>5. s.pc # "ucas"
  BY <1>2 DEF Unlocking
<1>6. LocalsOf(s)
  BY <1>1, <1>4, <1>5 DEF LocalsOf, GoesOnAt
<1> QED BY <1>3, <1>6 DEF Wf, Signals, Body

LEMMA BodyFacts ==
    ASSUME NEW r, Wf(r), r.pc \in Body
    PROVE  /\ r \in Gr /\ r.k = Top /\ ~r.awoke
           /\ r.pc = "waitsleep" => r.ws \in WgSet
           /\ r.n # 0 => r.pc \in {"wwait", "wrelease", "scas", "bcas", "addwake"}
           /\ r.pc = "addwake" => r.n >= 0
           /\ r.pc \in {"scas", "bcas"} => r.n >= 1
<1>1. r \in Gr /\ r.k = Top
  BY DEF Wf, StackOf
<1>2. \A l \in Body : GoesOnAt(r, l) => r.pc = l
  BY <1>1, Stacks, StacksDiffer, Places DEF GoesOnAt
<1>3. r.pc \notin {"lread", "lcas"} \cup Waking \cup {"yrel"}
  BY DEF Body, Waking
<1>4. "waitsleep" \in Body /\ "wrelease" \in Body /\ "addwake" \in Body
  BY DEF Body
<1> QED BY <1>1, <1>2, <1>3, <1>4 DEF Wf, LocalsOf, GoesOnAt, Signals

(* What Back changes.                                                      *)
LEMMA BackFacts ==
    ASSUME NEW r \in Gr, NEW p \in Place, NEW t \in Seq(Place), Head(r.k) = p, Tail(r.k) = t
    PROVE  /\ Back(r) \in Gr /\ Back(r).pc = p /\ Back(r).k = t /\ Back(r).sa = Nil
           /\ Back(r).mu = r.mu /\ Back(r).awoke = r.awoke /\ Back(r).n = r.n /\ Back(r).ws = r.ws
           /\ Back(r).old = r.old /\ Back(r).ip = r.ip /\ Back(r).zero = r.zero
BY DEF Back, Gr

(* Back in the program.                                                    *)
LEMMA WfNext ==
    ASSUME NEW r \in Gr, r.k = Top, ~r.awoke, r.n = 0
    PROVE  /\ Wf(Back(r)) /\ Back(r).pc = "next" /\ Back(r).sa = Nil
           /\ Back(r).mu = r.mu /\ Back(r).awoke = r.awoke
<1> DEFINE s == Back(r)
<1>0. Head(r.k) = "next" /\ Tail(r.k) = << >> /\ << >> \in Seq(Place)
  <2>1. Head(Top) = "next" /\ Tail(Top) = << >>
    BY Stacks
  <2>2. << >> \in Seq(Place)
    OBVIOUS
  <2> QED BY <2>1, <2>2
<1>1. s \in Gr /\ s.pc = "next" /\ s.k = << >> /\ s.awoke = r.awoke /\ s.n = 0 /\ s.sa = Nil /\ s.mu = r.mu
  BY <1>0, BackFacts, Places
<1> HIDE DEF s
<1>2. s.pc \notin Body \cup {"yrel"} \cup Locking \cup Unlocking \cup Waking \cup Releasing \cup {"yacq", "yparked", "ucas"}
  BY <1>1 DEF Body, Locking, Unlocking, Waking, Releasing
<1>3. \A l \in Body : ~GoesOnAt(s, l)
  BY <1>1, <1>2 DEF GoesOnAt
<1>4. "waitsleep" \in Body /\ "wrelease" \in Body /\ "addwake" \in Body
  BY DEF Body
<1>5. StackOf(s) /\ LocalsOf(s)
  BY <1>1, <1>2, <1>3, <1>4 DEF StackOf, LocalsOf
<1> QED BY <1>1, <1>5 DEF Wf, Signals, s

(* Back in a call of the package.                                          *)
LEMMA WfReturn ==
    ASSUME NEW r \in Gr, NEW p \in Body \ {"scas", "bcas"}, r.k = Ret(p), ~r.awoke,
           p = "waitsleep" => r.ws \in WgSet,
           r.n # 0 => p \in {"wrelease", "addwake"},
           p = "addwake" => r.n >= 0
    PROVE  /\ Wf(Back(r)) /\ Back(r).pc = p /\ Back(r).sa = Nil
           /\ Back(r).mu = r.mu /\ Back(r).awoke = r.awoke
<1> DEFINE s == Back(r)
<1>0. p \in Place
  BY Places
<1>1. /\ s \in Gr /\ s.pc = p /\ s.k = Top /\ s.awoke = r.awoke /\ s.n = r.n /\ s.ws = r.ws
      /\ s.sa = Nil /\ s.mu = r.mu
  <2>1. Head(r.k) = p /\ Tail(r.k) = Top /\ Top \in Seq(Place)
    BY <1>0, Stacks
  <2> QED BY <1>0, <2>1, BackFacts
<1> HIDE DEF s
<1>2. Wf(s)
  BY <1>1, WfBody
<1> QED BY <1>1, <1>2 DEF s

(* Calls of Lock and Unlock, of Semacquire and Semrelease.                 *)
LEMMA WfLock ==
    ASSUME NEW s \in Gr, s.pc \in Locking, LockStack(s.mu, s.k), s.awoke => s.pc # "lock",
           s.n = 0 \/ (s.k = Ret("addwake") /\ s.n >= 0)
    PROVE  Wf(s)
<1>0. s.k = Top \/ \E p \in Place \ {"waitsleep"} : s.k = Ret(p)
  BY DEF LockStack, Place, Body
<1>2. s.pc \notin {"next", "unborn", "yrel", "yacq", "yparked", "ucas"} \cup Body \cup Unlocking \cup Waking \cup Releasing
  BY DEF Body, Locking, Unlocking, Waking, Releasing
<1>3. StackOf(s)
  BY <1>2 DEF StackOf
<1>4. ~GoesOnAt(s, "waitsleep")
  <2>1. "waitsleep" \in Place /\ s.pc # "waitsleep"
    BY <1>2 DEF Body, Place
  <2> QED BY <1>0, <2>1, GoesOn
<1>5. s.n # 0 => GoesOnAt(s, "addwake")
  BY <1>2 DEF GoesOnAt
<1>6. s.n >= 0
  OBVIOUS
<1>7. LocalsOf(s)
  BY <1>2, <1>4, <1>5, <1>6 DEF LocalsOf, Locking
<1> QED BY <1>3, <1>7 DEF Wf, Signals, Locking

LEMMA WfUnlock ==
    ASSUME NEW s \in Gr, s.pc \in Unlocking, s.mu \in Mutexes, UnlockStack(s.mu, s.k), ~s.awoke, s.n = 0,
           s.k = Ret("waitsleep") => s.ws \in WgSet,
           s.pc = "ucas" => ~NobodyToWake(s.old)
    PROVE  Wf(s)
<1>0. s.k = Top \/ s.k = Ret("waitsleep") \/ s.k = Ret("csleep")
  BY DEF UnlockStack
<1>1. {"waitsleep", "csleep", "addwake"} \subseteq Place
  BY DEF Place, Body
<1>2. s.pc \notin {"next", "unborn", "yrel", "yacq", "yparked"} \cup Body \cup Locking \cup Waking \cup Releasing
  BY DEF Body, Locking, Unlocking, Waking, Releasing
<1>3. StackOf(s)
  BY <1>2 DEF StackOf
<1>4. GoesOnAt(s, "waitsleep") => s.k = Ret("waitsleep")
  <2>1. s.pc # "waitsleep"
    BY <1>2 DEF Body
  <2> QED BY <1>0, <1>1, <2>1, GoesOn
<1>5. ~GoesOnAt(s, "addwake")
  <2>1. s.pc # "addwake"
    BY <1>2 DEF Body
  <2> QED BY <1>0, <1>1, <2>1, GoesOn
<1>6. LocalsOf(s)
  BY <1>2, <1>4, <1>5 DEF LocalsOf
<1> QED BY <1>3, <1>6 DEF Wf, Signals, Unlocking

LEMMA WfAcquire ==
    ASSUME NEW s \in Gr, s.pc \in Waking, s.sa \in Sems, s.sa \notin Mutexes, s.k = Top, ~s.awoke, s.n = 0
    PROVE  Wf(s)
<1>1. \A l \in Body : GoesOnAt(s, l) => s.pc = l
  BY Stacks, StacksDiffer, Places DEF GoesOnAt
<1>2. s.pc \notin {"next", "unborn", "yrel", "yacq", "yparked", "ucas"} \cup Body \cup Locking \cup Unlocking \cup Releasing
  BY DEF Body, Locking, Unlocking, Waking, Releasing
<1>3. StackOf(s)
  BY <1>2 DEF StackOf
<1>4. "waitsleep" \in Body /\ "wrelease" \in Body /\ "addwake" \in Body
  BY DEF Body
<1>5. LocalsOf(s)
  BY <1>1, <1>2, <1>4 DEF LocalsOf
<1> QED BY <1>3, <1>5 DEF Wf, Signals, Waking

LEMMA WfRelease ==
    ASSUME NEW s \in Gr, s.pc \in Releasing, s.sa \in Sems, ~s.awoke,
           \/ s.sa = "readerSem" /\ s.k = Ret("wrelease")
           \/ s.sa = "writerSem" /\ s.k = Top /\ s.n = 0
           \/ s.sa \in WgSet /\ s.k = Ret("addwake") /\ s.n >= 0
    PROVE  Wf(s)
<1>0. /\ s.sa \notin Mutexes
      /\ s.sa = "readerSem" => s.sa # "writerSem" /\ s.sa \notin WgSet
      /\ s.sa = "writerSem" => s.sa # "readerSem" /\ s.sa \notin WgSet
  BY SyncConstants DEF Mutexes, WgSet
<1>1. s.pc \notin {"next", "unborn", "yrel", "yacq", "yparked", "ucas", "lread", "lcas"} \cup Body \cup Locking
                   \cup Unlocking \cup Waking
  BY DEF Body, Locking, Unlocking, Waking, Releasing
<1>2. StackOf(s)
  BY <1>0, <1>1 DEF StackOf
<1>3. "waitsleep" \in Body /\ "wrelease" \in Body /\ "addwake" \in Body
  BY DEF Body
<1>4. {"waitsleep", "wrelease", "addwake"} \subseteq Place /\ s.pc \notin {"waitsleep", "wrelease", "addwake"}
  BY <1>1, <1>3, Places
<1>a. s.k = Top \/ s.k = Ret("wrelease") \/ s.k = Ret("addwake")
  OBVIOUS
<1>5. ~GoesOnAt(s, "waitsleep")
  BY <1>4, <1>a, GoesOn
<1>6. GoesOnAt(s, "addwake") => s.k = Ret("addwake")
  BY <1>4, <1>a, GoesOn
<1>7. s.k = Ret("addwake") => s.n >= 0
  BY <1>3, Stacks, StacksDiffer, Places
<1>8. s.n # 0 => GoesOnAt(s, "wrelease") \/ GoesOnAt(s, "addwake")
  BY <1>1 DEF GoesOnAt
<1>9. LocalsOf(s)
  BY <1>1, <1>5, <1>6, <1>7, <1>8 DEF LocalsOf
<1> QED BY <1>2, <1>9 DEF Wf, Signals, Releasing

(***************************************************************************)
(* Steps of a goroutine that take no part in a semaphore's accounts.       *)
(***************************************************************************)
(* Neither sleeping, releasing nor awake after a sleep in Lock.            *)
Quiet(r) == r.pc \notin Waking \cup Releasing /\ ~r.awoke

(* At the first step of Semacquire or Semrelease of no Mutex.              *)
Called(s) == s.pc \in {"sacq", "srel"} /\ s.sa \in Sems \ Mutexes /\ ~s.awoke

BodyMove(r, s) ==
    /\ Quiet(r) /\ r.pc # "yparked"
    /\ Wf(s) /\ (Quiet(s) \/ Called(s)) /\ s.pc # "yparked"
    /\ \A x \in {"wgm", "om"} : Owns(s, x) => Owns(r, x)

(* At a place of the package's own, and what its record holds there.       *)
InBody(r) == Wf(r) /\ r.pc \in Body

LEMMA BodyQuiet ==
    ASSUME NEW r, InBody(r)
    PROVE  /\ Quiet(r) /\ r.pc # "yparked"
           /\ r \in Gr /\ r.k = Top /\ ~r.awoke
           /\ r.pc = "waitsleep" => r.ws \in WgSet
           /\ r.n # 0 => r.pc \in {"wwait", "wrelease", "scas", "bcas", "addwake"}
           /\ r.pc = "addwake" => r.n >= 0
           /\ r.pc \in {"scas", "bcas"} => r.n >= 1
<1>1. r.pc \notin Waking \cup Releasing \cup {"yparked"}
  BY DEF InBody, Body, Waking, Releasing
<1> QED BY <1>1, BodyFacts DEF Quiet, InBody

(* The call returns to the program.                                        *)
LEMMA MoveBack ==
    ASSUME NEW r, Quiet(r), r.pc # "yparked", NEW q \in Gr, q.k = Top, ~q.awoke, q.n = 0
    PROVE  BodyMove(r, Back(q)) /\ Back(q).pc = "next"
<1> DEFINE s == Back(q)
<1>1. Wf(s) /\ s.pc = "next" /\ s.awoke = q.awoke
  BY WfNext
<1> HIDE DEF s
<1>2. Quiet(s) /\ s.pc # "yparked" /\ \A x \in {"wgm", "om"} : ~Owns(s, x)
  BY <1>1 DEF Quiet, Waking, Releasing, Owns
<1> QED BY <1>1, <1>2 DEF BodyMove, s

(* The next step of the same call.                                         *)
LEMMA MoveBody ==
    ASSUME NEW r, InBody(r), NEW s \in Gr, s.pc \in Body, s.k = Top, ~s.awoke,
           s.pc = "waitsleep" => s.ws \in WgSet,
           s.n # 0 => s.pc \in {"wwait", "wrelease", "scas", "bcas", "addwake"},
           s.pc = "addwake" => s.n >= 0, s.pc \in {"scas", "bcas"} => s.n >= 1,
           s.pc \in {"addwake", "waitadd", "waitlook", "waitundo"} =>
               r.pc \in {"addwake", "waitadd", "waitlook", "waitundo"},
           s.pc \in {"dof", "dofpanic", "f", "fpanic", "fdone"} =>
               r.pc \in {"dof", "dofpanic", "f", "fpanic", "fdone"}
    PROVE  BodyMove(r, s)
<1>1. Wf(s)
  BY WfBody
<1>2. InBody(s)
  BY <1>1 DEF InBody
<1>3. s.pc # "unlock" /\ s.pc \notin Releasing
  BY DEF Body, Releasing
<1>4. \A x \in {"wgm", "om"} : Owns(s, x) => Owns(r, x)
  BY <1>3 DEF Owns
<1> QED BY <1>1, <1>2, <1>4, BodyQuiet DEF BodyMove

(* Calls of Lock and Unlock.                                               *)
LEMMA MoveLock ==
    ASSUME NEW r, InBody(r), r.n = 0, NEW x \in Mutexes, NEW p \in Place, LockStack(x, Ret(p))
    PROVE  BodyMove(r, CallLock(r, x, p)) /\ CallLock(r, x, p).pc = "lock"
<1> DEFINE s == CallLock(r, x, p)
<1>0. r \in Gr /\ r.k = Top /\ ~r.awoke /\ Quiet(r) /\ r.pc # "yparked"
  BY BodyQuiet
<1>1. Ret(p) \in Seq(Place) /\ <<p>> \o r.k = Ret(p) /\ "lock" \in Place
  BY <1>0, Stacks DEF Place, Locking
<1>2. s \in Gr /\ s.pc = "lock" /\ s.mu = x /\ s.k = Ret(p) /\ s.awoke = r.awoke /\ s.n = 0
  BY <1>0, <1>1 DEF CallLock, CallTo, Gr
<1> HIDE DEF s
<1>3. Wf(s)
  BY <1>0, <1>2, WfLock DEF Locking
<1>4. Quiet(s) /\ s.pc # "yparked" /\ \A y \in {"wgm", "om"} : ~Owns(s, y)
  BY <1>0, <1>2 DEF Quiet, Waking, Releasing, Owns
<1> QED BY <1>0, <1>2, <1>3, <1>4 DEF BodyMove, s

LEMMA MoveUnlock ==
    ASSUME NEW r, InBody(r), NEW s \in Gr, s.pc = "unlock", s.mu \in Mutexes, UnlockStack(s.mu, s.k),
           ~s.awoke, s.n = 0, s.k = Ret("waitsleep") => s.ws \in WgSet,
           s.mu \in {"wgm", "om"} => Owns(r, s.mu)
    PROVE  BodyMove(r, s)
<1>1. Wf(s)
  BY WfUnlock DEF Unlocking
<1>2. Quiet(s) /\ s.pc # "yparked" /\ s.pc \notin Releasing
  BY DEF Quiet, Waking, Releasing
<1>3. \A x \in {"wgm", "om"} : Owns(s, x) => Owns(r, x)
  BY <1>2 DEF Owns
<1> QED BY <1>1, <1>2, <1>3, BodyQuiet DEF BodyMove

(* Calls of Semacquire and Semrelease.                                     *)
LEMMA MoveAcquire ==
    ASSUME NEW r, InBody(r), NEW s \in Gr, s.pc = "sacq", s.sa \in Sems \ Mutexes, s.k = Top, ~s.awoke, s.n = 0
    PROVE  BodyMove(r, s)
<1>1. Wf(s)
  BY WfAcquire DEF Waking
<1>2. \A x \in {"wgm", "om"} : ~Owns(s, x)
  BY DEF Owns, Releasing
<1> QED BY <1>1, <1>2, BodyQuiet DEF BodyMove, Called

LEMMA MoveRelease ==
    ASSUME NEW r, InBody(r), NEW s \in Gr, s.pc = "srel", s.sa \in Sems, ~s.awoke,
           \/ s.sa = "readerSem" /\ s.k = Ret("wrelease")
           \/ s.sa = "writerSem" /\ s.k = Top /\ s.n = 0
           \/ s.sa \in WgSet /\ s.k = Ret("addwake") /\ s.n >= 0 /\ r.pc = "addwake"
    PROVE  BodyMove(r, s)
<1>1. Wf(s)
  BY WfRelease DEF Releasing
<1>2. s.sa \notin Mutexes /\ (s.sa \in WgSet => s.sa \notin {"readerSem", "writerSem"})
  BY SyncConstants DEF WgSet, Mutexes
<1>3. \A x \in {"wgm", "om"} : Owns(s, x) => Owns(r, x)
  BY <1>2 DEF Owns
<1> QED BY <1>1, <1>2, <1>3, BodyQuiet DEF BodyMove, Called

(* Goroutine g takes such a step.                                          *)
Moved(g) == \E s : gr' = [gr EXCEPT ![g] = s] /\ BodyMove(gr[g], s)

LEMMA AtBody ==
    ASSUME SyncTypes, PlaceInv, NEW g \in G, gr[g].pc \in Body
    PROVE  InBody(gr[g]) /\ gr[g] \in Gr
BY DEF PlaceInv, InBody, SyncTypes

LEMMA OtherSems == {"readerSem", "writerSem"} \cup WgSet \subseteq Sems \ Mutexes /\ Mutexes \subseteq Sems
BY SyncConstants DEF WgSet, Mutexes

LEMMA RWMoves ==
    ASSUME SyncTypes, PlaceInv, NEW g \in G, RWStep(g)
    PROVE  Moved(g) /\ UNCHANGED <<semavars, prog, mutex, wg, cond, once, panicked>>
<1> DEFINE r == gr[g]
<1>0. ASSUME r.pc \in Body
      PROVE  InBody(r) /\ r \in Gr /\ r.k = Top /\ ~r.awoke /\ Quiet(r) /\ r.pc # "yparked"
  BY <1>0, AtBody, BodyQuiet
<1>a. ASSUME r.pc \in Body, r.pc \notin {"wwait", "wrelease", "scas", "bcas", "addwake"}
      PROVE  r.n = 0 /\ BodyMove(r, Back(r))
  <2>1. InBody(r) /\ r \in Gr /\ r.k = Top /\ ~r.awoke /\ Quiet(r) /\ r.pc # "yparked"
    BY <1>a, <1>0
  <2>2. r.n = 0
    BY <1>a, <2>1, BodyQuiet
  <2> QED BY <2>1, <2>2, MoveBack
<1>1. CASE RLock(g)
  <2>1. r.pc \in Body /\ r.pc \notin {"wwait", "wrelease", "scas", "bcas", "addwake"}
    BY <1>1 DEF RLock, At, Body
  <2> DEFINE s == TailAcquire(r, "readerSem")
  <2>2. s \in Gr /\ s.pc = "sacq" /\ s.sa = "readerSem" /\ s.k = Top /\ s.awoke = r.awoke /\ s.n = 0
    BY <1>0, <1>a, <2>1, OtherSems, Places DEF TailAcquire, Gr, Waking
  <2>3. BodyMove(r, s)
    <3> HIDE DEF s
    <3> QED BY <1>0, <2>1, <2>2, OtherSems, MoveAcquire
  <2> QED BY <1>1, <1>a, <2>1, <2>3 DEF RLock, Moved
<1>2. CASE RUnlock(g)
  <2>1. r.pc \in Body /\ r.pc \notin {"wwait", "wrelease", "scas", "bcas", "addwake"}
    BY <1>2 DEF RUnlock, At, Body
  <2> DEFINE s == [r EXCEPT !.pc = "rdepart"]
  <2>2. s \in Gr /\ s.pc = "rdepart" /\ s.k = Top /\ s.awoke = r.awoke /\ s.n = 0
    BY <1>0, <1>a, <2>1, Places DEF Gr, Body
  <2>3. BodyMove(r, s)
    <3> HIDE DEF s
    <3> QED BY <1>0, <2>1, <2>2, MoveBody DEF Body
  <2> QED BY <1>2, <1>a, <2>1, <2>3 DEF RUnlock, Moved
<1>3. CASE RDepart(g)
  <2>1. r.pc \in Body /\ r.pc \notin {"wwait", "wrelease", "scas", "bcas", "addwake"}
    BY <1>3 DEF RDepart, At, Body
  <2> DEFINE s == TailRelease(r, "writerSem")
  <2>2. s \in Gr /\ s.pc = "srel" /\ s.sa = "writerSem" /\ s.k = Top /\ s.awoke = r.awoke /\ s.n = 0
    BY <1>0, <1>a, <2>1, OtherSems, Places DEF TailRelease, Gr, Releasing
  <2>3. BodyMove(r, s)
    <3> HIDE DEF s
    <3> QED BY <1>0, <2>1, <2>2, OtherSems, MoveRelease
  <2> QED BY <1>3, <1>a, <2>1, <2>3 DEF RDepart, Moved
<1>4. CASE WAnnounce(g)
  <2>1. r.pc \in Body /\ r.pc \notin {"wwait", "wrelease", "scas", "bcas", "addwake"}
    BY <1>4 DEF WAnnounce, At, Body
  <2> DEFINE s == [r EXCEPT !.pc = "wwait", !.n = rw.readerCount]
  <2>2. s \in Gr /\ s.pc = "wwait" /\ s.k = Top /\ s.awoke = r.awoke
    BY <1>0, <2>1, Places DEF Gr, Body, SyncTypes
  <2>3. BodyMove(r, s)
    <3> HIDE DEF s
    <3> QED BY <1>0, <2>1, <2>2, MoveBody DEF Body
  <2> QED BY <1>4, <1>a, <2>1, <2>3 DEF WAnnounce, Moved
<1>5. CASE WWait(g)
  <2>1. r.pc \in Body
    BY <1>5 DEF WWait, At, Body
  <2> DEFINE q == [r EXCEPT !.n = 0]
             s == TailAcquire(q, "writerSem")
  <2>2. q \in Gr /\ q.k = Top /\ q.awoke = r.awoke /\ q.n = 0
    BY <1>0, <2>1 DEF Gr
  <2>3. s \in Gr /\ s.pc = "sacq" /\ s.sa = "writerSem" /\ s.k = Top /\ s.awoke = r.awoke /\ s.n = 0
    <3> HIDE DEF q
    <3> QED BY <2>2, OtherSems, Places DEF TailAcquire, Gr, Waking
  <2>4. BodyMove(r, s)
    <3> HIDE DEF s
    <3> QED BY <1>0, <2>1, <2>3, OtherSems, MoveAcquire
  <2>5. BodyMove(r, Back(q))
    <3> HIDE DEF q
    <3> QED BY <1>0, <2>1, <2>2, MoveBack
  <2> QED BY <1>5, <2>4, <2>5 DEF WWait, Moved
<1>6. CASE WUnlock(g)
  <2>1. r.pc \in Body
    BY <1>6 DEF WUnlock, At, Body
  <2> DEFINE s == [r EXCEPT !.pc = "wrelease", !.n = rw.readerCount + MaxReaders]
  <2>2. s \in Gr /\ s.pc = "wrelease" /\ s.k = Top /\ s.awoke = r.awoke
    <3>1. rw.readerCount + MaxReaders \in Int
      BY SyncConstants DEF SyncTypes
    <3>2. "wrelease" \in Place
      BY DEF Place, Body
    <3> QED BY <1>0, <2>1, <3>1, <3>2 DEF Gr
  <2>3. BodyMove(r, s)
    <3> HIDE DEF s
    <3> QED BY <1>0, <2>1, <2>2, MoveBody DEF Body
  <2>4. gr' = [gr EXCEPT ![g] = s]
    BY <1>6 DEF WUnlock, SyncTypes
  <2> QED BY <1>6, <2>3, <2>4 DEF WUnlock, Moved
<1>7. CASE WRelease(g)
  <2>1. r.pc \in Body
    BY <1>7 DEF WRelease, At, Body
  <2> DEFINE q == [r EXCEPT !.n = r.n - 1]
             s == CallRelease(q, "readerSem", "wrelease")
             u == [r EXCEPT !.n = 0]
             t == TailUnlock(u, "w")
  <2>2. q \in Gr /\ q.k = Top /\ q.awoke = r.awoke /\ u \in Gr /\ u.k = Top /\ u.awoke = r.awoke /\ u.n = 0
    BY <1>0, <2>1 DEF Gr
  <2>3. s \in Gr /\ s.pc = "srel" /\ s.sa = "readerSem" /\ s.k = Ret("wrelease") /\ s.awoke = r.awoke
    <3> HIDE DEF q
    <3>1. "srel" \in Place /\ "wrelease" \in Place
      BY DEF Place, Releasing, Body
    <3>2. <<"wrelease">> \o q.k = Ret("wrelease") /\ Ret("wrelease") \in Seq(Place)
      BY <2>2, <3>1, Stacks
    <3> QED BY <2>2, <3>1, <3>2, OtherSems DEF CallRelease, CallTo, Gr
  <2>4. t \in Gr /\ t.pc = "unlock" /\ t.mu = "w" /\ t.k = Top /\ t.awoke = r.awoke /\ t.n = 0
    <3> HIDE DEF u
    <3> QED BY <2>2, Places DEF TailUnlock, Gr, Mutexes, Unlocking
  <2>5. BodyMove(r, s)
    <3> HIDE DEF s
    <3> QED BY <1>0, <2>1, <2>3, OtherSems, MoveRelease
  <2>6. BodyMove(r, t)
    <3>1. Top # Ret("waitsleep")
      BY Stacks DEF Place, Body
    <3>2. UnlockStack("w", Top) /\ "w" \in Mutexes
      BY DEF UnlockStack, Mutexes
    <3> HIDE DEF t
    <3> QED BY <1>0, <2>1, <2>4, <3>1, <3>2, MoveUnlock
  <2>7. r.n > 0 => gr' = [gr EXCEPT ![g] = s]
    BY <1>7 DEF WRelease
  <2>8. ~(r.n > 0) => gr' = [gr EXCEPT ![g] = t]
    BY <1>7 DEF WRelease
  <2> QED BY <1>7, <2>5, <2>6, <2>7, <2>8 DEF WRelease, Moved, syncvars
<1> QED BY <1>1, <1>2, <1>3, <1>4, <1>5, <1>6, <1>7 DEF RWStep

(* Records that differ in the program counter or the history at most.      *)
Same(r, s) ==
    /\ s \in Gr /\ s.pc = r.pc /\ s.k = r.k /\ s.mu = r.mu /\ s.sa = r.sa /\ s.old = r.old
    /\ s.awoke = r.awoke /\ s.n = r.n /\ s.ws = r.ws

(* Every goroutine takes such a step or none.                              *)
AllMove == gr' \in [G -> Gr] /\ \A h \in G : Same(gr[h], gr'[h]) \/ BodyMove(gr[h], gr'[h])

LEMMA MovedAll ==
    ASSUME SyncTypes, NEW g \in G, Moved(g)
    PROVE  /\ AllMove /\ \A h \in G : h # g => gr'[h] = gr[h]
           /\ BodyMove(gr[g], gr'[g])
<1>1. PICK s : gr' = [gr EXCEPT ![g] = s] /\ BodyMove(gr[g], s)
  BY DEF Moved
<1>2. s \in Gr /\ gr \in [G -> Gr]
  BY <1>1 DEF BodyMove, Wf, SyncTypes
<1>3. gr' \in [G -> Gr] /\ gr'[g] = s /\ \A h \in G : h # g => gr'[h] = gr[h]
  BY <1>1, <1>2
<1>4. \A h \in G : gr[h] \in Gr
  BY <1>2
<1> QED BY <1>1, <1>3, <1>4 DEF AllMove, Same

(* The accounts of the WaitGroup when nobody of those who look moves.      *)
LEMMA WgKept ==
    ASSUME WgInv, wg'.sema = wg.sema, wg'.waiters = wg.waiters,
           \A h \in G : Looking(h) => Looking(h)'
    PROVE  WgInv'
BY DEF WgInv

(* Only the owner of the Mutex looks.                                      *)
LEMMA LookerOwns ==
    ASSUME OwnInv, NEW g \in G, gr[g].pc \in {"addwake", "waitadd", "waitlook", "waitundo"},
           NEW h \in G, Looking(h)
    PROVE  g = h
BY DEF OwnInv, Owns, Looking

LEMMA WgMoves ==
    ASSUME SyncTypes, PlaceInv, OwnInv, WgInv, NEW g \in G, WgStep(g)
    PROVE  /\ AllMove /\ WgInv' /\ UNCHANGED <<semavars, prog, mutex, rw, cond, once>>
           /\ wg' \in [counter : Int, waiters : Int, sema : Sems \cup {Nil}, allocated : Nat]
           /\ panicked' \in BOOLEAN
<1> DEFINE r == gr[g]
           WgType == [counter : Int, waiters : Int, sema : Sems \cup {Nil}, allocated : Nat]
           Frame == UNCHANGED <<semavars, prog, mutex, rw, cond, once>> /\ panicked' \in BOOLEAN
<1>t. gr \in [G -> Gr] /\ r \in Gr /\ wg \in WgType /\ panicked \in BOOLEAN
  BY DEF SyncTypes
<1>w. wg.sema \in WgSet \cup {Nil} /\ WgSet \subseteq Sems
  BY OtherSems DEF WgInv
<1>0. ASSUME r.pc \in Body
      PROVE  InBody(r) /\ r \in Gr /\ r.k = Top /\ ~r.awoke /\ Quiet(r) /\ r.pc # "yparked"
  BY <1>0, AtBody, BodyQuiet
<1>a. ASSUME r.pc \in Body, r.pc \notin {"wwait", "wrelease", "scas", "bcas", "addwake"}
      PROVE  r.n = 0 /\ BodyMove(r, Back(r))
  <2>1. InBody(r) /\ r \in Gr /\ r.k = Top /\ ~r.awoke /\ Quiet(r) /\ r.pc # "yparked"
    BY <1>a, <1>0
  <2>2. r.n = 0
    BY <1>a, <2>1, BodyQuiet
  <2> QED BY <2>1, <2>2, MoveBack
<1>b. ASSUME Moved(g), ~Looking(g), wg'.sema = wg.sema, wg'.waiters = wg.waiters
      PROVE  AllMove /\ WgInv'
  <2>1. AllMove /\ \A h \in G : h # g => gr'[h] = gr[h]
    BY <1>b, MovedAll
  <2>2. \A h \in G : Looking(h) => Looking(h)'
    BY <1>b, <2>1 DEF Looking
  <2> QED BY <1>b, <2>1, <2>2, WgKept
<1>1. CASE AddCount(g)
  <2>1. r.pc \in Body /\ r.pc \notin {"wwait", "wrelease", "scas", "bcas", "addwake"} /\ ~Looking(g)
    BY <1>1 DEF AddCount, Body, Looking
  <2> DEFINE v == wg.counter + Delta(g)
  <2>2. v \in Int
    BY <1>t DEF Delta
  <2>3. wg' \in WgType /\ wg'.sema = wg.sema /\ wg'.waiters = wg.waiters
    BY <1>1, <1>t, <2>2 DEF AddCount
  <2>4. CASE v < 0
    <3>1. gr' = gr /\ Frame
      <4>1. UNCHANGED <<semavars, prog, mutex, rw, cond, once>>
        BY <1>1 DEF AddCount
      <4>2. gr' = gr /\ panicked' = TRUE
        <5>1. ~(v > 0)
          BY <2>2, <2>4
        <5>2. (CASE v < 0 -> panicked' = TRUE /\ UNCHANGED gr
                 [] v > 0 -> gr' = Return(g) /\ UNCHANGED panicked
                 [] OTHER -> gr' = SawZero(Goto(g, "addlook")) /\ UNCHANGED panicked)
          BY <1>1 DEF AddCount
        <5> HIDE DEF v
        <5> QED BY <5>1, <5>2, <2>4
      <4> QED BY <4>1, <4>2
    <3>2. AllMove
      BY <1>t, <3>1 DEF AllMove, Same
    <3>3. WgInv'
      BY <2>3, <3>1, WgKept DEF Looking
    <3> QED BY <2>3, <3>1, <3>2, <3>3
  <2>5. CASE ~(v < 0) /\ v > 0
    <3>1. gr' = Return(g) /\ Frame
      BY <1>1, <1>t, <2>5 DEF AddCount
    <3>2. Moved(g)
      BY <1>a, <2>1, <3>1 DEF Moved, Return
    <3> QED BY <1>b, <2>1, <2>3, <3>1, <3>2
  <2>6. CASE ~(v < 0) /\ ~(v > 0)
    <3>1. gr' = SawZero(Goto(g, "addlook")) /\ Frame
      BY <1>1, <1>t, <2>6 DEF AddCount
    <3> DEFINE f == Goto(g, "addlook")
    <3>2. f \in [G -> Gr] /\ f[g] = [r EXCEPT !.pc = "addlook"] /\ \A h \in G : h # g => f[h] = gr[h]
      <4>1. "addlook" \in Place
        BY DEF Place, Body
      <4>2. [r EXCEPT !.pc = "addlook"] \in Gr
        BY <1>t, <4>1 DEF Gr
      <4>3. f = [gr EXCEPT ![g] = [r EXCEPT !.pc = "addlook"]]
        BY <1>t DEF Goto
      <4> QED BY <1>t, <4>2, <4>3
    <3> HIDE DEF f
    <3>3. \A h \in G : Same(f[h], gr'[h])
      <4> SUFFICES ASSUME NEW h \in G PROVE Same(f[h], gr'[h])
        OBVIOUS
      <4>0. f[h] \in Gr
        BY <3>2
      <4>1. gr'[h] = [f[h] EXCEPT !.zero = f[h].zero \/ (InWait(h) /\ f[h].pc # "next")]
        BY <3>1 DEF SawZero, f
      <4>2. (f[h].zero \/ (InWait(h) /\ f[h].pc # "next")) \in BOOLEAN
        OBVIOUS
      <4> QED BY <4>0, <4>1, <4>2 DEF Same, Gr
    <3>4. gr' \in [G -> Gr]
      <4>1. \A h \in G : gr'[h] \in Gr
        BY <3>3 DEF Same
      <4>2. gr' = [h \in G |-> [f[h] EXCEPT !.zero = @ \/ (InWait(h) /\ f[h].pc # "next")]]
        BY <3>1 DEF SawZero, f
      <4> QED BY <4>1, <4>2
    <3>5. BodyMove(r, gr'[g])
      <4> DEFINE s == gr'[g]
      <4>1. s \in Gr /\ s.pc = "addlook" /\ s.k = r.k /\ s.awoke = r.awoke /\ s.n = r.n
        <5>1. Same(f[g], s) /\ f[g].pc = "addlook" /\ f[g].k = r.k /\ f[g].awoke = r.awoke /\ f[g].n = r.n
          BY <1>t, <3>2, <3>3 DEF Gr
        <5> QED BY <5>1 DEF Same
      <4> HIDE DEF s
      <4>2. BodyMove(r, s)
        BY <1>0, <1>a, <2>1, <4>1, MoveBody DEF Body
      <4> QED BY <4>2 DEF s
    <3>6. AllMove
      BY <3>2, <3>3, <3>4, <3>5 DEF AllMove
    <3>7. \A h \in G : Looking(h) => Looking(h)'
      BY <2>1, <3>2, <3>3 DEF Looking, Same
    <3> QED BY <2>3, <3>1, <3>6, <3>7, WgKept
  <2> QED BY <2>4, <2>5, <2>6
<1>2. CASE AddLook(g)
  <2>1. r.pc \in Body /\ r.pc \notin {"wwait", "wrelease", "scas", "bcas", "addwake"} /\ ~Looking(g)
    BY <1>2 DEF AddLook, At, Body, Looking
  <2>2. wg' = wg /\ Frame
    BY <1>2, <1>t DEF AddLook, syncvars
  <2>3. BodyMove(r, CallLock(r, "wgm", "addwake"))
    <3>1. LockStack("wgm", Ret("addwake")) /\ "wgm" \in Mutexes /\ "addwake" \in Place
      BY DEF LockStack, Mutexes, Place, Body
    <3> QED BY <1>0, <1>a, <2>1, <3>1, MoveLock
  <2>4. Moved(g)
    BY <1>2, <1>a, <2>1, <2>3 DEF AddLook, Moved
  <2> QED BY <1>b, <1>t, <2>1, <2>2, <2>4
<1>3. CASE AddWake(g)
  <2>1. r.pc \in Body /\ r.pc = "addwake" /\ ~Looking(g)
    BY <1>3 DEF AddWake, At, Body, Looking
  <2>2. Frame /\ r.n >= 0 /\ r.n \in Int /\ InBody(r) /\ r.k = Top /\ ~r.awoke
    BY <1>3, <1>t, <1>0, <2>1, BodyQuiet DEF AddWake, Gr
  <2>3. CASE r.n < wg.waiters
    <3>1. wg.sema \in WgSet
      <4>1. wg.waiters > 0
        BY <1>t, <2>2, <2>3
      <4>2. \A h \in G : ~Looking(h)
        BY <2>1, LookerOwns
      <4> QED BY <1>w, <4>1, <4>2 DEF WgInv
    <3> DEFINE q == [r EXCEPT !.n = r.n + 1]
               s == CallRelease(q, wg.sema, "addwake")
    <3>2. q \in Gr /\ q.k = Top /\ q.awoke = r.awoke /\ q.n >= 0
      <4>1. r.n + 1 \in Int /\ r.n + 1 >= 0 /\ r.k = Top /\ r \in Gr
        BY <1>t, <2>2
      <4> QED BY <4>1 DEF Gr
    <3>3. s \in Gr /\ s.pc = "srel" /\ s.sa = wg.sema /\ s.k = Ret("addwake") /\ s.awoke = r.awoke /\ s.n >= 0
      <4> HIDE DEF q
      <4>1. "srel" \in Place /\ "addwake" \in Place
        BY DEF Place, Releasing, Body
      <4>2. <<"addwake">> \o q.k = Ret("addwake") /\ Ret("addwake") \in Seq(Place)
        BY <3>2, <4>1, Stacks
      <4> QED BY <1>w, <3>1, <3>2, <4>1, <4>2 DEF CallRelease, CallTo, Gr
    <3>4. BodyMove(r, s)
      <4> HIDE DEF s
      <4> QED BY <1>w, <2>1, <2>2, <3>1, <3>3, MoveRelease
    <3>5. gr' = [gr EXCEPT ![g] = s] /\ wg' = wg
      BY <1>3, <2>3 DEF AddWake
    <3> QED BY <1>b, <1>t, <2>1, <2>2, <3>4, <3>5 DEF Moved
  <2>4. CASE ~(r.n < wg.waiters)
    <3> DEFINE q == [r EXCEPT !.n = 0]
               s == TailUnlock(q, "wgm")
    <3>1. q \in Gr /\ q.k = Top /\ q.awoke = r.awoke /\ q.n = 0
      <4>1. r.k = Top /\ r \in Gr
        BY <1>t, <2>2
      <4> QED BY <4>1 DEF Gr
    <3>2. s \in Gr /\ s.pc = "unlock" /\ s.mu = "wgm" /\ s.k = Top /\ s.awoke = r.awoke /\ s.n = 0
      <4> HIDE DEF q
      <4> QED BY <3>1, Places DEF TailUnlock, Gr, Mutexes, Unlocking
    <3>3. BodyMove(r, s)
      <4>1. Top # Ret("waitsleep")
        BY Stacks DEF Place, Body
      <4>2. UnlockStack("wgm", Top) /\ "wgm" \in Mutexes /\ Owns(r, "wgm")
        BY <2>1 DEF UnlockStack, Mutexes, Owns
      <4> HIDE DEF s
      <4> QED BY <2>2, <3>2, <4>1, <4>2, MoveUnlock
    <3>4. gr' = [gr EXCEPT ![g] = s] /\ wg' = [wg EXCEPT !.waiters = 0, !.sema = Nil]
      BY <1>3, <2>4 DEF AddWake
    <3>5. wg' \in WgType /\ wg'.sema = Nil /\ wg'.waiters = 0
      <4>1. wg \in WgType /\ wg' = [wg EXCEPT !.waiters = 0, !.sema = Nil]
        BY <1>t, <3>4
      <4>2. /\ wg' = [counter |-> wg.counter, waiters |-> 0, sema |-> Nil, allocated |-> wg.allocated]
            /\ wg.counter \in Int /\ wg.allocated \in Nat
        BY <4>1
      <4> QED BY <4>2
    <3>6. WgInv'
      BY <3>5 DEF WgInv
    <3>7. AllMove
      <4> HIDE DEF s
      <4> QED BY <3>3, <3>4, MovedAll DEF Moved
    <3> QED BY <2>2, <3>5, <3>6, <3>7
  <2> QED BY <2>3, <2>4
<1>4. CASE WaitFast(g)
  <2>1. r.pc \in Body /\ r.pc \notin {"wwait", "wrelease", "scas", "bcas", "addwake"} /\ ~Looking(g)
    BY <1>4 DEF WaitFast, At, Body, Looking
  <2>2. wg' = wg /\ Frame
    BY <1>4, <1>t DEF WaitFast, syncvars
  <2>3. BodyMove(r, CallLock(r, "wgm", "waitadd"))
    <3>1. LockStack("wgm", Ret("waitadd")) /\ "wgm" \in Mutexes /\ "waitadd" \in Place
      BY DEF LockStack, Mutexes, Place, Body
    <3> QED BY <1>0, <1>a, <2>1, <3>1, MoveLock
  <2> DEFINE q == [r EXCEPT !.zero = TRUE]
  <2>4. BodyMove(r, Back(q))
    <3>1. q \in Gr /\ q.k = Top /\ q.awoke = r.awoke /\ q.n = 0
      BY <1>t, <1>0, <1>a, <2>1 DEF Gr
    <3> HIDE DEF q
    <3> QED BY <1>0, <2>1, <3>1, MoveBack
  <2>5. gr' = [gr EXCEPT ![g] = Back(q)] \/ gr' = [gr EXCEPT ![g] = CallLock(r, "wgm", "waitadd")]
    BY <1>4 DEF WaitFast
  <2>6. Moved(g)
    BY <2>3, <2>4, <2>5 DEF Moved
  <2> QED BY <1>b, <1>t, <2>1, <2>2, <2>6
<1>5. CASE WaitAdd(g)
  <2>1. r.pc \in Body /\ r.pc \notin {"wwait", "wrelease", "scas", "bcas", "addwake"} /\ r.pc = "waitadd"
    BY <1>5 DEF WaitAdd, At, Body
  <2> DEFINE s == [r EXCEPT !.pc = "waitlook"]
  <2>2. s \in Gr /\ s.pc = "waitlook" /\ s.k = r.k /\ s.awoke = r.awoke /\ s.n = r.n
    <3>1. "waitlook" \in Place
      BY DEF Place, Body
    <3> QED BY <1>t, <3>1 DEF Gr
  <2>3. BodyMove(r, s)
    <3> HIDE DEF s
    <3> QED BY <1>0, <1>a, <2>1, <2>2, MoveBody DEF Body
  <2>4. gr' = [gr EXCEPT ![g] = s] /\ wg' = [wg EXCEPT !.waiters = wg.waiters + 1] /\ Frame
    BY <1>5, <1>t DEF WaitAdd, Goto
  <2>5. AllMove /\ gr'[g].pc = "waitlook"
    <3>1. gr'[g] = s
      BY <1>t, <2>4
    <3> HIDE DEF s
    <3> QED BY <2>2, <2>3, <2>4, <3>1, MovedAll DEF Moved
  <2>6. wg' \in WgType /\ wg'.sema = wg.sema /\ wg'.waiters = wg.waiters + 1
    BY <1>t, <2>4
  <2>7. WgInv'
    <3>1. \A h \in G : ~Looking(h)
      BY <2>1, LookerOwns DEF Looking
    <3>2. wg.sema = Nil => wg'.waiters <= 1
      BY <1>t, <2>6, <3>1 DEF WgInv
    <3>3. Looking(g)'
      BY <2>5 DEF Looking
    <3> QED BY <1>w, <2>6, <3>2, <3>3 DEF WgInv
  <2> QED BY <2>4, <2>5, <2>6, <2>7
<1>6. CASE WaitLook(g)
  <2>1. r.pc \in Body /\ r.pc \notin {"wwait", "wrelease", "scas", "bcas", "addwake"} /\ r.pc = "waitlook"
    BY <1>6 DEF WaitLook, At, Body
  <2>f. Frame
    BY <1>6, <1>t DEF WaitLook
  <2>2. CASE ~StillBusy
    <3> DEFINE s == [r EXCEPT !.pc = "waitundo"]
    <3>1. s \in Gr /\ s.pc = "waitundo" /\ s.k = r.k /\ s.awoke = r.awoke /\ s.n = r.n
      <4>1. "waitundo" \in Place
        BY DEF Place, Body
      <4> QED BY <1>t, <4>1 DEF Gr
    <3>2. BodyMove(r, s)
      <4> HIDE DEF s
      <4> QED BY <1>0, <1>a, <2>1, <3>1, MoveBody DEF Body
    <3>3. gr' = [gr EXCEPT ![g] = s] /\ wg' = wg
      BY <1>6, <1>t, <2>2 DEF WaitLook, Goto
    <3>4. AllMove /\ gr'[g].pc = "waitundo" /\ \A h \in G : h # g => gr'[h] = gr[h]
      <4>1. gr'[g] = s
        BY <1>t, <3>3
      <4> HIDE DEF s
      <4> QED BY <3>1, <3>2, <3>3, <4>1, MovedAll DEF Moved
    <3>5. \A h \in G : Looking(h) => Looking(h)'
      BY <3>4 DEF Looking
    <3> QED BY <1>t, <2>f, <3>3, <3>4, <3>5, WgKept
  <2>3. CASE StillBusy
    <3> DEFINE a == wg.allocated + 1
    <3>1. PICK sm : sm = IF wg.sema = Nil THEN WgSemas[a] ELSE wg.sema
      OBVIOUS
    <3>2. /\ wg.sema = Nil => a <= Len(WgSemas)
          /\ wg' = IF wg.sema = Nil THEN [wg EXCEPT !.sema = sm, !.allocated = a] ELSE wg
          /\ gr' = [gr EXCEPT ![g] = CallUnlock([r EXCEPT !.ws = sm], "wgm", "waitsleep")]
      BY <1>6, <2>3, <3>1 DEF WaitLook
    <3>3. sm \in WgSet
      <4>1. CASE wg.sema = Nil
        <5>1. a \in 1 .. Len(WgSemas) /\ WgSemas \in Seq(Sems)
          BY <1>t, <3>2, <4>1, SyncConstants
        <5> QED BY <3>1, <4>1, <5>1 DEF WgSet, Range
      <4>2. CASE wg.sema # Nil
        BY <1>w, <3>1, <4>2
      <4> QED BY <4>1, <4>2
    <3> DEFINE q == [r EXCEPT !.ws = sm]
               s == CallUnlock(q, "wgm", "waitsleep")
    <3>4. q \in Gr /\ q.k = Top /\ q.awoke = r.awoke /\ q.n = 0 /\ q.ws = sm
      BY <1>t, <1>w, <1>0, <1>a, <2>1, <3>3 DEF Gr
    <3>5. /\ s \in Gr /\ s.pc = "unlock" /\ s.mu = "wgm" /\ s.k = Ret("waitsleep") /\ s.awoke = r.awoke /\ s.n = 0
          /\ s.ws = sm
      <4> HIDE DEF q
      <4>1. "unlock" \in Place /\ "waitsleep" \in Place /\ "wgm" \in Mutexes
        BY DEF Place, Unlocking, Body, Mutexes
      <4>2. <<"waitsleep">> \o q.k = Ret("waitsleep") /\ Ret("waitsleep") \in Seq(Place)
        BY <3>4, <4>1, Stacks
      <4> QED BY <3>4, <4>1, <4>2 DEF CallUnlock, CallTo, Gr
    <3>6. BodyMove(r, s)
      <4>1. UnlockStack("wgm", Ret("waitsleep")) /\ "wgm" \in Mutexes /\ Owns(r, "wgm")
        BY <2>1 DEF UnlockStack, Mutexes, Owns
      <4> HIDE DEF s
      <4> QED BY <1>0, <2>1, <3>3, <3>5, <4>1, MoveUnlock
    <3>7. AllMove
      <4>1. gr' = [gr EXCEPT ![g] = s]
        BY <3>2
      <4> HIDE DEF s
      <4> QED BY <3>6, <4>1, MovedAll DEF Moved
    <3>8. wg' \in WgType /\ wg'.sema \in WgSet
      <4>0. sm \in Sems /\ wg \in WgType /\ a \in Nat
        BY <1>t, <1>w, <3>3
      <4>1. CASE wg.sema = Nil
        <5>1. wg' = [wg EXCEPT !.sema = sm, !.allocated = a]
          BY <3>2, <4>1
        <5> HIDE DEF a
        <5> QED BY <3>3, <4>0, <5>1
      <4>2. CASE wg.sema # Nil
        BY <1>w, <3>2, <4>0, <4>2
      <4> QED BY <4>1, <4>2
    <3>9. WgInv'
      <4>1. wg'.sema # Nil
        BY <1>w, <3>8, RootAssumption
      <4> QED BY <3>8, <4>1 DEF WgInv
    <3> QED BY <2>f, <3>7, <3>8, <3>9
  <2> QED BY <2>2, <2>3
<1>7. CASE WaitUndo(g)
  <2>1. r.pc \in Body /\ r.pc \notin {"wwait", "wrelease", "scas", "bcas", "addwake"} /\ r.pc = "waitundo"
    BY <1>7 DEF WaitUndo, At, Body
  <2> DEFINE s == TailUnlock(r, "wgm")
  <2>2. s \in Gr /\ s.pc = "unlock" /\ s.mu = "wgm" /\ s.k = Top /\ s.awoke = r.awoke /\ s.n = 0
    BY <1>t, <1>0, <1>a, <2>1, Places DEF TailUnlock, Gr, Mutexes, Unlocking
  <2>3. BodyMove(r, s)
    <3>1. Top # Ret("waitsleep")
      BY Stacks DEF Place, Body
    <3>2. UnlockStack("wgm", Top) /\ "wgm" \in Mutexes /\ Owns(r, "wgm")
      BY <2>1 DEF UnlockStack, Mutexes, Owns
    <3> HIDE DEF s
    <3> QED BY <1>0, <2>1, <2>2, <3>1, <3>2, MoveUnlock
  <2>4. gr' = [gr EXCEPT ![g] = s] /\ wg' = [wg EXCEPT !.waiters = wg.waiters - 1] /\ Frame
    BY <1>7, <1>t DEF WaitUndo
  <2>5. AllMove
    <3> HIDE DEF s
    <3> QED BY <2>3, <2>4, MovedAll DEF Moved
  <2>6. wg' \in WgType /\ wg'.sema = wg.sema /\ wg'.waiters = wg.waiters - 1
    BY <1>t, <2>4
  <2>7. WgInv'
    BY <1>t, <1>w, <2>6 DEF WgInv
  <2> QED BY <2>4, <2>5, <2>6, <2>7
<1>8. CASE WaitSleep(g)
  <2>1. r.pc \in Body /\ r.pc \notin {"wwait", "wrelease", "scas", "bcas", "addwake"} /\ r.pc = "waitsleep"
    BY <1>8 DEF WaitSleep, At, Body
  <2>2. r.ws \in WgSet
    BY <1>0, <2>1, BodyQuiet
  <2> DEFINE q == [r EXCEPT !.ws = Nil]
             s == TailAcquire(q, r.ws)
  <2>3. q \in Gr /\ q.k = Top /\ q.awoke = r.awoke /\ q.n = 0
    BY <1>t, <1>0, <1>a, <2>1 DEF Gr
  <2>4. s \in Gr /\ s.pc = "sacq" /\ s.sa = r.ws /\ s.k = Top /\ s.awoke = r.awoke /\ s.n = 0
    <3> HIDE DEF q
    <3> QED BY <2>2, <2>3, OtherSems, Places DEF TailAcquire, Gr, Waking
  <2>5. BodyMove(r, s)
    <3> HIDE DEF s
    <3> QED BY <1>0, <2>1, <2>2, <2>4, OtherSems, MoveAcquire
  <2>6. gr' = [gr EXCEPT ![g] = s] /\ wg' = wg /\ Frame
    BY <1>8, <1>t DEF WaitSleep, syncvars
  <2>7. Moved(g) /\ ~Looking(g)
    BY <2>1, <2>5, <2>6 DEF Moved, Looking
  <2> QED BY <1>b, <1>t, <2>6, <2>7
<1> QED BY <1>1, <1>2, <1>3, <1>4, <1>5, <1>6, <1>7, <1>8 DEF WgStep

(* The paired semaphore of a Cond.                                         *)
LEMMA WfPair ==
    ASSUME NEW s \in Gr, ~s.awoke,
           \/ s.pc = "yacq" /\ s.k = Ret("crelock") /\ s.n = 0
           \/ s.pc = "yrel" /\ s.k = Top /\ s.n >= 1
           \/ s.pc = "yparked" /\ s.k \in {Top, Ret("crelock")} /\ s.n = 0
    PROVE  Wf(s)
<1>1. s.pc \notin {"next", "unborn", "ucas"} \cup Body \cup Locking \cup Unlocking \cup Waking \cup Releasing
  BY DEF Body, Locking, Unlocking, Waking, Releasing
<1>2. StackOf(s)
  BY <1>1 DEF StackOf
<1>3. {"waitsleep", "addwake", "crelock"} \subseteq Place /\ s.pc \notin {"waitsleep", "addwake", "crelock"}
  BY <1>1 DEF Place, Body
<1>4. s.k = Top \/ s.k = Ret("crelock")
  OBVIOUS
<1>5. ~GoesOnAt(s, "waitsleep") /\ ~GoesOnAt(s, "addwake")
  BY <1>3, <1>4, GoesOn
<1>6. s.n # 0 => s.pc = "yrel"
  OBVIOUS
<1>7. LocalsOf(s)
  BY <1>1, <1>5, <1>6 DEF LocalsOf
<1> QED BY <1>2, <1>7 DEF Wf, Signals

LEMMA SetPlace ==
    ASSUME NEW r \in Gr, NEW l \in Place, NEW n \in Int
    PROVE  LET s == [r EXCEPT !.pc = l, !.n = n] IN
           s \in Gr /\ s.pc = l /\ s.n = n /\ s.k = r.k /\ s.awoke = r.awoke /\ s.ws = r.ws
BY DEF Gr

LEMMA MovePair ==
    ASSUME NEW r, InBody(r), NEW s \in Gr, ~s.awoke,
           \/ s.pc = "yacq" /\ s.k = Ret("crelock") /\ s.n = 0
           \/ s.pc = "yrel" /\ s.k = Top /\ s.n >= 1
    PROVE  BodyMove(r, s)
<1>1. Wf(s)
  BY WfPair
<1>2. Quiet(s) /\ s.pc # "yparked" /\ \A x \in {"wgm", "om"} : ~Owns(s, x)
  BY DEF Quiet, Waking, Releasing, Owns
<1> QED BY <1>1, <1>2, BodyQuiet DEF BodyMove

LEMMA CondMoves ==
    ASSUME SyncTypes, PlaceInv, NEW g \in G, CondStep(g)
    PROVE  /\ Moved(g) /\ UNCHANGED <<semavars, prog, mutex, rw, wg, once, panicked>>
           /\ cond' \in [waiters : Nat, ready : BOOLEAN]
           /\ ~Looking(g)
<1> DEFINE r == gr[g]
           CondType == [waiters : Nat, ready : BOOLEAN]
           Frame == UNCHANGED <<semavars, prog, mutex, rw, wg, once, panicked>>
<1>t. gr \in [G -> Gr] /\ r \in Gr /\ cond \in CondType /\ r.n \in Int
  BY DEF SyncTypes, Gr
<1>0. ASSUME r.pc \in Body
      PROVE  InBody(r) /\ r \in Gr /\ r.k = Top /\ ~r.awoke /\ Quiet(r) /\ r.pc # "yparked"
  BY <1>0, AtBody, BodyQuiet
<1>a. ASSUME r.pc \in Body, r.pc \notin {"wwait", "wrelease", "scas", "bcas", "addwake"}
      PROVE  r.n = 0 /\ BodyMove(r, Back(r))
  <2>1. InBody(r) /\ r \in Gr /\ r.k = Top /\ ~r.awoke /\ Quiet(r) /\ r.pc # "yparked"
    BY <1>a, <1>0
  <2>2. r.n = 0
    BY <1>a, <2>1, BodyQuiet
  <2> QED BY <2>1, <2>2, MoveBack
<1>1. CASE CondWait(g)
  <2>1. r.pc \in Body /\ r.pc \notin {"wwait", "wrelease", "scas", "bcas", "addwake"} /\ ~Looking(g)
    BY <1>1 DEF CondWait, At, Body, Looking
  <2> DEFINE s == CallUnlock(r, "m", "csleep")
  <2>2. s \in Gr /\ s.pc = "unlock" /\ s.mu = "m" /\ s.k = Ret("csleep") /\ s.awoke = r.awoke /\ s.n = 0
    <3>1. "unlock" \in Place /\ "csleep" \in Place /\ "m" \in Mutexes
      BY DEF Place, Unlocking, Body, Mutexes
    <3>2. <<"csleep">> \o r.k = Ret("csleep") /\ Ret("csleep") \in Seq(Place)
      BY <1>0, <2>1, <3>1, Stacks
    <3> QED BY <1>t, <1>a, <2>1, <3>1, <3>2 DEF CallUnlock, CallTo, Gr
  <2>3. BodyMove(r, s)
    <3>1. UnlockStack("m", Ret("csleep")) /\ "m" \in Mutexes
      BY DEF UnlockStack, Mutexes
    <3>2. Ret("csleep") # Ret("waitsleep")
      BY StacksDiffer DEF Place, Body
    <3> HIDE DEF s
    <3> QED BY <1>0, <2>1, <2>2, <3>1, <3>2, MoveUnlock
  <2>4. gr' = [gr EXCEPT ![g] = s] \/ gr' = [gr EXCEPT ![g] = Back(r)]
    BY <1>1 DEF CondWait, Return
  <2>5. Moved(g)
    <3> HIDE DEF s
    <3> QED BY <1>a, <2>1, <2>3, <2>4 DEF Moved
  <2>6. cond' \in CondType /\ Frame
    BY <1>1, <1>t DEF CondWait
  <2> QED BY <2>1, <2>5, <2>6
<1>2. CASE CondSleep(g)
  <2>1. r.pc \in Body /\ r.pc \notin {"wwait", "wrelease", "scas", "bcas", "addwake"} /\ ~Looking(g)
    BY <1>2 DEF CondSleep, At, Body, Looking
  <2> DEFINE s == CallTo(r, "yacq", "crelock")
  <2>2. s \in Gr /\ s.pc = "yacq" /\ s.k = Ret("crelock") /\ s.awoke = r.awoke /\ s.n = 0
    <3>1. "yacq" \in Place /\ "crelock" \in Place
      BY DEF Place, Pairing, Body
    <3>2. <<"crelock">> \o r.k = Ret("crelock") /\ Ret("crelock") \in Seq(Place)
      BY <1>0, <2>1, <3>1, Stacks
    <3> QED BY <1>t, <1>a, <2>1, <3>1, <3>2 DEF CallTo, Gr
  <2>3. BodyMove(r, s)
    <3> HIDE DEF s
    <3> QED BY <1>0, <2>1, <2>2, MovePair
  <2> QED BY <1>2, <1>t, <2>1, <2>3 DEF CondSleep, Moved, syncvars
<1>3. CASE CondRelock(g)
  <2>1. r.pc \in Body /\ r.pc \notin {"wwait", "wrelease", "scas", "bcas", "addwake"} /\ ~Looking(g)
    BY <1>3 DEF CondRelock, At, Body, Looking
  <2>2. BodyMove(r, CallLock(r, "m", "await"))
    <3>1. LockStack("m", Ret("await")) /\ "m" \in Mutexes /\ "await" \in Place
      BY DEF LockStack, Mutexes, Place, Body
    <3> QED BY <1>0, <1>a, <2>1, <3>1, MoveLock
  <2> QED BY <1>3, <1>t, <2>1, <2>2 DEF CondRelock, Moved, syncvars
<1>4. CASE SetReady(g)
  <2>1. r.pc \in Body /\ r.pc \notin {"wwait", "wrelease", "scas", "bcas", "addwake"} /\ ~Looking(g)
    BY <1>4 DEF SetReady, At, Body, Looking
  <2>2. cond' \in CondType /\ Frame
    BY <1>4, <1>t DEF SetReady
  <2> QED BY <1>4, <1>a, <2>1, <2>2 DEF SetReady, Moved, Return
<1>5. CASE SignalLoad(g)
  <2>1. r.pc \in Body /\ r.pc \notin {"wwait", "wrelease", "scas", "bcas", "addwake"} /\ ~Looking(g)
    BY <1>5 DEF SignalLoad, Body, Looking
  <2>2. PICK l \in {"scas", "bcas"} : l = IF At(g, "signal") THEN "scas" ELSE "bcas"
    OBVIOUS
  <2> DEFINE s == [r EXCEPT !.pc = l, !.n = cond.waiters]
  <2>3. s \in Gr /\ s.pc = l /\ s.k = Top /\ s.awoke = r.awoke /\ s.n = cond.waiters
    <3>1. l \in Place /\ cond.waiters \in Int
      BY <1>t, <2>2 DEF Place, Body
    <3> QED BY <1>t, <1>0, <2>1, <3>1 DEF Gr
  <2>4. cond.waiters # 0 => BodyMove(r, s)
    <3>1. l \in Body
      BY <2>2 DEF Body
    <3>2. cond.waiters # 0 => cond.waiters >= 1
      BY <1>t
    <3> HIDE DEF s
    <3> QED BY <1>0, <2>1, <2>2, <2>3, <3>1, <3>2, MoveBody
  <2>5. (cond.waiters # 0 /\ gr' = [gr EXCEPT ![g] = s]) \/ gr' = [gr EXCEPT ![g] = Back(r)]
    BY <1>5, <2>2 DEF SignalLoad
  <2>6. Moved(g)
    <3> HIDE DEF s
    <3> QED BY <1>a, <2>1, <2>4, <2>5 DEF Moved
  <2> QED BY <1>5, <1>t, <2>1, <2>6 DEF SignalLoad, syncvars
<1>6. CASE SignalCas(g)
  <2>1. r.pc \in Body /\ ~Looking(g) /\ r.n >= 1
    <3>1. r.pc \in Body /\ ~Looking(g) /\ r.pc \in {"scas", "bcas"}
      BY <1>6 DEF SignalCas, Body, Looking
    <3> QED BY <1>0, <3>1, BodyQuiet
  <2>2. PICK l \in Place : l \in {"signal", "broadcast"} /\ l = IF r.pc = "scas" THEN "signal" ELSE "broadcast"
    BY DEF Place, Body
  <2>3. Released(g) \in Int /\ Released(g) >= 1
    BY <1>t, <2>1 DEF Released
  <2> DEFINE s == [r EXCEPT !.pc = "yrel", !.n = Released(g)]
             u == [r EXCEPT !.pc = l, !.n = 0]
  <2>4. /\ s \in Gr /\ s.pc = "yrel" /\ s.k = Top /\ s.awoke = r.awoke /\ s.n >= 1
        /\ u \in Gr /\ u.pc = l /\ u.k = Top /\ u.awoke = r.awoke /\ u.n = 0
    <3>1. "yrel" \in Place
      BY DEF Place, Pairing
    <3>2. r \in Gr /\ r.k = Top
      BY <1>0, <2>1
    <3>3. s \in Gr /\ s.pc = "yrel" /\ s.k = Top /\ s.awoke = r.awoke
      BY <2>3, <3>1, <3>2 DEF Gr
    <3>a. s.n = Released(g)
      BY <3>2 DEF Gr
    <3>4. u \in Gr /\ u.pc = l /\ u.k = Top /\ u.awoke = r.awoke /\ u.n = 0
      <4>1. 0 \in Int
        OBVIOUS
      <4>2. u \in Gr
        BY <3>2, <4>1, SetPlace
      <4>3. u.pc = l
        BY <3>2, <4>1, SetPlace
      <4>4. u.k = Top
        BY <3>2 DEF Gr
      <4>5. u.awoke = r.awoke
        BY <3>2 DEF Gr
      <4>6. u.n = 0
        BY <3>2, <4>1, SetPlace
      <4> QED BY <4>2, <4>3, <4>4, <4>5, <4>6
    <3> HIDE DEF s, u
    <3> QED BY <2>3, <3>3, <3>a, <3>4
  <2>5. BodyMove(r, s)
    <3> HIDE DEF s
    <3> QED BY <1>0, <2>1, <2>4, MovePair
  <2>6. BodyMove(r, u)
    <3>1. l \in Body
      BY <2>2 DEF Body
    <3> HIDE DEF u
    <3> QED BY <1>0, <2>1, <2>2, <2>4, <3>1, MoveBody
  <2>7. gr' = [gr EXCEPT ![g] = s] \/ gr' = [gr EXCEPT ![g] = u]
    BY <1>6, <1>t, <2>2 DEF SignalCas
  <2>8. Moved(g)
    <3> HIDE DEF s, u
    <3> QED BY <2>5, <2>6, <2>7 DEF Moved
  <2>9. cond' \in CondType
    <3>1. CASE cond.waiters = r.n
      <4>1. PICK d \in Nat : d = cond.waiters - (IF At(g, "bcas") THEN r.n ELSE 1)
        BY <1>t, <2>1, <3>1
      <4>2. cond' = [cond EXCEPT !.waiters = d]
        BY <1>6, <3>1, <4>1 DEF SignalCas
      <4> QED BY <1>t, <4>2
    <3>2. CASE cond.waiters # r.n
      BY <1>6, <1>t, <3>2 DEF SignalCas
    <3> QED BY <3>1, <3>2
  <2>10. Frame
    BY <1>6 DEF SignalCas
  <2> QED BY <2>1, <2>8, <2>9, <2>10
<1> QED BY <1>1, <1>2, <1>3, <1>4, <1>5, <1>6 DEF CondStep

LEMMA OnceMoves ==
    ASSUME SyncTypes, PlaceInv, NEW g \in G, OnceStep(g)
    PROVE  /\ Moved(g) /\ UNCHANGED <<semavars, prog, mutex, rw, wg, cond, panicked>>
           /\ once' \in [done : BOOLEAN, called : Nat, returned : Nat]
           /\ ~Looking(g)
<1> DEFINE r == gr[g]
           OnceType == [done : BOOLEAN, called : Nat, returned : Nat]
           Frame == UNCHANGED <<semavars, prog, mutex, rw, wg, cond, panicked>>
<1>t. gr \in [G -> Gr] /\ r \in Gr /\ once \in OnceType
  BY DEF SyncTypes
<1>0. /\ r.pc \in Body /\ r.pc \notin {"wwait", "wrelease", "scas", "bcas", "addwake"} /\ ~Looking(g)
      /\ InBody(r) /\ r.k = Top /\ ~r.awoke /\ Quiet(r) /\ r.pc # "yparked" /\ r.n = 0
  <2>1. r.pc \in {"do", "dopanic", "dof", "dofpanic", "f", "fpanic", "fdone"}
    BY DEF OnceStep, DoFast, DoSlow, FReturns, FPanics, DoStore, At
  <2>2. r.pc \in Body /\ r.pc \notin {"wwait", "wrelease", "scas", "bcas", "addwake"} /\ ~Looking(g)
    BY <2>1 DEF Body, Looking
  <2> QED BY <2>2, AtBody, BodyQuiet
<1> DEFINE u == TailUnlock(r, "om")
<1>u. r.pc \in {"dof", "dofpanic", "f", "fpanic", "fdone"} => BodyMove(r, u)
  <2>1. u \in Gr /\ u.pc = "unlock" /\ u.mu = "om" /\ u.k = Top /\ u.awoke = r.awoke /\ u.n = 0
    BY <1>t, <1>0, Places DEF TailUnlock, Gr, Mutexes, Unlocking
  <2>2. Top # Ret("waitsleep")
    BY Stacks DEF Place, Body
  <2>3. UnlockStack("om", Top) /\ "om" \in Mutexes
    BY DEF UnlockStack, Mutexes
  <2>4. r.pc \in {"dof", "dofpanic", "f", "fpanic", "fdone"} => Owns(r, "om")
    BY DEF Owns
  <2> HIDE DEF u
  <2> QED BY <1>0, <2>1, <2>2, <2>3, <2>4, MoveUnlock
<1>g. ASSUME NEW l \in {"f", "fpanic", "fdone"}, r.pc \in {"dof", "dofpanic", "f"}
      PROVE  BodyMove(r, [r EXCEPT !.pc = l]) /\ Goto(g, l) = [gr EXCEPT ![g] = [r EXCEPT !.pc = l]]
  <2> DEFINE s == [r EXCEPT !.pc = l]
  <2>1. l \in Place /\ l \in Body
    BY <1>g DEF Place, Body
  <2>2. s \in Gr /\ s.pc = l /\ s.k = Top /\ s.awoke = r.awoke /\ s.n = 0
    BY <1>t, <1>0, <2>1 DEF Gr
  <2>3. BodyMove(r, s)
    <3> HIDE DEF s
    <3> QED BY <1>0, <1>g, <2>1, <2>2, MoveBody
  <2>4. Goto(g, l) = [gr EXCEPT ![g] = s]
    BY <1>t DEF Goto
  <2> QED BY <2>3, <2>4
<1> HIDE DEF u
<1>1. CASE DoFast(g)
  <2>1. PICK l \in {"dof", "dofpanic"} : l = IF r.pc = "do" THEN "dof" ELSE "dofpanic"
    OBVIOUS
  <2>2. BodyMove(r, CallLock(r, "om", l))
    <3>1. LockStack("om", Ret(l)) /\ "om" \in Mutexes /\ l \in Place
      BY <2>1 DEF LockStack, Mutexes, Place, Body
    <3> QED BY <1>0, <3>1, MoveLock
  <2>3. BodyMove(r, Back(r))
    BY <1>t, <1>0, MoveBack
  <2>4. gr' = [gr EXCEPT ![g] = Back(r)] \/ gr' = [gr EXCEPT ![g] = CallLock(r, "om", l)]
    BY <1>1, <2>1 DEF DoFast
  <2>5. Moved(g)
    BY <2>2, <2>3, <2>4 DEF Moved
  <2> QED BY <1>1, <1>0, <1>t, <2>5 DEF DoFast, syncvars
<1>2. CASE DoSlow(g)
  <2>1. CASE once.done
    <3>1. gr' = [gr EXCEPT ![g] = u] /\ Frame /\ once' = once /\ r.pc \in {"dof", "dofpanic"}
      BY <1>2, <2>1 DEF DoSlow, u
    <3> QED BY <1>0, <1>t, <1>u, <3>1 DEF Moved
  <2>2. CASE ~once.done
    <3>1. PICK l \in {"f", "fpanic"} : l = IF At(g, "dof") THEN "f" ELSE "fpanic"
      OBVIOUS
    <3>2. /\ gr' = Goto(g, l) /\ Frame /\ once' = [once EXCEPT !.called = once.called + 1]
          /\ r.pc \in {"dof", "dofpanic"}
      BY <1>2, <2>2, <3>1 DEF DoSlow
    <3>3. once' \in OnceType
      BY <1>t, <3>2
    <3>4. Moved(g)
      BY <1>g, <3>1, <3>2 DEF Moved
    <3> QED BY <1>0, <3>2, <3>3, <3>4
  <2> QED BY <2>1, <2>2
<1>3. CASE FReturns(g)
  <2>1. gr' = Goto(g, "fdone") /\ Frame /\ once' = [once EXCEPT !.returned = once.returned + 1] /\ r.pc = "f"
    BY <1>3 DEF FReturns, At
  <2>2. once' \in OnceType
    BY <1>t, <2>1
  <2>3. Moved(g)
    BY <1>g, <2>1 DEF Moved
  <2> QED BY <1>0, <2>1, <2>2, <2>3
<1>4. CASE FPanics(g)
  <2>1. gr' = [gr EXCEPT ![g] = u] /\ Frame /\ once' = once /\ r.pc = "fpanic"
    BY <1>4 DEF FPanics, u, At, syncvars
  <2> QED BY <1>0, <1>t, <1>u, <2>1 DEF Moved
<1>5. CASE DoStore(g)
  <2>1. gr' = [gr EXCEPT ![g] = u] /\ Frame /\ once' = [once EXCEPT !.done = TRUE] /\ r.pc = "fdone"
    BY <1>5 DEF DoStore, u, At
  <2>2. once' \in OnceType
    BY <1>t, <2>1
  <2> QED BY <1>0, <1>u, <2>1, <2>2 DEF Moved
<1> QED BY <1>1, <1>2, <1>3, <1>4, <1>5 DEF OnceStep

(* What the record of a goroutine between two calls holds.                 *)
LEMMA NextFacts ==
    ASSUME NEW r, Wf(r), r.pc \in {"next", "unborn"}
    PROVE  /\ r \in Gr /\ r.k = << >> /\ ~r.awoke /\ r.n = 0 /\ Quiet(r) /\ r.pc # "yparked"
           /\ \A x \in {"wgm", "om"} : ~Owns(r, x)
<1>1. r.pc \notin Body \cup Locking \cup Unlocking \cup Waking \cup Releasing \cup Pairing
  BY DEF Body, Locking, Unlocking, Waking, Releasing, Pairing
<1>2. r \in Gr /\ r.k = << >> /\ ~r.awoke
  BY <1>1 DEF Wf, StackOf, LocalsOf, Locking
<1>3. ~GoesOnAt(r, "wrelease") /\ ~GoesOnAt(r, "addwake")
  BY DEF GoesOnAt
<1>4. r.n = 0
  BY <1>3 DEF Wf, LocalsOf
<1> QED BY <1>1, <1>2, <1>4 DEF Quiet, Pairing, Owns

LEMMA EntryPlaces ==
    ASSUME NEW c \in Calls \ {"Lock", "Unlock", "WLock", "Go"}
    PROVE  /\ Entry[c] \in Body
           /\ Entry[c] \notin {"wwait", "wrelease", "scas", "bcas", "addwake", "waitadd", "waitlook", "waitundo",
                               "waitsleep", "dof", "dofpanic", "f", "fpanic", "fdone"}
<1>1. c \in {"RLock", "RUnlock", "WUnlock", "Add1", "Add2", "Done", "Wait", "Await", "Set", "Signal", "Broadcast",
             "Do", "DoPanic"}
  BY DEF Calls
<1>2. Entry[c] \in {"rlock", "runlock", "wunlock", "add1", "add2", "done", "wait", "await", "set", "signal",
                    "broadcast", "do", "dopanic"}
  BY <1>1 DEF Entry
<1> QED BY <1>2 DEF Body

LEMMA BegunMoves ==
    ASSUME SyncTypes, PlaceInv, NEW g \in G, At(g, "next"), NEW c \in Calls \ {"Go"}
    PROVE  BodyMove(gr[g], Begun(g, c))
<1> DEFINE r == gr[g]
           b == [gr[g] EXCEPT !.ip = @ + 1, !.zero = FALSE]
           s == Begun(g, c)
<1>0. r \in Gr /\ r.k = << >> /\ ~r.awoke /\ r.n = 0 /\ Quiet(r) /\ r.pc # "yparked"
  BY NextFacts DEF PlaceInv, At
<1>1. b \in Gr /\ b.k = << >> /\ b.awoke = r.awoke /\ b.n = 0
  <2>1. r.ip + 1 \in Nat \ {0}
    BY <1>0 DEF Gr
  <2> QED BY <1>0, <2>1 DEF Gr
<1>2. <<"next">> \o b.k = Top
  <2>1. Top \in Seq(Place)
    BY Stacks
  <2>2. Top \o << >> = Top
    BY <2>1, ConcatEmptySeq
  <2> QED BY <1>1, <2>2 DEF Top
<1>3. Top \in Seq(Place)
  BY Stacks
<1>4. ASSUME NEW l
      PROVE  Calling(g, l) = [b EXCEPT !.pc = l, !.k = Top]
  BY <1>2 DEF Calling, CallTo
<1> HIDE DEF b
<1>5. CASE c = "Lock"
  <2>1. s = [[b EXCEPT !.pc = "lock", !.k = Top] EXCEPT !.mu = "m"]
    BY <1>4, <1>5 DEF Begun
  <2>2. s \in Gr /\ s.pc = "lock" /\ s.mu = "m" /\ s.k = Top /\ s.awoke = r.awoke /\ s.n = 0
    <3>1. "lock" \in Place /\ "m" \in Mutexes
      BY DEF Place, Locking, Mutexes
    <3> QED BY <1>1, <1>3, <2>1, <3>1 DEF Gr
  <2> HIDE DEF s
  <2>3. LockStack("m", Top)
    BY DEF LockStack
  <2>4. Wf(s)
    BY <1>0, <2>2, <2>3, WfLock DEF Locking
  <2>5. Quiet(s) /\ s.pc # "yparked" /\ \A x \in {"wgm", "om"} : ~Owns(s, x)
    BY <1>0, <2>2 DEF Quiet, Waking, Releasing, Owns
  <2> QED BY <1>0, <2>4, <2>5 DEF BodyMove, s
<1>6. CASE c = "Unlock"
  <2>1. s = [[b EXCEPT !.pc = "unlock", !.k = Top] EXCEPT !.mu = "m"]
    BY <1>4, <1>6 DEF Begun
  <2>2. s \in Gr /\ s.pc = "unlock" /\ s.mu = "m" /\ s.k = Top /\ s.awoke = r.awoke /\ s.n = 0
    <3>1. "unlock" \in Place /\ "m" \in Mutexes
      BY DEF Place, Unlocking, Mutexes
    <3> QED BY <1>1, <1>3, <2>1, <3>1 DEF Gr
  <2> HIDE DEF s
  <2>3. UnlockStack("m", Top) /\ "m" \in Mutexes /\ Top # Ret("waitsleep")
    BY Stacks DEF UnlockStack, Mutexes, Place, Body
  <2>4. Wf(s)
    BY <1>0, <2>2, <2>3, WfUnlock DEF Unlocking
  <2>5. Quiet(s) /\ s.pc # "yparked" /\ \A x \in {"wgm", "om"} : ~Owns(s, x)
    BY <1>0, <2>2 DEF Quiet, Waking, Releasing, Owns
  <2> QED BY <1>0, <2>4, <2>5 DEF BodyMove, s
<1>7. CASE c = "WLock"
  <2> DEFINE q == [b EXCEPT !.pc = "wlock", !.k = Top]
  <2>1. s = CallLock(q, "w", "wannounce")
    BY <1>4, <1>7 DEF Begun
  <2>2. s \in Gr /\ s.pc = "lock" /\ s.mu = "w" /\ s.k = Ret("wannounce") /\ s.awoke = r.awoke /\ s.n = 0
    <3>1. "lock" \in Place /\ "w" \in Mutexes /\ "wannounce" \in Place
      BY DEF Place, Locking, Mutexes, Body
    <3>2. <<"wannounce">> \o Top = Ret("wannounce") /\ Ret("wannounce") \in Seq(Place)
      BY <3>1, Stacks
    <3>3. s = [[[b EXCEPT !.pc = "wlock", !.k = Top] EXCEPT !.mu = "w"] EXCEPT !.pc = "lock", !.k = Ret("wannounce")]
      <4>1. [q EXCEPT !.mu = "w"].k = Top
        BY <1>1 DEF Gr
      <4> QED BY <2>1, <3>2, <4>1 DEF CallLock, CallTo
    <3> QED BY <1>1, <1>3, <3>1, <3>2, <3>3 DEF Gr
  <2> HIDE DEF s
  <2>3. LockStack("w", Ret("wannounce"))
    BY DEF LockStack
  <2>4. Wf(s)
    BY <1>0, <2>2, <2>3, WfLock DEF Locking
  <2>5. Quiet(s) /\ s.pc # "yparked" /\ \A x \in {"wgm", "om"} : ~Owns(s, x)
    BY <1>0, <2>2 DEF Quiet, Waking, Releasing, Owns
  <2> QED BY <1>0, <2>4, <2>5 DEF BodyMove, s
<1>8. CASE c \notin {"Lock", "Unlock", "WLock"}
  <2>1. s = [b EXCEPT !.pc = Entry[c], !.k = Top]
    BY <1>4, <1>8 DEF Begun
  <2>2. /\ Entry[c] \in Body
        /\ Entry[c] \notin {"wwait", "wrelease", "scas", "bcas", "addwake", "waitadd", "waitlook", "waitundo",
                            "waitsleep", "dof", "dofpanic", "f", "fpanic", "fdone"}
    BY <1>8, EntryPlaces
  <2>3. PICK l : l = Entry[c]
    OBVIOUS
  <2>4. s \in Gr /\ s.pc = l /\ s.k = Top /\ s.awoke = r.awoke /\ s.n = 0
    <3>1. l \in Place
      BY <2>2, <2>3, Places
    <3> QED BY <1>1, <1>3, <2>1, <2>3, <3>1 DEF Gr
  <2> HIDE DEF s
  <2>5. Wf(s)
    BY <1>0, <2>2, <2>3, <2>4, WfBody
  <2>6. InBody(s)
    BY <2>2, <2>3, <2>4, <2>5 DEF InBody
  <2>7. s.pc # "unlock" /\ s.pc \notin Releasing
    BY <2>2, <2>3, <2>4 DEF Body, Releasing
  <2>8. \A x \in {"wgm", "om"} : ~Owns(s, x)
    BY <2>2, <2>3, <2>4, <2>7 DEF Owns
  <2> QED BY <1>0, <2>5, <2>6, <2>8, BodyQuiet DEF BodyMove, s
<1> QED BY <1>5, <1>6, <1>7, <1>8

LEMMA BeginMoves ==
    ASSUME SyncTypes, PlaceInv, NEW g \in G, Begin(g)
    PROVE  /\ AllMove /\ UNCHANGED <<semavars, prog, syncvars, panicked>>
           /\ \A h \in G : Looking(h) => Looking(h)'
<1> DEFINE r == gr[g]
<1>t. gr \in [G -> Gr] /\ r \in Gr /\ r.ip \in Nat \ {0}
  BY DEF SyncTypes, Gr
<1>0. At(g, "next") /\ UNCHANGED <<semavars, prog, syncvars, panicked>>
  BY DEF Begin
<1>1. PICK c : c = prog.calls[g][gr[g].ip]
  OBVIOUS
<1>2. CASE c # "Go"
  <2>1. gr' = [gr EXCEPT ![g] = Begun(g, c)]
    BY <1>1, <1>2 DEF Begin
  <2>2. c \in Calls
    <3>1. prog.calls[g] \in Seq(Calls)
      BY SyncConstants DEF SyncTypes
    <3>2. r.ip \in 1 .. Len(prog.calls[g])
      BY <1>t DEF Begin
    <3> QED BY <1>1, <3>1, <3>2
  <2>3. Moved(g)
    BY <1>0, <1>2, <2>1, <2>2, BegunMoves DEF Moved
  <2>4. \A h \in G : Looking(h) => Looking(h)'
    BY <1>0, <2>3, MovedAll DEF Looking, At
  <2> QED BY <1>0, <2>3, <2>4, MovedAll
<1>3. CASE c = "Go"
  <2>1. PICK h \in G : At(h, "unborn") /\ gr' = [gr EXCEPT ![g] = Begun(g, "Go"), ![h].pc = "next"]
    BY <1>1, <1>3 DEF Begin
  <2> DEFINE s == [r EXCEPT !.ip = r.ip + 1]
             u == [gr[h] EXCEPT !.pc = "next"]
  <2>2. g # h
    BY <1>0, <2>1 DEF At
  <2>3. Begun(g, "Go") = s
    BY DEF Begun
  <2>4. s \in Gr /\ Same(r, s)
    <3>1. r.ip + 1 \in Nat \ {0}
      BY <1>t
    <3> QED BY <1>t, <3>1 DEF Gr, Same
  <2>5. gr[h] \in Gr /\ gr[h].k = << >> /\ ~gr[h].awoke /\ gr[h].n = 0 /\ Quiet(gr[h]) /\ gr[h].pc # "yparked"
    BY <2>1, NextFacts DEF PlaceInv, At
  <2>6. u \in Gr /\ u.pc = "next" /\ u.k = << >> /\ u.awoke = gr[h].awoke /\ u.n = 0
    BY <2>5, Places DEF Gr
  <2>7. BodyMove(gr[h], u)
    <3> HIDE DEF u
    <3>1. u.pc \notin Body \cup {"yrel"} \cup Locking \cup Unlocking \cup Waking \cup Releasing \cup {"yacq", "yparked", "ucas"}
      BY <2>6 DEF Body, Locking, Unlocking, Waking, Releasing
    <3>2. ~GoesOnAt(u, "waitsleep") /\ ~GoesOnAt(u, "addwake")
      BY <2>6 DEF GoesOnAt
    <3>3. Wf(u)
      BY <2>5, <2>6, <3>1, <3>2 DEF Wf, StackOf, LocalsOf, Signals
    <3>4. Quiet(u) /\ \A x \in {"wgm", "om"} : ~Owns(u, x)
      BY <2>5, <2>6, <3>1 DEF Quiet, Owns
    <3> QED BY <2>5, <2>6, <3>3, <3>4 DEF BodyMove
  <2>8. /\ gr' \in [G -> Gr] /\ gr'[g] = s /\ gr'[h] = u
        /\ \A i \in G : i # g /\ i # h => gr'[i] = gr[i]
    <3>1. gr' = [gr EXCEPT ![g] = s, ![h] = u]
      <4>1. gr' = [gr EXCEPT ![g] = s, ![h].pc = "next"]
        BY <2>1, <2>3
      <4> HIDE DEF s
      <4> QED BY <1>t, <2>2, <4>1
    <3> HIDE DEF s, u
    <3> QED BY <1>t, <2>2, <2>4, <2>6, <3>1
  <2>9. \A i \in G : i # g /\ i # h => Same(gr[i], gr'[i])
    BY <1>t, <2>8 DEF Same
  <2>10. AllMove
    <3> HIDE DEF s, u
    <3> QED BY <2>4, <2>7, <2>8, <2>9 DEF AllMove
  <2>11. \A i \in G : Looking(i) => Looking(i)'
    BY <1>0, <2>1, <2>8 DEF Looking, At
  <2> QED BY <1>0, <2>10, <2>11
<1> QED BY <1>2, <1>3

(***************************************************************************)
(* Steps that leave the accounts as they are.                              *)
(***************************************************************************)
Trying == {"slook", "sdeq", "sacq", "slock", "sretry"}

(* What a goroutine is in the accounts of Mutexes and semaphores.          *)
ReleasesOne(r, x) == r.sa = x /\ r.pc = "srel"
SleepsOn(r, x) == r.sa = x /\ r.pc \in Waking
AwakeFor(r, x) == r.mu = x /\ r.awoke /\ r.pc \in {"lread", "lcas"}
TriesOn(r, a) == r.sa = a /\ r.pc \in Trying

Keeps(r, s) ==
    /\ Wf(s)
    /\ \A x \in Mutexes : /\ ReleasesOne(s, x) <=> ReleasesOne(r, x)
                          /\ SleepsOn(s, x) <=> SleepsOn(r, x)
                          /\ AwakeFor(s, x) <=> AwakeFor(r, x)
    /\ \A a \in Sems : TriesOn(r, a) => TriesOn(s, a)
    /\ s.pc = "sretry" <=> r.pc = "sretry"
    /\ r.pc \in {"sretry", "sparked"} => s.pc = r.pc /\ s.sa = r.sa

LEMMA SameKeeps ==
    ASSUME NEW r, NEW s, Wf(r), Same(r, s)
    PROVE  Keeps(r, s) /\ \A x \in {"wgm", "om"} : Owns(s, x) => Owns(r, x)
<1>0. /\ s.pc = r.pc /\ s.k = r.k /\ s.mu = r.mu /\ s.sa = r.sa /\ s.old = r.old
      /\ s.awoke = r.awoke /\ s.n = r.n /\ s.ws = r.ws
  BY DEF Same
<1>1. StackOf(s) /\ LocalsOf(s)
  <2>1. StackOf(s)
    BY <1>0 DEF Wf, StackOf
  <2>2. \A l : GoesOnAt(s, l) <=> GoesOnAt(r, l)
    BY <1>0 DEF GoesOnAt
  <2>3. LocalsOf(s)
    BY <1>0, <2>2 DEF Wf, LocalsOf
  <2> QED BY <2>1, <2>3
<1>2. Wf(s)
  BY <1>0, <1>1 DEF Wf, Same, Signals
<1> QED BY <1>2 DEF Same, Keeps, ReleasesOne, SleepsOn, AwakeFor, TriesOn, Owns

LEMMA BodyKeeps ==
    ASSUME NEW r, NEW s, BodyMove(r, s)
    PROVE  Keeps(r, s)
<1>1. /\ r.pc \notin Waking \cup Releasing /\ ~r.awoke
      /\ r.pc \notin Trying \cup {"srel", "sretry", "sparked"}
  BY DEF BodyMove, Quiet, Waking, Releasing, Trying
<1>2. CASE Quiet(s)
  <2>1. s.pc \notin Waking \cup {"srel", "sretry"} /\ ~s.awoke
    BY <1>2 DEF Quiet, Waking, Releasing
  <2> QED BY <1>1, <2>1 DEF BodyMove, Keeps, ReleasesOne, SleepsOn, AwakeFor, TriesOn
<1>3. CASE Called(s)
  <2>1. s.pc # "sretry" /\ ~s.awoke /\ s.sa \notin Mutexes
    BY <1>3 DEF Called
  <2> QED BY <1>1, <2>1 DEF BodyMove, Keeps, ReleasesOne, SleepsOn, AwakeFor, TriesOn
<1> QED BY <1>2, <1>3 DEF BodyMove

(* Lock goes on with its loop.                                             *)
LEMMA LoopKeeps ==
    ASSUME NEW r, NEW s, Wf(s), r.pc \in {"lread", "lcas"}, s.pc \in {"lread", "lcas"},
           s.mu = r.mu, s.awoke = r.awoke
    PROVE  Keeps(r, s)
<1>1. {r.pc, s.pc} \cap (Waking \cup Trying \cup {"srel", "sretry", "sparked"}) = {}
  BY DEF Waking, Trying
<1> QED BY <1>1 DEF Keeps, ReleasesOne, SleepsOn, AwakeFor, TriesOn

(* How the size of a set of goroutines changes with one goroutine.         *)
LEMMA CardStep ==
    ASSUME NEW S, NEW T, S \subseteq G, T \subseteq G, NEW g \in G,
           \A h \in G : h # g => (h \in S <=> h \in T)
    PROVE  /\ Cardinality(S) \in Nat /\ Cardinality(T) \in Nat
           /\ IsFiniteSet(S) /\ IsFiniteSet(T)
           /\ (g \in S <=> g \in T) => Cardinality(T) = Cardinality(S)
           /\ g \in S /\ g \notin T => Cardinality(T) = Cardinality(S) - 1
           /\ g \notin S /\ g \in T => Cardinality(T) = Cardinality(S) + 1
<1>1. IsFiniteSet(S) /\ IsFiniteSet(T)
  BY SyncConstants, FS_Subset
<1>2. Cardinality(S) \in Nat /\ Cardinality(T) \in Nat
  BY <1>1, FS_CardinalityType
<1>3. (g \in S <=> g \in T) => S = T
  OBVIOUS
<1>4. g \in S /\ g \notin T => T = S \ {g}
  OBVIOUS
<1>5. g \notin S /\ g \in T => T = S \cup {g}
  OBVIOUS
<1>6. g \in S /\ g \notin T => Cardinality(T) = Cardinality(S) - 1
  BY <1>1, <1>4, FS_RemoveElement
<1>7. g \notin S /\ g \in T => Cardinality(T) = Cardinality(S) + 1
  BY <1>1, <1>5, FS_AddElement
<1> QED BY <1>1, <1>2, <1>3, <1>6, <1>7

(* Cardinalities of sets of goroutines.                                    *)
LEMMA CardSubset ==
    ASSUME NEW S, NEW T, S \subseteq T, T \subseteq G
    PROVE  Cardinality(S) \in Nat /\ Cardinality(T) \in Nat /\ Cardinality(S) <= Cardinality(T)
<1>1. IsFiniteSet(T) /\ IsFiniteSet(S)
  BY SyncConstants, FS_Subset
<1> QED BY <1>1, FS_Subset, FS_CardinalityType

(* The accounts of the Mutexes when every goroutine keeps its part.        *)
LEMMA AccountsSame ==
    ASSUME SyncIInv, sem' = sem,
           \A h \in G : \A x \in Mutexes : /\ ReleasesOne(gr'[h], x) <=> ReleasesOne(gr[h], x)
                                           /\ SleepsOn(gr'[h], x) <=> SleepsOn(gr[h], x)
                                           /\ AwakeFor(gr'[h], x) <=> AwakeFor(gr[h], x),
           \A x \in Mutexes : mutex'[x].woken = mutex[x].woken /\ mutex'[x].waiters = mutex[x].waiters
    PROVE  OneWakeup'
<1> SUFFICES ASSUME NEW x \in Mutexes
             PROVE  /\ Count(x, {"srel"})' + sem'[x] + Awake(x)' = IF mutex'[x].woken THEN 1 ELSE 0
                    /\ Count(x, Waking)' = mutex'[x].waiters + Count(x, {"srel"})' + sem'[x]
  BY DEF OneWakeup
<1>1. Count(x, {"srel"})' = Count(x, {"srel"})
  <2>1. {g \in G : gr'[g].sa = x /\ gr'[g].pc \in {"srel"}} = {g \in G : gr[g].sa = x /\ gr[g].pc \in {"srel"}}
    BY DEF ReleasesOne
  <2> QED BY <2>1 DEF Count
<1>2. Count(x, Waking)' = Count(x, Waking)
  <2>1. {g \in G : gr'[g].sa = x /\ gr'[g].pc \in Waking} = {g \in G : gr[g].sa = x /\ gr[g].pc \in Waking}
    BY DEF SleepsOn
  <2> QED BY <2>1 DEF Count
<1>3. Awake(x)' = Awake(x)
  <2>1. {g \in G : gr'[g].mu = x /\ gr'[g].awoke /\ gr'[g].pc \in {"lread", "lcas"}} =
        {g \in G : gr[g].mu = x /\ gr[g].awoke /\ gr[g].pc \in {"lread", "lcas"}}
    BY DEF AwakeFor
  <2> QED BY <2>1 DEF Awake
<1>4. /\ Count(x, {"srel"}) + sem[x] + Awake(x) = IF mutex[x].woken THEN 1 ELSE 0
      /\ Count(x, Waking) = mutex[x].waiters + Count(x, {"srel"}) + sem[x]
  BY DEF SyncIInv, OneWakeup
<1> QED BY <1>1, <1>2, <1>3, <1>4

(* The two facts about a step on which SemaSafe and OneWakeup stand, when  *)
(* all goroutines keep their part and nothing is moved.                    *)
LEMMA KeepsAll ==
    ASSUME SyncIInv, \A h \in G : Keeps(gr[h], gr'[h]), UNCHANGED <<sem, root>>,
           \A x \in Mutexes : mutex'[x].woken = mutex[x].woken /\ mutex'[x].waiters = mutex[x].waiters
    PROVE  PlaceInv' /\ (\A r \in Roots : RootsOf(r)') /\ SemaSafe' /\ OneWakeup'
<1>1. PlaceInv'
  BY DEF Keeps, PlaceInv
<1>2. ASSUME NEW r \in Roots PROVE RootsOf(r)'
  <2>1. RootsOf(r) /\ root[r].queue \in Seq([g : G, addr : Sems]) /\ root[r].lock \subseteq G
    BY DEF SyncIInv, SyncTypes
  <2>2. ASSUME NEW g \in G PROVE g \in root[r].lock <=> gr'[g].pc = "sretry" /\ RootOf[gr'[g].sa] = r
    BY <2>1 DEF RootsOf, Keeps, At
  <2>3. ASSUME NEW i \in 1 .. Len(root[r].queue)
        PROVE  LET q == root[r].queue[i] IN
               gr'[q.g].pc = "sparked" /\ gr'[q.g].sa = q.addr /\ RootOf[q.addr] = r
    <3>1. PICK q : q = root[r].queue[i]
      OBVIOUS
    <3>2. q.g \in G /\ gr[q.g].pc = "sparked" /\ gr[q.g].sa = q.addr /\ RootOf[q.addr] = r
      <4>1. q \in [g : G, addr : Sems]
        BY <2>1, <3>1, ElementOfSeq
      <4>2. gr[q.g].pc = "sparked" /\ gr[q.g].sa = q.addr /\ RootOf[q.addr] = r
        BY <2>1, <3>1 DEF RootsOf, At
      <4> QED BY <4>1, <4>2
    <3>3. gr'[q.g].pc = "sparked" /\ gr'[q.g].sa = gr[q.g].sa
      BY <3>2 DEF Keeps
    <3> QED BY <3>1, <3>2, <3>3
  <2> QED BY <2>1, <2>2, <2>3 DEF RootsOf, At
<1>3. SemaSafe'
  <2>1. NwaitCounts'
    BY DEF SyncIInv, SemaSafe, NwaitCounts
  <2>2. ASSUME NEW a \in Sems, Queued(a)' # {} PROVE sem'[a] <= Cardinality(OnTheWay(a)')
    <3>1. Queued(a)' = Queued(a)
      BY DEF Queued
    <3>2. sem[a] <= Cardinality(OnTheWay(a))
      BY <2>2, <3>1 DEF SyncIInv, SemaSafe, SemaNoLostWakeup
    <3>3. OnTheWay(a) \subseteq OnTheWay(a)' /\ OnTheWay(a)' \subseteq G
      BY DEF OnTheWay, Keeps, TriesOn, Trying
    <3>4. sem[a] \in Nat
      BY DEF SyncIInv, SyncTypes
    <3> QED BY <3>2, <3>3, <3>4, CardSubset
  <2> QED BY <2>1, <2>2 DEF SemaSafe, SemaNoLostWakeup
<1>4. OneWakeup'
  <2>1. \A h \in G : \A x \in Mutexes : /\ ReleasesOne(gr'[h], x) <=> ReleasesOne(gr[h], x)
                                        /\ SleepsOn(gr'[h], x) <=> SleepsOn(gr[h], x)
                                        /\ AwakeFor(gr'[h], x) <=> AwakeFor(gr[h], x)
    BY DEF Keeps
  <2> QED BY <2>1, AccountsSame
<1> QED BY <1>1, <1>2, <1>3, <1>4

LEMMA QuietKeeps ==
    ASSUME NEW r, NEW s, Quiet(r), Quiet(s), Wf(s)
    PROVE  Keeps(r, s)
<1>1. ({r.pc, s.pc} \cap (Waking \cup Trying \cup {"srel", "sretry", "sparked"})) = {} /\ ~r.awoke /\ ~s.awoke
  BY DEF Quiet, Waking, Releasing, Trying
<1> QED BY <1>1 DEF Keeps, ReleasesOne, SleepsOn, AwakeFor, TriesOn

LEMMA PairKept ==
    ASSUME SyncIInv, syncsema' = syncsema, \A h \in G : gr[h].pc = "yparked" => gr'[h].pc = "yparked"
    PROVE  PairInv'
<1>1. \A i \in 1 .. Len(syncsema) : syncsema[i].g \in G
  <2>1. syncsema \in Seq([g : G, nrelease : Int])
    BY DEF SyncIInv, SyncTypes
  <2>2. \A i \in 1 .. Len(syncsema) : syncsema[i] \in [g : G, nrelease : Int]
    BY <2>1, ElementOfSeq
  <2> QED BY <2>2
<1> QED BY <1>1 DEF SyncIInv, PairInv, At

LEMMA OwnKept ==
    ASSUME OwnInv, \A h \in G : \A x \in {"wgm", "om"} : Owns(gr'[h], x) => Owns(gr[h], x),
           \A x \in {"wgm", "om"} : mutex[x].locked => mutex'[x].locked
    PROVE  OwnInv'
BY DEF OwnInv

(* Who gets a Mutex that was free is its only owner.                       *)
LEMMA OwnTaken ==
    ASSUME OwnInv, NEW g \in G, NEW z \in Mutexes, ~mutex[z].locked, mutex'[z].locked,
           \A y \in Mutexes : y # z => mutex'[y].locked = mutex[y].locked,
           \A h \in G : h # g => gr'[h] = gr[h],
           \A x \in {"wgm", "om"} : Owns(gr'[g], x) => x = z
    PROVE  OwnInv'
<1>0. {"wgm", "om"} \subseteq Mutexes
  BY DEF Mutexes
<1> SUFFICES ASSUME NEW x \in {"wgm", "om"}
             PROVE  /\ \A h \in G : Owns(gr'[h], x) => mutex'[x].locked
                    /\ \A h, i \in G : Owns(gr'[h], x) /\ Owns(gr'[i], x) => h = i
  BY DEF OwnInv
<1>1. /\ \A h \in G : Owns(gr[h], x) => mutex[x].locked
      /\ \A h, i \in G : Owns(gr[h], x) /\ Owns(gr[i], x) => h = i
  BY DEF OwnInv
<1>2. CASE x = z
  <2>1. \A h \in G : ~Owns(gr[h], x)
    BY <1>1, <1>2
  <2>2. \A h \in G : Owns(gr'[h], x) => h = g
    BY <2>1
  <2> QED BY <1>2, <2>2
<1>3. CASE x # z
  <2>1. ~Owns(gr'[g], x) /\ mutex'[x].locked = mutex[x].locked
    BY <1>0, <1>3
  <2>2. \A h \in G : Owns(gr'[h], x) => Owns(gr[h], x)
    BY <2>1
  <2> QED BY <1>1, <2>1, <2>2
<1> QED BY <1>2, <1>3

LEMMA MoveKeeps ==
    ASSUME SyncIInv, AllMove, UNCHANGED <<semavars, mutex>>
    PROVE  PlaceInv' /\ OwnInv' /\ (\A r \in Roots : RootsOf(r)') /\ PairInv' /\ SemaSafe' /\ OneWakeup'
<1>1. \A h \in G : Wf(gr[h])
  BY DEF SyncIInv, PlaceInv
<1>2. \A h \in G : Keeps(gr[h], gr'[h])
  BY <1>1, SameKeeps, BodyKeeps DEF AllMove
<1>3. \A h \in G : \A x \in {"wgm", "om"} : Owns(gr'[h], x) => Owns(gr[h], x)
  BY <1>1, SameKeeps DEF AllMove, BodyMove
<1>4. \A h \in G : gr[h].pc = "yparked" => gr'[h].pc = "yparked"
  BY DEF AllMove, Same, BodyMove
<1>5. OwnInv'
  BY <1>3, OwnKept DEF SyncIInv
<1>6. PairInv'
  BY <1>4, PairKept DEF semavars
<1> QED BY <1>2, <1>5, <1>6, KeepsAll DEF semavars

(***************************************************************************)
(* Lock and Unlock.                                                        *)
(***************************************************************************)
LEMMA LockFacts ==
    ASSUME NEW r, Wf(r), r.pc \in Locking
    PROVE  /\ r \in Gr /\ r.mu \in Mutexes /\ LockStack(r.mu, r.k) /\ (r.awoke => r.pc # "lock")
           /\ r.n = 0 \/ (r.k = Ret("addwake") /\ r.n >= 0)
           /\ r.pc \notin Waking \cup Releasing \cup {"yparked"}
<1>1. r \in Gr /\ LockStack(r.mu, r.k)
  BY DEF Wf, StackOf
<1>2. r.mu \in Mutexes
  BY <1>1 DEF LockStack, Mutexes
<1>3. r.pc \notin Waking \cup Releasing \cup {"yparked", "wwait", "wrelease", "scas", "bcas", "yrel", "addwake"}
  BY DEF Locking, Waking, Releasing
<1>4. r.awoke => r.pc # "lock"
  BY DEF Wf, LocalsOf, Waking
<1>5. r.n # 0 => GoesOnAt(r, "addwake")
  <2>1. r.k = Top \/ \E p \in Place \ {"wrelease"} : r.k = Ret(p)
    BY <1>1 DEF LockStack, Place, Body
  <2>2. "wrelease" \in Place
    BY DEF Place, Body
  <2>3. ~GoesOnAt(r, "wrelease")
    BY <1>3, <2>1, <2>2, GoesOn
  <2> QED BY <1>3, <2>3 DEF Wf, LocalsOf
<1>6. GoesOnAt(r, "addwake") => r.k = Ret("addwake") /\ r.n >= 0
  <2>1. r.k = Top \/ \E p \in Place : r.k = Ret(p)
    BY <1>1 DEF LockStack, Place, Body
  <2>2. "addwake" \in Place
    BY DEF Place, Body
  <2> QED BY <1>3, <2>1, <2>2, GoesOn DEF Wf, LocalsOf
<1> QED BY <1>1, <1>2, <1>3, <1>4, <1>5, <1>6

LEMMA UnlockFacts ==
    ASSUME NEW r, Wf(r), r.pc \in Unlocking
    PROVE  /\ r \in Gr /\ r.mu \in Mutexes /\ UnlockStack(r.mu, r.k) /\ ~r.awoke /\ r.n = 0
           /\ r.k = Ret("waitsleep") => r.ws \in WgSet
           /\ r.pc = "ucas" => ~NobodyToWake(r.old)
           /\ Quiet(r) /\ r.pc # "yparked"
<1>1. r \in Gr /\ UnlockStack(r.mu, r.k) /\ r.mu \in Mutexes
  BY DEF Wf, StackOf
<1>2. r.pc \notin Waking \cup Releasing \cup
        {"yparked", "wwait", "wrelease", "scas", "bcas", "yrel", "addwake", "lread", "lcas", "waitsleep", "next", "unborn"}
  BY DEF Unlocking, Waking, Releasing
<1>3. ~r.awoke
  BY <1>2 DEF Wf, LocalsOf
<1>4. r.k = Top \/ r.k = Ret("waitsleep") \/ r.k = Ret("csleep")
  BY <1>1 DEF UnlockStack
<1>5. {"waitsleep", "csleep", "addwake", "wrelease"} \subseteq Place
  BY DEF Place, Body
<1>6. ~GoesOnAt(r, "addwake") /\ ~GoesOnAt(r, "wrelease")
  BY <1>2, <1>4, <1>5, GoesOn
<1>7. r.n = 0
  BY <1>2, <1>6 DEF Wf, LocalsOf
<1>8. r.k = Ret("waitsleep") => GoesOnAt(r, "waitsleep")
  BY <1>2 DEF GoesOnAt
<1>9. r.k = Ret("waitsleep") => r.ws \in WgSet
  BY <1>8 DEF Wf, LocalsOf
<1>10. r.pc = "ucas" => ~NobodyToWake(r.old)
  BY DEF Wf, LocalsOf
<1> QED BY <1>1, <1>2, <1>3, <1>7, <1>9, <1>10 DEF Quiet

(* Lock or Unlock returns.                                                 *)
LEMMA Leaves ==
    ASSUME NEW r, Wf(r), r.pc \in Locking \cup Unlocking
    PROVE  /\ Wf(LeaveMutex(r)) /\ Quiet(LeaveMutex(r)) /\ LeaveMutex(r).pc # "yparked"
           /\ \A x \in {"wgm", "om"} : Owns(LeaveMutex(r), x) => r.pc \in Locking /\ x = r.mu
<1> DEFINE q == Clean(r)
           s == LeaveMutex(r)
<1>0. /\ r \in Gr /\ r.mu \in Mutexes
      /\ r.pc \in Locking => LockStack(r.mu, r.k) /\ (r.n = 0 \/ (r.k = Ret("addwake") /\ r.n >= 0))
      /\ r.pc \in Unlocking => UnlockStack(r.mu, r.k) /\ r.n = 0 /\ (r.k = Ret("waitsleep") => r.ws \in WgSet)
  BY LockFacts, UnlockFacts
<1>1. q \in Gr /\ q.k = r.k /\ q.n = r.n /\ q.ws = r.ws /\ ~q.awoke
  <2>1. Unlocked \in MState /\ Nil \in Mutexes \cup {Nil}
    BY DEF Unlocked, MState
  <2> QED BY <1>0, <2>1 DEF Clean, Gr
<1>2. s = Back(q)
  BY DEF LeaveMutex
<1> HIDE DEF q, s
<1>3. CASE r.k = Top
  <2>1. r.n = 0
    <3>1. Top # Ret("addwake")
      BY Stacks DEF Place, Body
    <3> QED BY <1>0, <1>3, <3>1
  <2>2. Wf(s) /\ s.pc = "next" /\ s.awoke = q.awoke
    BY <1>1, <1>2, <1>3, <2>1, WfNext
  <2>3. Quiet(s) /\ s.pc # "yparked" /\ \A x \in {"wgm", "om"} : ~Owns(s, x)
    BY <1>1, <2>2 DEF Quiet, Waking, Releasing, Owns
  <2> QED BY <2>2, <2>3 DEF s
<1>4. CASE r.k # Top
  <2>1. PICK p \in Body : /\ r.k = Ret(p)
                          /\ \/ r.pc \in Locking /\ LockStack(r.mu, Ret(p)) /\ p \in {"await", "wannounce", "waitadd", "addwake", "dof", "dofpanic"}
                             \/ r.pc \in Unlocking /\ p \in {"waitsleep", "csleep"}
    BY <1>0, <1>4 DEF LockStack, UnlockStack, Body
  <2>2. {"waitsleep", "addwake"} \subseteq Place /\ p \in Place
    BY Places DEF Place, Body
  <2>3. p = "waitsleep" => r.ws \in WgSet
    <3>1. CASE r.pc \in Locking
      BY <2>1, <3>1 DEF Locking, Unlocking
    <3>2. CASE r.pc \in Unlocking
      BY <1>0, <2>1, <3>2
    <3> QED BY <3>1, <3>2
  <2>4. r.n # 0 => p = "addwake"
    BY <1>0, <2>1, <2>2, StacksDiffer
  <2>5. r.n >= 0
    BY <1>0
  <2>6. Wf(s) /\ s.pc = p /\ s.awoke = q.awoke
    BY <1>1, <1>2, <2>1, <2>3, <2>4, <2>5, WfReturn
  <2>7. InBody(s)
    BY <2>6 DEF InBody
  <2>8. Quiet(s) /\ s.pc # "yparked"
    BY <2>7, BodyQuiet
  <2>9. ASSUME NEW x \in {"wgm", "om"}, Owns(s, x) PROVE r.pc \in Locking /\ x = r.mu
    <3>1. s.pc # "unlock" /\ s.pc \notin Releasing
      BY <2>6 DEF Body, Releasing
    <3>2. (x = "wgm" /\ p \in {"addwake", "waitadd"}) \/ (x = "om" /\ p \in {"dof", "dofpanic"})
      BY <2>1, <2>6, <2>9, <3>1 DEF Owns
    <3>3. r.pc \in Locking /\ LockStack(r.mu, Ret(p))
      BY <2>1, <3>2
    <3>4. {"await", "wannounce", "waitadd", "addwake", "dof", "dofpanic"} \subseteq Place
      BY DEF Place, Body
    <3>5. /\ Ret(p) # Top /\ (Ret(p) = Ret("await") => p = "await") /\ (Ret(p) = Ret("wannounce") => p = "wannounce")
          /\ (Ret(p) = Ret("waitadd") => p = "waitadd") /\ (Ret(p) = Ret("addwake") => p = "addwake")
          /\ (Ret(p) = Ret("dof") => p = "dof") /\ (Ret(p) = Ret("dofpanic") => p = "dofpanic")
      BY <2>2, <3>4, Stacks, StacksDiffer
    <3>6. x = r.mu
      BY <3>2, <3>3, <3>5 DEF LockStack
    <3> QED BY <3>3, <3>6
  <2> QED BY <2>6, <2>8, <2>9 DEF s
<1> QED BY <1>3, <1>4

Bit(b) == IF b THEN 1 ELSE 0

(* The accounts of x when one goroutine takes a step.                      *)
LEMMA CountStep ==
    ASSUME NEW g \in G, \A h \in G : h # g => gr'[h] = gr[h], NEW x
    PROVE  /\ Count(x, {"srel"}) \in Nat /\ Count(x, Waking) \in Nat /\ Awake(x) \in Nat
           /\ Count(x, {"srel"})' = Count(x, {"srel"}) - Bit(ReleasesOne(gr[g], x)) + Bit(ReleasesOne(gr'[g], x))
           /\ Count(x, Waking)' = Count(x, Waking) - Bit(SleepsOn(gr[g], x)) + Bit(SleepsOn(gr'[g], x))
           /\ Awake(x)' = Awake(x) - Bit(AwakeFor(gr[g], x)) + Bit(AwakeFor(gr'[g], x))
<1>1. /\ Count(x, {"srel"}) \in Nat
      /\ Count(x, {"srel"})' = Count(x, {"srel"}) - Bit(ReleasesOne(gr[g], x)) + Bit(ReleasesOne(gr'[g], x))
  <2> DEFINE S == {h \in G : gr[h].sa = x /\ gr[h].pc \in {"srel"}}
             T == {h \in G : gr'[h].sa = x /\ gr'[h].pc \in {"srel"}}
  <2>1. /\ S \subseteq G /\ T \subseteq G /\ \A h \in G : h # g => (h \in S <=> h \in T)
        /\ g \in S <=> ReleasesOne(gr[g], x)
        /\ g \in T <=> ReleasesOne(gr'[g], x)
    BY DEF ReleasesOne
  <2>2. Count(x, {"srel"}) = Cardinality(S) /\ Count(x, {"srel"})' = Cardinality(T)
    BY DEF Count
  <2> HIDE DEF S, T
  <2> QED BY <2>1, <2>2, CardStep DEF Bit
<1>2. /\ Count(x, Waking) \in Nat
      /\ Count(x, Waking)' = Count(x, Waking) - Bit(SleepsOn(gr[g], x)) + Bit(SleepsOn(gr'[g], x))
  <2> DEFINE S == {h \in G : gr[h].sa = x /\ gr[h].pc \in Waking}
             T == {h \in G : gr'[h].sa = x /\ gr'[h].pc \in Waking}
  <2>1. /\ S \subseteq G /\ T \subseteq G /\ \A h \in G : h # g => (h \in S <=> h \in T)
        /\ g \in S <=> SleepsOn(gr[g], x)
        /\ g \in T <=> SleepsOn(gr'[g], x)
    BY DEF SleepsOn
  <2>2. Count(x, Waking) = Cardinality(S) /\ Count(x, Waking)' = Cardinality(T)
    BY DEF Count
  <2> HIDE DEF S, T
  <2> QED BY <2>1, <2>2, CardStep DEF Bit
<1>3. /\ Awake(x) \in Nat
      /\ Awake(x)' = Awake(x) - Bit(AwakeFor(gr[g], x)) + Bit(AwakeFor(gr'[g], x))
  <2> DEFINE S == {h \in G : gr[h].mu = x /\ gr[h].awoke /\ gr[h].pc \in {"lread", "lcas"}}
             T == {h \in G : gr'[h].mu = x /\ gr'[h].awoke /\ gr'[h].pc \in {"lread", "lcas"}}
  <2>1. /\ S \subseteq G /\ T \subseteq G /\ \A h \in G : h # g => (h \in S <=> h \in T)
        /\ g \in S <=> AwakeFor(gr[g], x)
        /\ g \in T <=> AwakeFor(gr'[g], x)
    BY DEF AwakeFor
  <2>2. Awake(x) = Cardinality(S) /\ Awake(x)' = Cardinality(T)
    BY DEF Awake
  <2> HIDE DEF S, T
  <2> QED BY <2>1, <2>2, CardStep DEF Bit
<1> QED BY <1>1, <1>2, <1>3

(* Nothing happens to the roots: who tried on a semaphore still does.      *)
LEMMA RootsKept ==
    ASSUME SyncIInv, NEW g \in G, \A h \in G : h # g => gr'[h] = gr[h], UNCHANGED <<sem, root>>,
           gr[g].pc \notin Trying \cup {"sparked"}, gr'[g].pc # "sretry"
    PROVE  (\A r \in Roots : RootsOf(r)') /\ SemaSafe'
<1>1. gr[g].pc # "sretry" /\ gr[g].pc # "sparked"
  BY DEF Trying
<1>2. ASSUME NEW r \in Roots PROVE RootsOf(r)'
  <2>1. RootsOf(r) /\ root[r].queue \in Seq([g : G, addr : Sems]) /\ root[r].lock \subseteq G
    BY DEF SyncIInv, SyncTypes
  <2>2. ASSUME NEW h \in G PROVE h \in root[r].lock <=> gr'[h].pc = "sretry" /\ RootOf[gr'[h].sa] = r
    <3>1. CASE h = g
      BY <1>1, <2>1, <3>1 DEF RootsOf, At
    <3>2. CASE h # g
      BY <2>1, <3>2 DEF RootsOf, At
    <3> QED BY <3>1, <3>2
  <2>3. ASSUME NEW i \in 1 .. Len(root[r].queue)
        PROVE  LET q == root[r].queue[i] IN
               gr'[q.g].pc = "sparked" /\ gr'[q.g].sa = q.addr /\ RootOf[q.addr] = r
    <3>1. PICK q : q = root[r].queue[i]
      OBVIOUS
    <3>2. q \in [g : G, addr : Sems]
      BY <2>1, <3>1, ElementOfSeq
    <3>3. gr[q.g].pc = "sparked" /\ gr[q.g].sa = q.addr /\ RootOf[q.addr] = r
      BY <2>1, <3>1 DEF RootsOf, At
    <3>4. gr'[q.g] = gr[q.g]
      BY <1>1, <3>2, <3>3
    <3> QED BY <3>1, <3>3, <3>4
  <2> QED BY <2>1, <2>2, <2>3 DEF RootsOf, At
<1>3. NwaitCounts'
  BY DEF SyncIInv, SemaSafe, NwaitCounts
<1>4. ASSUME NEW a \in Sems, Queued(a)' # {} PROVE sem'[a] <= Cardinality(OnTheWay(a)')
  <2>1. Queued(a)' = Queued(a)
    BY DEF Queued
  <2>2. sem[a] <= Cardinality(OnTheWay(a))
    BY <1>4, <2>1 DEF SyncIInv, SemaSafe, SemaNoLostWakeup
  <2>3. OnTheWay(a) \subseteq OnTheWay(a)' /\ OnTheWay(a)' \subseteq G
    <3>1. g \notin OnTheWay(a)
      BY DEF OnTheWay, Trying
    <3>2. \A h \in G : h # g => (h \in OnTheWay(a) => h \in OnTheWay(a)')
      BY DEF OnTheWay
    <3>3. OnTheWay(a) \subseteq G /\ OnTheWay(a)' \subseteq G
      BY DEF OnTheWay
    <3> QED BY <3>1, <3>2, <3>3
  <2>4. sem[a] \in Nat
    BY DEF SyncIInv, SyncTypes
  <2> QED BY <2>2, <2>3, <2>4, CardSubset
<1> QED BY <1>2, <1>3, <1>4 DEF SemaSafe, SemaNoLostWakeup

LEMMA OnlyThis ==
    ASSUME SyncTypes, NEW g \in G, NEW s \in Gr, gr' = [gr EXCEPT ![g] = s]
    PROVE  gr' \in [G -> Gr] /\ gr'[g] = s /\ \A h \in G : h # g => gr'[h] = gr[h]
BY DEF SyncTypes

(* What a step of Lock and Unlock does not touch.                          *)
MutexFrame == UNCHANGED <<semavars, prog, rw, wg, cond, once>>

MutexGoal(g) ==
    /\ PlaceInv' /\ OwnInv' /\ (\A r \in Roots : RootsOf(r)') /\ PairInv' /\ SemaSafe' /\ OneWakeup'
    /\ \A h \in G : Looking(h) => Looking(h)'
    /\ mutex' \in [Mutexes -> MState] /\ gr' \in [G -> Gr]

(* A step of Lock or Unlock that leaves the waiters and the woken bit.     *)
LEMMA QuietMutexStep ==
    ASSUME SyncIInv, NEW g \in G, NEW s, gr' = [gr EXCEPT ![g] = s], Keeps(gr[g], s),
           gr[g].pc \in Locking \cup Unlocking, s.pc # "yparked", UNCHANGED semavars,
           mutex' \in [Mutexes -> MState], OwnInv',
           \A x \in Mutexes : mutex'[x].woken = mutex[x].woken /\ mutex'[x].waiters = mutex[x].waiters
    PROVE  MutexGoal(g)
<1>0. s \in Gr /\ SyncTypes
  BY DEF Keeps, Wf, SyncIInv
<1>1. gr' \in [G -> Gr] /\ gr'[g] = s /\ \A h \in G : h # g => gr'[h] = gr[h]
  BY <1>0, OnlyThis
<1>2. \A h \in G : Keeps(gr[h], gr'[h])
  <2>1. ASSUME NEW h \in G, h # g PROVE Keeps(gr[h], gr'[h])
    <3>1. Wf(gr[h]) /\ gr[h] \in Gr /\ gr'[h] = gr[h]
      BY <1>0, <1>1, <2>1 DEF SyncIInv, PlaceInv, SyncTypes
    <3>2. Same(gr[h], gr[h])
      BY <3>1 DEF Same
    <3> QED BY <3>1, <3>2, SameKeeps
  <2> QED BY <1>1, <2>1
<1>3. gr[g].pc # "yparked" /\ ~Looking(g)
  BY DEF Locking, Unlocking, Looking
<1>4. PairInv'
  BY <1>1, <1>3, PairKept DEF semavars
<1>5. \A h \in G : Looking(h) => Looking(h)'
  BY <1>1, <1>3 DEF Looking
<1> QED BY <1>1, <1>2, <1>4, <1>5, KeepsAll DEF MutexGoal, semavars

(* One Mutex is set, the others stay.                                      *)
LEMMA SetMutex ==
    ASSUME SyncTypes, NEW x \in Mutexes, NEW m \in MState, mutex' = [mutex EXCEPT ![x] = m]
    PROVE  mutex' \in [Mutexes -> MState] /\ mutex'[x] = m /\ \A y \in Mutexes : y # x => mutex'[y] = mutex[y]
BY DEF SyncTypes

LEMMA LockFastSafe ==
    ASSUME SyncIInv, NEW g \in G, LockFast(g)
    PROVE  MutexGoal(g) /\ MutexFrame /\ UNCHANGED panicked
<1> DEFINE r == gr[g]
<1>0. Wf(r) /\ r.pc = "lock" /\ r.pc \in Locking /\ SyncTypes /\ OwnInv /\ mutex \in [Mutexes -> MState]
  BY DEF SyncIInv, PlaceInv, LockFast, At, Locking, SyncTypes
<1>1. /\ r \in Gr /\ r.mu \in Mutexes /\ LockStack(r.mu, r.k) /\ ~r.awoke
      /\ r.n = 0 \/ (r.k = Ret("addwake") /\ r.n >= 0)
      /\ r.pc \notin Waking \cup Releasing \cup {"yparked"}
  BY <1>0, LockFacts
<1>2. Quiet(r)
  BY <1>1 DEF Quiet
<1>f. MutexFrame /\ UNCHANGED panicked
  BY DEF LockFast, MutexFrame
<1>3. CASE mutex[r.mu] = Unlocked
  <2>1. Wf(LeaveMutex(r)) /\ Quiet(LeaveMutex(r)) /\ LeaveMutex(r).pc # "yparked"
    BY <1>0, Leaves
  <2>a. \A x \in {"wgm", "om"} : Owns(LeaveMutex(r), x) => x = r.mu
    BY <1>0, Leaves
  <2>2. PICK s : s = LeaveMutex(r)
    OBVIOUS
  <2>3. PICK m : m = [mutex[r.mu] EXCEPT !.locked = TRUE]
    OBVIOUS
  <2>4. m \in MState /\ m.locked /\ m.woken = mutex[r.mu].woken /\ m.waiters = mutex[r.mu].waiters /\ ~mutex[r.mu].locked
    <3>1. mutex[r.mu] \in MState
      BY <1>0, <1>1
    <3>2. m \in MState /\ m.locked /\ m.woken = mutex[r.mu].woken /\ m.waiters = mutex[r.mu].waiters
      BY <2>3, <3>1 DEF MState
    <3>3. ~mutex[r.mu].locked
      BY <1>3 DEF Unlocked
    <3> QED BY <3>2, <3>3
  <2>5. gr' = [gr EXCEPT ![g] = s] /\ mutex' = [mutex EXCEPT ![r.mu] = m]
    BY <1>3, <2>2, <2>3 DEF LockFast
  <2>6. mutex' \in [Mutexes -> MState] /\ mutex'[r.mu] = m /\ \A y \in Mutexes : y # r.mu => mutex'[y] = mutex[y]
    BY <1>0, <1>1, <2>4, <2>5, SetMutex
  <2>7. Keeps(r, s)
    BY <1>2, <2>1, <2>2, QuietKeeps
  <2>8. s \in Gr
    BY <2>1, <2>2 DEF Wf
  <2>9. gr' \in [G -> Gr] /\ gr'[g] = s /\ \A h \in G : h # g => gr'[h] = gr[h]
    BY <1>0, <2>5, <2>8, OnlyThis
  <2>10. OwnInv'
    BY <1>0, <1>1, <2>a, <2>2, <2>4, <2>6, <2>9, OwnTaken
  <2>11. \A x \in Mutexes : mutex'[x].woken = mutex[x].woken /\ mutex'[x].waiters = mutex[x].waiters
    BY <2>4, <2>6
  <2>12. UNCHANGED semavars
    BY <1>f DEF MutexFrame
  <2>13. MutexGoal(g)
    BY <1>0, <2>1, <2>2, <2>5, <2>6, <2>7, <2>10, <2>11, <2>12, QuietMutexStep
  <2> QED BY <1>f, <2>13
<1>4. CASE mutex[r.mu] # Unlocked
  <2>1. PICK s : s = [r EXCEPT !.pc = "lread"]
    OBVIOUS
  <2>2. s \in Gr /\ s.pc = "lread" /\ s.mu = r.mu /\ s.k = r.k /\ s.awoke = r.awoke /\ s.n = r.n
    BY <1>1, <2>1, Places DEF Gr
  <2>3. Wf(s)
    BY <1>1, <2>2, WfLock DEF Locking
  <2>4. Quiet(s) /\ s.pc # "yparked" /\ \A x \in {"wgm", "om"} : ~Owns(s, x)
    BY <1>1, <2>2 DEF Quiet, Waking, Releasing, Owns
  <2>5. gr' = [gr EXCEPT ![g] = s] /\ mutex' = mutex
    BY <1>4, <1>0, <2>1 DEF LockFast, Goto, SyncTypes
  <2>6. Keeps(r, s)
    BY <1>2, <2>3, <2>4, QuietKeeps
  <2>7. gr'[g] = s /\ \A h \in G : h # g => gr'[h] = gr[h]
    BY <1>0, <2>2, <2>5, OnlyThis
  <2>8. OwnInv'
    BY <1>0, <2>4, <2>5, <2>7, OwnKept
  <2>9. UNCHANGED semavars
    BY <1>f DEF MutexFrame
  <2>10. MutexGoal(g)
    BY <1>0, <2>4, <2>5, <2>6, <2>8, <2>9, QuietMutexStep
  <2> QED BY <1>f, <2>10
<1> QED BY <1>3, <1>4

(* Lock reads the word, or its compare and swap fails.                     *)
LEMMA LockLoopSafe ==
    ASSUME SyncIInv, NEW g \in G, NEW s \in Gr, gr[g].pc \in {"lread", "lcas"}, s.pc \in {"lread", "lcas"},
           s.mu = gr[g].mu, s.k = gr[g].k, s.awoke = gr[g].awoke, s.n = gr[g].n,
           gr' = [gr EXCEPT ![g] = s], UNCHANGED <<semavars, mutex>>
    PROVE  MutexGoal(g)
<1> DEFINE r == gr[g]
<1>0. Wf(r) /\ r.pc \in Locking /\ SyncTypes /\ OwnInv /\ mutex \in [Mutexes -> MState]
  BY DEF SyncIInv, PlaceInv, Locking, SyncTypes
<1>1. /\ r.mu \in Mutexes /\ LockStack(r.mu, r.k)
      /\ r.n = 0 \/ (r.k = Ret("addwake") /\ r.n >= 0)
  BY <1>0, LockFacts
<1>2. Wf(s)
  BY <1>1, WfLock DEF Locking
<1>3. Keeps(r, s)
  BY <1>2, LoopKeeps
<1>4. s.pc # "yparked" /\ \A x \in {"wgm", "om"} : ~Owns(s, x)
  BY DEF Releasing, Owns
<1>5. gr'[g] = s /\ \A h \in G : h # g => gr'[h] = gr[h]
  BY <1>0, OnlyThis
<1>6. OwnInv'
  BY <1>0, <1>4, <1>5, OwnKept
<1> QED BY <1>0, <1>3, <1>4, <1>6, QuietMutexStep

LEMMA LockReadSafe ==
    ASSUME SyncIInv, NEW g \in G, LockRead(g)
    PROVE  MutexGoal(g) /\ MutexFrame /\ UNCHANGED panicked
<1> DEFINE r == gr[g]
<1>0. r \in Gr /\ r.pc = "lread" /\ Wf(r) /\ mutex \in [Mutexes -> MState]
  BY DEF SyncIInv, PlaceInv, LockRead, At, SyncTypes
<1>1. r.mu \in Mutexes
  BY <1>0, LockFacts DEF Locking
<1>2. PICK s : s = [r EXCEPT !.pc = "lcas", !.old = mutex[r.mu]]
  OBVIOUS
<1>3. "lcas" \in Place /\ mutex[r.mu] \in MState
  BY <1>0, <1>1 DEF Place, Locking
<1>4. s \in Gr /\ s.pc = "lcas" /\ s.mu = r.mu /\ s.k = r.k /\ s.awoke = r.awoke /\ s.n = r.n
  BY <1>0, <1>2, <1>3 DEF Gr
<1>5. gr' = [gr EXCEPT ![g] = s]
  BY <1>2 DEF LockRead, SyncIInv, SyncTypes
<1>6. MutexFrame /\ UNCHANGED panicked /\ UNCHANGED <<semavars, mutex>>
  BY DEF LockRead, MutexFrame, syncvars
<1> QED BY <1>0, <1>4, <1>5, <1>6, LockLoopSafe

LEMMA LockCasSafe ==
    ASSUME SyncIInv, NEW g \in G, LockCas(g)
    PROVE  MutexGoal(g) /\ MutexFrame /\ UNCHANGED panicked
<1> DEFINE r == gr[g]
<1>0. Wf(r) /\ r.pc = "lcas" /\ r.pc \in Locking /\ SyncTypes /\ OwnInv /\ mutex \in [Mutexes -> MState] /\ OneWakeup
  BY DEF SyncIInv, PlaceInv, LockCas, At, Locking, SyncTypes
<1>1. /\ r \in Gr /\ r.mu \in Mutexes /\ LockStack(r.mu, r.k) /\ r.old \in MState /\ r.awoke \in BOOLEAN
      /\ r.n = 0 \/ (r.k = Ret("addwake") /\ r.n >= 0)
      /\ r.pc \notin Waking \cup Releasing \cup {"yparked"}
  BY <1>0, LockFacts DEF Gr
<1>f. MutexFrame /\ UNCHANGED panicked /\ UNCHANGED semavars
  BY DEF LockCas, MutexFrame
<1>2. CASE mutex[r.mu] # r.old
  <2>1. PICK s : s = [r EXCEPT !.pc = "lread"]
    OBVIOUS
  <2>2. s \in Gr /\ s.pc = "lread" /\ s.mu = r.mu /\ s.k = r.k /\ s.awoke = r.awoke /\ s.n = r.n
    BY <1>1, <2>1, Places DEF Gr
  <2>3. gr' = [gr EXCEPT ![g] = s] /\ mutex' = mutex
    BY <1>0, <1>2, <2>1 DEF LockCas, Goto, SyncTypes
  <2> QED BY <1>0, <1>f, <2>2, <2>3, LockLoopSafe
<1>3. CASE mutex[r.mu] = r.old
  <2>1. PICK m : m = Wanted(r.old, r.awoke)
    OBVIOUS
  <2>2. /\ m \in MState /\ m.locked /\ m.woken = (r.old.woken /\ ~r.awoke)
        /\ m.waiters = IF r.old.locked THEN r.old.waiters + 1 ELSE r.old.waiters
    BY <1>1, <2>1 DEF Wanted, MState
  <2>3. mutex' = [mutex EXCEPT ![r.mu] = m]
    BY <1>3, <2>1 DEF LockCas
  <2>4. mutex' \in [Mutexes -> MState] /\ mutex'[r.mu] = m /\ \A y \in Mutexes : y # r.mu => mutex'[y] = mutex[y]
    BY <1>0, <1>1, <2>2, <2>3, SetMutex
  <2>5. PICK s : s = IF r.old.locked THEN CallAcquire([r EXCEPT !.awoke = TRUE], r.mu, "lread") ELSE LeaveMutex(r)
    OBVIOUS
  <2>6. gr' = [gr EXCEPT ![g] = s]
    BY <1>3, <2>5 DEF LockCas
  <2>7. \A x : ~ReleasesOne(r, x) /\ ~SleepsOn(r, x) /\ (AwakeFor(r, x) <=> x = r.mu /\ r.awoke)
    BY <1>0, <1>1 DEF ReleasesOne, SleepsOn, AwakeFor, Releasing
  <2>8. \A x \in Mutexes : /\ Count(x, {"srel"}) + sem[x] + Awake(x) = IF mutex[x].woken THEN 1 ELSE 0
                           /\ Count(x, Waking) = mutex[x].waiters + Count(x, {"srel"}) + sem[x]
    BY <1>0 DEF OneWakeup
  <2>9. \A x \in Mutexes : sem[x] \in Nat /\ mutex[x].waiters \in Int /\ mutex[x].woken \in BOOLEAN
    BY <1>0, OtherSems DEF SyncTypes, MState
  <2>10. ~Looking(g) /\ r.pc \notin Trying \cup {"sparked", "yparked"}
    BY <1>0 DEF Looking, Trying
  <2>11. CASE r.old.locked
    <3> DEFINE q == [r EXCEPT !.awoke = TRUE]
    <3>1. q \in Gr /\ q.k = r.k /\ q.awoke /\ q.mu = r.mu /\ q.n = r.n
      BY <1>1 DEF Gr
    <3>2. s = CallAcquire(q, r.mu, "lread")
      BY <2>5, <2>11
    <3>3. s \in Gr /\ s.pc = "sacq" /\ s.sa = r.mu /\ s.mu = r.mu /\ s.k = <<"lread">> \o r.k /\ s.awoke /\ s.n = r.n
      <4> HIDE DEF q
      <4>1. "sacq" \in Place /\ r.mu \in Sems
        BY <1>1, OtherSems, Places DEF Waking
      <4>2. <<"lread">> \o q.k \in Seq(Place)
        BY <3>1, Stacks, Places DEF Gr
      <4>3. s = [[q EXCEPT !.sa = r.mu] EXCEPT !.pc = "sacq", !.k = <<"lread">> \o q.k]
        <5>1. [q EXCEPT !.sa = r.mu].k = q.k
          BY <3>1 DEF Gr
        <5> QED BY <3>2, <5>1 DEF CallAcquire, CallTo
      <4> QED BY <3>1, <4>1, <4>2, <4>3 DEF Gr
    <3>4. Wf(s)
      <4>1. s.pc \notin {"next", "unborn", "yrel", "yacq", "yparked", "ucas"} \cup Body \cup Locking \cup Unlocking \cup Releasing
        BY <3>3 DEF Body, Locking, Unlocking, Releasing
      <4>2. r.k = Top \/ \E p \in Body : r.k = Ret(p)
        BY <1>1 DEF LockStack, Body
      <4>3. r.k \in {Top} \cup {Ret(p) : p \in Body}
        BY <4>2
      <4>4. StackOf(s)
        BY <1>1, <3>3, <4>1, <4>3, OtherSems DEF StackOf
      <4>5. {"waitsleep", "addwake"} \subseteq Place /\ s.pc \notin {"waitsleep", "addwake"}
        BY <3>3 DEF Place, Body
      <4>6. ~GoesOnAt(s, "waitsleep")
        <5>1. r.k = Top \/ \E p \in Place \ {"waitsleep"} : r.k = Ret(p)
          BY <1>1 DEF LockStack, Place, Body
        <5> QED BY <3>3, <4>5, <5>1, GoesOn
      <4>7. s.n # 0 => GoesOnAt(s, "addwake")
        BY <1>1, <3>3 DEF GoesOnAt
      <4>8. s.n >= 0
        BY <1>1, <3>3
      <4>9. LocalsOf(s)
        BY <1>1, <3>3, <4>1, <4>6, <4>7, <4>8 DEF LocalsOf, Waking
      <4> QED BY <3>3, <4>4, <4>9 DEF Wf, Signals
    <3>5. gr' \in [G -> Gr] /\ gr'[g] = s /\ \A h \in G : h # g => gr'[h] = gr[h]
      BY <1>0, <2>6, <3>3, OnlyThis
    <3>6. \A x : ~ReleasesOne(s, x) /\ (SleepsOn(s, x) <=> x = r.mu) /\ ~AwakeFor(s, x)
      BY <3>3 DEF ReleasesOne, SleepsOn, AwakeFor, Waking
    <3>7. PlaceInv'
      BY <3>4, <3>5 DEF SyncIInv, PlaceInv
    <3>8. OwnInv'
      <4>1. \A x \in {"wgm", "om"} : ~Owns(s, x)
        BY <3>3 DEF Owns, Releasing
      <4>2. {"wgm", "om"} \subseteq Mutexes
        BY DEF Mutexes
      <4>3. \A x \in Mutexes : mutex[x].locked => mutex'[x].locked
        BY <2>2, <2>4
      <4> QED BY <1>0, <3>5, <4>1, <4>2, <4>3, OwnKept
    <3>9. (\A z \in Roots : RootsOf(z)') /\ SemaSafe'
      BY <1>f, <2>10, <3>3, <3>5, RootsKept DEF semavars
    <3>10. PairInv' /\ \A h \in G : Looking(h) => Looking(h)'
      BY <1>f, <2>10, <3>5, PairKept DEF semavars, Looking
    <3>11. OneWakeup'
      <4> SUFFICES ASSUME NEW x \in Mutexes
                   PROVE  /\ Count(x, {"srel"})' + sem'[x] + Awake(x)' = IF mutex'[x].woken THEN 1 ELSE 0
                          /\ Count(x, Waking)' = mutex'[x].waiters + Count(x, {"srel"})' + sem'[x]
        BY DEF OneWakeup
      <4>1. /\ Count(x, {"srel"}) \in Nat /\ Count(x, Waking) \in Nat /\ Awake(x) \in Nat
            /\ Count(x, {"srel"})' = Count(x, {"srel"}) - Bit(ReleasesOne(r, x)) + Bit(ReleasesOne(s, x))
            /\ Count(x, Waking)' = Count(x, Waking) - Bit(SleepsOn(r, x)) + Bit(SleepsOn(s, x))
            /\ Awake(x)' = Awake(x) - Bit(AwakeFor(r, x)) + Bit(AwakeFor(s, x))
        BY <3>5, CountStep
      <4>2. sem' = sem
        BY <1>f DEF semavars
      <4>3. CASE x # r.mu
        <5>1. Count(x, {"srel"})' = Count(x, {"srel"}) /\ Count(x, Waking)' = Count(x, Waking) /\ Awake(x)' = Awake(x)
          BY <2>7, <3>6, <4>1, <4>3 DEF Bit
        <5> QED BY <2>4, <2>8, <4>2, <4>3, <5>1
      <4>4. CASE x = r.mu
        <5>1. /\ Count(x, {"srel"})' = Count(x, {"srel"}) /\ Count(x, Waking)' = Count(x, Waking) + 1
              /\ Awake(x)' = Awake(x) - Bit(r.awoke)
          BY <2>7, <3>6, <4>1, <4>4 DEF Bit
        <5>2. mutex'[x].waiters = mutex[x].waiters + 1
          BY <1>3, <2>2, <2>4, <2>11, <4>4
        <5>3. mutex'[x].woken = (mutex[x].woken /\ ~r.awoke)
          BY <1>3, <2>2, <2>4, <4>4
        <5>4. r.awoke => Awake(x) >= 1
          <6>1. r.awoke => g \in {h \in G : gr[h].mu = x /\ gr[h].awoke /\ gr[h].pc \in {"lread", "lcas"}}
            BY <1>0, <4>4
          <6>2. Awake(x)' \in Nat
            <7>1. {h \in G : gr'[h].mu = x /\ gr'[h].awoke /\ gr'[h].pc \in {"lread", "lcas"}} \subseteq G
              OBVIOUS
            <7> QED BY <7>1, CardSubset DEF Awake
          <6> QED BY <4>1, <5>1, <6>2 DEF Bit
        <5>5. CASE r.awoke
          <6>1. Awake(x)' = Awake(x) - 1 /\ ~mutex'[x].woken
            BY <5>1, <5>3, <5>5 DEF Bit
          <6>2. Awake(x) = 1 /\ Count(x, {"srel"}) + sem[x] = 0
            BY <2>8, <2>9, <4>1, <5>4, <5>5
          <6> QED BY <2>8, <2>9, <4>1, <4>2, <5>1, <5>2, <6>1, <6>2
        <5>6. CASE ~r.awoke
          <6>1. Awake(x)' = Awake(x) /\ mutex'[x].woken = mutex[x].woken
            BY <2>9, <4>1, <5>1, <5>3, <5>6 DEF Bit
          <6> QED BY <2>8, <2>9, <4>1, <4>2, <5>1, <5>2, <6>1
        <5> QED BY <5>5, <5>6
      <4> QED BY <4>3, <4>4
    <3> QED BY <1>f, <2>4, <3>5, <3>7, <3>8, <3>9, <3>10, <3>11 DEF MutexGoal
  <2>12. CASE ~r.old.locked
    <3>1. s = LeaveMutex(r)
      BY <2>5, <2>12
    <3>2. Wf(s) /\ Quiet(s) /\ s.pc # "yparked" /\ \A x \in {"wgm", "om"} : Owns(s, x) => x = r.mu
      BY <1>0, <3>1, Leaves
    <3>3. s \in Gr /\ s.pc # "sretry"
      BY <3>2 DEF Wf, Quiet, Waking
    <3>4. gr' \in [G -> Gr] /\ gr'[g] = s /\ \A h \in G : h # g => gr'[h] = gr[h]
      BY <1>0, <2>6, <3>3, OnlyThis
    <3>5. \A x : ~ReleasesOne(s, x) /\ ~SleepsOn(s, x) /\ ~AwakeFor(s, x)
      BY <3>2 DEF ReleasesOne, SleepsOn, AwakeFor, Quiet, Releasing
    <3>6. PlaceInv'
      BY <3>2, <3>4 DEF SyncIInv, PlaceInv
    <3>7. OwnInv'
      <4>1. ~mutex[r.mu].locked /\ mutex'[r.mu].locked
        BY <1>3, <2>2, <2>4, <2>12
      <4> QED BY <1>0, <1>1, <2>4, <3>2, <3>4, <4>1, OwnTaken
    <3>8. (\A z \in Roots : RootsOf(z)') /\ SemaSafe'
      BY <1>f, <2>10, <3>3, <3>4, RootsKept DEF semavars
    <3>9. PairInv' /\ \A h \in G : Looking(h) => Looking(h)'
      BY <1>f, <2>10, <3>4, PairKept DEF semavars, Looking
    <3>10. OneWakeup'
      <4> SUFFICES ASSUME NEW x \in Mutexes
                   PROVE  /\ Count(x, {"srel"})' + sem'[x] + Awake(x)' = IF mutex'[x].woken THEN 1 ELSE 0
                          /\ Count(x, Waking)' = mutex'[x].waiters + Count(x, {"srel"})' + sem'[x]
        BY DEF OneWakeup
      <4>1. /\ Count(x, {"srel"}) \in Nat /\ Count(x, Waking) \in Nat /\ Awake(x) \in Nat
            /\ Count(x, {"srel"})' = Count(x, {"srel"}) - Bit(ReleasesOne(r, x)) + Bit(ReleasesOne(s, x))
            /\ Count(x, Waking)' = Count(x, Waking) - Bit(SleepsOn(r, x)) + Bit(SleepsOn(s, x))
            /\ Awake(x)' = Awake(x) - Bit(AwakeFor(r, x)) + Bit(AwakeFor(s, x))
        BY <3>4, CountStep
      <4>2. sem' = sem
        BY <1>f DEF semavars
      <4>3. CASE x # r.mu
        <5>1. Count(x, {"srel"})' = Count(x, {"srel"}) /\ Count(x, Waking)' = Count(x, Waking) /\ Awake(x)' = Awake(x)
          BY <2>7, <3>5, <4>1, <4>3 DEF Bit
        <5> QED BY <2>4, <2>8, <4>2, <4>3, <5>1
      <4>4. CASE x = r.mu
        <5>1. /\ Count(x, {"srel"})' = Count(x, {"srel"}) /\ Count(x, Waking)' = Count(x, Waking)
              /\ Awake(x)' = Awake(x) - Bit(r.awoke)
          BY <2>7, <3>5, <4>1, <4>4 DEF Bit
        <5>2. mutex'[x].waiters = mutex[x].waiters
          BY <1>3, <2>2, <2>4, <2>12, <4>4
        <5>3. mutex'[x].woken = (mutex[x].woken /\ ~r.awoke)
          BY <1>3, <2>2, <2>4, <4>4
        <5>4. Awake(x)' \in Nat
          <6>1. {h \in G : gr'[h].mu = x /\ gr'[h].awoke /\ gr'[h].pc \in {"lread", "lcas"}} \subseteq G
            OBVIOUS
          <6> QED BY <6>1, CardSubset DEF Awake
        <5>5. CASE r.awoke
          <6>1. Awake(x)' = Awake(x) - 1 /\ ~mutex'[x].woken
            BY <5>1, <5>3, <5>5 DEF Bit
          <6>2. Awake(x) = 1 /\ Count(x, {"srel"}) + sem[x] = 0
            BY <2>8, <2>9, <4>1, <5>4, <6>1
          <6> QED BY <2>8, <2>9, <4>1, <4>2, <5>1, <5>2, <6>1, <6>2
        <5>6. CASE ~r.awoke
          <6>1. Awake(x)' = Awake(x) /\ mutex'[x].woken = mutex[x].woken
            BY <2>9, <4>1, <5>1, <5>3, <5>6 DEF Bit
          <6> QED BY <2>8, <2>9, <4>1, <4>2, <5>1, <5>2, <6>1
        <5> QED BY <5>5, <5>6
      <4> QED BY <4>3, <4>4
    <3> QED BY <1>f, <2>4, <3>4, <3>6, <3>7, <3>8, <3>9, <3>10 DEF MutexGoal
  <2> QED BY <2>11, <2>12
<1> QED BY <1>2, <1>3

(* Unlock's loop: it returns, or goes on to the compare and swap.          *)
LEMMA LoopOut ==
    ASSUME NEW r, Wf(r), r.pc \in Unlocking, NEW m \in MState
    PROVE  /\ Wf(UnlockLoop(r, m)) /\ Quiet(UnlockLoop(r, m)) /\ UnlockLoop(r, m).pc # "yparked"
           /\ \A x \in {"wgm", "om"} : ~Owns(UnlockLoop(r, m), x)
<1>1. CASE NobodyToWake(m)
  <2>1. UnlockLoop(r, m) = LeaveMutex(r)
    BY <1>1 DEF UnlockLoop
  <2>2. r.pc \notin Locking
    BY DEF Locking, Unlocking
  <2> QED BY <2>1, <2>2, Leaves
<1>2. CASE ~NobodyToWake(m)
  <2>1. PICK s : s = [r EXCEPT !.pc = "ucas", !.old = m]
    OBVIOUS
  <2>2. UnlockLoop(r, m) = s
    BY <1>2, <2>1 DEF UnlockLoop
  <2>3. /\ r \in Gr /\ r.mu \in Mutexes /\ UnlockStack(r.mu, r.k) /\ ~r.awoke /\ r.n = 0
        /\ r.k = Ret("waitsleep") => r.ws \in WgSet
    BY UnlockFacts
  <2>4. s \in Gr /\ s.pc = "ucas" /\ s.mu = r.mu /\ s.k = r.k /\ s.awoke = r.awoke /\ s.n = 0 /\ s.ws = r.ws /\ s.old = m
    <3>1. "ucas" \in Place
      BY DEF Place, Unlocking
    <3> QED BY <2>1, <2>3, <3>1 DEF Gr
  <2>5. Wf(s)
    BY <1>2, <2>3, <2>4, WfUnlock DEF Unlocking
  <2>6. Quiet(s) /\ s.pc # "yparked" /\ \A x \in {"wgm", "om"} : ~Owns(s, x)
    BY <2>3, <2>4 DEF Quiet, Waking, Releasing, Owns
  <2> QED BY <2>2, <2>5, <2>6
<1> QED BY <1>1, <1>2

LEMMA UnlockAddSafe ==
    ASSUME SyncIInv, NEW g \in G, UnlockAdd(g)
    PROVE  MutexGoal(g) /\ MutexFrame /\ panicked' \in BOOLEAN
<1> DEFINE r == gr[g]
<1>0. Wf(r) /\ r.pc = "unlock" /\ r.pc \in Unlocking /\ SyncTypes /\ OwnInv /\ mutex \in [Mutexes -> MState]
  BY DEF SyncIInv, PlaceInv, UnlockAdd, At, Unlocking, SyncTypes
<1>1. r \in Gr /\ r.mu \in Mutexes /\ Quiet(r) /\ mutex[r.mu] \in MState
  BY <1>0, UnlockFacts
<1>2. PICK m : m = [mutex[r.mu] EXCEPT !.locked = FALSE]
  OBVIOUS
<1>3. m \in MState /\ ~m.locked /\ m.woken = mutex[r.mu].woken /\ m.waiters = mutex[r.mu].waiters
  BY <1>1, <1>2 DEF MState
<1>f. MutexFrame /\ panicked' \in BOOLEAN /\ UNCHANGED semavars
  BY <1>0 DEF UnlockAdd, MutexFrame, SyncTypes
<1>4. CASE mutex[r.mu].locked
  <2>1. PICK s : s = UnlockLoop(r, m)
    OBVIOUS
  <2>2. gr' = [gr EXCEPT ![g] = s] /\ mutex' = [mutex EXCEPT ![r.mu] = m]
    BY <1>2, <1>4, <2>1 DEF UnlockAdd
  <2>3. Wf(s) /\ Quiet(s) /\ s.pc # "yparked" /\ (\A x \in {"wgm", "om"} : ~Owns(s, x)) /\ s \in Gr
    BY <1>0, <1>3, <2>1, LoopOut DEF Wf
  <2>4. mutex' \in [Mutexes -> MState] /\ mutex'[r.mu] = m /\ \A y \in Mutexes : y # r.mu => mutex'[y] = mutex[y]
    BY <1>0, <1>1, <1>3, <2>2, SetMutex
  <2>5. gr'[g] = s /\ \A h \in G : h # g => gr'[h] = gr[h]
    BY <1>0, <2>2, <2>3, OnlyThis
  <2>6. OwnInv'
    <3> SUFFICES ASSUME NEW x \in {"wgm", "om"}
                 PROVE  /\ \A h \in G : Owns(gr'[h], x) => mutex'[x].locked
                        /\ \A h, i \in G : Owns(gr'[h], x) /\ Owns(gr'[i], x) => h = i
      BY DEF OwnInv
    <3>1. /\ \A h \in G : Owns(gr[h], x) => mutex[x].locked
          /\ \A h, i \in G : Owns(gr[h], x) /\ Owns(gr[i], x) => h = i
      BY <1>0 DEF OwnInv
    <3>2. \A h \in G : Owns(gr'[h], x) => Owns(gr[h], x) /\ h # g
      BY <2>3, <2>5
    <3>3. x = r.mu => Owns(r, x)
      BY <1>0 DEF Owns
    <3>4. x = r.mu => \A h \in G : ~Owns(gr'[h], x)
      BY <3>1, <3>2, <3>3
    <3>5. x # r.mu => mutex'[x] = mutex[x]
      BY <2>4 DEF Mutexes
    <3> QED BY <3>1, <3>2, <3>4, <3>5
  <2>7. Keeps(r, s)
    BY <1>1, <2>3, QuietKeeps
  <2>8. \A x \in Mutexes : mutex'[x].woken = mutex[x].woken /\ mutex'[x].waiters = mutex[x].waiters
    BY <1>3, <2>4
  <2>9. MutexGoal(g)
    BY <1>0, <1>f, <2>2, <2>3, <2>4, <2>6, <2>7, <2>8, QuietMutexStep
  <2> QED BY <1>f, <2>9
<1>5. CASE ~mutex[r.mu].locked
  <2>1. gr' = gr /\ mutex' = mutex
    BY <1>5 DEF UnlockAdd
  <2>2. AllMove
    <3>1. gr \in [G -> Gr] /\ \A h \in G : gr[h] \in Gr
      BY <1>0 DEF SyncTypes
    <3> QED BY <2>1, <3>1 DEF AllMove, Same
  <2>3. PlaceInv' /\ OwnInv' /\ (\A z \in Roots : RootsOf(z)') /\ PairInv' /\ SemaSafe' /\ OneWakeup'
    BY <1>f, <2>1, <2>2, MoveKeeps
  <2>4. \A h \in G : Looking(h) => Looking(h)'
    BY <2>1 DEF Looking
  <2>5. gr' \in [G -> Gr] /\ mutex' \in [Mutexes -> MState]
    BY <1>0, <2>1 DEF SyncTypes
  <2> QED BY <1>f, <2>3, <2>4, <2>5 DEF MutexGoal
<1> QED BY <1>4, <1>5

LEMMA UnlockReadSafe ==
    ASSUME SyncIInv, NEW g \in G, UnlockRead(g)
    PROVE  MutexGoal(g) /\ MutexFrame /\ UNCHANGED panicked
<1> DEFINE r == gr[g]
<1>0. Wf(r) /\ r.pc \in Unlocking /\ SyncTypes /\ OwnInv /\ mutex \in [Mutexes -> MState]
  BY DEF SyncIInv, PlaceInv, UnlockRead, At, Unlocking, SyncTypes
<1>1. r \in Gr /\ r.mu \in Mutexes /\ Quiet(r) /\ mutex[r.mu] \in MState
  BY <1>0, UnlockFacts
<1>f. MutexFrame /\ UNCHANGED panicked /\ UNCHANGED <<semavars, mutex>>
  BY DEF UnlockRead, MutexFrame, syncvars
<1>2. PICK s : s = UnlockLoop(r, mutex[r.mu])
  OBVIOUS
<1>3. gr' = [gr EXCEPT ![g] = s]
  BY <1>2 DEF UnlockRead
<1>4. Wf(s) /\ Quiet(s) /\ s.pc # "yparked" /\ (\A x \in {"wgm", "om"} : ~Owns(s, x)) /\ s \in Gr
  BY <1>0, <1>1, <1>2, LoopOut DEF Wf
<1>5. gr'[g] = s /\ \A h \in G : h # g => gr'[h] = gr[h]
  BY <1>0, <1>3, <1>4, OnlyThis
<1>6. OwnInv'
  BY <1>0, <1>f, <1>4, <1>5, OwnKept
<1>7. Keeps(r, s)
  BY <1>1, <1>4, QuietKeeps
<1>8. MutexGoal(g)
  BY <1>0, <1>f, <1>3, <1>4, <1>6, <1>7, QuietMutexStep
<1> QED BY <1>f, <1>8

LEMMA UnlockCasSafe ==
    ASSUME SyncIInv, NEW g \in G, UnlockCas(g)
    PROVE  MutexGoal(g) /\ MutexFrame /\ UNCHANGED panicked
<1> DEFINE r == gr[g]
<1>0. Wf(r) /\ r.pc = "ucas" /\ r.pc \in Unlocking /\ SyncTypes /\ OwnInv /\ mutex \in [Mutexes -> MState] /\ OneWakeup
  BY DEF SyncIInv, PlaceInv, UnlockCas, At, Unlocking, SyncTypes
<1>1. /\ r \in Gr /\ r.mu \in Mutexes /\ UnlockStack(r.mu, r.k) /\ ~r.awoke /\ r.n = 0
      /\ r.k = Ret("waitsleep") => r.ws \in WgSet
      /\ ~NobodyToWake(r.old) /\ Quiet(r) /\ mutex[r.mu] \in MState
  BY <1>0, UnlockFacts
<1>f. MutexFrame /\ UNCHANGED panicked /\ UNCHANGED semavars
  BY DEF UnlockCas, MutexFrame
<1>2. CASE mutex[r.mu] # r.old
  <2>1. PICK s : s = [r EXCEPT !.pc = "uread"]
    OBVIOUS
  <2>2. s \in Gr /\ s.pc = "uread" /\ s.mu = r.mu /\ s.k = r.k /\ s.awoke = r.awoke /\ s.n = 0 /\ s.ws = r.ws
    <3>1. "uread" \in Place
      BY DEF Place, Unlocking
    <3> QED BY <1>1, <2>1, <3>1 DEF Gr
  <2>3. Wf(s)
    BY <1>1, <2>2, WfUnlock DEF Unlocking
  <2>4. Quiet(s) /\ s.pc # "yparked" /\ \A x \in {"wgm", "om"} : ~Owns(s, x)
    BY <1>1, <2>2 DEF Quiet, Waking, Releasing, Owns
  <2>5. gr' = [gr EXCEPT ![g] = s] /\ mutex' = mutex
    BY <1>0, <1>2, <2>1 DEF UnlockCas, Goto, SyncTypes
  <2>6. Keeps(r, s)
    BY <1>1, <2>3, <2>4, QuietKeeps
  <2>7. gr'[g] = s /\ \A h \in G : h # g => gr'[h] = gr[h]
    BY <1>0, <2>2, <2>5, OnlyThis
  <2>8. OwnInv'
    BY <1>0, <2>4, <2>5, <2>7, OwnKept
  <2>9. MutexGoal(g)
    BY <1>0, <1>f, <2>4, <2>5, <2>6, <2>8, QuietMutexStep
  <2> QED BY <1>f, <2>9
<1>3. CASE mutex[r.mu] = r.old
  <2>1. PICK m : m = [mutex[r.mu] EXCEPT !.waiters = mutex[r.mu].waiters - 1, !.woken = TRUE]
    OBVIOUS
  <2>2. m \in MState /\ m.locked = mutex[r.mu].locked /\ m.woken /\ m.waiters = mutex[r.mu].waiters - 1
    <3>1. mutex[r.mu].waiters - 1 \in Int
      BY <1>1 DEF MState
    <3> QED BY <1>1, <2>1, <3>1 DEF MState
  <2>3. mutex' = [mutex EXCEPT ![r.mu] = m]
    BY <1>0, <1>3, <2>1 DEF UnlockCas
  <2>4. mutex' \in [Mutexes -> MState] /\ mutex'[r.mu] = m /\ \A y \in Mutexes : y # r.mu => mutex'[y] = mutex[y]
    BY <1>0, <1>1, <2>2, <2>3, SetMutex
  <2>5. PICK s : s = TailRelease(Clean(r), r.mu)
    OBVIOUS
  <2>6. gr' = [gr EXCEPT ![g] = s]
    BY <1>3, <2>5 DEF UnlockCas
  <2>7. s \in Gr /\ s.pc = "srel" /\ s.sa = r.mu /\ s.k = r.k /\ ~s.awoke /\ s.n = 0 /\ s.ws = r.ws
    <3>1. Unlocked \in MState /\ Nil \in Mutexes \cup {Nil} /\ "srel" \in Place /\ r.mu \in Sems
      BY <1>1, OtherSems DEF Unlocked, MState, Place, Releasing
    <3>2. PICK q : q = Clean(r)
      OBVIOUS
    <3>3. q \in Gr /\ q.k = r.k /\ q.n = r.n /\ q.ws = r.ws /\ ~q.awoke
      BY <1>1, <3>1, <3>2 DEF Clean, Gr
    <3>4. s = [q EXCEPT !.pc = "srel", !.sa = r.mu]
      BY <2>5, <3>2 DEF TailRelease
    <3>5. s \in Gr /\ s.pc = "srel" /\ s.sa = r.mu /\ s.k = q.k /\ s.awoke = q.awoke /\ s.n = q.n /\ s.ws = q.ws
      BY <3>1, <3>3, <3>4 DEF Gr
    <3> QED BY <1>1, <3>3, <3>5
  <2>8. Wf(s)
    <3>1. s.pc \notin {"next", "unborn", "yrel", "yacq", "yparked", "ucas", "lread", "lcas"} \cup Body \cup Locking
                       \cup Unlocking \cup Waking
      BY <2>7 DEF Body, Locking, Unlocking, Waking
    <3>2. s.sa \in Mutexes /\ s.sa \notin {"readerSem", "writerSem"} \cup WgSet /\ s.sa \in Sems
      BY <1>1, <2>7, OtherSems
    <3>3. StackOf(s)
      BY <1>1, <2>7, <3>1, <3>2 DEF StackOf
    <3>4. r.k = Top \/ r.k = Ret("waitsleep") \/ r.k = Ret("csleep")
      BY <1>1 DEF UnlockStack
    <3>5. {"waitsleep", "csleep", "addwake"} \subseteq Place /\ s.pc \notin {"waitsleep", "csleep", "addwake"}
      BY <2>7 DEF Place, Body
    <3>6. GoesOnAt(s, "waitsleep") => s.k = Ret("waitsleep")
      BY <2>7, <3>4, <3>5, GoesOn
    <3>7. ~GoesOnAt(s, "addwake")
      BY <2>7, <3>4, <3>5, GoesOn
    <3>8. LocalsOf(s)
      BY <1>1, <2>7, <3>1, <3>6, <3>7 DEF LocalsOf
    <3> QED BY <2>7, <3>3, <3>8 DEF Wf, Signals
  <2>9. gr' \in [G -> Gr] /\ gr'[g] = s /\ \A h \in G : h # g => gr'[h] = gr[h]
    BY <1>0, <2>6, <2>7, OnlyThis
  <2>10. \A x : ~ReleasesOne(r, x) /\ ~SleepsOn(r, x) /\ ~AwakeFor(r, x)
    BY <1>1 DEF ReleasesOne, SleepsOn, AwakeFor, Quiet, Releasing
  <2>11. \A x : (ReleasesOne(s, x) <=> x = r.mu) /\ ~SleepsOn(s, x) /\ ~AwakeFor(s, x)
    BY <2>7 DEF ReleasesOne, SleepsOn, AwakeFor, Waking
  <2>12. ~Looking(g) /\ r.pc \notin Trying \cup {"sparked", "yparked"} /\ s.pc # "sretry"
    BY <1>0, <2>7 DEF Looking, Trying
  <2>13. PlaceInv'
    BY <2>8, <2>9 DEF SyncIInv, PlaceInv
  <2>14. OwnInv'
    <3>1. \A x \in {"wgm", "om"} : ~Owns(s, x)
      BY <1>1, <2>7, OtherSems DEF Owns
    <3>2. \A x \in {"wgm", "om"} : mutex[x].locked => mutex'[x].locked
      BY <2>2, <2>4 DEF Mutexes
    <3> QED BY <1>0, <2>9, <3>1, <3>2, OwnKept
  <2>15. (\A z \in Roots : RootsOf(z)') /\ SemaSafe'
    BY <1>f, <2>9, <2>12, RootsKept DEF semavars
  <2>16. PairInv' /\ \A h \in G : Looking(h) => Looking(h)'
    BY <1>f, <2>9, <2>12, PairKept DEF semavars, Looking
  <2>17. OneWakeup'
    <3> SUFFICES ASSUME NEW x \in Mutexes
                 PROVE  /\ Count(x, {"srel"})' + sem'[x] + Awake(x)' = IF mutex'[x].woken THEN 1 ELSE 0
                        /\ Count(x, Waking)' = mutex'[x].waiters + Count(x, {"srel"})' + sem'[x]
      BY DEF OneWakeup
    <3>1. /\ Count(x, {"srel"}) \in Nat /\ Count(x, Waking) \in Nat /\ Awake(x) \in Nat
          /\ Count(x, {"srel"})' = Count(x, {"srel"}) - Bit(ReleasesOne(r, x)) + Bit(ReleasesOne(s, x))
          /\ Count(x, Waking)' = Count(x, Waking) - Bit(SleepsOn(r, x)) + Bit(SleepsOn(s, x))
          /\ Awake(x)' = Awake(x) - Bit(AwakeFor(r, x)) + Bit(AwakeFor(s, x))
      BY <2>9, CountStep
    <3>2. sem' = sem /\ sem[x] \in Nat /\ mutex[x].waiters \in Int
      BY <1>f, <1>0, OtherSems DEF semavars, SyncTypes, MState
    <3>3. /\ Count(x, {"srel"}) + sem[x] + Awake(x) = IF mutex[x].woken THEN 1 ELSE 0
          /\ Count(x, Waking) = mutex[x].waiters + Count(x, {"srel"}) + sem[x]
      BY <1>0 DEF OneWakeup
    <3>4. CASE x # r.mu
      <4>1. Count(x, {"srel"})' = Count(x, {"srel"}) /\ Count(x, Waking)' = Count(x, Waking) /\ Awake(x)' = Awake(x)
        BY <2>10, <2>11, <3>1, <3>4 DEF Bit
      <4> QED BY <2>4, <3>2, <3>3, <3>4, <4>1
    <3>5. CASE x = r.mu
      <4>1. Count(x, {"srel"})' = Count(x, {"srel"}) + 1 /\ Count(x, Waking)' = Count(x, Waking) /\ Awake(x)' = Awake(x)
        BY <2>10, <2>11, <3>1, <3>5 DEF Bit
      <4>2. ~mutex[x].woken
        BY <1>1, <1>3, <3>5 DEF NobodyToWake
      <4>3. mutex'[x].woken /\ mutex'[x].waiters = mutex[x].waiters - 1
        BY <2>2, <2>4, <3>5
      <4>4. Count(x, {"srel"}) + sem[x] + Awake(x) = 0
        BY <3>3, <4>2
      <4>5. Count(x, {"srel"})' + sem'[x] + Awake(x)' = 1
        BY <3>1, <3>2, <4>1, <4>4
      <4>6. Count(x, Waking)' = mutex'[x].waiters + Count(x, {"srel"})' + sem'[x]
        <5>1. PICK a \in Nat : a = Count(x, {"srel"})
          BY <3>1
        <5>2. PICK w \in Int : w = mutex[x].waiters
          BY <3>2
        <5>3. Count(x, Waking) = w + a + sem[x]
          BY <3>3, <5>1, <5>2
        <5>4. mutex'[x].waiters = w - 1 /\ Count(x, {"srel"})' = a + 1 /\ sem'[x] = sem[x] /\ sem[x] \in Nat
          BY <3>2, <4>1, <4>3, <5>1, <5>2
        <5>5. w + a + sem[x] = (w - 1) + (a + 1) + sem[x]
          BY <5>4
        <5> QED BY <4>1, <5>3, <5>4, <5>5
      <4> QED BY <4>3, <4>5, <4>6
    <3> QED BY <3>4, <3>5
  <2> QED BY <1>f, <2>4, <2>9, <2>13, <2>14, <2>15, <2>16, <2>17 DEF MutexGoal
<1> QED BY <1>2, <1>3

(***************************************************************************)
(* Semacquire and Semrelease.                                              *)
(***************************************************************************)
LEMMA WakingFacts ==
    ASSUME NEW r, Wf(r), r.pc \in Waking
    PROVE  /\ r \in Gr /\ r.sa \in Sems /\ (r.n = 0 \/ (r.k = <<"lread">> \o Ret("addwake") /\ r.n >= 0))
           /\ r.sa \in Mutexes => /\ r.mu = r.sa /\ r.awoke
                                  /\ \E s \in Seq(Place) : r.k = <<"lread">> \o s /\ LockStack(r.mu, s)
                                                           /\ (s = Top \/ \E p \in Body : s = Ret(p))
           /\ r.sa \notin Mutexes => r.k = Top /\ ~r.awoke /\ r.n = 0
<1>0. r.pc \notin {"wwait", "wrelease", "scas", "bcas", "yrel", "addwake", "lread", "lcas"}
  BY DEF Waking
<1>1. r \in Gr /\ r.sa \in Sems
  BY DEF Wf, StackOf
<1>2. r.sa \in Mutexes => /\ r.mu = r.sa /\ r.awoke
                          /\ \E s \in {Top} \cup {Ret(p) : p \in Body} : r.k = <<"lread">> \o s /\ LockStack(r.mu, s)
  BY DEF Wf, StackOf
<1>3. r.sa \notin Mutexes => r.k = Top /\ ~r.awoke
  BY <1>0 DEF Wf, StackOf, LocalsOf
<1>4. ASSUME NEW s \in {Top} \cup {Ret(p) : p \in Body}
      PROVE  s \in Seq(Place) /\ (s = Top \/ \E p \in Body : s = Ret(p))
  <2>1. s = Top \/ \E p \in Body : s = Ret(p)
    OBVIOUS
  <2>2. CASE s = Top
    BY <2>2, Stacks
  <2>3. CASE \E p \in Body : s = Ret(p)
    <3>1. PICK p \in Body : s = Ret(p)
      BY <2>3
    <3>2. p \in Place
      BY Places
    <3>3. Ret(p) \in Seq(Place)
      BY <3>2, Stacks
    <3> QED BY <3>1, <3>3
  <2> QED BY <2>1, <2>2, <2>3
<1>5. r.n # 0 => GoesOnAt(r, "wrelease") \/ GoesOnAt(r, "addwake")
  BY <1>0 DEF Wf, LocalsOf
<1>6. {"wrelease", "addwake"} \subseteq Place
  BY DEF Place, Body
<1>7. CASE r.sa \notin Mutexes
  <2>1. r.n = 0
    BY <1>0, <1>3, <1>5, <1>6, <1>7, GoesOn
  <2> QED BY <1>1, <1>3, <1>7, <2>1
<1>8. CASE r.sa \in Mutexes
  <2>1. PICK s \in {Top} \cup {Ret(p) : p \in Body} : r.k = <<"lread">> \o s /\ LockStack(r.mu, s)
    BY <1>2, <1>8
  <2>2. s \in Seq(Place) /\ (s = Top \/ \E p \in Body : s = Ret(p))
    BY <1>4
  <2>3. s = Top \/ \E p \in Place \ {"wrelease"} : s = Ret(p)
    BY <2>1 DEF LockStack, Place, Body
  <2>4. ~GoesOnAt(r, "wrelease")
    BY <1>0, <1>6, <2>1, <2>3, GoesOn
  <2>5. GoesOnAt(r, "addwake") => s = Ret("addwake")
    BY <1>0, <1>6, <2>1, <2>3, GoesOn
  <2>6. GoesOnAt(r, "addwake") => r.n >= 0
    BY DEF Wf, LocalsOf
  <2>7. r.n = 0 \/ (r.k = <<"lread">> \o Ret("addwake") /\ r.n >= 0)
    BY <1>5, <2>1, <2>4, <2>5, <2>6
  <2>8. \E t \in Seq(Place) : r.k = <<"lread">> \o t /\ LockStack(r.mu, t) /\ (t = Top \/ \E p \in Body : t = Ret(p))
    BY <2>1, <2>2
  <2> QED BY <1>1, <1>2, <1>8, <2>7, <2>8
<1> QED BY <1>7, <1>8

(* Another step of Semacquire.                                             *)
LEMMA WakingOn ==
    ASSUME NEW r, Wf(r), r.pc \in Waking, NEW p \in Waking, NEW s, s = [r EXCEPT !.pc = p]
    PROVE  /\ Wf(s) /\ s.pc = p /\ s.sa = r.sa /\ s.mu = r.mu /\ s.awoke = r.awoke
           /\ \A x \in {"wgm", "om"} : ~Owns(s, x)
<1>0. r \in Gr
  BY DEF Wf
<1>1. /\ s \in Gr /\ s.pc = p /\ s.sa = r.sa /\ s.mu = r.mu /\ s.awoke = r.awoke /\ s.k = r.k
      /\ s.n = r.n /\ s.ws = r.ws /\ s.old = r.old
  BY <1>0, Places DEF Gr
<1>2. {r.pc, p} \cap ({"next", "unborn", "yrel", "yacq", "yparked", "ucas"} \cup Body \cup Locking \cup Unlocking \cup Releasing) = {}
  BY DEF Body, Locking, Unlocking, Waking, Releasing
<1>3. StackOf(s)
  BY <1>1, <1>2 DEF Wf, StackOf
<1>4. \A l \in {"waitsleep", "wrelease", "addwake"} : GoesOnAt(s, l) <=> GoesOnAt(r, l)
  <2>1. {r.pc, p} \cap {"waitsleep", "wrelease", "addwake", "next", "unborn"} = {}
    BY DEF Waking
  <2> QED BY <1>1, <2>1 DEF GoesOnAt
<1>5. LocalsOf(s)
  <2>1. {r.pc, p} \cap {"lread", "lcas", "wwait", "wrelease", "scas", "bcas", "yrel", "ucas"} = {}
    BY DEF Waking
  <2> QED BY <1>1, <1>4, <2>1 DEF Wf, LocalsOf
<1>6. Signals(s)
  BY <1>1 DEF Signals, Waking
<1>7. \A x \in {"wgm", "om"} : ~Owns(s, x)
  BY <1>1 DEF Owns, Waking, Releasing
<1> QED BY <1>1, <1>3, <1>5, <1>6, <1>7 DEF Wf

(* Semacquire returns, to Lock or to the program.                          *)
LEMMA WakingBack ==
    ASSUME NEW r, Wf(r), r.pc \in Waking, NEW s, s = Back(r)
    PROVE  /\ Wf(s) /\ s.pc \in {"next", "lread"} /\ s.sa = Nil
           /\ \A x \in Mutexes : AwakeFor(s, x) <=> r.sa = x
           /\ \A x \in {"wgm", "om"} : ~Owns(s, x)
<1>0. r \in Gr /\ r.sa \in Sems /\ (r.n = 0 \/ (r.k = <<"lread">> \o Ret("addwake") /\ r.n >= 0))
  BY WakingFacts
<1>1. CASE r.sa \notin Mutexes
  <2>1. r.k = Top /\ ~r.awoke /\ r.n = 0
    BY <1>1, WakingFacts
  <2>2. Wf(s) /\ s.pc = "next" /\ s.sa = Nil
    BY <1>0, <2>1, WfNext
  <2> QED BY <1>1, <2>2 DEF AwakeFor, Owns, Releasing
<1>2. CASE r.sa \in Mutexes
  <2>1. PICK t \in Seq(Place) : /\ r.k = <<"lread">> \o t /\ LockStack(r.mu, t) /\ (t = Top \/ \E p \in Body : t = Ret(p))
                                /\ r.mu = r.sa /\ r.awoke
    BY <1>2, WakingFacts
  <2>2. Head(r.k) = "lread" /\ Tail(r.k) = t
    <3>1. "lread" \in Place
      BY Places
    <3>2. Head(<<"lread">> \o t) = "lread" /\ Tail(<<"lread">> \o t) = t
      BY <3>1, Push
    <3> QED BY <2>1, <3>2
  <2>3. s \in Gr /\ s.pc = "lread" /\ s.k = t /\ s.sa = Nil /\ s.mu = r.mu /\ s.awoke = r.awoke /\ s.n = r.n
    BY <1>0, <2>2, BackFacts, Places
  <2>4. r.n = 0 \/ (t = Ret("addwake") /\ r.n >= 0)
    <3>1. CASE r.k = <<"lread">> \o Ret("addwake")
      <4>1. "addwake" \in Place
        BY DEF Place, Body
      <4>2. Tail(<<"lread">> \o Ret("addwake")) = Ret("addwake")
        BY <4>1, Stacks, Places
      <4> QED BY <1>0, <2>2, <3>1, <4>2
    <3>2. CASE r.k # <<"lread">> \o Ret("addwake")
      BY <1>0, <3>2
    <3> QED BY <3>1, <3>2
  <2>5. Wf(s)
    BY <2>1, <2>3, <2>4, WfLock DEF Locking
  <2>6. \A x \in Mutexes : AwakeFor(s, x) <=> r.sa = x
    BY <2>1, <2>3 DEF AwakeFor
  <2> QED BY <2>3, <2>5, <2>6 DEF Owns, Releasing
<1> QED BY <1>1, <1>2

LEMMA ReleasingFacts ==
    ASSUME NEW r, Wf(r), r.pc \in Releasing
    PROVE  /\ r \in Gr /\ r.sa \in Sems /\ ~r.awoke
           /\ \/ r.sa \in Mutexes /\ UnlockStack(r.sa, r.k) /\ r.n = 0 /\ (r.k = Ret("waitsleep") => r.ws \in WgSet)
              \/ r.sa = "readerSem" /\ r.k = Ret("wrelease")
              \/ r.sa = "writerSem" /\ r.k = Top /\ r.n = 0
              \/ r.sa \in WgSet /\ r.k = Ret("addwake") /\ r.n >= 0
<1>0. r.pc \notin {"wwait", "wrelease", "scas", "bcas", "yrel", "addwake", "lread", "lcas", "waitsleep", "next", "unborn"} \cup Waking
  BY DEF Releasing, Waking
<1>1. r \in Gr /\ r.sa \in Sems /\ ~r.awoke
  BY <1>0 DEF Wf, StackOf, LocalsOf
<1>2. r.sa \in Mutexes \cup {"readerSem", "writerSem"} \cup WgSet
  BY <1>1, SyncConstants DEF WgSet
<1>3. r.n # 0 => GoesOnAt(r, "wrelease") \/ GoesOnAt(r, "addwake")
  BY <1>0 DEF Wf, LocalsOf
<1>4. {"wrelease", "addwake", "waitsleep", "csleep"} \subseteq Place
  BY DEF Place, Body
<1>5. CASE r.sa \in Mutexes
  <2>1. UnlockStack(r.sa, r.k)
    BY <1>5 DEF Wf, StackOf
  <2>2. r.k = Top \/ r.k = Ret("waitsleep") \/ r.k = Ret("csleep")
    BY <2>1 DEF UnlockStack
  <2>3. ~GoesOnAt(r, "addwake") /\ ~GoesOnAt(r, "wrelease")
    BY <1>0, <1>4, <2>2, GoesOn
  <2>4. r.k = Ret("waitsleep") => r.ws \in WgSet
    BY <1>0 DEF Wf, LocalsOf, GoesOnAt
  <2> QED BY <1>1, <1>3, <1>5, <2>1, <2>3, <2>4
<1>6. CASE r.sa = "readerSem"
  BY <1>1, <1>6 DEF Wf, StackOf
<1>7. CASE r.sa = "writerSem"
  <2>1. r.k = Top
    BY <1>7 DEF Wf, StackOf
  <2>2. ~GoesOnAt(r, "addwake") /\ ~GoesOnAt(r, "wrelease")
    BY <1>0, <1>4, <2>1, GoesOn
  <2> QED BY <1>1, <1>3, <1>7, <2>1, <2>2
<1>8. CASE r.sa \in WgSet
  <2>1. r.k = Ret("addwake")
    BY <1>8 DEF Wf, StackOf
  <2>2. GoesOnAt(r, "addwake")
    BY <1>0, <2>1 DEF GoesOnAt
  <2>3. r.n >= 0
    BY <2>2 DEF Wf, LocalsOf
  <2> QED BY <1>1, <1>8, <2>1, <2>3
<1> QED BY <1>2, <1>5, <1>6, <1>7, <1>8

LEMMA ReleasingOn ==
    ASSUME NEW r, Wf(r), r.pc \in Releasing, NEW p \in Releasing, NEW s, s = [r EXCEPT !.pc = p]
    PROVE  /\ Wf(s) /\ s.pc = p /\ s.sa = r.sa /\ ~s.awoke
           /\ \A x \in {"wgm", "om"} : Owns(s, x) => Owns(r, x)
<1>0. r \in Gr /\ ~r.awoke
  BY ReleasingFacts
<1>1. /\ s \in Gr /\ s.pc = p /\ s.sa = r.sa /\ s.mu = r.mu /\ s.awoke = r.awoke /\ s.k = r.k
      /\ s.n = r.n /\ s.ws = r.ws /\ s.old = r.old
  BY <1>0, Places DEF Gr
<1>2. {r.pc, p} \cap ({"next", "unborn", "yrel", "yacq", "yparked", "ucas"} \cup Body \cup Locking \cup Unlocking \cup Waking) = {}
  BY DEF Body, Locking, Unlocking, Waking, Releasing
<1>3. StackOf(s)
  BY <1>1, <1>2 DEF Wf, StackOf
<1>4. \A l \in {"waitsleep", "wrelease", "addwake"} : GoesOnAt(s, l) <=> GoesOnAt(r, l)
  <2>1. {r.pc, p} \cap {"waitsleep", "wrelease", "addwake", "next", "unborn"} = {}
    BY DEF Releasing
  <2> QED BY <1>1, <2>1 DEF GoesOnAt
<1>5. LocalsOf(s)
  <2>1. {r.pc, p} \cap {"lread", "lcas", "wwait", "wrelease", "scas", "bcas", "yrel", "ucas"} = {}
    BY DEF Releasing
  <2> QED BY <1>0, <1>1, <1>4, <2>1 DEF Wf, LocalsOf
<1>6. Signals(s)
  BY <1>1 DEF Signals, Releasing
<1>7. \A x \in {"wgm", "om"} : Owns(s, x) => Owns(r, x)
  <2>1. s.pc \notin {"unlock", "addwake", "waitadd", "waitlook", "waitundo", "dof", "dofpanic", "f", "fpanic", "fdone"}
    BY <1>1 DEF Releasing
  <2> QED BY <1>1, <2>1 DEF Owns
<1> QED BY <1>0, <1>1, <1>3, <1>5, <1>6, <1>7 DEF Wf

(* Semrelease returns.                                                     *)
LEMMA ReleasingBack ==
    ASSUME NEW r, Wf(r), r.pc \in Releasing, NEW s, s = Back(r)
    PROVE  /\ Wf(s) /\ Quiet(s) /\ s.pc # "yparked"
           /\ \A x \in {"wgm", "om"} : Owns(s, x) => Owns(r, x)
<1>0. r \in Gr /\ r.sa \in Sems /\ ~r.awoke
  BY ReleasingFacts
<1>1. CASE r.k = Top /\ r.n = 0
  <2>1. Wf(s) /\ s.pc = "next" /\ s.awoke = r.awoke
    BY <1>0, <1>1, WfNext
  <2> QED BY <1>0, <2>1 DEF Quiet, Owns, Releasing, Waking
<1>2. ASSUME NEW p \in {"waitsleep", "csleep", "wrelease", "addwake"}, r.k = Ret(p),
             p = "waitsleep" => r.ws \in WgSet, r.n # 0 => p \in {"wrelease", "addwake"},
             p = "addwake" => r.n >= 0 /\ r.sa \in WgSet
      PROVE  Wf(s) /\ Quiet(s) /\ s.pc # "yparked" /\ \A x \in {"wgm", "om"} : Owns(s, x) => Owns(r, x)
  <2>1. p \in Body \ {"scas", "bcas"}
    BY DEF Body
  <2>2. Wf(s) /\ s.pc = p /\ s.awoke = r.awoke
    BY <1>0, <1>2, <2>1, WfReturn
  <2>3. InBody(s)
    BY <2>1, <2>2 DEF InBody
  <2>4. Quiet(s) /\ s.pc # "yparked"
    BY <2>3, BodyQuiet
  <2>5. \A x \in {"wgm", "om"} : Owns(s, x) => x = "wgm" /\ p = "addwake"
    BY <2>2 DEF Owns, Releasing
  <2>6. p = "addwake" => Owns(r, "wgm")
    BY <1>2 DEF Owns
  <2> QED BY <2>2, <2>4, <2>5, <2>6
<1>3. CASE r.sa \in Mutexes
  <2>1. UnlockStack(r.sa, r.k) /\ r.n = 0 /\ (r.k = Ret("waitsleep") => r.ws \in WgSet)
    BY <1>3, ReleasingFacts, OtherSems
  <2>2. r.k = Top \/ r.k = Ret("waitsleep") \/ r.k = Ret("csleep")
    BY <2>1 DEF UnlockStack
  <2> QED BY <1>1, <1>2, <2>1, <2>2
<1>4. CASE r.sa \notin Mutexes
  <2>1. \/ r.sa = "readerSem" /\ r.k = Ret("wrelease")
        \/ r.sa = "writerSem" /\ r.k = Top /\ r.n = 0
        \/ r.sa \in WgSet /\ r.k = Ret("addwake") /\ r.n >= 0
    BY <1>4, ReleasingFacts
  <2> QED BY <1>1, <1>2, <2>1
<1> QED BY <1>3, <1>4

(* What a step of the semaphores leaves of the rest, when only g moves.    *)
LEMMA SemaFrame ==
    ASSUME SyncIInv, NEW g \in G, NEW s, Wf(s), gr' = [gr EXCEPT ![g] = s], UNCHANGED <<syncsema, mutex>>,
           \A x \in {"wgm", "om"} : Owns(s, x) => Owns(gr[g], x),
           gr[g].pc \notin {"waitlook", "waitundo", "yparked"}
    PROVE  /\ gr' \in [G -> Gr] /\ gr'[g] = s /\ \A h \in G : h # g => gr'[h] = gr[h]
           /\ PlaceInv' /\ OwnInv' /\ PairInv' /\ \A h \in G : Looking(h) => Looking(h)'
<1>0. s \in Gr /\ SyncTypes
  BY DEF Wf, SyncIInv
<1>1. gr' \in [G -> Gr] /\ gr'[g] = s /\ \A h \in G : h # g => gr'[h] = gr[h]
  BY <1>0, OnlyThis
<1>2. PlaceInv'
  BY <1>1 DEF SyncIInv, PlaceInv
<1>3. \A h \in G : \A x \in {"wgm", "om"} : Owns(gr'[h], x) => Owns(gr[h], x)
  BY <1>1
<1>4. OwnInv'
  BY <1>3, OwnKept DEF SyncIInv
<1>5. \A h \in G : gr[h].pc = "yparked" => gr'[h].pc = "yparked"
  BY <1>1
<1>6. PairInv'
  BY <1>5, PairKept
<1>7. \A h \in G : Looking(h) => Looking(h)'
  BY <1>1 DEF Looking
<1> QED BY <1>1, <1>2, <1>4, <1>6, <1>7

(* The accounts of the Mutexes when g moves.                               *)
LEMMA AccountsKept ==
    ASSUME SyncIInv, NEW g \in G, \A h \in G : h # g => gr'[h] = gr[h], mutex' = mutex, sem' \in [Sems -> Nat],
           \A x \in Mutexes :
             /\ Bit(ReleasesOne(gr'[g], x)) + sem'[x] + Bit(AwakeFor(gr'[g], x))
                  = Bit(ReleasesOne(gr[g], x)) + sem[x] + Bit(AwakeFor(gr[g], x))
             /\ Bit(SleepsOn(gr'[g], x)) - Bit(ReleasesOne(gr'[g], x)) - sem'[x]
                  = Bit(SleepsOn(gr[g], x)) - Bit(ReleasesOne(gr[g], x)) - sem[x]
    PROVE  OneWakeup'
<1> SUFFICES ASSUME NEW x \in Mutexes
             PROVE  /\ Count(x, {"srel"})' + sem'[x] + Awake(x)' = IF mutex'[x].woken THEN 1 ELSE 0
                    /\ Count(x, Waking)' = mutex'[x].waiters + Count(x, {"srel"})' + sem'[x]
  BY DEF OneWakeup
<1>1. /\ Count(x, {"srel"}) \in Nat /\ Count(x, Waking) \in Nat /\ Awake(x) \in Nat
      /\ Count(x, {"srel"})' = Count(x, {"srel"}) - Bit(ReleasesOne(gr[g], x)) + Bit(ReleasesOne(gr'[g], x))
      /\ Count(x, Waking)' = Count(x, Waking) - Bit(SleepsOn(gr[g], x)) + Bit(SleepsOn(gr'[g], x))
      /\ Awake(x)' = Awake(x) - Bit(AwakeFor(gr[g], x)) + Bit(AwakeFor(gr'[g], x))
  BY CountStep
<1>2. /\ Count(x, {"srel"}) + sem[x] + Awake(x) = IF mutex[x].woken THEN 1 ELSE 0
      /\ Count(x, Waking) = mutex[x].waiters + Count(x, {"srel"}) + sem[x]
  BY DEF SyncIInv, OneWakeup
<1>3. x \in Sems /\ sem[x] \in Nat /\ sem'[x] \in Nat /\ mutex[x].waiters \in Int
  BY OtherSems DEF SyncIInv, SyncTypes, MState
<1>4. \A b : Bit(b) \in Nat
  BY DEF Bit
<1>5. PICK a1, a2, b1, b2, c1, c2 \in Nat :
        /\ a1 = Bit(ReleasesOne(gr[g], x)) /\ a2 = Bit(ReleasesOne(gr'[g], x))
        /\ b1 = Bit(SleepsOn(gr[g], x)) /\ b2 = Bit(SleepsOn(gr'[g], x))
        /\ c1 = Bit(AwakeFor(gr[g], x)) /\ c2 = Bit(AwakeFor(gr'[g], x))
  BY <1>4
<1>6. a2 + sem'[x] + c2 = a1 + sem[x] + c1 /\ b2 - a2 - sem'[x] = b1 - a1 - sem[x]
  BY <1>5
<1>7. PICK n1, n2, n3 \in Nat : n1 = Count(x, {"srel"}) /\ n2 = Count(x, Waking) /\ n3 = Awake(x)
  BY <1>1
<1>8. Count(x, {"srel"})' = n1 - a1 + a2 /\ Count(x, Waking)' = n2 - b1 + b2 /\ Awake(x)' = n3 - c1 + c2
  BY <1>1, <1>5, <1>7
<1>9. PICK s1, s2 \in Nat : s1 = sem[x] /\ s2 = sem'[x]
  BY <1>3
<1>10. /\ (n1 - a1 + a2) + s2 + (n3 - c1 + c2) = n1 + s1 + n3
       /\ n2 = mutex[x].waiters + n1 + s1 => n2 - b1 + b2 = mutex[x].waiters + (n1 - a1 + a2) + s2
  BY <1>3, <1>6, <1>9
<1> QED BY <1>2, <1>7, <1>8, <1>9, <1>10

(* Wakeups of semaphores when g moves.                                     *)
LEMMA WakeupsKept ==
    ASSUME SyncIInv, NEW g \in G, \A h \in G : h # g => gr'[h] = gr[h], sem' \in [Sems -> Nat],
           \A a \in Sems : \/ Queued(a)' = {} \/ sem'[a] = 0
                           \/ Queued(a) # {} /\ sem'[a] + Bit(TriesOn(gr[g], a)) <= sem[a] + Bit(TriesOn(gr'[g], a))
    PROVE  SemaNoLostWakeup'
<1> SUFFICES ASSUME NEW a \in Sems, Queued(a)' # {} PROVE sem'[a] <= Cardinality(OnTheWay(a)')
  BY DEF SemaNoLostWakeup
<1> DEFINE S == OnTheWay(a)
           T == {h \in G : gr'[h].sa = a /\ gr'[h].pc \in Trying}
<1>0. T = OnTheWay(a)'
  BY DEF OnTheWay, Trying
<1>1. /\ S \subseteq G /\ T \subseteq G /\ \A h \in G : h # g => (h \in S <=> h \in T)
      /\ g \in S <=> TriesOn(gr[g], a)
      /\ g \in T <=> TriesOn(gr'[g], a)
  BY DEF OnTheWay, TriesOn, Trying
<1> HIDE DEF S, T
<1>2. PICK m, n \in Nat : m = Cardinality(S) /\ n = Cardinality(T)
  BY <1>1, CardStep
<1>3. n = m - Bit(TriesOn(gr[g], a)) + Bit(TriesOn(gr'[g], a))
  BY <1>1, <1>2, CardStep DEF Bit
<1>4. sem[a] \in Nat /\ sem'[a] \in Nat
  BY DEF SyncIInv, SyncTypes
<1>5. CASE sem'[a] = 0
  BY <1>0, <1>2, <1>5
<1>6. CASE Queued(a) # {} /\ sem'[a] + Bit(TriesOn(gr[g], a)) <= sem[a] + Bit(TriesOn(gr'[g], a))
  <2>1. sem[a] <= m
    BY <1>2, <1>6 DEF SyncIInv, SemaSafe, SemaNoLostWakeup, S
  <2>2. PICK t1, t2 \in Nat : t1 = Bit(TriesOn(gr[g], a)) /\ t2 = Bit(TriesOn(gr'[g], a))
    BY DEF Bit
  <2>3. sem'[a] + t1 <= sem[a] + t2 /\ n = m - t1 + t2
    BY <1>3, <1>6, <2>2
  <2>4. sem'[a] <= n
    BY <1>2, <1>4, <2>1, <2>2, <2>3
  <2> QED BY <1>0, <1>2, <2>4
<1> QED BY <1>5, <1>6

(* Nobody enters or leaves a root.                                         *)
LEMMA RootsStay ==
    ASSUME SyncIInv, NEW g \in G, \A h \in G : h # g => gr'[h] = gr[h], root' = root,
           gr[g].pc \notin {"sretry", "sparked"}, gr'[g].pc # "sretry"
    PROVE  (\A r \in Roots : RootsOf(r)') /\ NwaitCounts'
<1>2. ASSUME NEW r \in Roots PROVE RootsOf(r)'
  <2>1. RootsOf(r) /\ root[r].queue \in Seq([g : G, addr : Sems]) /\ root[r].lock \subseteq G
    BY DEF SyncIInv, SyncTypes
  <2>2. ASSUME NEW h \in G PROVE h \in root[r].lock <=> gr'[h].pc = "sretry" /\ RootOf[gr'[h].sa] = r
    <3>1. CASE h = g
      BY <2>1, <3>1 DEF RootsOf, At
    <3>2. CASE h # g
      BY <2>1, <3>2 DEF RootsOf, At
    <3> QED BY <3>1, <3>2
  <2>3. ASSUME NEW i \in 1 .. Len(root[r].queue)
        PROVE  LET q == root[r].queue[i] IN
               gr'[q.g].pc = "sparked" /\ gr'[q.g].sa = q.addr /\ RootOf[q.addr] = r
    <3>1. PICK q : q = root[r].queue[i]
      OBVIOUS
    <3>2. q \in [g : G, addr : Sems]
      BY <2>1, <3>1, ElementOfSeq
    <3>3. gr[q.g].pc = "sparked" /\ gr[q.g].sa = q.addr /\ RootOf[q.addr] = r
      BY <2>1, <3>1 DEF RootsOf, At
    <3>4. gr'[q.g] = gr[q.g]
      BY <3>2, <3>3
    <3> QED BY <3>1, <3>3, <3>4
  <2> QED BY <2>1, <2>2, <2>3 DEF RootsOf, At
<1>3. NwaitCounts'
  BY DEF SyncIInv, SemaSafe, NwaitCounts
<1> QED BY <1>2, <1>3

(* What every step of the semaphores has to show.                          *)
SemaGoal ==
    /\ PlaceInv' /\ OwnInv' /\ (\A r \in Roots : RootsOf(r)') /\ PairInv' /\ SemaSafe' /\ OneWakeup'
    /\ \A h \in G : Looking(h) => Looking(h)'
    /\ gr' \in [G -> Gr] /\ sem' \in [Sems -> Nat]
    /\ root' \in [Roots -> [lock : SUBSET G, nwait : Int, queue : Seq([g : G, addr : Sems])]]
    /\ syncsema' \in Seq([g : G, nrelease : Int])

(* At these places a goroutine counts for its semaphore and for no Mutex.  *)
LEMMA PlacesCount ==
    ASSUME NEW r, NEW x
    PROVE  /\ r.pc \in {"sacq", "slock", "sretry"} =>
                /\ ~ReleasesOne(r, x) /\ ~AwakeFor(r, x)
                /\ (SleepsOn(r, x) <=> r.sa = x) /\ (TriesOn(r, x) <=> r.sa = x)
           /\ r.pc = "sparked" => /\ ~ReleasesOne(r, x) /\ ~AwakeFor(r, x)
                                  /\ (SleepsOn(r, x) <=> r.sa = x) /\ ~TriesOn(r, x)
           /\ r.pc = "srel" => /\ (ReleasesOne(r, x) <=> r.sa = x) /\ ~AwakeFor(r, x)
                               /\ ~SleepsOn(r, x) /\ ~TriesOn(r, x)
           /\ r.pc \in {"slook", "sdeq"} => /\ ~ReleasesOne(r, x) /\ ~AwakeFor(r, x)
                                            /\ ~SleepsOn(r, x) /\ (TriesOn(r, x) <=> r.sa = x)
           /\ r.pc \in {"next", "lread"} => ~ReleasesOne(r, x) /\ ~SleepsOn(r, x) /\ ~TriesOn(r, x)
           /\ Quiet(r) => ~ReleasesOne(r, x) /\ ~AwakeFor(r, x) /\ ~SleepsOn(r, x) /\ ~TriesOn(r, x)
BY DEF ReleasesOne, SleepsOn, AwakeFor, TriesOn, Trying, Waking, Releasing, Quiet

LEMMA SetSem ==
    ASSUME SyncTypes, NEW a \in Sems, NEW n \in Nat, sem' = [sem EXCEPT ![a] = n]
    PROVE  sem' \in [Sems -> Nat] /\ sem'[a] = n /\ \A b \in Sems : b # a => sem'[b] = sem[b]
BY DEF SyncTypes

LEMMA SemTrySafe ==
    ASSUME SyncIInv, NEW g \in G, SemTry(g), mutex' = mutex
    PROVE  SemaGoal
<1>0. PICK r : r = gr[g]
  OBVIOUS
<1>1. SyncTypes /\ Wf(r) /\ r.pc = "sacq" /\ r.pc \in Waking /\ UNCHANGED <<root, syncsema>>
  BY <1>0 DEF SyncIInv, PlaceInv, SemTry, At, Waking
<1>2. r.sa \in Sems /\ Mutexes \subseteq Sems
  BY <1>1, WakingFacts, OtherSems
<1>3. sem[r.sa] \in Nat /\ \A a \in Sems : sem[a] \in Nat
  BY <1>1, <1>2 DEF SyncTypes
<1>4. /\ root' \in [Roots -> [lock : SUBSET G, nwait : Int, queue : Seq([g : G, addr : Sems])]]
      /\ syncsema' \in Seq([g : G, nrelease : Int])
      /\ \A a \in Sems : Queued(a)' = Queued(a)
  BY <1>1 DEF SyncTypes, Queued
<1>5. CASE sem[r.sa] > 0
  <2>1. PICK s : s = Back(r)
    OBVIOUS
  <2>2. /\ Wf(s) /\ s.pc \in {"next", "lread"} /\ s.sa = Nil
        /\ \A x \in Mutexes : AwakeFor(s, x) <=> r.sa = x
        /\ \A x \in {"wgm", "om"} : ~Owns(s, x)
    BY <1>1, <2>1, WakingBack
  <2>3. gr' = [gr EXCEPT ![g] = s] /\ sem' = [sem EXCEPT ![r.sa] = sem[r.sa] - 1]
    BY <1>0, <1>5, <2>1 DEF SemTry, cansemacquire, Take, Return
  <2>4. /\ gr' \in [G -> Gr] /\ gr'[g] = s /\ \A h \in G : h # g => gr'[h] = gr[h]
        /\ PlaceInv' /\ OwnInv' /\ PairInv' /\ \A h \in G : Looking(h) => Looking(h)'
    BY <1>0, <1>1, <2>2, <2>3, SemaFrame
  <2>5. /\ sem' \in [Sems -> Nat] /\ sem'[r.sa] = sem[r.sa] - 1
        /\ \A b \in Sems : b # r.sa => sem'[b] = sem[b]
    <3>1. PICK n \in Nat : n = sem[r.sa] - 1
      BY <1>3, <1>5
    <3>2. sem' = [sem EXCEPT ![r.sa] = n]
      BY <2>3, <3>1
    <3> QED BY <1>1, <1>2, <3>1, <3>2, SetSem
  <2>6. ASSUME NEW x \in Mutexes
        PROVE  /\ Bit(ReleasesOne(s, x)) + sem'[x] + Bit(AwakeFor(s, x))
                    = Bit(ReleasesOne(r, x)) + sem[x] + Bit(AwakeFor(r, x))
               /\ Bit(SleepsOn(s, x)) - Bit(ReleasesOne(s, x)) - sem'[x]
                    = Bit(SleepsOn(r, x)) - Bit(ReleasesOne(r, x)) - sem[x]
    <3>1. /\ ~ReleasesOne(s, x) /\ ~SleepsOn(s, x) /\ ~ReleasesOne(r, x) /\ ~AwakeFor(r, x)
          /\ (AwakeFor(s, x) <=> r.sa = x) /\ (SleepsOn(r, x) <=> r.sa = x)
      BY <1>1, <2>2, PlacesCount
    <3>2. x \in Sems /\ sem[x] \in Nat
      BY <1>2, <1>3
    <3> QED BY <2>5, <3>1, <3>2 DEF Bit
  <2>7. OneWakeup'
    BY <1>0, <2>4, <2>5, <2>6, AccountsKept
  <2>8. ASSUME NEW a \in Sems, Queued(a)' # {}
        PROVE  Queued(a) # {} /\ sem'[a] + Bit(TriesOn(r, a)) <= sem[a] + Bit(TriesOn(s, a))
    <3>1. ~TriesOn(s, a) /\ (TriesOn(r, a) <=> r.sa = a)
      BY <1>1, <2>2, PlacesCount
    <3> QED BY <1>3, <1>4, <2>5, <2>8, <3>1 DEF Bit
  <2>9. SemaNoLostWakeup'
    BY <1>0, <2>4, <2>5, <2>8, WakeupsKept
  <2>10. (\A q \in Roots : RootsOf(q)') /\ NwaitCounts'
    BY <1>0, <1>1, <2>2, <2>4, RootsStay
  <2> QED BY <1>4, <2>4, <2>5, <2>7, <2>9, <2>10 DEF SemaGoal, SemaSafe
<1>6. CASE ~(sem[r.sa] > 0)
  <2>1. PICK s : s = [r EXCEPT !.pc = "slock"]
    OBVIOUS
  <2>2. /\ Wf(s) /\ s.pc = "slock" /\ s.sa = r.sa
        /\ \A x \in {"wgm", "om"} : ~Owns(s, x)
    BY <1>1, <2>1, WakingOn DEF Waking
  <2>3. gr' = [gr EXCEPT ![g] = s] /\ sem' = sem
    BY <1>0, <1>1, <1>6, <2>1 DEF SemTry, cansemacquire, Goto, SyncTypes
  <2>4. /\ gr' \in [G -> Gr] /\ gr'[g] = s /\ \A h \in G : h # g => gr'[h] = gr[h]
        /\ PlaceInv' /\ OwnInv' /\ PairInv' /\ \A h \in G : Looking(h) => Looking(h)'
    BY <1>0, <1>1, <2>2, <2>3, SemaFrame
  <2>5. sem' \in [Sems -> Nat]
    BY <1>1, <2>3 DEF SyncTypes
  <2>6. ASSUME NEW x
        PROVE  /\ ReleasesOne(s, x) = ReleasesOne(r, x) /\ AwakeFor(s, x) = AwakeFor(r, x)
               /\ SleepsOn(s, x) = SleepsOn(r, x) /\ TriesOn(s, x) = TriesOn(r, x)
    BY <1>1, <2>2 DEF ReleasesOne, AwakeFor, SleepsOn, TriesOn, Waking, Trying
  <2>7. OneWakeup'
    BY <1>0, <2>3, <2>4, <2>5, <2>6, AccountsKept
  <2>8. ASSUME NEW a \in Sems, Queued(a)' # {}
        PROVE  Queued(a) # {} /\ sem'[a] + Bit(TriesOn(r, a)) <= sem[a] + Bit(TriesOn(s, a))
    BY <1>3, <1>4, <2>3, <2>6, <2>8 DEF Bit
  <2>9. SemaNoLostWakeup'
    BY <1>0, <2>4, <2>5, <2>8, WakeupsKept
  <2>10. (\A q \in Roots : RootsOf(q)') /\ NwaitCounts'
    BY <1>0, <1>1, <2>2, <2>4, RootsStay
  <2> QED BY <1>4, <2>4, <2>5, <2>7, <2>9, <2>10 DEF SemaGoal, SemaSafe
<1> QED BY <1>5, <1>6

LEMMA SemAddSafe ==
    ASSUME SyncIInv, NEW g \in G, SemAdd(g), mutex' = mutex
    PROVE  SemaGoal
<1>0. PICK r : r = gr[g]
  OBVIOUS
<1>1. SyncTypes /\ Wf(r) /\ r.pc = "srel" /\ r.pc \in Releasing /\ UNCHANGED <<root, syncsema>>
  BY <1>0 DEF SyncIInv, PlaceInv, SemAdd, At, Releasing
<1>2. r.sa \in Sems /\ Mutexes \subseteq Sems
  BY <1>1, ReleasingFacts, OtherSems
<1>3. sem[r.sa] \in Nat /\ \A a \in Sems : sem[a] \in Nat
  BY <1>1, <1>2 DEF SyncTypes
<1>4. /\ root' \in [Roots -> [lock : SUBSET G, nwait : Int, queue : Seq([g : G, addr : Sems])]]
      /\ syncsema' \in Seq([g : G, nrelease : Int])
      /\ \A a \in Sems : Queued(a)' = Queued(a)
  BY <1>1 DEF SyncTypes, Queued
<1>5. PICK s : s = [r EXCEPT !.pc = "slook"]
  OBVIOUS
<1>6. /\ Wf(s) /\ s.pc = "slook" /\ s.sa = r.sa
      /\ \A x \in {"wgm", "om"} : Owns(s, x) => Owns(r, x)
  BY <1>1, <1>5, ReleasingOn DEF Releasing
<1>7. gr' = [gr EXCEPT ![g] = s] /\ sem' = [sem EXCEPT ![r.sa] = sem[r.sa] + 1]
  BY <1>0, <1>1, <1>5 DEF SemAdd, Goto, SyncTypes
<1>8. /\ gr' \in [G -> Gr] /\ gr'[g] = s /\ \A h \in G : h # g => gr'[h] = gr[h]
      /\ PlaceInv' /\ OwnInv' /\ PairInv' /\ \A h \in G : Looking(h) => Looking(h)'
  BY <1>0, <1>1, <1>6, <1>7, SemaFrame
<1>9. /\ sem' \in [Sems -> Nat] /\ sem'[r.sa] = sem[r.sa] + 1
      /\ \A b \in Sems : b # r.sa => sem'[b] = sem[b]
  <2>1. PICK n \in Nat : n = sem[r.sa] + 1
    BY <1>3
  <2>2. sem' = [sem EXCEPT ![r.sa] = n]
    BY <1>7, <2>1
  <2> QED BY <1>1, <1>2, <2>1, <2>2, SetSem
<1>10. ASSUME NEW x \in Mutexes
       PROVE  /\ Bit(ReleasesOne(s, x)) + sem'[x] + Bit(AwakeFor(s, x))
                   = Bit(ReleasesOne(r, x)) + sem[x] + Bit(AwakeFor(r, x))
              /\ Bit(SleepsOn(s, x)) - Bit(ReleasesOne(s, x)) - sem'[x]
                   = Bit(SleepsOn(r, x)) - Bit(ReleasesOne(r, x)) - sem[x]
  <2>1. /\ ~ReleasesOne(s, x) /\ ~SleepsOn(s, x) /\ ~SleepsOn(r, x) /\ ~AwakeFor(r, x)
        /\ ~AwakeFor(s, x) /\ (ReleasesOne(r, x) <=> r.sa = x)
    BY <1>1, <1>6, PlacesCount
  <2>2. x \in Sems /\ sem[x] \in Nat
    BY <1>2, <1>3
  <2> QED BY <1>9, <2>1, <2>2 DEF Bit
<1>11. OneWakeup'
  BY <1>0, <1>8, <1>9, <1>10, AccountsKept
<1>12. ASSUME NEW a \in Sems, Queued(a)' # {}
       PROVE  Queued(a) # {} /\ sem'[a] + Bit(TriesOn(r, a)) <= sem[a] + Bit(TriesOn(s, a))
  <2>1. (TriesOn(s, a) <=> r.sa = a) /\ ~TriesOn(r, a)
    BY <1>1, <1>6, PlacesCount
  <2> QED BY <1>3, <1>4, <1>9, <1>12, <2>1 DEF Bit
<1>13. SemaNoLostWakeup'
  BY <1>0, <1>8, <1>9, <1>12, WakeupsKept
<1>14. (\A q \in Roots : RootsOf(q)') /\ NwaitCounts'
  BY <1>0, <1>1, <1>6, <1>8, RootsStay
<1> QED BY <1>4, <1>8, <1>9, <1>11, <1>13, <1>14 DEF SemaGoal, SemaSafe

(* nwait is zero only if nobody is queued.                                 *)
LEMMA NobodyWaits ==
    ASSUME SyncIInv, NEW r \in Roots, root[r].nwait = 0
    PROVE  Len(root[r].queue) = 0
<1>1. root[r].nwait = Len(root[r].queue) + Cardinality(root[r].lock)
  BY DEF SyncIInv, SemaSafe, NwaitCounts
<1>2. root[r].lock \subseteq G /\ root[r].queue \in Seq([g : G, addr : Sems])
  BY DEF SyncIInv, SyncTypes
<1>3. Cardinality(root[r].lock) \in Nat
  BY <1>2, CardSubset
<1>4. Len(root[r].queue) \in Nat
  BY <1>2
<1> QED BY <1>1, <1>3, <1>4

(* Semrelease is done: nobody sleeps on its semaphore.                     *)
LEMMA ReleaseReturns ==
    ASSUME SyncIInv, NEW g \in G, gr[g].pc \in {"slook", "sdeq"}, gr' = Return(g),
           Queued(gr[g].sa) = {}, UNCHANGED <<sem, root, syncsema, mutex>>
    PROVE  SemaGoal
<1>0. PICK r : r = gr[g]
  OBVIOUS
<1>1. SyncTypes /\ Wf(r) /\ r.pc \in {"slook", "sdeq"} /\ r.pc \in Releasing
  BY <1>0 DEF SyncIInv, PlaceInv, Releasing
<1>2. r.sa \in Sems
  BY <1>1, ReleasingFacts
<1>3. /\ root' \in [Roots -> [lock : SUBSET G, nwait : Int, queue : Seq([g : G, addr : Sems])]]
      /\ syncsema' \in Seq([g : G, nrelease : Int]) /\ sem' \in [Sems -> Nat]
      /\ \A a \in Sems : Queued(a)' = Queued(a) /\ sem[a] \in Nat
  BY <1>1 DEF SyncTypes, Queued
<1>4. PICK s : s = Back(r)
  OBVIOUS
<1>5. /\ Wf(s) /\ Quiet(s)
      /\ \A x \in {"wgm", "om"} : Owns(s, x) => Owns(r, x)
  BY <1>1, <1>4, ReleasingBack
<1>6. gr' = [gr EXCEPT ![g] = s]
  BY <1>0, <1>4 DEF Return
<1>7. /\ gr' \in [G -> Gr] /\ gr'[g] = s /\ \A h \in G : h # g => gr'[h] = gr[h]
      /\ PlaceInv' /\ OwnInv' /\ PairInv' /\ \A h \in G : Looking(h) => Looking(h)'
  BY <1>0, <1>1, <1>5, <1>6, SemaFrame
<1>8. ASSUME NEW x \in Mutexes
      PROVE  /\ ReleasesOne(s, x) = ReleasesOne(r, x) /\ AwakeFor(s, x) = AwakeFor(r, x)
             /\ SleepsOn(s, x) = SleepsOn(r, x)
  <2>1. /\ ~ReleasesOne(s, x) /\ ~AwakeFor(s, x) /\ ~SleepsOn(s, x)
        /\ ~ReleasesOne(r, x) /\ ~AwakeFor(r, x) /\ ~SleepsOn(r, x)
    BY <1>1, <1>5, PlacesCount
  <2> QED BY <2>1 DEF ReleasesOne, AwakeFor, SleepsOn
<1>9. OneWakeup'
  BY <1>0, <1>3, <1>7, <1>8, AccountsKept
<1>10. ASSUME NEW a \in Sems, Queued(a)' # {}
       PROVE  Queued(a) # {} /\ sem'[a] + Bit(TriesOn(r, a)) <= sem[a] + Bit(TriesOn(s, a))
  <2>1. a # r.sa /\ Queued(a) # {}
    BY <1>0, <1>3, <1>10
  <2>2. ~TriesOn(r, a) /\ ~TriesOn(s, a)
    BY <1>1, <1>5, <2>1, PlacesCount
  <2> QED BY <1>3, <2>1, <2>2 DEF Bit
<1>11. SemaNoLostWakeup'
  BY <1>0, <1>3, <1>7, <1>10, WakeupsKept
<1>12. (\A q \in Roots : RootsOf(q)') /\ NwaitCounts'
  <2>1. s.pc # "sretry" /\ r.pc \notin {"sretry", "sparked"}
    BY <1>1, <1>5 DEF Quiet, Waking
  <2> QED BY <1>0, <1>7, <2>1, RootsStay
<1> QED BY <1>3, <1>7, <1>9, <1>11, <1>12 DEF SemaGoal, SemaSafe

LEMMA SemLookSafe ==
    ASSUME SyncIInv, NEW g \in G, SemLook(g), mutex' = mutex
    PROVE  SemaGoal
<1>0. PICK r : r = gr[g]
  OBVIOUS
<1>1. SyncTypes /\ Wf(r) /\ r.pc = "slook" /\ r.pc \in Releasing /\ UNCHANGED <<sem, root, syncsema>>
  BY <1>0 DEF SyncIInv, PlaceInv, SemLook, At, Releasing, semavars
<1>2. r.sa \in Sems /\ RootOf[r.sa] \in Roots
  BY <1>1, ReleasingFacts, RootAssumption
<1>3. CASE RootFor(g).nwait = 0
  <2>1. Len(root[RootOf[r.sa]].queue) = 0
    BY <1>0, <1>2, <1>3, NobodyWaits DEF RootFor
  <2>2. Queued(r.sa) = {}
    <3>1. root[RootOf[r.sa]].queue \in Seq([g : G, addr : Sems])
      BY <1>1, <1>2 DEF SyncTypes
    <3>2. DOMAIN root[RootOf[r.sa]].queue = {}
      BY <2>1, <3>1
    <3> QED BY <3>2 DEF Queued
  <2>3. gr' = Return(g)
    BY <1>3 DEF SemLook
  <2> QED BY <1>0, <1>1, <2>2, <2>3, ReleaseReturns
<1>4. CASE RootFor(g).nwait # 0
  <2>1. PICK s : s = [r EXCEPT !.pc = "sdeq"]
    OBVIOUS
  <2>2. /\ Wf(s) /\ s.pc = "sdeq" /\ s.sa = r.sa
        /\ \A x \in {"wgm", "om"} : Owns(s, x) => Owns(r, x)
    BY <1>1, <2>1, ReleasingOn DEF Releasing
  <2>3. gr' = [gr EXCEPT ![g] = s]
    BY <1>0, <1>1, <1>4, <2>1 DEF SemLook, Goto, SyncTypes
  <2>4. /\ gr' \in [G -> Gr] /\ gr'[g] = s /\ \A h \in G : h # g => gr'[h] = gr[h]
        /\ PlaceInv' /\ OwnInv' /\ PairInv' /\ \A h \in G : Looking(h) => Looking(h)'
    BY <1>0, <1>1, <2>2, <2>3, SemaFrame
  <2>5. /\ root' \in [Roots -> [lock : SUBSET G, nwait : Int, queue : Seq([g : G, addr : Sems])]]
        /\ syncsema' \in Seq([g : G, nrelease : Int]) /\ sem' \in [Sems -> Nat]
        /\ \A a \in Sems : Queued(a)' = Queued(a) /\ sem[a] \in Nat
    BY <1>1 DEF SyncTypes, Queued
  <2>6. ASSUME NEW x
        PROVE  /\ ReleasesOne(s, x) = ReleasesOne(r, x) /\ AwakeFor(s, x) = AwakeFor(r, x)
               /\ SleepsOn(s, x) = SleepsOn(r, x) /\ TriesOn(s, x) = TriesOn(r, x)
    BY <1>1, <2>2 DEF ReleasesOne, AwakeFor, SleepsOn, TriesOn, Waking, Trying
  <2>7. OneWakeup'
    BY <1>0, <1>1, <2>4, <2>5, <2>6, AccountsKept
  <2>8. ASSUME NEW a \in Sems, Queued(a)' # {}
        PROVE  Queued(a) # {} /\ sem'[a] + Bit(TriesOn(r, a)) <= sem[a] + Bit(TriesOn(s, a))
    BY <1>1, <2>5, <2>6, <2>8 DEF Bit
  <2>9. SemaNoLostWakeup'
    BY <1>0, <2>4, <2>5, <2>8, WakeupsKept
  <2>10. (\A q \in Roots : RootsOf(q)') /\ NwaitCounts'
    BY <1>0, <1>1, <2>2, <2>4, RootsStay
  <2> QED BY <2>4, <2>5, <2>7, <2>9, <2>10 DEF SemaGoal, SemaSafe
<1> QED BY <1>3, <1>4

QueueType == Seq([g : G, addr : Sems])
RootType == [lock : SUBSET G, nwait : Int, queue : Seq([g : G, addr : Sems])]

LEMMA RootFacts ==
    ASSUME SyncIInv, NEW q \in Roots
    PROVE  /\ root[q] \in RootType /\ root[q].lock \subseteq G /\ root[q].nwait \in Int
           /\ root[q].queue \in Seq([g : G, addr : Sems]) /\ RootsOf(q)
           /\ root[q].nwait = Len(root[q].queue) + Cardinality(root[q].lock)
           /\ Len(root[q].queue) \in Nat
<1>1. root[q] \in RootType /\ RootsOf(q)
  BY DEF SyncIInv, SyncTypes, RootType
<1>2. root[q].lock \subseteq G /\ root[q].nwait \in Int /\ root[q].queue \in Seq([g : G, addr : Sems])
  BY <1>1 DEF RootType
<1>3. root[q].nwait = Len(root[q].queue) + Cardinality(root[q].lock)
  BY DEF SyncIInv, SemaSafe, NwaitCounts
<1> QED BY <1>1, <1>2, <1>3

(* A root with another Lock, nwait and queue.                              *)
SetRoot(o, l, n, u) == [o EXCEPT !.lock = l, !.nwait = n, !.queue = u]

LEMMA SetRootFacts ==
    ASSUME NEW o, NEW l, NEW n, NEW u, o \in RootType, l \subseteq G, n \in Int, u \in QueueType
    PROVE  /\ SetRoot(o, l, n, u) \in RootType /\ SetRoot(o, l, n, u).lock = l
           /\ SetRoot(o, l, n, u).nwait = n /\ SetRoot(o, l, n, u).queue = u
<1> DEFINE S == Seq([g : G, addr : Sems])
<1>1. u \in S /\ o \in [lock : SUBSET G, nwait : Int, queue : S]
  BY DEF RootType, QueueType
<1> HIDE DEF S
<1>2. [o EXCEPT !.lock = l, !.nwait = n, !.queue = u] \in [lock : SUBSET G, nwait : Int, queue : S]
  BY <1>1
<1>3. /\ [o EXCEPT !.lock = l, !.nwait = n, !.queue = u].lock = l
      /\ [o EXCEPT !.lock = l, !.nwait = n, !.queue = u].nwait = n
      /\ [o EXCEPT !.lock = l, !.nwait = n, !.queue = u].queue = u
  BY <1>1
<1> QED BY <1>2, <1>3 DEF SetRoot, RootType, S

(* Updates of one or two of the fields.                                    *)
LEMMA SetRootParts ==
    ASSUME NEW o \in RootType, NEW l, NEW n, NEW u
    PROVE  /\ [o EXCEPT !.lock = l, !.nwait = n] = SetRoot(o, l, n, o.queue)
           /\ [o EXCEPT !.lock = l, !.queue = u] = SetRoot(o, l, o.nwait, u)
           /\ [o EXCEPT !.nwait = n, !.queue = u] = SetRoot(o, o.lock, n, u)
<1> DEFINE S == Seq([g : G, addr : Sems])
<1>1. o \in [lock : SUBSET G, nwait : Int, queue : S]
  BY DEF RootType
<1> HIDE DEF S
<1> QED BY <1>1 DEF SetRoot

(* Who is queued, and stays so if it does not move.                        *)
LEMMA QueuedStay ==
    ASSUME SyncIInv, NEW q \in Roots, NEW i \in 1 .. Len(root[q].queue), NEW e, e = root[q].queue[i]
    PROVE  e \in [g : G, addr : Sems] /\ e.g \in G /\ e.addr \in Sems
           /\ gr[e.g].pc = "sparked" /\ gr[e.g].sa = e.addr /\ RootOf[e.addr] = q
<1>1. root[q].queue \in Seq([g : G, addr : Sems]) /\ RootsOf(q)
  BY RootFacts
<1>2. e \in [g : G, addr : Sems]
  BY <1>1, ElementOfSeq
<1>3. gr[e.g].pc = "sparked" /\ gr[e.g].sa = e.addr /\ RootOf[e.addr] = q
  BY <1>1 DEF RootsOf, At
<1> QED BY <1>2, <1>3

(* One root changes, with a goroutine that uses it.                        *)
LEMMA RootChanges ==
    ASSUME SyncIInv, NEW g \in G, \A h \in G : h # g => gr'[h] = gr[h],
           NEW q \in Roots, NEW v \in RootType, root' = [root EXCEPT ![q] = v],
           gr[g].pc # "sparked", gr[g].pc = "sretry" => RootOf[gr[g].sa] = q,
           gr'[g].pc = "sretry" => RootOf[gr'[g].sa] = q,
           RootsOf(q)', v.nwait = Len(v.queue) + Cardinality(v.lock)
    PROVE  /\ \A r \in Roots : RootsOf(r)'
           /\ NwaitCounts'
           /\ root' \in [Roots -> [lock : SUBSET G, nwait : Int, queue : Seq([g : G, addr : Sems])]]
           /\ root'[q] = v /\ \A r \in Roots : r # q => root'[r] = root[r]
<1>0. root \in [Roots -> RootType]
  BY DEF SyncIInv, SyncTypes, RootType
<1>1. root' \in [Roots -> RootType] /\ root'[q] = v /\ \A r \in Roots : r # q => root'[r] = root[r]
  BY <1>0
<1>2. ASSUME NEW r \in Roots, r # q PROVE RootsOf(r)'
  <2>1. RootsOf(r) /\ root'[r] = root[r]
    BY <1>1, <1>2, RootFacts
  <2>2. ASSUME NEW h \in G PROVE h \in root[r].lock <=> gr'[h].pc = "sretry" /\ RootOf[gr'[h].sa] = r
    <3>1. CASE h = g
      BY <1>2, <2>1, <3>1 DEF RootsOf, At
    <3>2. CASE h # g
      BY <2>1, <3>2 DEF RootsOf, At
    <3> QED BY <3>1, <3>2
  <2>3. ASSUME NEW i \in 1 .. Len(root[r].queue)
        PROVE  LET e == root[r].queue[i] IN
               gr'[e.g].pc = "sparked" /\ gr'[e.g].sa = e.addr /\ RootOf[e.addr] = r
    <3>1. PICK e : e = root[r].queue[i]
      OBVIOUS
    <3>2. e.g \in G /\ gr[e.g].pc = "sparked" /\ gr[e.g].sa = e.addr /\ RootOf[e.addr] = r
      BY <3>1, QueuedStay
    <3>3. gr'[e.g] = gr[e.g]
      BY <3>2
    <3> QED BY <3>1, <3>2, <3>3
  <2> QED BY <2>1, <2>2, <2>3 DEF RootsOf, At
<1>3. NwaitCounts'
  <2>1. ASSUME NEW r \in Roots PROVE root'[r].nwait = Len(root'[r].queue) + Cardinality(root'[r].lock)
    <3>1. CASE r = q
      BY <1>1, <3>1
    <3>2. CASE r # q
      <4>1. root'[r] = root[r]
        BY <1>1, <3>2
      <4>2. root[r].nwait = Len(root[r].queue) + Cardinality(root[r].lock)
        BY RootFacts
      <4> QED BY <4>1, <4>2
    <3> QED BY <3>1, <3>2
  <2> QED BY <2>1 DEF NwaitCounts
<1> QED BY <1>1, <1>2, <1>3 DEF RootType

(* Who queues stays where it is when the queue of q does.                  *)
LEMMA QueueStays ==
    ASSUME SyncIInv, NEW g \in G, \A h \in G : h # g => gr'[h] = gr[h],
           NEW q \in Roots, root'[q].queue = root[q].queue, gr[g].pc # "sparked"
    PROVE  /\ \A i \in 1 .. Len(root'[q].queue) :
                LET e == root'[q].queue[i] IN
                gr'[e.g].pc = "sparked" /\ gr'[e.g].sa = e.addr /\ RootOf[e.addr] = q
           /\ \A i, j \in 1 .. Len(root'[q].queue) : i # j => root'[q].queue[i].g # root'[q].queue[j].g
<1>1. ASSUME NEW i \in 1 .. Len(root[q].queue)
      PROVE  LET e == root[q].queue[i] IN
             gr'[e.g].pc = "sparked" /\ gr'[e.g].sa = e.addr /\ RootOf[e.addr] = q
  <2>1. PICK e : e = root[q].queue[i]
    OBVIOUS
  <2>2. e.g \in G /\ gr[e.g].pc = "sparked" /\ gr[e.g].sa = e.addr /\ RootOf[e.addr] = q
    BY <2>1, QueuedStay
  <2>3. gr'[e.g] = gr[e.g]
    BY <2>2
  <2> QED BY <2>1, <2>2, <2>3
<1>2. \A i, j \in 1 .. Len(root[q].queue) : i # j => root[q].queue[i].g # root[q].queue[j].g
  BY RootFacts DEF RootsOf
<1> QED BY <1>1, <1>2

(* Queued, on one root and on the others.                                  *)
LEMMA QueuedSame ==
    ASSUME NEW a \in Sems, root'[RootOf[a]].queue = root[RootOf[a]].queue
    PROVE  Queued(a)' = Queued(a)
BY DEF Queued

LEMMA SemAnnounceSafe ==
    ASSUME SyncIInv, NEW g \in G, SemAnnounce(g), mutex' = mutex
    PROVE  SemaGoal
<1>0. PICK r : r = gr[g]
  OBVIOUS
<1>1. SyncTypes /\ Wf(r) /\ r.pc = "slock" /\ r.pc \in Waking /\ UNCHANGED <<sem, syncsema>>
  BY <1>0 DEF SyncIInv, PlaceInv, SemAnnounce, At, Waking
<1>2. r.sa \in Sems /\ RootOf[r.sa] \in Roots
  BY <1>1, WakingFacts, RootAssumption
<1>3. PICK q \in Roots : q = RootOf[r.sa]
  BY <1>2
<1>4. /\ root[q] \in RootType /\ root[q].nwait \in Int
      /\ root[q].queue \in Seq([g : G, addr : Sems]) /\ RootsOf(q)
      /\ root[q].nwait = Len(root[q].queue) + Cardinality(root[q].lock)
      /\ Len(root[q].queue) \in Nat
  BY RootFacts
<1>o. PICK o \in RootType : o = root[q]
  BY <1>4
<1>l. PICK l : l = {g} /\ l \subseteq G
  OBVIOUS
<1>n. PICK n \in Int : n = root[q].nwait + 1
  BY <1>4
<1>u. PICK u : u = root[q].queue /\ u \in QueueType
  BY <1>4 DEF QueueType
<1>v. PICK v : v = SetRoot(o, l, n, u)
  OBVIOUS
<1>6. /\ v \in RootType /\ v.lock = {g} /\ v.nwait = root[q].nwait + 1 /\ v.queue = root[q].queue
      /\ v = [root[q] EXCEPT !.lock = {g}, !.nwait = root[q].nwait + 1]
  <2>1. /\ SetRoot(o, l, n, u) \in RootType /\ SetRoot(o, l, n, u).lock = l
        /\ SetRoot(o, l, n, u).nwait = n /\ SetRoot(o, l, n, u).queue = u
    BY <1>l, <1>u, SetRootFacts
  <2>2. [o EXCEPT !.lock = l, !.nwait = n] = SetRoot(o, l, n, o.queue)
    BY SetRootParts, Zenon
  <2> QED BY <1>o, <1>l, <1>n, <1>u, <1>v, <2>1, <2>2
<1>7. root[q].lock = {} /\ root' = [root EXCEPT ![q] = v]
  BY <1>0, <1>1, <1>3, <1>6 DEF SemAnnounce, RootFor, SyncTypes
<1>8. root'[q] = v /\ v.nwait = Len(v.queue) + Cardinality(v.lock)
  <2>1. Cardinality(root[q].lock) = 0 /\ Cardinality({g}) = 1
    BY <1>7, FS_EmptySet, FS_Singleton
  <2>2. root'[q] = v
    BY <1>1, <1>7 DEF SyncTypes
  <2>3. root[q].nwait = Len(root[q].queue)
    BY <1>4, <2>1
  <2>4. Len(v.queue) = Len(root[q].queue) /\ Cardinality(v.lock) = 1
    BY <1>6, <2>1
  <2> QED BY <1>4, <1>6, <2>2, <2>3, <2>4
<1>9. PICK s : s = [r EXCEPT !.pc = "sretry"]
  OBVIOUS
<1>10. /\ Wf(s) /\ s.pc = "sretry" /\ s.sa = r.sa
       /\ \A x \in {"wgm", "om"} : ~Owns(s, x)
  BY <1>1, <1>9, WakingOn DEF Waking
<1>11. gr' = [gr EXCEPT ![g] = s]
  BY <1>0, <1>1, <1>9 DEF SemAnnounce, Goto, SyncTypes
<1>12. /\ gr' \in [G -> Gr] /\ gr'[g] = s /\ \A h \in G : h # g => gr'[h] = gr[h]
       /\ PlaceInv' /\ OwnInv' /\ PairInv' /\ \A h \in G : Looking(h) => Looking(h)'
  BY <1>0, <1>1, <1>10, <1>11, SemaFrame
<1>13. RootsOf(q)'
  <2>1. ASSUME NEW h \in G PROVE h \in v.lock <=> gr'[h].pc = "sretry" /\ RootOf[gr'[h].sa] = q
    <3>1. CASE h = g
      BY <1>3, <1>6, <1>10, <1>12, <3>1
    <3>2. CASE h # g
      BY <1>4, <1>6, <1>7, <1>12, <3>2 DEF RootsOf, At
    <3> QED BY <3>1, <3>2
  <2>2. /\ \A i \in 1 .. Len(root'[q].queue) :
             LET e == root'[q].queue[i] IN
             gr'[e.g].pc = "sparked" /\ gr'[e.g].sa = e.addr /\ RootOf[e.addr] = q
        /\ \A i, j \in 1 .. Len(root'[q].queue) : i # j => root'[q].queue[i].g # root'[q].queue[j].g
    <3>1. root'[q].queue = root[q].queue /\ gr[g].pc # "sparked"
      BY <1>0, <1>1, <1>6, <1>8
    <3> QED BY <1>12, <3>1, QueueStays
  <2>3. \A h, i \in v.lock : h = i
    BY <1>6
  <2> QED BY <1>8, <2>1, <2>2, <2>3 DEF RootsOf, At
<1>14. /\ \A p \in Roots : RootsOf(p)'
       /\ NwaitCounts'
       /\ root' \in [Roots -> [lock : SUBSET G, nwait : Int, queue : Seq([g : G, addr : Sems])]]
       /\ root'[q] = v /\ \A p \in Roots : p # q => root'[p] = root[p]
  <2>1. v \in RootType /\ root' = [root EXCEPT ![q] = v] /\ v.nwait = Len(v.queue) + Cardinality(v.lock)
    BY <1>6, <1>7, <1>8
  <2>2. /\ gr[g].pc # "sparked" /\ (gr[g].pc = "sretry" => RootOf[gr[g].sa] = q)
        /\ (gr'[g].pc = "sretry" => RootOf[gr'[g].sa] = q)
    BY <1>0, <1>1, <1>3, <1>10, <1>12
  <2>3. \A h \in G : h # g => gr'[h] = gr[h]
    BY <1>12
  <2> QED BY <1>13, <2>1, <2>2, <2>3, RootChanges
<1>15. \A a \in Sems : Queued(a)' = Queued(a)
  <2>1. \A a \in Sems : RootOf[a] \in Roots
    BY RootAssumption
  <2> QED BY <1>6, <1>14, <2>1, QueuedSame
<1>16. sem' \in [Sems -> Nat] /\ syncsema' \in Seq([g : G, nrelease : Int])
  BY <1>1 DEF SyncTypes
<1>17. ASSUME NEW x
       PROVE  /\ ReleasesOne(s, x) = ReleasesOne(r, x) /\ AwakeFor(s, x) = AwakeFor(r, x)
              /\ SleepsOn(s, x) = SleepsOn(r, x) /\ TriesOn(s, x) = TriesOn(r, x)
  BY <1>1, <1>10 DEF ReleasesOne, AwakeFor, SleepsOn, TriesOn, Waking, Trying
<1>18. OneWakeup'
  BY <1>0, <1>1, <1>12, <1>16, <1>17, AccountsKept
<1>19. ASSUME NEW a \in Sems, Queued(a)' # {}
       PROVE  Queued(a) # {} /\ sem'[a] + Bit(TriesOn(r, a)) <= sem[a] + Bit(TriesOn(s, a))
  <2>1. sem[a] \in Nat
    BY <1>1 DEF SyncTypes
  <2> QED BY <1>1, <1>15, <1>17, <1>19, <2>1 DEF Bit
<1>20. SemaNoLostWakeup'
  BY <1>0, <1>12, <1>16, <1>19, WakeupsKept
<1> QED BY <1>12, <1>14, <1>16, <1>18, <1>20 DEF SemaGoal, SemaSafe

LEMMA RootSet ==
    ASSUME SyncIInv, NEW q \in Roots, NEW l, NEW n, NEW u, l \subseteq G, n \in Int, u \in QueueType,
           NEW v, v = SetRoot(root[q], l, n, u)
    PROVE  v \in RootType /\ v.lock = l /\ v.nwait = n /\ v.queue = u
<1>1. PICK o : o = root[q] /\ o \in RootType
  BY RootFacts
<1>2. /\ SetRoot(o, l, n, u) \in RootType /\ SetRoot(o, l, n, u).lock = l
      /\ SetRoot(o, l, n, u).nwait = n /\ SetRoot(o, l, n, u).queue = u
  BY <1>1, SetRootFacts
<1> QED BY <1>1, <1>2

LEMMA SetLockQueue ==
    ASSUME SyncIInv, NEW q \in Roots, NEW l, NEW u
    PROVE  [root[q] EXCEPT !.lock = l, !.queue = u] = SetRoot(root[q], l, root[q].nwait, u)
<1>1. PICK o : o = root[q] /\ o \in RootType
  BY RootFacts
<1>2. [o EXCEPT !.lock = l, !.queue = u] = SetRoot(o, l, o.nwait, u)
  <2> DEFINE S == Seq([g : G, addr : Sems])
  <2>1. o \in [lock : SUBSET G, nwait : Int, queue : S]
    BY <1>1 DEF RootType
  <2> HIDE DEF S
  <2> QED BY <2>1 DEF SetRoot
<1> QED BY <1>1, <1>2

(* The Lock of the root a goroutine retries on is its own.                 *)
LEMMA HoldsRoot ==
    ASSUME SyncIInv, NEW g \in G, NEW q \in Roots, gr[g].pc = "sretry", RootOf[gr[g].sa] = q
    PROVE  root[q].lock = {g} /\ \A h \in G : h # g => ~(gr[h].pc = "sretry" /\ RootOf[gr[h].sa] = q)
<1>1. RootsOf(q) /\ root[q].lock \subseteq G
  BY RootFacts
<1>2. g \in root[q].lock
  BY <1>1 DEF RootsOf, At
<1>3. \A h \in root[q].lock : h = g
  BY <1>1, <1>2 DEF RootsOf
<1>4. root[q].lock = {g}
  BY <1>2, <1>3
<1>5. \A h \in G : h # g => h \notin root[q].lock
  BY <1>4
<1>6. \A h \in G : h \in root[q].lock <=> gr[h].pc = "sretry" /\ RootOf[gr[h].sa] = q
  BY <1>1 DEF RootsOf, At
<1> QED BY <1>4, <1>5, <1>6

(* The retry finds the semaphore positive.                                 *)
LEMMA SemParkTakes ==
    ASSUME SyncIInv, NEW g \in G, SemPark(g), mutex' = mutex, cansemacquire(g)
    PROVE  SemaGoal
<1>0. PICK r : r = gr[g]
  OBVIOUS
<1>1. SyncTypes /\ Wf(r) /\ r.pc = "sretry" /\ r.pc \in Waking /\ UNCHANGED syncsema
  BY <1>0 DEF SyncIInv, PlaceInv, SemPark, At, Waking
<1>2. r.sa \in Sems /\ RootOf[r.sa] \in Roots /\ Mutexes \subseteq Sems
  BY <1>1, WakingFacts, RootAssumption, OtherSems
<1>3. PICK q \in Roots : q = RootOf[r.sa]
  BY <1>2
<1>4. /\ root[q] \in RootType /\ root[q].nwait \in Int
      /\ root[q].queue \in QueueType /\ RootsOf(q)
      /\ root[q].nwait = Len(root[q].queue) + Cardinality(root[q].lock)
      /\ Len(root[q].queue) \in Nat
  BY RootFacts DEF QueueType
<1>5. root[q].lock = {g} /\ \A h \in G : h # g => ~(gr[h].pc = "sretry" /\ RootOf[gr[h].sa] = q)
  BY <1>0, <1>1, <1>3, HoldsRoot
<1>n. PICK n \in Int : n = root[q].nwait - 1
  BY <1>4
<1>u. PICK u : u = root[q].queue /\ u \in QueueType
  BY <1>4
<1>v. PICK v : v = SetRoot(root[q], {}, n, u)
  OBVIOUS
<1>6. v \in RootType /\ v.lock = {} /\ v.nwait = n /\ v.queue = u
  BY <1>u, <1>v, RootSet
<1>7. root' = [root EXCEPT ![q] = v]
  <2>1. [root[q] EXCEPT !.lock = {}, !.nwait = n] = SetRoot(root[q], {}, n, root[q].queue)
    BY <1>4, SetRootParts, Zenon
  <2>2. root' = [root EXCEPT ![q] = [root[q] EXCEPT !.lock = {}, !.nwait = n]]
    BY <1>0, <1>1, <1>3, <1>n DEF SemPark, SyncTypes
  <2> QED BY <1>u, <1>v, <2>1, <2>2
<1>8. root'[q] = v /\ v.nwait = Len(v.queue) + Cardinality(v.lock)
  <2>1. Cardinality(root[q].lock) = 1 /\ Cardinality(v.lock) = 0
    BY <1>5, <1>6, FS_EmptySet, FS_Singleton
  <2>2. root'[q] = v
    BY <1>1, <1>7 DEF SyncTypes
  <2>3. n = Len(root[q].queue)
    BY <1>4, <1>n, <2>1
  <2> QED BY <1>4, <1>6, <1>u, <2>1, <2>2, <2>3
<1>9. PICK s : s = Back(r)
  OBVIOUS
<1>10. /\ Wf(s) /\ s.pc \in {"next", "lread"} /\ s.sa = Nil
       /\ \A x \in Mutexes : AwakeFor(s, x) <=> r.sa = x
       /\ \A x \in {"wgm", "om"} : ~Owns(s, x)
  BY <1>1, <1>9, WakingBack
<1>11. /\ gr' = [gr EXCEPT ![g] = s] /\ sem' = [sem EXCEPT ![r.sa] = sem[r.sa] - 1]
       /\ sem[r.sa] > 0
  BY <1>0, <1>9 DEF SemPark, cansemacquire, Take, Return
<1>12. /\ gr' \in [G -> Gr] /\ gr'[g] = s /\ \A h \in G : h # g => gr'[h] = gr[h]
       /\ PlaceInv' /\ OwnInv' /\ PairInv' /\ \A h \in G : Looking(h) => Looking(h)'
  BY <1>0, <1>1, <1>10, <1>11, SemaFrame
<1>13. RootsOf(q)'
  <2>1. ASSUME NEW h \in G PROVE h \in v.lock <=> gr'[h].pc = "sretry" /\ RootOf[gr'[h].sa] = q
    <3>1. CASE h = g
      BY <1>6, <1>10, <1>12, <3>1
    <3>2. CASE h # g
      BY <1>5, <1>6, <1>12, <3>2
    <3> QED BY <3>1, <3>2
  <2>2. /\ \A i \in 1 .. Len(root'[q].queue) :
             LET e == root'[q].queue[i] IN
             gr'[e.g].pc = "sparked" /\ gr'[e.g].sa = e.addr /\ RootOf[e.addr] = q
        /\ \A i, j \in 1 .. Len(root'[q].queue) : i # j => root'[q].queue[i].g # root'[q].queue[j].g
    <3>1. root'[q].queue = root[q].queue /\ gr[g].pc # "sparked"
      BY <1>0, <1>1, <1>6, <1>8, <1>u
    <3> QED BY <1>12, <3>1, QueueStays
  <2>3. \A h, i \in v.lock : h = i
    BY <1>6
  <2> QED BY <1>8, <2>1, <2>2, <2>3 DEF RootsOf, At
<1>14. /\ \A o \in Roots : RootsOf(o)'
       /\ NwaitCounts'
       /\ root' \in [Roots -> [lock : SUBSET G, nwait : Int, queue : Seq([g : G, addr : Sems])]]
       /\ root'[q] = v /\ \A o \in Roots : o # q => root'[o] = root[o]
  <2>1. v \in RootType /\ root' = [root EXCEPT ![q] = v] /\ v.nwait = Len(v.queue) + Cardinality(v.lock)
    BY <1>6, <1>7, <1>8
  <2>2. /\ gr[g].pc # "sparked" /\ (gr[g].pc = "sretry" => RootOf[gr[g].sa] = q)
        /\ (gr'[g].pc = "sretry" => RootOf[gr'[g].sa] = q)
    BY <1>0, <1>1, <1>3, <1>10, <1>12
  <2>3. \A h \in G : h # g => gr'[h] = gr[h]
    BY <1>12
  <2> QED BY <1>13, <2>1, <2>2, <2>3, RootChanges
<1>15. \A a \in Sems : Queued(a)' = Queued(a)
  <2>1. \A a \in Sems : RootOf[a] \in Roots
    BY RootAssumption
  <2> QED BY <1>6, <1>14, <1>u, <2>1, QueuedSame
<1>16. /\ sem' \in [Sems -> Nat] /\ sem'[r.sa] = sem[r.sa] - 1
       /\ (\A b \in Sems : b # r.sa => sem'[b] = sem[b]) /\ \A b \in Sems : sem[b] \in Nat
  <2>0. \A b \in Sems : sem[b] \in Nat
    BY <1>1 DEF SyncTypes
  <2>1. PICK m \in Nat : m = sem[r.sa] - 1
    BY <1>2, <1>11, <2>0
  <2>2. sem' = [sem EXCEPT ![r.sa] = m]
    BY <1>11, <2>1
  <2> QED BY <1>1, <1>2, <2>0, <2>1, <2>2, SetSem
<1>17. ASSUME NEW x \in Mutexes
       PROVE  /\ Bit(ReleasesOne(s, x)) + sem'[x] + Bit(AwakeFor(s, x))
                   = Bit(ReleasesOne(r, x)) + sem[x] + Bit(AwakeFor(r, x))
              /\ Bit(SleepsOn(s, x)) - Bit(ReleasesOne(s, x)) - sem'[x]
                   = Bit(SleepsOn(r, x)) - Bit(ReleasesOne(r, x)) - sem[x]
  <2>1. /\ ~ReleasesOne(s, x) /\ ~SleepsOn(s, x) /\ ~ReleasesOne(r, x) /\ ~AwakeFor(r, x)
        /\ (AwakeFor(s, x) <=> r.sa = x) /\ (SleepsOn(r, x) <=> r.sa = x)
    BY <1>1, <1>10, PlacesCount
  <2>2. x \in Sems /\ sem[x] \in Nat
    BY <1>2, <1>16
  <2> QED BY <1>16, <2>1, <2>2 DEF Bit
<1>18. OneWakeup'
  BY <1>0, <1>12, <1>16, <1>17, AccountsKept
<1>19. ASSUME NEW a \in Sems, Queued(a)' # {}
       PROVE  Queued(a) # {} /\ sem'[a] + Bit(TriesOn(r, a)) <= sem[a] + Bit(TriesOn(s, a))
  <2>1. ~TriesOn(s, a) /\ (TriesOn(r, a) <=> r.sa = a)
    BY <1>1, <1>10, PlacesCount
  <2> QED BY <1>15, <1>16, <1>19, <2>1 DEF Bit
<1>20. SemaNoLostWakeup'
  BY <1>0, <1>12, <1>16, <1>19, WakeupsKept
<1>21. syncsema' \in Seq([g : G, nrelease : Int])
  BY <1>1 DEF SyncTypes
<1> QED BY <1>12, <1>14, <1>16, <1>18, <1>20, <1>21 DEF SemaGoal, SemaSafe

LEMMA Appended ==
    ASSUME NEW S, NEW u \in Seq(S), NEW e \in S
    PROVE  /\ Append(u, e) \in Seq(S) /\ Len(Append(u, e)) = Len(u) + 1 /\ Len(u) \in Nat
           /\ DOMAIN u = 1 .. Len(u) /\ DOMAIN Append(u, e) = 1 .. Len(u) + 1
           /\ Append(u, e)[Len(u) + 1] = e /\ \A i \in 1 .. Len(u) : Append(u, e)[i] = u[i]
OBVIOUS

(* The retry finds it zero: queue and park.                                *)
LEMMA SemParkSleeps ==
    ASSUME SyncIInv, NEW g \in G, SemPark(g), mutex' = mutex, ~(sem[gr[g].sa] > 0)
    PROVE  SemaGoal
<1>0. PICK r : r = gr[g]
  OBVIOUS
<1>1. SyncTypes /\ Wf(r) /\ r.pc = "sretry" /\ r.pc \in Waking /\ UNCHANGED <<sem, syncsema>>
  BY <1>0 DEF SyncIInv, PlaceInv, SemPark, At, Waking, cansemacquire
<1>2. r.sa \in Sems /\ RootOf[r.sa] \in Roots
  BY <1>1, WakingFacts, RootAssumption
<1>3. PICK q \in Roots : q = RootOf[r.sa]
  BY <1>2
<1>4. /\ root[q] \in RootType /\ root[q].nwait \in Int
      /\ root[q].queue \in QueueType /\ RootsOf(q)
      /\ root[q].nwait = Len(root[q].queue) + Cardinality(root[q].lock)
      /\ Len(root[q].queue) \in Nat
  BY RootFacts DEF QueueType
<1>5. root[q].lock = {g} /\ \A h \in G : h # g => ~(gr[h].pc = "sretry" /\ RootOf[gr[h].sa] = q)
  BY <1>0, <1>1, <1>3, HoldsRoot
<1>w. PICK w : w = root[q].queue /\ w \in QueueType
  BY <1>4
<1>d. PICK e : e = [g |-> g, addr |-> r.sa]
  OBVIOUS
<1>e. e \in [g : G, addr : Sems] /\ e = [g |-> g, addr |-> r.sa] /\ e.g = g /\ e.addr = r.sa
  BY <1>2, <1>d
<1>u. PICK u : u = Append(w, e)
  OBVIOUS
<1>a. /\ u \in Seq([g : G, addr : Sems]) /\ Len(u) = Len(w) + 1 /\ Len(w) \in Nat
      /\ DOMAIN w = 1 .. Len(w) /\ DOMAIN u = 1 .. Len(w) + 1
      /\ u[Len(w) + 1] = e /\ \A i \in 1 .. Len(w) : u[i] = w[i]
  <2> DEFINE S == [g : G, addr : Sems]
  <2>1. w \in Seq(S) /\ e \in S
    BY <1>e, <1>w DEF QueueType
  <2> HIDE DEF S
  <2>2. /\ Append(w, e) \in Seq(S) /\ Len(Append(w, e)) = Len(w) + 1 /\ Len(w) \in Nat
        /\ DOMAIN w = 1 .. Len(w) /\ DOMAIN Append(w, e) = 1 .. Len(w) + 1
        /\ Append(w, e)[Len(w) + 1] = e /\ \A i \in 1 .. Len(w) : Append(w, e)[i] = w[i]
    BY <2>1, Appended
  <2> QED BY <1>u, <2>2 DEF S
<1>n. PICK n : n = root[q].nwait /\ n \in Int
  BY <1>4
<1>l. PICK l : l = root[q].lock \ {g}
  OBVIOUS
<1>m. l = {} /\ l \subseteq G
  BY <1>5, <1>l
<1>v. PICK v : v = SetRoot(root[q], l, n, u)
  OBVIOUS
<1>6. v \in RootType /\ v.lock = {} /\ v.nwait = n /\ v.queue = u
  <2>1. u \in QueueType
    BY <1>a DEF QueueType
  <2>2. v \in RootType /\ v.lock = l /\ v.nwait = n /\ v.queue = u
    BY <1>m, <1>n, <1>v, <2>1, RootSet
  <2> QED BY <1>m, <2>2
<1>7. root' = [root EXCEPT ![q] = v]
  <2>1. [root[q] EXCEPT !.lock = l, !.queue = u] = SetRoot(root[q], l, root[q].nwait, u)
    BY SetLockQueue, Zenon
  <2>2. root' = [root EXCEPT ![q] = [root[q] EXCEPT !.lock = l, !.queue = u]]
    BY <1>0, <1>1, <1>3, <1>w, <1>e, <1>m, <1>u DEF SemPark, SyncTypes, cansemacquire
  <2> QED BY <1>n, <1>v, <2>1, <2>2
<1>8. root'[q] = v /\ v.nwait = Len(v.queue) + Cardinality(v.lock)
  <2>1. Cardinality(root[q].lock) = 1 /\ Cardinality(v.lock) = 0
    BY <1>5, <1>6, FS_EmptySet, FS_Singleton
  <2>2. root'[q] = v
    BY <1>1, <1>7 DEF SyncTypes
  <2>3. n = Len(w) + 1
    BY <1>4, <1>n, <1>w, <2>1
  <2>4. Len(v.queue) = Len(w) + 1
    BY <1>6, <1>a
  <2> QED BY <1>a, <1>6, <2>1, <2>2, <2>3, <2>4
<1>9. PICK s : s = [r EXCEPT !.pc = "sparked"]
  OBVIOUS
<1>10. /\ Wf(s) /\ s.pc = "sparked" /\ s.sa = r.sa
       /\ \A x \in {"wgm", "om"} : ~Owns(s, x)
  BY <1>1, <1>9, WakingOn DEF Waking
<1>11. gr' = [gr EXCEPT ![g] = s] /\ ~(sem[r.sa] > 0)
  BY <1>0, <1>1, <1>9 DEF SemPark, cansemacquire, Goto, SyncTypes
<1>12. /\ gr' \in [G -> Gr] /\ gr'[g] = s /\ \A h \in G : h # g => gr'[h] = gr[h]
       /\ PlaceInv' /\ OwnInv' /\ PairInv' /\ \A h \in G : Looking(h) => Looking(h)'
  BY <1>0, <1>1, <1>10, <1>11, SemaFrame
<1>q. ASSUME NEW i \in 1 .. Len(w)
      PROVE  /\ u[i].g \in G /\ u[i].g # g /\ gr'[u[i].g].pc = "sparked"
             /\ gr'[u[i].g].sa = u[i].addr /\ RootOf[u[i].addr] = q
  <2>1. PICK f : f = root[q].queue[i]
    OBVIOUS
  <2>2. f.g \in G /\ gr[f.g].pc = "sparked" /\ gr[f.g].sa = f.addr /\ RootOf[f.addr] = q
    BY <1>w, <2>1, QueuedStay
  <2>3. f.g # g /\ gr'[f.g] = gr[f.g]
    BY <1>0, <1>1, <1>12, <2>2
  <2>4. u[i] = f
    BY <1>a, <1>w, <2>1
  <2> QED BY <2>2, <2>3, <2>4
<1>13. RootsOf(q)'
  <2>1. ASSUME NEW h \in G PROVE h \in v.lock <=> gr'[h].pc = "sretry" /\ RootOf[gr'[h].sa] = q
    <3>1. CASE h = g
      BY <1>6, <1>10, <1>12, <3>1
    <3>2. CASE h # g
      BY <1>5, <1>6, <1>12, <3>2
    <3> QED BY <3>1, <3>2
  <2>2. ASSUME NEW i \in 1 .. Len(u)
        PROVE  gr'[u[i].g].pc = "sparked" /\ gr'[u[i].g].sa = u[i].addr /\ RootOf[u[i].addr] = q
    <3>1. CASE i \in 1 .. Len(w)
      BY <1>q, <3>1
    <3>2. CASE i = Len(w) + 1
      BY <1>3, <1>a, <1>e, <1>10, <1>12, <3>2
    <3> QED BY <1>a, <3>1, <3>2
  <2>3. ASSUME NEW i \in 1 .. Len(u), NEW j \in 1 .. Len(u), i # j PROVE u[i].g # u[j].g
    <3>1. CASE i \in 1 .. Len(w) /\ j \in 1 .. Len(w)
      <4>1. w[i].g # w[j].g
        BY <1>4, <1>w, <2>3, <3>1 DEF RootsOf
      <4> QED BY <1>a, <3>1, <4>1
    <3>2. CASE i = Len(w) + 1 /\ j \in 1 .. Len(w)
      BY <1>a, <1>e, <1>q, <3>2
    <3>3. CASE j = Len(w) + 1 /\ i \in 1 .. Len(w)
      BY <1>a, <1>e, <1>q, <3>3
    <3> QED BY <1>a, <2>3, <3>1, <3>2, <3>3
  <2>4. \A h, i \in v.lock : h = i
    BY <1>6
  <2>5. root'[q].queue = u /\ root'[q].lock = v.lock
    BY <1>6, <1>8
  <2> QED BY <2>1, <2>2, <2>3, <2>4, <2>5 DEF RootsOf, At
<1>14. /\ \A o \in Roots : RootsOf(o)'
       /\ NwaitCounts'
       /\ root' \in [Roots -> [lock : SUBSET G, nwait : Int, queue : Seq([g : G, addr : Sems])]]
       /\ root'[q] = v /\ \A o \in Roots : o # q => root'[o] = root[o]
  <2>1. v \in RootType /\ root' = [root EXCEPT ![q] = v] /\ v.nwait = Len(v.queue) + Cardinality(v.lock)
    BY <1>6, <1>7, <1>8
  <2>2. /\ gr[g].pc # "sparked" /\ (gr[g].pc = "sretry" => RootOf[gr[g].sa] = q)
        /\ (gr'[g].pc = "sretry" => RootOf[gr'[g].sa] = q)
    BY <1>0, <1>1, <1>3, <1>10, <1>12
  <2>3. \A h \in G : h # g => gr'[h] = gr[h]
    BY <1>12
  <2> QED BY <1>13, <2>1, <2>2, <2>3, RootChanges
<1>16. sem' \in [Sems -> Nat] /\ syncsema' \in Seq([g : G, nrelease : Int])
  BY <1>1 DEF SyncTypes
<1>17. ASSUME NEW x \in Mutexes
       PROVE  /\ ReleasesOne(s, x) = ReleasesOne(r, x) /\ AwakeFor(s, x) = AwakeFor(r, x)
              /\ SleepsOn(s, x) = SleepsOn(r, x)
  BY <1>1, <1>10 DEF ReleasesOne, AwakeFor, SleepsOn, Waking
<1>18. OneWakeup'
  BY <1>0, <1>1, <1>12, <1>16, <1>17, AccountsKept
<1>19. ASSUME NEW a \in Sems, Queued(a)' # {}
       PROVE  \/ sem'[a] = 0
              \/ Queued(a) # {} /\ sem'[a] + Bit(TriesOn(r, a)) <= sem[a] + Bit(TriesOn(s, a))
  <2>1. sem[a] \in Nat /\ RootOf[a] \in Roots
    BY <1>1, RootAssumption DEF SyncTypes
  <2>2. CASE a = r.sa
    BY <1>1, <1>11, <2>1, <2>2
  <2>3. CASE a # r.sa
    <3>1. ~TriesOn(r, a) /\ ~TriesOn(s, a)
      BY <1>1, <1>10, <2>3, PlacesCount
    <3>2. Queued(a) # {}
      <4>1. CASE RootOf[a] # q
        BY <1>14, <1>19, <2>1, <4>1, QueuedSame
      <4>2. CASE RootOf[a] = q
        <5>1. PICK i \in DOMAIN u : u[i].addr = a
          BY <1>6, <1>8, <1>19, <4>2 DEF Queued
        <5>2. i \in DOMAIN w /\ w[i].addr = a
          BY <1>a, <1>e, <2>3, <5>1
        <5> QED BY <1>w, <4>2, <5>2 DEF Queued
      <4> QED BY <4>1, <4>2
    <3> QED BY <1>1, <2>1, <3>1, <3>2 DEF Bit
  <2> QED BY <2>2, <2>3
<1>20. SemaNoLostWakeup'
  BY <1>0, <1>12, <1>16, <1>19, WakeupsKept
<1> QED BY <1>12, <1>14, <1>16, <1>18, <1>20 DEF SemaGoal, SemaSafe

LEMMA SemParkSafe ==
    ASSUME SyncIInv, NEW g \in G, SemPark(g), mutex' = mutex
    PROVE  SemaGoal
<1>1. CASE sem[gr[g].sa] > 0
  BY <1>1, SemParkTakes DEF cansemacquire
<1>2. CASE ~(sem[gr[g].sa] > 0)
  BY <1>2, SemParkSleeps
<1> QED BY <1>1, <1>2

(* Every non-empty set of naturals has a least element.                    *)
LEMMA LeastNat ==
    ASSUME NEW S, S \subseteq Nat, S # {}
    PROVE  Min(S) \in S /\ \A j \in S : Min(S) <= j
<1> DEFINE R == OpToRel(<, Nat)
<1>1. \E x \in S : \A y \in S : ~(<<y, x>> \in R)
  <2>1. IsWellFoundedOn(R, Nat)
    BY NatLessThanWellFounded
  <2> HIDE DEF R
  <2> QED BY <2>1, WFMin
<1>2. \A x, y \in Nat : ~(<<y, x>> \in R) => x <= y
  BY DEF OpToRel
<1>3. \E x \in S : \A y \in S : x <= y
  BY <1>1, <1>2
<1> QED BY <1>3 DEF Min

(* A queue without its i-th entry.                                         *)
LEMMA Removed ==
    ASSUME NEW S, NEW s \in Seq(S), NEW i \in 1 .. Len(s)
    PROVE  /\ RemoveAt(s, i) \in Seq(S) /\ Len(RemoveAt(s, i)) = Len(s) - 1 /\ Len(s) \in Nat
           /\ \A j \in 1 .. Len(s) - 1 : RemoveAt(s, i)[j] = s[IF j < i THEN j ELSE j + 1]
<1> DEFINE a == SubSeq(s, 1, i - 1)
           b == SubSeq(s, i + 1, Len(s))
<1>0. Len(s) \in Nat /\ i \in Int /\ 1 <= i /\ i <= Len(s) /\ \A j \in 1 .. Len(s) : s[j] \in S
  OBVIOUS
<1>1. a \in Seq(S) /\ Len(a) = i - 1 /\ \A j \in 1 .. i - 1 : a[j] = s[j]
  <2>1. 1 \in Int /\ i - 1 \in Int /\ \A j \in 1 .. i - 1 : s[j] \in S
    BY <1>0
  <2>2. /\ a \in Seq(S) /\ Len(a) = (IF 1 <= i - 1 THEN i - 1 - 1 + 1 ELSE 0)
        /\ \A j \in 1 .. i - 1 - 1 + 1 : a[j] = s[1 + j - 1]
    BY <2>1, SubSeqProperties
  <2> HIDE DEF a
  <2> QED BY <1>0, <2>2
<1>2. b \in Seq(S) /\ Len(b) = Len(s) - i /\ \A j \in 1 .. Len(s) - i : b[j] = s[i + j]
  <2>1. i + 1 \in Int /\ Len(s) \in Int /\ \A j \in i + 1 .. Len(s) : s[j] \in S
    BY <1>0
  <2>2. /\ b \in Seq(S) /\ Len(b) = (IF i + 1 <= Len(s) THEN Len(s) - (i + 1) + 1 ELSE 0)
        /\ \A j \in 1 .. Len(s) - (i + 1) + 1 : b[j] = s[i + 1 + j - 1]
    BY <2>1, SubSeqProperties
  <2> HIDE DEF b
  <2> QED BY <1>0, <2>2
<1>3. RemoveAt(s, i) = a \o b
  BY DEF RemoveAt
<1> HIDE DEF a, b
<1>4. /\ a \o b \in Seq(S) /\ Len(a \o b) = Len(a) + Len(b)
      /\ \A j \in 1 .. Len(a) + Len(b) : (a \o b)[j] = IF j <= Len(a) THEN a[j] ELSE b[j - Len(a)]
  BY <1>1, <1>2, ConcatProperties
<1>5. Len(a) + Len(b) = Len(s) - 1
  BY <1>0, <1>1, <1>2
<1>6. ASSUME NEW j \in 1 .. Len(s) - 1 PROVE (a \o b)[j] = s[IF j < i THEN j ELSE j + 1]
  <2>1. (a \o b)[j] = IF j <= i - 1 THEN a[j] ELSE b[j - (i - 1)]
    BY <1>1, <1>4, <1>5
  <2>2. CASE j < i
    BY <1>0, <1>1, <2>1, <2>2
  <2>3. CASE ~(j < i)
    <3>1. j - (i - 1) \in 1 .. Len(s) - i /\ i + (j - (i - 1)) = j + 1
      BY <1>0, <2>3
    <3>2. b[j - (i - 1)] = s[i + (j - (i - 1))]
      BY <1>2, <3>1
    <3> QED BY <1>0, <2>1, <2>3, <3>1, <3>2
  <2> QED BY <2>2, <2>3
<1> QED BY <1>0, <1>3, <1>4, <1>5, <1>6

(* What Semrelease changes when it wakes w, the i-th in the queue of q.    *)
Wakes(g, w, q, i) ==
    /\ gr[g].pc = "sdeq" /\ q = RootOf[gr[g].sa] /\ root[q].lock = {}
    /\ i \in 1 .. Len(root[q].queue)
    /\ w = root[q].queue[i].g /\ root[q].queue[i].addr = gr[g].sa
    /\ root' = [root EXCEPT ![q].nwait = @ - 1, ![q].queue = RemoveAt(@, i)]
    /\ gr' = [gr EXCEPT ![g] = Back(gr[g]), ![w] = [gr[w] EXCEPT !.pc = "sacq"]]

(* The queue of q without w, who takes the place of g on the way.          *)
LEMMA WakeFacts ==
    ASSUME SyncIInv, NEW g \in G, NEW q \in Roots, NEW i, NEW w, Wakes(g, w, q, i)
    PROVE  /\ w \in G /\ w # g /\ gr[w].pc = "sparked" /\ gr[w].sa = gr[g].sa
           /\ Wf(Back(gr[g])) /\ Quiet(Back(gr[g])) /\ Back(gr[g]).pc # "yparked"
           /\ \A x \in {"wgm", "om"} : Owns(Back(gr[g]), x) => Owns(gr[g], x)
           /\ gr' \in [G -> Gr] /\ gr'[g] = Back(gr[g])
           /\ Wf(gr'[w]) /\ gr'[w].pc = "sacq" /\ gr'[w].sa = gr[g].sa
           /\ \A x \in {"wgm", "om"} : ~Owns(gr'[w], x)
           /\ \A h \in G : h # g /\ h # w => gr'[h] = gr[h]
<1>0. SyncTypes /\ Wf(gr[g]) /\ gr[g].pc = "sdeq" /\ gr[g].pc \in Releasing
  BY DEF SyncIInv, PlaceInv, Wakes, Releasing
<1>1. PICK e : e = root[q].queue[i]
  OBVIOUS
<1>2. e.g = w /\ e.addr = gr[g].sa /\ i \in 1 .. Len(root[q].queue)
  BY <1>1 DEF Wakes
<1>3. e.g \in G /\ gr[e.g].pc = "sparked" /\ gr[e.g].sa = e.addr
  BY <1>1, <1>2, QueuedStay
<1>4. w \in G /\ gr[w].pc = "sparked" /\ gr[w].sa = gr[g].sa /\ w # g
  BY <1>0, <1>2, <1>3
<1>5. PICK s : s = Back(gr[g])
  OBVIOUS
<1>6. Wf(s) /\ Quiet(s) /\ s.pc # "yparked" /\ \A x \in {"wgm", "om"} : Owns(s, x) => Owns(gr[g], x)
  BY <1>0, <1>5, ReleasingBack
<1>7. PICK t : t = [gr[w] EXCEPT !.pc = "sacq"]
  OBVIOUS
<1>8. Wf(t) /\ t.pc = "sacq" /\ t.sa = gr[w].sa /\ \A x \in {"wgm", "om"} : ~Owns(t, x)
  <2>1. Wf(gr[w]) /\ gr[w].pc \in Waking /\ "sacq" \in Waking
    BY <1>4 DEF SyncIInv, PlaceInv, Waking
  <2> QED BY <1>7, <2>1, WakingOn
<1>9. gr' = [gr EXCEPT ![g] = s, ![w] = t]
  BY <1>5, <1>7 DEF Wakes
<1>10. s \in Gr /\ t \in Gr
  BY <1>6, <1>8 DEF Wf
<1>11. gr' \in [G -> Gr] /\ gr'[g] = s /\ gr'[w] = t /\ \A h \in G : h # g /\ h # w => gr'[h] = gr[h]
  BY <1>0, <1>4, <1>9, <1>10 DEF SyncTypes
<1> QED BY <1>4, <1>5, <1>6, <1>8, <1>11

(* The rest of the state.                                                  *)
LEMMA WakeFrame ==
    ASSUME SyncIInv, NEW g \in G, NEW q \in Roots, NEW i, NEW w, Wakes(g, w, q, i),
           UNCHANGED <<sem, syncsema, mutex>>
    PROVE  /\ PlaceInv' /\ OwnInv' /\ PairInv' /\ \A h \in G : Looking(h) => Looking(h)'
           /\ OneWakeup'
<1>a. gr[g].pc = "sdeq"
  BY Zenon DEF Wakes
<1>1. /\ w \in G /\ w # g /\ gr[w].pc = "sparked" /\ gr[w].sa = gr[g].sa
      /\ \A h \in G : h # g /\ h # w => gr'[h] = gr[h]
      /\ gr[g].pc = "sdeq"
  BY <1>a, WakeFacts
<1>2. PICK s, t : s = gr'[g] /\ t = gr'[w]
  OBVIOUS
<1>3. /\ Wf(s) /\ Quiet(s) /\ s.pc # "yparked" /\ \A x \in {"wgm", "om"} : Owns(s, x) => Owns(gr[g], x)
      /\ Wf(t) /\ t.pc = "sacq" /\ t.sa = gr[g].sa /\ \A x \in {"wgm", "om"} : ~Owns(t, x)
  BY <1>2, WakeFacts
<1>4. PlaceInv'
  BY <1>1, <1>2, <1>3 DEF SyncIInv, PlaceInv
<1>5. OwnInv'
  <2>1. \A h \in G : \A x \in {"wgm", "om"} : Owns(gr'[h], x) => Owns(gr[h], x)
    BY <1>1, <1>2, <1>3
  <2> QED BY <2>1, OwnKept DEF SyncIInv
<1>6. PairInv'
  <2>1. \A h \in G : gr[h].pc = "yparked" => gr'[h].pc = "yparked"
    BY <1>1
  <2> QED BY <2>1, PairKept
<1>7. \A h \in G : Looking(h) => Looking(h)'
  BY <1>1 DEF Looking
<1>8. ASSUME NEW h \in G, NEW x \in Mutexes
      PROVE  /\ ReleasesOne(gr'[h], x) <=> ReleasesOne(gr[h], x)
             /\ SleepsOn(gr'[h], x) <=> SleepsOn(gr[h], x)
             /\ AwakeFor(gr'[h], x) <=> AwakeFor(gr[h], x)
  <2>1. CASE h = g
    <3>1. ~ReleasesOne(gr[g], x) /\ ~AwakeFor(gr[g], x) /\ ~SleepsOn(gr[g], x)
      BY <1>1, PlacesCount
    <3>2. ~ReleasesOne(s, x) /\ ~AwakeFor(s, x) /\ ~SleepsOn(s, x)
      BY <1>3, PlacesCount
    <3> QED BY <1>2, <2>1, <3>1, <3>2
  <2>2. CASE h = w
    <3>1. ~ReleasesOne(gr[w], x) /\ ~AwakeFor(gr[w], x) /\ (SleepsOn(gr[w], x) <=> gr[w].sa = x)
      BY <1>1, PlacesCount
    <3>2. ~ReleasesOne(t, x) /\ ~AwakeFor(t, x) /\ (SleepsOn(t, x) <=> t.sa = x)
      BY <1>3, PlacesCount
    <3> QED BY <1>1, <1>2, <1>3, <2>2, <3>1, <3>2
  <2>3. CASE h # g /\ h # w
    BY <1>1, <2>3
  <2> QED BY <2>1, <2>2, <2>3
<1>9. OneWakeup'
  <2>1. sem' = sem /\ \A x \in Mutexes : mutex'[x].woken = mutex[x].woken /\ mutex'[x].waiters = mutex[x].waiters
    OBVIOUS
  <2> QED BY <1>8, <2>1, AccountsSame
<1> QED BY <1>4, <1>5, <1>6, <1>7, <1>9

(* The root, and who queues there.                                         *)
LEMMA WakeRoot ==
    ASSUME SyncIInv, NEW g \in G, NEW q \in Roots, NEW i, NEW w, Wakes(g, w, q, i)
    PROVE  /\ root'[q] \in RootType /\ root'[q].lock = {} /\ root'[q].nwait = root[q].nwait - 1
           /\ Len(root'[q].queue) = Len(root[q].queue) - 1
           /\ \A j \in 1 .. Len(root[q].queue) - 1 :
                root'[q].queue[j] = root[q].queue[IF j < i THEN j ELSE j + 1]
           /\ root' \in [Roots -> RootType] /\ \A o \in Roots : o # q => root'[o] = root[o]
           /\ i \in 1 .. Len(root[q].queue)
<1>0. i \in 1 .. Len(root[q].queue) /\ root \in [Roots -> RootType] /\ root[q].lock = {}
  BY DEF Wakes, SyncIInv, SyncTypes, RootType
<1>1. /\ root[q] \in RootType /\ root[q].nwait \in Int /\ root[q].queue \in QueueType
      /\ Len(root[q].queue) \in Nat
  BY RootFacts DEF QueueType
<1>o. PICK o : o = root[q] /\ o \in RootType
  BY <1>1
<1>d. PICK d : d = root[q].queue /\ d \in QueueType
  BY <1>1
<1>2. PICK u : u = RemoveAt(d, i)
  OBVIOUS
<1>3. /\ u \in QueueType /\ Len(u) = Len(d) - 1
      /\ \A j \in 1 .. Len(d) - 1 : u[j] = d[IF j < i THEN j ELSE j + 1]
  <2> DEFINE S == [g : G, addr : Sems]
  <2>1. d \in Seq(S) /\ i \in 1 .. Len(d)
    BY <1>0, <1>d DEF QueueType
  <2> HIDE DEF S
  <2>2. /\ RemoveAt(d, i) \in Seq(S) /\ Len(RemoveAt(d, i)) = Len(d) - 1
        /\ \A j \in 1 .. Len(d) - 1 : RemoveAt(d, i)[j] = d[IF j < i THEN j ELSE j + 1]
    BY <2>1, Removed
  <2> QED BY <1>2, <2>2 DEF QueueType, S
<1>n. PICK n : n = root[q].nwait - 1 /\ n \in Int
  BY <1>1
<1>v. PICK v : v = SetRoot(o, o.lock, n, u)
  OBVIOUS
<1>4. v \in RootType /\ v.lock = o.lock /\ v.nwait = n /\ v.queue = u
  <2>1. o.lock \subseteq G
    BY <1>0, <1>o
  <2> QED BY <1>o, <1>n, <1>v, <1>3, <2>1, SetRootFacts
<1>5. root' = [root EXCEPT ![q] = v]
  <2>1. [o EXCEPT !.nwait = n, !.queue = u] = v
    <3> DEFINE S == Seq([g : G, addr : Sems])
    <3>1. o \in [lock : SUBSET G, nwait : Int, queue : S]
      BY <1>o DEF RootType
    <3> HIDE DEF S
    <3> QED BY <1>v, <3>1 DEF SetRoot
  <2>2. root' = [root EXCEPT ![q] = [root[q] EXCEPT !.nwait = n, !.queue = u]]
    BY <1>0, <1>d, <1>n, <1>2 DEF Wakes
  <2> QED BY <1>o, <2>1, <2>2
<1>6. root' \in [Roots -> RootType] /\ root'[q] = v /\ \A p \in Roots : p # q => root'[p] = root[p]
  BY <1>0, <1>4, <1>5
<1> QED BY <1>0, <1>o, <1>d, <1>n, <1>3, <1>4, <1>6

LEMMA WakeQueue ==
    ASSUME SyncIInv, NEW g \in G, NEW q \in Roots, NEW i, NEW w, Wakes(g, w, q, i)
    PROVE  (\A o \in Roots : RootsOf(o)') /\ NwaitCounts'
<1>1. /\ w \in G /\ w # g /\ gr[w].pc = "sparked" /\ gr[w].sa = gr[g].sa
      /\ \A h \in G : h # g /\ h # w => gr'[h] = gr[h]
      /\ gr[g].pc = "sdeq" /\ q = RootOf[gr[g].sa] /\ root[q].lock = {}
      /\ w = root[q].queue[i].g
  BY WakeFacts, ZenonT(60) DEF Wakes
<1>2. gr'[g].pc # "sretry" /\ gr'[w].pc # "sretry"
  <2>1. Quiet(gr'[g]) /\ gr'[w].pc = "sacq"
    BY WakeFacts
  <2> QED BY <2>1 DEF Quiet, Waking
<1>3. /\ root'[q].lock = {} /\ root'[q].nwait = root[q].nwait - 1
      /\ Len(root'[q].queue) = Len(root[q].queue) - 1
      /\ \A j \in 1 .. Len(root[q].queue) - 1 :
           root'[q].queue[j] = root[q].queue[IF j < i THEN j ELSE j + 1]
      /\ \A o \in Roots : o # q => root'[o] = root[o]
      /\ i \in 1 .. Len(root[q].queue)
  BY WakeRoot
<1>4. ASSUME NEW o \in Roots, NEW h \in G
      PROVE  h \in root'[o].lock <=> gr'[h].pc = "sretry" /\ RootOf[gr'[h].sa] = o
  <2>0. h \in root[o].lock <=> gr[h].pc = "sretry" /\ RootOf[gr[h].sa] = o
    BY RootFacts DEF RootsOf, At
  <2>1. root'[o].lock = root[o].lock
    BY <1>1, <1>3
  <2>2. CASE h = g \/ h = w
    BY <1>1, <1>2, <2>0, <2>1, <2>2
  <2>3. CASE h # g /\ h # w
    BY <1>1, <2>0, <2>1, <2>3
  <2> QED BY <2>2, <2>3
<1>5. ASSUME NEW o \in Roots, NEW k \in 1 .. Len(root[o].queue), o # q \/ k # i, NEW e, e = root[o].queue[k]
      PROVE  gr'[e.g].pc = "sparked" /\ gr'[e.g].sa = e.addr /\ RootOf[e.addr] = o
  <2>1. e.g \in G /\ gr[e.g].pc = "sparked" /\ gr[e.g].sa = e.addr /\ RootOf[e.addr] = o
    BY <1>5, QueuedStay
  <2>2. e.g # g
    BY <1>1, <2>1
  <2>3. e.g # w
    <3>1. CASE o # q
      BY <1>1, <2>1, <3>1
    <3>2. CASE o = q
      <4>1. \A j, l \in 1 .. Len(root[q].queue) : j # l => root[q].queue[j].g # root[q].queue[l].g
        BY RootFacts DEF RootsOf
      <4> QED BY <1>1, <1>3, <1>5, <3>2, <4>1
    <3> QED BY <3>1, <3>2
  <2>4. gr'[e.g] = gr[e.g]
    BY <1>1, <2>1, <2>2, <2>3
  <2> QED BY <2>1, <2>4
<1>6. ASSUME NEW o \in Roots, o # q PROVE RootsOf(o)'
  <2>1. root'[o] = root[o] /\ RootsOf(o)
    BY <1>3, <1>6, RootFacts
  <2>2. \A k \in 1 .. Len(root[o].queue) :
          LET e == root[o].queue[k] IN gr'[e.g].pc = "sparked" /\ gr'[e.g].sa = e.addr /\ RootOf[e.addr] = o
    BY <1>5, <1>6
  <2> QED BY <1>4, <2>1, <2>2 DEF RootsOf, At
<1>7. RootsOf(q)'
  <2>0. Len(root[q].queue) \in Nat
    BY RootFacts
  <2> DEFINE f(j) == IF j < i THEN j ELSE j + 1
  <2>1. ASSUME NEW j \in 1 .. Len(root[q].queue) - 1
        PROVE  f(j) \in 1 .. Len(root[q].queue) /\ f(j) # i /\ root'[q].queue[j] = root[q].queue[f(j)]
    BY <1>3, <2>0
  <2>2. \A j, k \in 1 .. Len(root[q].queue) - 1 : j # k => f(j) # f(k)
    BY <1>3, <2>0
  <2> HIDE DEF f
  <2>3. ASSUME NEW j \in 1 .. Len(root'[q].queue)
        PROVE  LET e == root'[q].queue[j] IN gr'[e.g].pc = "sparked" /\ gr'[e.g].sa = e.addr /\ RootOf[e.addr] = q
    <3>1. f(j) \in 1 .. Len(root[q].queue) /\ f(j) # i /\ root'[q].queue[j] = root[q].queue[f(j)]
      BY <1>3, <2>1
    <3>2. PICK e : e = root[q].queue[f(j)]
      OBVIOUS
    <3>3. gr'[e.g].pc = "sparked" /\ gr'[e.g].sa = e.addr /\ RootOf[e.addr] = q
      BY <1>5, <3>1, <3>2
    <3> QED BY <3>1, <3>2, <3>3
  <2>4. ASSUME NEW j \in 1 .. Len(root'[q].queue), NEW k \in 1 .. Len(root'[q].queue), j # k
        PROVE  root'[q].queue[j].g # root'[q].queue[k].g
    <3>1. /\ f(j) \in 1 .. Len(root[q].queue) /\ root'[q].queue[j] = root[q].queue[f(j)]
          /\ f(k) \in 1 .. Len(root[q].queue) /\ root'[q].queue[k] = root[q].queue[f(k)]
          /\ f(j) # f(k)
      BY <1>3, <2>1, <2>2, <2>4
    <3>2. \A m, n \in 1 .. Len(root[q].queue) : m # n => root[q].queue[m].g # root[q].queue[n].g
      BY RootFacts DEF RootsOf
    <3> QED BY <3>1, <3>2
  <2>5. \A h, k \in root'[q].lock : h = k
    BY <1>3
  <2> QED BY <1>4, <2>3, <2>4, <2>5 DEF RootsOf, At
<1>8. NwaitCounts'
  <2>1. ASSUME NEW o \in Roots PROVE root'[o].nwait = Len(root'[o].queue) + Cardinality(root'[o].lock)
    <3>0. root[o].nwait = Len(root[o].queue) + Cardinality(root[o].lock) /\ Len(root[o].queue) \in Nat
      BY RootFacts
    <3>1. CASE o # q
      <4>1. root'[o] = root[o]
        BY <1>3, <3>1
      <4> QED BY <3>0, <4>1
    <3>2. CASE o = q
      <4>1. Cardinality(root[q].lock) = 0 /\ Cardinality(root'[q].lock) = 0
        BY <1>1, <1>3, FS_EmptySet
      <4>2. PICK m \in Nat : m = Len(root[q].queue)
        BY <3>0, <3>2
      <4>3. root[q].nwait = m /\ root'[q].nwait = m - 1 /\ Len(root'[q].queue) = m - 1
        BY <1>3, <3>0, <3>2, <4>1, <4>2
      <4> QED BY <3>2, <4>1, <4>3
    <3> QED BY <3>1, <3>2
  <2> QED BY <2>1 DEF NwaitCounts
<1> QED BY <1>6, <1>7, <1>8

LEMMA SemWakeSafe ==
    ASSUME SyncIInv, NEW g \in G, SemWake(g), mutex' = mutex
    PROVE  SemaGoal
<1>0. SyncTypes /\ Wf(gr[g]) /\ gr[g].pc = "sdeq" /\ gr[g].pc \in Releasing /\ UNCHANGED <<sem, syncsema>>
  BY DEF SyncIInv, PlaceInv, SemWake, At, Releasing
<1>1. gr[g].sa \in Sems /\ RootOf[gr[g].sa] \in Roots
  BY <1>0, ReleasingFacts, RootAssumption
<1>2. PICK q \in Roots : q = RootOf[gr[g].sa]
  BY <1>1
<1>3. root[q].queue \in QueueType /\ Len(root[q].queue) \in Nat /\ DOMAIN root[q].queue = 1 .. Len(root[q].queue)
  <2>1. root[q].queue \in Seq([g : G, addr : Sems]) /\ Len(root[q].queue) \in Nat
    BY RootFacts
  <2> QED BY <2>1 DEF QueueType
<1>4. Queued(gr[g].sa) = WaiterAt(g)
  BY DEF Queued, WaiterAt, RootFor
<1>5. CASE RootFor(g).nwait = 0 \/ WaiterAt(g) = {}
  <2>1. Queued(gr[g].sa) = {}
    <3>1. CASE WaiterAt(g) = {}
      BY <1>4, <3>1
    <3>2. CASE RootFor(g).nwait = 0
      <4>1. Len(root[q].queue) = 0
        BY <1>2, <3>2, NobodyWaits DEF RootFor
      <4>2. DOMAIN root[q].queue = {}
        BY <1>3, <4>1
      <4> QED BY <1>2, <4>2 DEF Queued
    <3> QED BY <1>5, <3>1, <3>2
  <2>2. gr' = Return(g) /\ UNCHANGED root
    BY <1>5 DEF SemWake
  <2> QED BY <1>0, <2>1, <2>2, ReleaseReturns
<1>6. CASE ~(RootFor(g).nwait = 0 \/ WaiterAt(g) = {})
  <2>1. PICK i : i = Min(WaiterAt(g))
    OBVIOUS
  <2>2. i \in 1 .. Len(root[q].queue) /\ root[q].queue[i].addr = gr[g].sa
    <3>1. WaiterAt(g) \subseteq Nat /\ WaiterAt(g) # {}
      <4>1. WaiterAt(g) \subseteq DOMAIN root[q].queue
        BY <1>2 DEF WaiterAt, RootFor
      <4> QED BY <1>3, <1>6, <4>1
    <3>2. i \in WaiterAt(g)
      BY <2>1, <3>1, LeastNat
    <3> QED BY <1>2, <1>3, <3>2 DEF WaiterAt, RootFor
  <2>3. PICK w : w = root[q].queue[i].g
    OBVIOUS
  <2>4. w \in G /\ w # g
    <3>1. PICK e : e = root[q].queue[i]
      OBVIOUS
    <3>2. e.g \in G /\ gr[e.g].pc = "sparked"
      BY <2>2, <3>1, QueuedStay
    <3> QED BY <1>0, <2>3, <3>1, <3>2
  <2>5. Wakes(g, w, q, i)
    <3>1. root[q].lock = {} /\ root' = [root EXCEPT ![q].nwait = @ - 1, ![q].queue = RemoveAt(@, i)]
      BY <1>2, <1>6, <2>1 DEF SemWake, RootFor
    <3>2. gr' = [Return(g) EXCEPT ![w].pc = "sacq"]
      BY <1>2, <1>6, <2>1, <2>3 DEF SemWake, RootFor
    <3>3. gr' = [gr EXCEPT ![g] = Back(gr[g]), ![w] = [gr[w] EXCEPT !.pc = "sacq"]]
      <4>1. PICK s : s = Back(gr[g])
        OBVIOUS
      <4>2. Return(g) = [gr EXCEPT ![g] = s]
        BY <4>1 DEF Return
      <4>3. gr' = [gr EXCEPT ![g] = s, ![w] = [gr[w] EXCEPT !.pc = "sacq"]]
        BY <1>0, <2>4, <3>2, <4>2 DEF SyncTypes
      <4> QED BY <4>1, <4>3
    <3> QED BY <1>0, <1>2, <2>2, <2>3, <3>1, <3>3 DEF Wakes
  <2>6. /\ PlaceInv' /\ OwnInv' /\ PairInv' /\ \A h \in G : Looking(h) => Looking(h)'
        /\ OneWakeup'
    BY <1>0, <2>5, WakeFrame
  <2>7. (\A o \in Roots : RootsOf(o)') /\ NwaitCounts'
    BY <2>5, WakeQueue
  <2>8. /\ root' \in [Roots -> RootType]
        /\ Len(root'[q].queue) = Len(root[q].queue) - 1
        /\ \A j \in 1 .. Len(root[q].queue) - 1 :
             root'[q].queue[j] = root[q].queue[IF j < i THEN j ELSE j + 1]
        /\ \A o \in Roots : o # q => root'[o] = root[o]
    BY <2>5, WakeRoot
  <2>9. /\ gr' \in [G -> Gr] /\ gr[w].pc = "sparked" /\ gr'[w].pc = "sacq" /\ gr'[w].sa = gr[g].sa
        /\ Quiet(gr'[g]) /\ \A h \in G : h # g /\ h # w => gr'[h] = gr[h]
        /\ gr[w].sa = gr[g].sa
    BY <2>5, WakeFacts
  <2>10. ASSUME NEW a \in Sems, Queued(a)' # {} PROVE Queued(a) # {}
    <3>1. RootOf[a] \in Roots
      BY RootAssumption
    <3>2. CASE RootOf[a] # q
      BY <2>8, <2>10, <3>1, <3>2, QueuedSame
    <3>3. CASE RootOf[a] = q
      <4>1. root'[q] \in RootType
        BY <2>8
      <4>2. DOMAIN root'[q].queue = 1 .. Len(root'[q].queue)
        BY <4>1 DEF RootType
      <4>3. PICK j \in 1 .. Len(root[q].queue) - 1 : root'[q].queue[j].addr = a
        BY <2>8, <2>10, <3>3, <4>2 DEF Queued
      <4>4. PICK k : k = IF j < i THEN j ELSE j + 1
        OBVIOUS
      <4>5. k \in DOMAIN root[q].queue /\ root[q].queue[k].addr = a
        BY <1>3, <2>2, <2>8, <4>3, <4>4
      <4> QED BY <3>3, <4>5 DEF Queued
    <3> QED BY <3>2, <3>3
  <2>11. ASSUME NEW a \in Sems, Queued(a)' # {} PROVE sem'[a] <= Cardinality(OnTheWay(a)')
    <3> DEFINE S == OnTheWay(a)
               M == S \ {g}
               T == {h \in G : gr'[h].sa = a /\ gr'[h].pc \in Trying}
    <3>0. T = OnTheWay(a)' /\ S \subseteq G /\ T \subseteq G
      BY DEF OnTheWay, Trying
    <3>1. sem[a] <= Cardinality(S) /\ sem[a] \in Nat /\ sem'[a] = sem[a]
      BY <1>0, <2>10, <2>11 DEF SyncIInv, SemaSafe, SemaNoLostWakeup, SyncTypes
    <3>2. g \notin T /\ (g \in S <=> a = gr[g].sa)
      BY <1>0, <2>9 DEF OnTheWay, Quiet, Waking, Releasing, Trying
    <3>3. w \notin S /\ (w \in T <=> a = gr[g].sa)
      BY <2>4, <2>9 DEF OnTheWay, Trying
    <3>4. \A h \in G : h # g /\ h # w => (h \in S <=> h \in T)
      BY <2>9 DEF OnTheWay, Trying
    <3> HIDE DEF S, T
    <3>5. Cardinality(T) = Cardinality(S) /\ Cardinality(S) \in Nat
      <4>1. CASE a # gr[g].sa
        <5>1. S = T
          BY <3>0, <3>2, <3>3, <3>4, <4>1
        <5> QED BY <3>0, <5>1, CardSubset
      <4>2. CASE a = gr[g].sa
        <5>1. M \subseteq G /\ g \notin M /\ g \in S /\ \A h \in G : h # g => (h \in S <=> h \in M)
          BY <3>0, <3>2, <4>2
        <5>2. w \notin M /\ w \in T /\ \A h \in G : h # w => (h \in M <=> h \in T)
          BY <3>0, <3>2, <3>3, <3>4, <4>2
        <5> HIDE DEF M
        <5>3. Cardinality(M) = Cardinality(S) - 1 /\ Cardinality(S) \in Nat /\ Cardinality(M) \in Nat
          BY <3>0, <5>1, CardStep
        <5>4. Cardinality(T) = Cardinality(M) + 1
          BY <2>4, <3>0, <5>1, <5>2, CardStep
        <5> QED BY <5>3, <5>4
      <4> QED BY <4>1, <4>2
    <3> QED BY <3>0, <3>1, <3>5
  <2>12. SemaNoLostWakeup'
    BY <2>11 DEF SemaNoLostWakeup
  <2>13. sem' \in [Sems -> Nat] /\ syncsema' \in Seq([g : G, nrelease : Int])
    BY <1>0 DEF SyncTypes
  <2> QED BY <2>6, <2>7, <2>8, <2>9, <2>12, <2>13 DEF SemaGoal, SemaSafe, RootType
<1> QED BY <1>5, <1>6

(***************************************************************************)
(* The SyncSema: who parks there waits in Cond's Wait or in its Signal.    *)
(***************************************************************************)
LEMMA PairFacts ==
    ASSUME NEW r, Wf(r), r.pc \in Pairing
    PROVE  /\ r \in Gr /\ ~r.awoke /\ Quiet(r)
           /\ r.pc = "yacq" => r.k = Ret("crelock") /\ r.n = 0
           /\ r.pc = "yrel" => r.k = Top /\ r.n >= 1
           /\ r.pc = "yparked" => r.k \in {Top, Ret("crelock")} /\ r.n = 0
           /\ \A x \in {"wgm", "om"} : ~Owns(r, x)
<1>0. r.pc \notin {"wwait", "wrelease", "scas", "bcas", "addwake", "lread", "lcas", "next", "unborn"}
                   \cup Waking \cup Releasing
  BY DEF Pairing, Waking, Releasing
<1>1. /\ r \in Gr /\ (r.pc = "yacq" => r.k = Ret("crelock")) /\ (r.pc = "yrel" => r.k = Top /\ r.n >= 1)
      /\ (r.pc = "yparked" => r.k \in {Top, Ret("crelock")})
  BY DEF Wf, StackOf, Signals
<1>2. ~r.awoke
  BY <1>0 DEF Wf, LocalsOf
<1>3. {"crelock", "wrelease", "addwake"} \subseteq Place
  BY DEF Place, Body
<1>4. r.pc # "yrel" => ~GoesOnAt(r, "wrelease") /\ ~GoesOnAt(r, "addwake")
  BY <1>0, <1>1, <1>3, GoesOn DEF Pairing
<1>5. r.pc # "yrel" => r.n = 0
  BY <1>0, <1>4 DEF Wf, LocalsOf
<1>6. \A x \in {"wgm", "om"} : ~Owns(r, x)
  BY <1>0 DEF Owns, Pairing
<1> QED BY <1>0, <1>1, <1>2, <1>5, <1>6 DEF Quiet

(* Such a goroutine goes on.                                               *)
LEMMA PairBack ==
    ASSUME NEW r, r \in Gr, ~r.awoke, r.n = 0, r.k \in {Top, Ret("crelock")}, NEW s, s = Back(r)
    PROVE  Wf(s) /\ Quiet(s) /\ s.pc # "yparked" /\ \A x \in {"wgm", "om"} : ~Owns(s, x)
<1>1. CASE r.k = Top
  <2>1. Wf(s) /\ s.pc = "next" /\ s.awoke = r.awoke
    BY <1>1, WfNext
  <2> QED BY <2>1 DEF Quiet, Waking, Releasing, Owns
<1>2. CASE r.k = Ret("crelock")
  <2>0. PICK p \in Body \ {"scas", "bcas"} : p = "crelock"
    BY DEF Body
  <2>1. Wf(s) /\ s.pc = p /\ s.awoke = r.awoke
    BY <1>2, <2>0, WfReturn
  <2> QED BY <2>0, <2>1 DEF Quiet, Waking, Releasing, Owns
<1> QED BY <1>1, <1>2

(* Everybody stays, or goes from one quiet place to another.               *)
LEMMA PairKeeps ==
    ASSUME SyncIInv, UNCHANGED <<sem, root, mutex>>, gr' \in [G -> Gr],
           \A h \in G : \/ gr'[h] = gr[h]
                        \/ /\ gr[h].pc \in Pairing /\ Wf(gr'[h]) /\ Quiet(gr'[h])
                           /\ \A x \in {"wgm", "om"} : ~Owns(gr'[h], x)
    PROVE  /\ PlaceInv' /\ OwnInv' /\ (\A r \in Roots : RootsOf(r)') /\ SemaSafe' /\ OneWakeup'
           /\ \A h \in G : Looking(h) => Looking(h)'
<1>1. ASSUME NEW h \in G PROVE Keeps(gr[h], gr'[h])
  <2>1. Wf(gr[h]) /\ gr[h] \in Gr
    BY DEF SyncIInv, PlaceInv, Wf
  <2>2. CASE gr'[h] = gr[h]
    <3>1. Same(gr[h], gr[h])
      BY <2>1 DEF Same
    <3> QED BY <2>1, <2>2, <3>1, SameKeeps
  <2>3. CASE gr[h].pc \in Pairing /\ Wf(gr'[h]) /\ Quiet(gr'[h])
    <3>1. Quiet(gr[h])
      BY <2>1, <2>3, PairFacts
    <3> QED BY <2>3, <3>1, QuietKeeps
  <2> QED BY <2>2, <2>3
<1>2. PlaceInv' /\ (\A r \in Roots : RootsOf(r)') /\ SemaSafe' /\ OneWakeup'
  BY <1>1, KeepsAll
<1>3. OwnInv'
  <2>1. \A h \in G : \A x \in {"wgm", "om"} : Owns(gr'[h], x) => Owns(gr[h], x)
    OBVIOUS
  <2> QED BY <2>1, OwnKept DEF SyncIInv
<1>4. \A h \in G : Looking(h) => Looking(h)'
  BY DEF Looking, Pairing
<1> QED BY <1>2, <1>3, <1>4

(* The queue of the SyncSema: its types, and who is in it.                 *)
PairType == Seq([g : G, nrelease : Int])

LEMMA PairQueue ==
    ASSUME SyncIInv
    PROVE  /\ syncsema \in PairType /\ Len(syncsema) \in Nat /\ DOMAIN syncsema = 1 .. Len(syncsema)
           /\ \A i \in 1 .. Len(syncsema) :
                /\ syncsema[i] \in [g : G, nrelease : Int] /\ syncsema[i].g \in G /\ syncsema[i].nrelease \in Int
                /\ gr[syncsema[i].g].pc = "yparked"
           /\ \A i, j \in 1 .. Len(syncsema) : i # j => syncsema[i].g # syncsema[j].g
<1>1. syncsema \in Seq([g : G, nrelease : Int])
  BY DEF SyncIInv, SyncTypes
<1>2. Len(syncsema) \in Nat /\ DOMAIN syncsema = 1 .. Len(syncsema)
  BY <1>1
<1>3. ASSUME NEW i \in 1 .. Len(syncsema)
      PROVE  syncsema[i] \in [g : G, nrelease : Int] /\ syncsema[i].g \in G /\ syncsema[i].nrelease \in Int
  <2>1. syncsema[i] \in [g : G, nrelease : Int]
    BY <1>1, ElementOfSeq
  <2> QED BY <2>1
<1>4. /\ \A i \in 1 .. Len(syncsema) : gr[syncsema[i].g].pc = "yparked"
      /\ \A i, j \in 1 .. Len(syncsema) : i # j => syncsema[i].g # syncsema[j].g
  BY DEF SyncIInv, PairInv, At
<1> QED BY <1>1, <1>2, <1>3, <1>4 DEF PairType

(* A new queue whose entries come from the old one, or is g's own.         *)
LEMMA PairInvFrom ==
    ASSUME SyncIInv, NEW u, syncsema' = u, u \in PairType,
           \A j \in 1 .. Len(u) : gr'[u[j].g].pc = "yparked",
           \A i, j \in 1 .. Len(u) : i # j => u[i].g # u[j].g
    PROVE  PairInv' /\ syncsema' \in Seq([g : G, nrelease : Int])
BY DEF PairInv, PairType, At

LEMMA HeadOfQueue ==
    ASSUME SyncIInv, syncsema # << >>
    PROVE  /\ 1 \in 1 .. Len(syncsema) /\ Head(syncsema) = syncsema[1] /\ Tail(syncsema) \in PairType
           /\ Len(Tail(syncsema)) = Len(syncsema) - 1
           /\ \A j \in 1 .. Len(syncsema) - 1 : Tail(syncsema)[j] = syncsema[j + 1]
<1>1. syncsema \in Seq([g : G, nrelease : Int]) /\ Len(syncsema) \in Nat
  BY PairQueue DEF PairType
<1> DEFINE S == [g : G, nrelease : Int]
<1>2. PICK u : u = syncsema /\ u \in Seq(S) /\ u # << >>
  BY <1>1
<1> HIDE DEF S
<1>3. Len(u) \in Nat /\ Len(u) # 0 /\ Head(u) = u[1]
  BY <1>2
<1>4. Tail(u) \in Seq(S) /\ Len(Tail(u)) = Len(u) - 1 /\ \A j \in 1 .. Len(u) - 1 : Tail(u)[j] = u[j + 1]
  BY <1>2, <1>3
<1> QED BY <1>2, <1>3, <1>4 DEF PairType, S

LEMMA SyncAcquireSafe ==
    ASSUME SyncIInv, NEW g \in G, SyncAcquire(g), mutex' = mutex
    PROVE  SemaGoal
<1>0. PICK r : r = gr[g]
  OBVIOUS
<1>1. SyncTypes /\ Wf(r) /\ r.pc = "yacq" /\ r.pc \in Pairing /\ UNCHANGED <<sem, root, mutex>>
  BY <1>0 DEF SyncIInv, PlaceInv, SyncAcquire, At, Pairing
<1>2. r \in Gr /\ ~r.awoke /\ r.k = Ret("crelock") /\ r.n = 0
  BY <1>1, PairFacts
<1>3. PICK s : s = Back(r)
  OBVIOUS
<1>4. s \in Gr /\ Wf(s) /\ Quiet(s) /\ s.pc # "yparked" /\ \A x \in {"wgm", "om"} : ~Owns(s, x)
  <2>1. Wf(s) /\ Quiet(s) /\ s.pc # "yparked" /\ \A x \in {"wgm", "om"} : ~Owns(s, x)
    BY <1>2, <1>3, PairBack
  <2> QED BY <2>1 DEF Wf
<1>5. Return(g) = [gr EXCEPT ![g] = s]
  BY <1>0, <1>3 DEF Return
<1>6. sem' \in [Sems -> Nat] /\ root' \in [Roots -> [lock : SUBSET G, nwait : Int, queue : Seq([g : G, addr : Sems])]]
  BY <1>1 DEF SyncTypes
<1>q. /\ syncsema \in PairType /\ Len(syncsema) \in Nat
      /\ \A i \in 1 .. Len(syncsema) :
           /\ syncsema[i] \in [g : G, nrelease : Int] /\ syncsema[i].g \in G /\ syncsema[i].nrelease \in Int
           /\ gr[syncsema[i].g].pc = "yparked"
      /\ \A i, j \in 1 .. Len(syncsema) : i # j => syncsema[i].g # syncsema[j].g
  BY PairQueue
<1>7. CASE syncsema # << >> /\ Head(syncsema).nrelease = 1
  <2>1. /\ 1 \in 1 .. Len(syncsema) /\ Head(syncsema) = syncsema[1] /\ Tail(syncsema) \in PairType
        /\ Len(Tail(syncsema)) = Len(syncsema) - 1
        /\ \A j \in 1 .. Len(syncsema) - 1 : Tail(syncsema)[j] = syncsema[j + 1]
    BY <1>7, HeadOfQueue
  <2>2. PICK w \in G : w = syncsema[1].g
    BY <1>q, <2>1
  <2>3. w # g /\ gr[w].pc = "yparked"
    BY <1>0, <1>1, <1>q, <2>1, <2>2
  <2>4. PICK t : t = Back(gr[w])
    OBVIOUS
  <2>5. t \in Gr /\ Wf(t) /\ Quiet(t) /\ \A x \in {"wgm", "om"} : ~Owns(t, x)
    <3>1. Wf(gr[w]) /\ gr[w].pc \in Pairing
      BY <2>3 DEF SyncIInv, PlaceInv, Pairing
    <3>2. gr[w] \in Gr /\ ~gr[w].awoke /\ gr[w].n = 0 /\ gr[w].k \in {Top, Ret("crelock")}
      BY <2>3, <3>1, PairFacts
    <3>3. Wf(t) /\ Quiet(t) /\ \A x \in {"wgm", "om"} : ~Owns(t, x)
      BY <2>4, <3>2, PairBack
    <3> QED BY <3>3 DEF Wf
  <2>6. /\ gr' \in [G -> Gr] /\ gr'[g] = s /\ gr'[w] = t
        /\ \A h \in G : h # g /\ h # w => gr'[h] = gr[h]
    <3>1. gr' = [Return(g) EXCEPT ![Head(syncsema).g] = Back(@)]
      BY <1>7 DEF SyncAcquire
    <3>2. gr' = [gr EXCEPT ![g] = s, ![w] = t]
      BY <1>1, <1>5, <2>1, <2>2, <2>3, <2>4, <3>1 DEF SyncTypes
    <3> QED BY <1>1, <1>4, <2>3, <2>5, <3>2 DEF SyncTypes
  <2>7. \A h \in G : \/ gr'[h] = gr[h]
                     \/ /\ gr[h].pc \in Pairing /\ Wf(gr'[h]) /\ Quiet(gr'[h])
                        /\ \A x \in {"wgm", "om"} : ~Owns(gr'[h], x)
    BY <1>0, <1>1, <1>4, <2>3, <2>5, <2>6 DEF Pairing
  <2>8. PairInv' /\ syncsema' \in Seq([g : G, nrelease : Int])
    <3>1. PICK u : u = Tail(syncsema)
      OBVIOUS
    <3>2. syncsema' = u
      BY <1>7, <3>1 DEF SyncAcquire
    <3>3. u \in PairType /\ Len(u) = Len(syncsema) - 1 /\ \A j \in 1 .. Len(u) : u[j] = syncsema[j + 1]
      BY <2>1, <3>1
    <3>4. ASSUME NEW j \in 1 .. Len(u) PROVE gr'[u[j].g].pc = "yparked"
      <4>1. j + 1 \in 1 .. Len(syncsema) /\ j + 1 # 1 /\ u[j] = syncsema[j + 1]
        BY <1>q, <3>3
      <4>2. PICK h : h = u[j].g
        OBVIOUS
      <4>3. h \in G /\ gr[h].pc = "yparked" /\ h # w
        BY <1>q, <2>1, <2>2, <4>1, <4>2
      <4>4. gr'[h] = gr[h]
        BY <1>0, <1>1, <2>6, <4>3
      <4> QED BY <4>2, <4>3, <4>4
    <3>5. ASSUME NEW i \in 1 .. Len(u), NEW j \in 1 .. Len(u), i # j
          PROVE  u[i].g # u[j].g
      <4>1. i + 1 \in 1 .. Len(syncsema) /\ j + 1 \in 1 .. Len(syncsema) /\ i + 1 # j + 1
        BY <1>q, <3>3, <3>5
      <4>2. syncsema[i + 1].g # syncsema[j + 1].g
        BY <1>q, <4>1
      <4> QED BY <3>3, <4>2
    <3> QED BY <3>2, <3>3, <3>4, <3>5, PairInvFrom
  <2> QED BY <1>1, <1>6, <2>6, <2>7, <2>8, PairKeeps DEF SemaGoal
<1>8. CASE syncsema # << >> /\ Head(syncsema).nrelease > 0 /\ Head(syncsema).nrelease # 1
  <2>1. 1 \in 1 .. Len(syncsema) /\ Head(syncsema) = syncsema[1]
    BY <1>8, HeadOfQueue
  <2>2. gr' = [gr EXCEPT ![g] = s] /\ syncsema' = [syncsema EXCEPT ![1].nrelease = @ - 1]
    BY <1>5, <1>8 DEF SyncAcquire
  <2>3. gr' \in [G -> Gr] /\ gr'[g] = s /\ \A h \in G : h # g => gr'[h] = gr[h]
    BY <1>1, <1>4, <2>2, OnlyThis
  <2>4. \A h \in G : \/ gr'[h] = gr[h]
                     \/ /\ gr[h].pc \in Pairing /\ Wf(gr'[h]) /\ Quiet(gr'[h])
                        /\ \A x \in {"wgm", "om"} : ~Owns(gr'[h], x)
    BY <1>0, <1>1, <1>4, <2>3
  <2>5. PairInv' /\ syncsema' \in Seq([g : G, nrelease : Int])
    <3>1. PICK e : e = [syncsema[1] EXCEPT !.nrelease = @ - 1]
      OBVIOUS
    <3>2. e \in [g : G, nrelease : Int] /\ e.g = syncsema[1].g
      BY <1>q, <2>1, <3>1
    <3>3. PICK u : u = [syncsema EXCEPT ![1] = e]
      OBVIOUS
    <3>4. syncsema' = u
      BY <2>2, <3>1, <3>3
    <3>5. /\ u \in PairType /\ Len(u) = Len(syncsema)
          /\ \A j \in 1 .. Len(syncsema) : u[j] = IF j = 1 THEN e ELSE syncsema[j]
      <4> DEFINE S == [g : G, nrelease : Int]
      <4>1. PICK c : c = syncsema /\ c \in Seq(S) /\ 1 \in 1 .. Len(c)
        BY <1>q, <2>1 DEF PairType
      <4>2. e \in S
        BY <3>2
      <4> HIDE DEF S
      <4>3. [c EXCEPT ![1] = e] \in Seq(S) /\ Len([c EXCEPT ![1] = e]) = Len(c)
            /\ \A j \in 1 .. Len(c) : [c EXCEPT ![1] = e][j] = IF j = 1 THEN e ELSE c[j]
        BY <4>1, <4>2
      <4> QED BY <3>3, <4>1, <4>3 DEF PairType, S
    <3>6. \A j \in 1 .. Len(u) : u[j].g = syncsema[j].g
      BY <3>2, <3>5
    <3>7. ASSUME NEW j \in 1 .. Len(u) PROVE gr'[u[j].g].pc = "yparked"
      <4>1. PICK h : h = u[j].g
        OBVIOUS
      <4>2. h \in G /\ gr[h].pc = "yparked"
        BY <1>q, <3>5, <3>6, <4>1
      <4>3. gr'[h] = gr[h]
        BY <1>0, <1>1, <2>3, <4>2
      <4> QED BY <4>1, <4>2, <4>3
    <3>8. \A i, j \in 1 .. Len(u) : i # j => u[i].g # u[j].g
      BY <1>q, <3>5, <3>6
    <3> QED BY <3>4, <3>5, <3>7, <3>8, PairInvFrom
  <2> QED BY <1>1, <1>6, <2>3, <2>4, <2>5, PairKeeps DEF SemaGoal
<1>9. CASE ~(syncsema # << >> /\ Head(syncsema).nrelease > 0)
  <2>1. PICK e : e = [g |-> g, nrelease |-> -1]
    OBVIOUS
  <2>2. e \in [g : G, nrelease : Int] /\ e.g = g
    BY <2>1
  <2>3. PICK t : t = [r EXCEPT !.pc = "yparked"]
    OBVIOUS
  <2>4. t \in Gr /\ t.pc = "yparked" /\ t.k = r.k /\ t.n = r.n /\ t.awoke = r.awoke
    BY <1>2, <2>3, Places DEF Gr, Pairing
  <2>5. Wf(t) /\ Quiet(t) /\ \A x \in {"wgm", "om"} : ~Owns(t, x)
    <3>1. Wf(t)
      BY <1>2, <2>4, WfPair
    <3>2. t.pc \in Pairing
      BY <2>4 DEF Pairing
    <3> QED BY <3>1, <3>2, PairFacts
  <2>6. gr' = [gr EXCEPT ![g] = t]
    BY <1>0, <1>1, <1>9, <2>3 DEF SyncAcquire, Goto, SyncTypes
  <2>7. gr' \in [G -> Gr] /\ gr'[g] = t /\ \A h \in G : h # g => gr'[h] = gr[h]
    BY <1>1, <2>4, <2>6, OnlyThis
  <2>8. \A h \in G : \/ gr'[h] = gr[h]
                     \/ /\ gr[h].pc \in Pairing /\ Wf(gr'[h]) /\ Quiet(gr'[h])
                        /\ \A x \in {"wgm", "om"} : ~Owns(gr'[h], x)
    BY <1>0, <1>1, <2>5, <2>7
  <2>9. PairInv' /\ syncsema' \in Seq([g : G, nrelease : Int])
    <3>1. PICK u : u = Append(syncsema, e)
      OBVIOUS
    <3>2. syncsema' = u
      BY <1>9, <2>1, <3>1 DEF SyncAcquire
    <3>3. /\ u \in PairType /\ Len(u) = Len(syncsema) + 1 /\ u[Len(syncsema) + 1] = e
          /\ \A j \in 1 .. Len(syncsema) : u[j] = syncsema[j]
      <4> DEFINE S == [g : G, nrelease : Int]
      <4>1. syncsema \in Seq(S) /\ e \in S
        BY <1>q, <2>2 DEF PairType
      <4> HIDE DEF S
      <4>2. /\ Append(syncsema, e) \in Seq(S) /\ Len(Append(syncsema, e)) = Len(syncsema) + 1
            /\ Append(syncsema, e)[Len(syncsema) + 1] = e
            /\ \A i \in 1 .. Len(syncsema) : Append(syncsema, e)[i] = syncsema[i]
        BY <4>1, Appended
      <4> QED BY <3>1, <4>2 DEF PairType, S
    <3>4. ASSUME NEW j \in 1 .. Len(syncsema)
          PROVE  u[j].g = syncsema[j].g /\ u[j].g # g /\ gr'[u[j].g].pc = "yparked"
      <4>1. PICK h : h = u[j].g
        OBVIOUS
      <4>2. h \in G /\ gr[h].pc = "yparked" /\ h = syncsema[j].g
        BY <1>q, <3>3, <4>1
      <4>3. h # g /\ gr'[h] = gr[h]
        BY <1>0, <1>1, <2>7, <4>2
      <4> QED BY <4>1, <4>2, <4>3
    <3>5. u[Len(syncsema) + 1].g = g /\ gr'[g].pc = "yparked"
      BY <2>2, <2>4, <2>7, <3>3
    <3>6. \A j \in 1 .. Len(u) : j \in 1 .. Len(syncsema) \/ j = Len(syncsema) + 1
      BY <1>q, <3>3
    <3>7. \A j \in 1 .. Len(u) : gr'[u[j].g].pc = "yparked"
      BY <3>4, <3>5, <3>6
    <3>8. \A i, j \in 1 .. Len(u) : i # j => u[i].g # u[j].g
      BY <1>q, <3>4, <3>5, <3>6
    <3> QED BY <3>2, <3>3, <3>7, <3>8, PairInvFrom
  <2> QED BY <1>1, <1>6, <2>7, <2>8, <2>9, PairKeeps DEF SemaGoal
<1> QED BY <1>7, <1>8, <1>9

(* The queue without its first n entries.                                  *)
LEMMA QueueRest ==
    ASSUME SyncIInv, NEW n \in Nat, n <= Len(syncsema)
    PROVE  /\ SubSeq(syncsema, n + 1, Len(syncsema)) \in PairType
           /\ Len(SubSeq(syncsema, n + 1, Len(syncsema))) = Len(syncsema) - n
           /\ \A j \in 1 .. Len(syncsema) - n : SubSeq(syncsema, n + 1, Len(syncsema))[j] = syncsema[n + j]
<1>1. syncsema \in Seq([g : G, nrelease : Int]) /\ Len(syncsema) \in Nat
  BY PairQueue DEF PairType
<1> DEFINE S == [g : G, nrelease : Int]
<1>0. PICK m \in Nat : m = Len(syncsema)
  BY <1>1
<1>2. PICK u : u = syncsema /\ u \in Seq(S) /\ m = Len(u)
  BY <1>0, <1>1
<1> HIDE DEF S
<1>3. n + 1 \in Int /\ m \in Int /\ \A i \in n + 1 .. m : u[i] \in S
  BY <1>2
<1>4. /\ SubSeq(u, n + 1, m) \in Seq(S) /\ Len(SubSeq(u, n + 1, m)) = IF n + 1 <= m THEN m - (n + 1) + 1 ELSE 0
      /\ \A i \in 1 .. m - (n + 1) + 1 : SubSeq(u, n + 1, m)[i] = u[n + 1 + i - 1]
  BY <1>3, SubSeqProperties
<1>5. m - (n + 1) + 1 = m - n /\ n <= m
  BY <1>2
<1>6. Len(SubSeq(u, n + 1, m)) = m - n
  BY <1>4, <1>5
<1>7. \A j \in 1 .. m - n : SubSeq(u, n + 1, m)[j] = u[n + j]
  <2>1. \A j \in 1 .. m - n : n + 1 + j - 1 = n + j
    OBVIOUS
  <2> QED BY <1>4, <1>5, <2>1
<1> QED BY <1>2, <1>4, <1>6, <1>7 DEF PairType, S

(* How many acquires a release is paired with.                             *)
LEMMA PairedCount ==
    ASSUME SyncIInv, NEW g \in G, gr[g].pc = "yrel", NEW n,
           n = IF syncsema = << >> \/ Head(syncsema).nrelease > 0 THEN 0
               ELSE Min({gr[g].n, Len(syncsema)})
    PROVE  n \in Nat /\ n <= Len(syncsema)
<1>1. Len(syncsema) \in Nat
  BY PairQueue
<1>2. gr[g].n \in Nat
  <2>1. Wf(gr[g]) /\ gr[g].pc \in Pairing
    BY DEF SyncIInv, PlaceInv, Pairing
  <2>2. gr[g] \in Gr /\ gr[g].n >= 1
    BY <2>1, PairFacts
  <2> QED BY <2>2 DEF Gr
<1>3. PICK a \in Nat, b \in Nat : a = gr[g].n /\ b = Len(syncsema)
  BY <1>1, <1>2
<1>4. Min({a, b}) \in {a, b} /\ Min({a, b}) <= b
  <2>1. {a, b} \subseteq Nat /\ {a, b} # {}
    OBVIOUS
  <2> QED BY <2>1, LeastNat
<1> QED BY <1>3, <1>4

(* A release that is not used up parks.                                    *)
LEMMA ParkedRelease ==
    ASSUME NEW r \in Gr, NEW l \in Place
    PROVE  /\ [r EXCEPT !.pc = l, !.n = 0] \in Gr /\ [r EXCEPT !.pc = l, !.n = 0].pc = l
           /\ [r EXCEPT !.pc = l, !.n = 0].n = 0 /\ [r EXCEPT !.pc = l, !.n = 0].k = r.k
           /\ [r EXCEPT !.pc = l, !.n = 0].awoke = r.awoke
<1>1. [r EXCEPT !.n = 0] \in Gr
  BY DEF Gr
<1>2. PICK z \in Gr : z = [r EXCEPT !.n = 0]
  BY <1>1
<1>3. [r EXCEPT !.pc = l, !.n = 0] = [z EXCEPT !.pc = l]
  BY <1>2 DEF Gr
<1>4. [z EXCEPT !.pc = l] \in Gr
  BY DEF Gr
<1>5. [r EXCEPT !.pc = l, !.n = 0] \in Gr
  BY <1>3, <1>4
<1> QED BY <1>5 DEF Gr

LEMMA SyncReleaseSafe ==
    ASSUME SyncIInv, NEW g \in G, SyncRelease(g), mutex' = mutex
    PROVE  SemaGoal
<1>0. PICK n : n = IF syncsema = << >> \/ Head(syncsema).nrelease > 0 THEN 0
                   ELSE Min({gr[g].n, Len(syncsema)})
  OBVIOUS
<1>1. PICK woken : woken = {syncsema[i].g : i \in 1 .. n}
  OBVIOUS
<1>2. PICK left : left = gr[g].n - n
  OBVIOUS
<1>3. PICK rest : rest = SubSeq(syncsema, n + 1, Len(syncsema))
  OBVIOUS
<1>4. /\ gr[g].pc = "yrel" /\ UNCHANGED <<sem, root>>
      /\ gr' = [h \in G |-> IF h \in woken THEN Back(gr[h])
                            ELSE IF h # g THEN gr[h]
                            ELSE IF left = 0 THEN Back([gr[g] EXCEPT !.n = 0])
                            ELSE [gr[g] EXCEPT !.pc = "yparked", !.n = 0]]
      /\ syncsema' = IF left = 0 THEN rest ELSE Append(rest, [g |-> g, nrelease |-> left])
  BY <1>0, <1>1, <1>2, <1>3 DEF SyncRelease, At
<1>5. SyncTypes /\ Wf(gr[g]) /\ gr[g].pc \in Pairing
  BY <1>4 DEF SyncIInv, PlaceInv, Pairing
<1>6. gr[g] \in Gr /\ ~gr[g].awoke /\ gr[g].k = Top /\ gr[g].n >= 1 /\ gr[g].n \in Int
  <2>1. gr[g] \in Gr /\ ~gr[g].awoke /\ gr[g].k = Top /\ gr[g].n >= 1
    BY <1>4, <1>5, PairFacts
  <2> QED BY <2>1 DEF Gr
<1>7. n \in Nat /\ n <= Len(syncsema) /\ left \in Int
  <2>1. n \in Nat /\ n <= Len(syncsema)
    BY <1>0, <1>4, PairedCount
  <2> QED BY <1>2, <1>6, <2>1
<1>q. /\ Len(syncsema) \in Nat
      /\ \A i \in 1 .. Len(syncsema) : syncsema[i].g \in G /\ gr[syncsema[i].g].pc = "yparked"
      /\ \A i, j \in 1 .. Len(syncsema) : i # j => syncsema[i].g # syncsema[j].g
  BY PairQueue
<1>8. /\ g \notin woken
      /\ \A h \in woken : h \in G /\ gr[h].pc = "yparked"
  <2>1. \A i \in 1 .. n : i \in 1 .. Len(syncsema)
    BY <1>7, <1>q
  <2> QED BY <1>1, <1>4, <1>q, <2>1
<1>9. ASSUME NEW h \in G
      PROVE  gr'[h] \in Gr /\ (\/ gr'[h] = gr[h]
                               \/ /\ gr[h].pc \in Pairing /\ Wf(gr'[h]) /\ Quiet(gr'[h])
                                  /\ \A x \in {"wgm", "om"} : ~Owns(gr'[h], x))
  <2>0. gr[h] \in Gr
    BY <1>5 DEF SyncTypes
  <2>1. CASE h \in woken
    <3>1. PICK t : t = Back(gr[h])
      OBVIOUS
    <3>2. gr'[h] = t /\ gr[h].pc = "yparked"
      BY <1>4, <1>8, <2>1, <3>1
    <3>3. Wf(gr[h]) /\ gr[h].pc \in Pairing
      BY <3>2 DEF SyncIInv, PlaceInv, Pairing
    <3>4. gr[h] \in Gr /\ ~gr[h].awoke /\ gr[h].n = 0 /\ gr[h].k \in {Top, Ret("crelock")}
      BY <3>2, <3>3, PairFacts
    <3>5. Wf(t) /\ Quiet(t) /\ \A x \in {"wgm", "om"} : ~Owns(t, x)
      BY <3>1, <3>4, PairBack
    <3> QED BY <3>2, <3>3, <3>5 DEF Wf
  <2>2. CASE h \notin woken /\ h # g
    BY <1>4, <2>0, <2>2
  <2>3. CASE h = g /\ left = 0
    <3>0. PICK r : r = [gr[g] EXCEPT !.n = 0]
      OBVIOUS
    <3>1. r \in Gr /\ ~r.awoke /\ r.n = 0 /\ r.k \in {Top, Ret("crelock")}
      BY <1>6, <3>0 DEF Gr
    <3>2. PICK t : t = Back(r)
      OBVIOUS
    <3>3. gr'[h] = t
      BY <1>4, <1>8, <2>3, <3>0, <3>2
    <3>4. Wf(t) /\ Quiet(t) /\ \A x \in {"wgm", "om"} : ~Owns(t, x)
      BY <3>1, <3>2, PairBack
    <3> QED BY <1>5, <2>3, <3>3, <3>4 DEF Wf
  <2>4. CASE h = g /\ left # 0
    <3>1. PICK t : t = [gr[g] EXCEPT !.pc = "yparked", !.n = 0]
      OBVIOUS
    <3>2. t \in Gr /\ t.pc = "yparked" /\ t.k = Top /\ t.n = 0 /\ ~t.awoke
      <4>1. PICK r \in Gr : r = gr[g]
        BY <1>6
      <4>2. PICK l \in Place : l = "yparked"
        BY DEF Place, Pairing
      <4>3. t = [r EXCEPT !.pc = l, !.n = 0]
        BY <3>1, <4>1, <4>2
      <4>4. t \in Gr /\ t.pc = l /\ t.k = r.k /\ t.n = 0 /\ t.awoke = r.awoke
        BY <4>3, ParkedRelease, Zenon
      <4> QED BY <1>6, <4>1, <4>2, <4>4
    <3>3. gr'[h] = t
      BY <1>4, <1>8, <2>4, <3>1
    <3>4. Wf(t) /\ t.pc \in Pairing
      BY <3>2, WfPair DEF Pairing
    <3>5. Quiet(t) /\ \A x \in {"wgm", "om"} : ~Owns(t, x)
      BY <3>4, PairFacts
    <3> QED BY <1>5, <2>4, <3>2, <3>3, <3>4, <3>5
  <2> QED BY <2>1, <2>2, <2>3, <2>4
<1>10. gr' \in [G -> Gr]
  BY <1>4, <1>9
<1>11. /\ rest \in PairType /\ Len(rest) = Len(syncsema) - n
       /\ \A j \in 1 .. Len(rest) : rest[j] = syncsema[n + j]
  BY <1>3, <1>7, QueueRest
<1>12. ASSUME NEW j \in 1 .. Len(rest)
       PROVE  rest[j].g # g /\ gr'[rest[j].g].pc = "yparked"
  <2>1. n + j \in 1 .. Len(syncsema) /\ \A i \in 1 .. n : i \in 1 .. Len(syncsema) /\ i # n + j
    BY <1>7, <1>q, <1>11
  <2>2. PICK h : h = syncsema[n + j].g
    OBVIOUS
  <2>3. h \in G /\ gr[h].pc = "yparked" /\ h # g
    BY <1>4, <1>q, <2>1, <2>2
  <2>4. h \notin woken
    BY <1>1, <1>q, <2>1, <2>2
  <2>5. gr'[h] = gr[h]
    BY <1>4, <2>3, <2>4
  <2> QED BY <1>11, <2>2, <2>3, <2>5
<1>13. ASSUME NEW i \in 1 .. Len(rest), NEW j \in 1 .. Len(rest), i # j
       PROVE  rest[i].g # rest[j].g
  <2>1. n + i \in 1 .. Len(syncsema) /\ n + j \in 1 .. Len(syncsema) /\ n + i # n + j
    BY <1>7, <1>q, <1>11, <1>13
  <2>2. syncsema[n + i].g # syncsema[n + j].g
    BY <1>q, <2>1
  <2> QED BY <1>11, <2>2
<1>14. PairInv' /\ syncsema' \in Seq([g : G, nrelease : Int])
  <2>1. CASE left = 0
    <3>1. syncsema' = rest
      BY <1>4, <2>1
    <3> QED BY <1>11, <1>12, <1>13, <3>1, PairInvFrom
  <2>2. CASE left # 0
    <3>0. PICK e : e = [g |-> g, nrelease |-> left]
      OBVIOUS
    <3>1. PICK u : u = Append(rest, e)
      OBVIOUS
    <3>2. syncsema' = u /\ e \in [g : G, nrelease : Int] /\ e.g = g
      BY <1>4, <1>7, <2>2, <3>0, <3>1
    <3>3. /\ u \in PairType /\ Len(u) = Len(rest) + 1 /\ u[Len(rest) + 1] = e /\ Len(rest) \in Nat
          /\ \A j \in 1 .. Len(rest) : u[j] = rest[j]
      <4> DEFINE S == [g : G, nrelease : Int]
      <4>1. rest \in Seq(S) /\ e \in S
        BY <1>11, <3>2 DEF PairType
      <4> HIDE DEF S
      <4>2. /\ Append(rest, e) \in Seq(S) /\ Len(Append(rest, e)) = Len(rest) + 1
            /\ Append(rest, e)[Len(rest) + 1] = e /\ Len(rest) \in Nat
            /\ \A i \in 1 .. Len(rest) : Append(rest, e)[i] = rest[i]
        BY <4>1, Appended
      <4> QED BY <3>1, <4>2 DEF PairType, S
    <3>4. gr'[g].pc = "yparked"
      <4>1. gr'[g] = [gr[g] EXCEPT !.pc = "yparked", !.n = 0]
        BY <1>4, <1>8, <2>2
      <4> QED BY <1>6, <4>1 DEF Gr
    <3>5. u[Len(rest) + 1].g = g
      BY <3>2, <3>3
    <3>6. \A j \in 1 .. Len(u) : j \in 1 .. Len(rest) \/ j = Len(rest) + 1
      BY <3>3
    <3>7. ASSUME NEW j \in 1 .. Len(rest)
          PROVE  u[j].g = rest[j].g /\ u[j].g # g /\ gr'[u[j].g].pc = "yparked"
      BY <1>12, <3>3
    <3>8. \A j \in 1 .. Len(u) : gr'[u[j].g].pc = "yparked"
      BY <3>4, <3>5, <3>6, <3>7
    <3>9. \A i, j \in 1 .. Len(u) : i # j => u[i].g # u[j].g
      BY <1>13, <3>5, <3>6, <3>7
    <3> QED BY <3>2, <3>3, <3>8, <3>9, PairInvFrom
  <2> QED BY <2>1, <2>2
<1>15. sem' \in [Sems -> Nat] /\ root' \in [Roots -> [lock : SUBSET G, nwait : Int, queue : Seq([g : G, addr : Sems])]]
  BY <1>4, <1>5 DEF SyncTypes
<1>16. UNCHANGED <<sem, root, mutex>>
  BY <1>4
<1> QED BY <1>9, <1>10, <1>14, <1>15, <1>16, PairKeeps DEF SemaGoal

(***************************************************************************)
(* The invariant.                                                          *)
(***************************************************************************)
LEMMA IdleFacts ==
    ASSUME NEW p \in {"next", "unborn"}, NEW r, r = [Idle EXCEPT !.pc = p]
    PROVE  /\ r \in Gr /\ Wf(r) /\ r.pc = p /\ r.sa = Nil /\ ~r.awoke
           /\ \A x \in {"wgm", "om"} : ~Owns(r, x)
<1>1. /\ r.pc = p /\ r.k = << >> /\ r.mu = Nil /\ r.sa = Nil /\ r.old = Unlocked /\ r.awoke = FALSE
      /\ r.n = 0 /\ r.ws = Nil /\ r.ip = 1 /\ r.zero = FALSE
  BY DEF Idle
<1>2. p \in Place /\ << >> \in Seq(Place) /\ Unlocked \in MState
  BY DEF Place, Unlocked, MState
<1>3. r = [pc |-> p, k |-> << >>, mu |-> Nil, sa |-> Nil, old |-> Unlocked,
           awoke |-> FALSE, n |-> 0, ws |-> Nil, ip |-> 1, zero |-> FALSE]
  BY DEF Idle
<1>4. r \in Gr
  <2>1. PICK o \in MState : o = Unlocked
    BY <1>2
  <2>2. PICK s \in Seq(Place) : s = << >>
    BY <1>2
  <2>3. PICK M : M = Mutexes \cup {Nil} /\ Nil \in M
    OBVIOUS
  <2>4. PICK A : A = Sems \cup {Nil} /\ Nil \in A
    OBVIOUS
  <2>5. [pc |-> p, k |-> s, mu |-> Nil, sa |-> Nil, old |-> o,
         awoke |-> FALSE, n |-> 0, ws |-> Nil, ip |-> 1, zero |-> FALSE]
        \in [pc : Place, k : Seq(Place), mu : M, sa : A, old : MState,
             awoke : BOOLEAN, n : Int, ws : A, ip : Nat \ {0}, zero : BOOLEAN]
    BY <1>2, <2>3, <2>4
  <2> QED BY <1>3, <2>1, <2>2, <2>3, <2>4, <2>5 DEF Gr
<1>5. p \notin Body \cup {"yrel", "yacq", "yparked", "ucas", "unlock"} \cup Locking \cup Unlocking \cup Waking \cup Releasing
  BY DEF Body, Locking, Unlocking, Waking, Releasing
<1>6. StackOf(r)
  BY <1>1, <1>5 DEF StackOf
<1>7. ~GoesOnAt(r, "waitsleep") /\ ~GoesOnAt(r, "addwake")
  BY <1>1 DEF GoesOnAt
<1>8. LocalsOf(r)
  BY <1>1, <1>5, <1>7 DEF LocalsOf
<1>9. Signals(r)
  BY <1>1 DEF Signals
<1>10. \A x \in {"wgm", "om"} : ~Owns(r, x)
  BY <1>1, <1>5 DEF Owns
<1> QED BY <1>1, <1>4, <1>6, <1>8, <1>9, <1>10 DEF Wf

LEMMA InitTypes ==
    ASSUME Init
    PROVE  SyncTypes
<1>1. sem \in [Sems -> Nat] /\ syncsema \in Seq([g : G, nrelease : Int])
  BY DEF Init, SemaInit
<1>2. root \in [Roots -> [lock : SUBSET G, nwait : Int, queue : Seq([g : G, addr : Sems])]]
  <2>1. << >> \in QueueType
    BY DEF QueueType
  <2>2. [lock |-> {}, nwait |-> 0, queue |-> << >>] \in [lock : SUBSET G, nwait : Int, queue : QueueType]
    BY <2>1
  <2> QED BY <2>2 DEF Init, SemaInit, QueueType
<1>3. mutex \in [Mutexes -> MState]
  BY DEF Init, Unlocked, MState
<1>4. /\ rw \in [readerCount : Int, readerWait : Int]
      /\ cond \in [waiters : Nat, ready : BOOLEAN]
      /\ once \in [done : BOOLEAN, called : Nat, returned : Nat]
      /\ prog \in Programs /\ panicked \in BOOLEAN
  <2>1. rw \in [readerCount : Int, readerWait : Int]
    BY DEF Init
  <2>2. cond \in [waiters : Nat, ready : BOOLEAN]
    BY DEF Init
  <2>3. once \in [done : BOOLEAN, called : Nat, returned : Nat]
    BY DEF Init
  <2>4. prog \in Programs /\ panicked \in BOOLEAN
    BY DEF Init
  <2> QED BY <2>1, <2>2, <2>3, <2>4
<1>5. wg \in [counter : Int, waiters : Int, sema : Sems \cup {Nil}, allocated : Nat]
  BY SyncConstants DEF Init
<1>6. gr \in [G -> Gr]
  <2>1. ASSUME NEW g \in G PROVE [Idle EXCEPT !.pc = IF g \in prog.start THEN "next" ELSE "unborn"] \in Gr
    <3>1. PICK p \in {"next", "unborn"} : p = IF g \in prog.start THEN "next" ELSE "unborn"
      OBVIOUS
    <3>2. [Idle EXCEPT !.pc = p] \in Gr
      BY IdleFacts
    <3> QED BY <3>1, <3>2
  <2> QED BY <2>1 DEF Init
<1> QED BY <1>1, <1>2, <1>3, <1>4, <1>5, <1>6 DEF SyncTypes

LEMMA InitSafe ==
    ASSUME Init
    PROVE  SyncIInv
<1>0. SyncTypes
  BY InitTypes
<1>1. ASSUME NEW g \in G
      PROVE  /\ Wf(gr[g]) /\ gr[g].pc \in {"next", "unborn"} /\ gr[g].sa = Nil /\ ~gr[g].awoke
             /\ \A x \in {"wgm", "om"} : ~Owns(gr[g], x)
  <2>1. PICK p \in {"next", "unborn"} : p = IF g \in prog.start THEN "next" ELSE "unborn"
    OBVIOUS
  <2>2. PICK r : r = gr[g]
    OBVIOUS
  <2>3. r = [Idle EXCEPT !.pc = p]
    BY <2>1, <2>2 DEF Init
  <2>4. Wf(r) /\ r.pc = p /\ r.sa = Nil /\ ~r.awoke /\ \A x \in {"wgm", "om"} : ~Owns(r, x)
    BY <2>3, IdleFacts
  <2> QED BY <2>2, <2>4
<1>2. PlaceInv /\ OwnInv
  BY <1>1 DEF PlaceInv, OwnInv
<1>3. WgInv
  BY DEF Init, WgInv
<1>4. \A q \in Roots : root[q].lock = {} /\ root[q].nwait = 0 /\ root[q].queue = << >>
  BY DEF Init, SemaInit
<1>5. ASSUME NEW q \in Roots PROVE RootsOf(q)
  <2>1. root[q].lock = {} /\ Len(root[q].queue) = 0
    BY <1>4
  <2>2. \A g \in G : ~At(g, "sretry")
    BY <1>1 DEF At
  <2> QED BY <2>1, <2>2 DEF RootsOf
<1>6. PairInv
  <2>1. Len(syncsema) = 0
    BY DEF Init, SemaInit
  <2> QED BY <2>1 DEF PairInv
<1>7. SemaSafe
  <2>1. \A a \in Sems : Queued(a) = {}
    <3>1. \A a \in Sems : root[RootOf[a]].queue = << >>
      BY <1>4, RootAssumption
    <3> QED BY <3>1 DEF Queued
  <2>2. NwaitCounts
    <3>1. Cardinality({}) = 0
      BY FS_EmptySet
    <3>2. ASSUME NEW q \in Roots
          PROVE  root[q].nwait = Len(root[q].queue) + Cardinality(root[q].lock)
      <4>1. Len(root[q].queue) = 0 /\ root[q].nwait = 0
        BY <1>4
      <4>2. Cardinality(root[q].lock) = 0
        BY <1>4, <3>1
      <4> QED BY <4>1, <4>2
    <3> QED BY <3>2 DEF NwaitCounts
  <2> QED BY <2>1, <2>2 DEF SemaSafe, SemaNoLostWakeup
<1>8. OneWakeup
  <2>1. ASSUME NEW x \in Mutexes
        PROVE  Count(x, {"srel"}) = 0 /\ Count(x, Waking) = 0 /\ Awake(x) = 0
    <3>1. /\ {g \in G : gr[g].sa = x /\ gr[g].pc \in {"srel"}} = {}
          /\ {g \in G : gr[g].sa = x /\ gr[g].pc \in Waking} = {}
          /\ {g \in G : gr[g].mu = x /\ gr[g].awoke /\ gr[g].pc \in {"lread", "lcas"}} = {}
      BY <1>1 DEF Waking
    <3> QED BY <3>1, FS_EmptySet DEF Count, Awake
  <2>2. \A x \in Mutexes : sem[x] = 0 /\ mutex[x].woken = FALSE /\ mutex[x].waiters = 0
    <3>1. \A x \in Mutexes : x \in Sems
      BY SyncConstants
    <3> QED BY <3>1 DEF Init, SemaInit, Unlocked
  <2> QED BY <2>1, <2>2 DEF OneWakeup
<1> QED BY <1>0, <1>2, <1>3, <1>5, <1>6, <1>7, <1>8 DEF SyncIInv

(* A step of RWMutex, of Cond or of Once: only g's record and the words of *)
(* that part change.                                                       *)
LEMMA MovedLooking ==
    ASSUME SyncTypes, NEW g \in G, Moved(g), ~Looking(g)
    PROVE  \A h \in G : Looking(h) => Looking(h)'
<1>1. \A h \in G : h # g => gr'[h] = gr[h]
  BY MovedAll
<1> QED BY <1>1 DEF Looking

LEMMA RWTypes ==
    ASSUME SyncTypes, NEW g \in G, RWStep(g)
    PROVE  rw' \in [readerCount : Int, readerWait : Int] /\ ~Looking(g)
<1>1. rw \in [readerCount : Int, readerWait : Int] /\ rw.readerCount \in Int /\ rw.readerWait \in Int
  BY DEF SyncTypes
<1>2. gr[g].n \in Int /\ MaxReaders \in Int
  BY SyncConstants DEF SyncTypes, Gr
<1>3. ASSUME NEW c \in Int
      PROVE  [rw EXCEPT !.readerCount = c] \in [readerCount : Int, readerWait : Int]
  BY <1>1
<1>4. ASSUME NEW c \in Int
      PROVE  [rw EXCEPT !.readerWait = c] \in [readerCount : Int, readerWait : Int]
  BY <1>1
<1>5. CASE RLock(g)
  <2>1. rw' = [rw EXCEPT !.readerCount = rw.readerCount + 1] /\ gr[g].pc = "rlock"
    BY <1>5 DEF RLock, At
  <2> QED BY <1>1, <1>3, <2>1 DEF Looking
<1>6. CASE RUnlock(g)
  <2>1. rw' = [rw EXCEPT !.readerCount = rw.readerCount - 1] /\ gr[g].pc = "runlock"
    BY <1>6 DEF RUnlock, At
  <2> QED BY <1>1, <1>3, <2>1 DEF Looking
<1>7. CASE RDepart(g)
  <2>1. rw' = [rw EXCEPT !.readerWait = rw.readerWait - 1] /\ gr[g].pc = "rdepart"
    BY <1>7 DEF RDepart, At
  <2> QED BY <1>1, <1>4, <2>1 DEF Looking
<1>8. CASE WAnnounce(g)
  <2>1. rw' = [rw EXCEPT !.readerCount = rw.readerCount - MaxReaders] /\ gr[g].pc = "wannounce"
    BY <1>8 DEF WAnnounce, At
  <2> QED BY <1>1, <1>2, <1>3, <2>1 DEF Looking
<1>9. CASE WWait(g)
  <2>1. rw' = [rw EXCEPT !.readerWait = rw.readerWait + gr[g].n] /\ gr[g].pc = "wwait"
    BY <1>9 DEF WWait, At
  <2> QED BY <1>1, <1>2, <1>4, <2>1 DEF Looking
<1>10. CASE WUnlock(g)
  <2>1. rw' = [rw EXCEPT !.readerCount = rw.readerCount + MaxReaders] /\ gr[g].pc = "wunlock"
    BY <1>10 DEF WUnlock, At
  <2> QED BY <1>1, <1>2, <1>3, <2>1 DEF Looking
<1>11. CASE WRelease(g)
  <2>1. rw' = rw /\ gr[g].pc = "wrelease"
    BY <1>11 DEF WRelease, At, syncvars
  <2> QED BY <1>1, <2>1 DEF Looking
<1> QED BY <1>5, <1>6, <1>7, <1>8, <1>9, <1>10, <1>11 DEF RWStep

(* One step of one goroutine keeps the invariant.                          *)
LEMMA SemaStepKeeps ==
    ASSUME SyncIInv, NEW g \in G, SemaStep(g), UNCHANGED <<prog, syncvars, panicked>>
    PROVE  SyncIInv'
<1>1. mutex' = mutex /\ rw' = rw /\ wg' = wg /\ cond' = cond /\ once' = once /\ prog' = prog /\ panicked' = panicked
  BY DEF syncvars
<1>2. SemaGoal
  <2>1. \/ SemTry(g) \/ SemAnnounce(g) \/ SemPark(g) \/ SemAdd(g) \/ SemLook(g) \/ SemWake(g)
        \/ SyncAcquire(g) \/ SyncRelease(g)
    BY DEF SemaStep
  <2>2. CASE SemTry(g)
    BY <1>1, <2>2, SemTrySafe
  <2>3. CASE SemAnnounce(g)
    BY <1>1, <2>3, SemAnnounceSafe
  <2>4. CASE SemPark(g)
    BY <1>1, <2>4, SemParkSafe
  <2>5. CASE SemAdd(g)
    BY <1>1, <2>5, SemAddSafe
  <2>6. CASE SemLook(g)
    BY <1>1, <2>6, SemLookSafe
  <2>7. CASE SemWake(g)
    BY <1>1, <2>7, SemWakeSafe
  <2>8. CASE SyncAcquire(g)
    BY <1>1, <2>8, SyncAcquireSafe
  <2>9. CASE SyncRelease(g)
    BY <1>1, <2>9, SyncReleaseSafe
  <2> QED BY <2>1, <2>2, <2>3, <2>4, <2>5, <2>6, <2>7, <2>8, <2>9
<1>3. SyncTypes'
  BY <1>1, <1>2 DEF SemaGoal, SyncIInv, SyncTypes
<1>4. WgInv'
  <2>1. WgInv /\ wg'.sema = wg.sema /\ wg'.waiters = wg.waiters
    BY <1>1 DEF SyncIInv
  <2>2. \A h \in G : Looking(h) => Looking(h)'
    BY <1>2 DEF SemaGoal
  <2> QED BY <2>1, <2>2, WgKept
<1> QED BY <1>2, <1>3, <1>4 DEF SemaGoal, SyncIInv

LEMMA MutexStepKeeps ==
    ASSUME SyncIInv, NEW g \in G, MutexStep(g)
    PROVE  SyncIInv'
<1>0. panicked \in BOOLEAN
  BY DEF SyncIInv, SyncTypes
<1>1. MutexGoal(g) /\ MutexFrame /\ panicked' \in BOOLEAN
  <2>1. LockFast(g) \/ LockRead(g) \/ LockCas(g) \/ UnlockAdd(g) \/ UnlockCas(g) \/ UnlockRead(g)
    BY DEF MutexStep
  <2>2. CASE LockFast(g)
    BY <1>0, <2>2, LockFastSafe
  <2>3. CASE LockRead(g)
    BY <1>0, <2>3, LockReadSafe
  <2>4. CASE LockCas(g)
    BY <1>0, <2>4, LockCasSafe
  <2>5. CASE UnlockAdd(g)
    BY <2>5, UnlockAddSafe
  <2>6. CASE UnlockCas(g)
    BY <1>0, <2>6, UnlockCasSafe
  <2>7. CASE UnlockRead(g)
    BY <1>0, <2>7, UnlockReadSafe
  <2> QED BY <2>1, <2>2, <2>3, <2>4, <2>5, <2>6, <2>7
<1>2. UNCHANGED <<sem, root, syncsema, prog, rw, wg, cond, once>>
  BY <1>1 DEF MutexFrame, semavars
<1>3. SyncTypes'
  BY <1>1, <1>2 DEF MutexGoal, SyncIInv, SyncTypes
<1>4. WgInv'
  <2>1. WgInv /\ wg'.sema = wg.sema /\ wg'.waiters = wg.waiters
    BY <1>2 DEF SyncIInv
  <2>2. \A h \in G : Looking(h) => Looking(h)'
    BY <1>1 DEF MutexGoal
  <2> QED BY <2>1, <2>2, WgKept
<1> QED BY <1>1, <1>3, <1>4 DEF MutexGoal, SyncIInv

(* A step of the other parts, or the begin of a call.                      *)
LEMMA BodyStepKeeps ==
    ASSUME SyncIInv, NEW g \in G, Begin(g) \/ RWStep(g) \/ WgStep(g) \/ CondStep(g) \/ OnceStep(g)
    PROVE  SyncIInv'
<1>0. SyncTypes /\ PlaceInv /\ OwnInv /\ WgInv
  BY DEF SyncIInv
<1>1. /\ AllMove /\ WgInv' /\ UNCHANGED <<semavars, prog, mutex>>
      /\ rw' \in [readerCount : Int, readerWait : Int]
      /\ wg' \in [counter : Int, waiters : Int, sema : Sems \cup {Nil}, allocated : Nat]
      /\ cond' \in [waiters : Nat, ready : BOOLEAN]
      /\ once' \in [done : BOOLEAN, called : Nat, returned : Nat]
      /\ panicked' \in BOOLEAN
  <2>0. /\ rw \in [readerCount : Int, readerWait : Int]
        /\ wg \in [counter : Int, waiters : Int, sema : Sems \cup {Nil}, allocated : Nat]
        /\ cond \in [waiters : Nat, ready : BOOLEAN]
        /\ once \in [done : BOOLEAN, called : Nat, returned : Nat]
        /\ panicked \in BOOLEAN
    BY <1>0 DEF SyncTypes
  <2>1. CASE Begin(g)
    <3>1. /\ AllMove /\ UNCHANGED <<semavars, prog, syncvars, panicked>>
          /\ \A h \in G : Looking(h) => Looking(h)'
      BY <1>0, <2>1, BeginMoves
    <3>2. UNCHANGED <<mutex, rw, wg, cond, once>>
      BY <3>1 DEF syncvars
    <3>3. WgInv'
      BY <1>0, <3>1, <3>2, WgKept
    <3> QED BY <2>0, <3>1, <3>2, <3>3
  <2>2. CASE RWStep(g)
    <3>1. Moved(g) /\ UNCHANGED <<semavars, prog, mutex, wg, cond, once, panicked>>
      BY <1>0, <2>2, RWMoves
    <3>2. rw' \in [readerCount : Int, readerWait : Int] /\ ~Looking(g)
      BY <1>0, <2>2, RWTypes
    <3>3. AllMove
      BY <1>0, <3>1, MovedAll
    <3>4. WgInv'
      BY <1>0, <3>1, <3>2, MovedLooking, WgKept
    <3> QED BY <2>0, <3>1, <3>2, <3>3, <3>4
  <2>3. CASE WgStep(g)
    <3>1. /\ AllMove /\ WgInv' /\ UNCHANGED <<semavars, prog, mutex, rw, cond, once>>
          /\ wg' \in [counter : Int, waiters : Int, sema : Sems \cup {Nil}, allocated : Nat]
          /\ panicked' \in BOOLEAN
      BY <1>0, <2>3, WgMoves
    <3> QED BY <2>0, <3>1
  <2>4. CASE CondStep(g)
    <3>1. /\ Moved(g) /\ UNCHANGED <<semavars, prog, mutex, rw, wg, once, panicked>>
          /\ cond' \in [waiters : Nat, ready : BOOLEAN] /\ ~Looking(g)
      BY <1>0, <2>4, CondMoves
    <3>2. AllMove
      BY <1>0, <3>1, MovedAll
    <3>3. WgInv'
      BY <1>0, <3>1, MovedLooking, WgKept
    <3> QED BY <2>0, <3>1, <3>2, <3>3
  <2>5. CASE OnceStep(g)
    <3>1. /\ Moved(g) /\ UNCHANGED <<semavars, prog, mutex, rw, wg, cond, panicked>>
          /\ once' \in [done : BOOLEAN, called : Nat, returned : Nat] /\ ~Looking(g)
      BY <1>0, <2>5, OnceMoves
    <3>2. AllMove
      BY <1>0, <3>1, MovedAll
    <3>3. WgInv'
      BY <1>0, <3>1, MovedLooking, WgKept
    <3> QED BY <2>0, <3>1, <3>2, <3>3
  <2> QED BY <2>1, <2>2, <2>3, <2>4, <2>5
<1>2. PlaceInv' /\ OwnInv' /\ (\A r \in Roots : RootsOf(r)') /\ PairInv' /\ SemaSafe' /\ OneWakeup'
  BY <1>1, MoveKeeps
<1>3. SyncTypes'
  <2>1. gr' \in [G -> Gr]
    BY <1>1 DEF AllMove
  <2>2. UNCHANGED <<sem, root, syncsema, prog, mutex>>
    BY <1>1 DEF semavars
  <2> QED BY <1>0, <1>1, <2>1, <2>2 DEF SyncTypes
<1> QED BY <1>1, <1>2, <1>3 DEF SyncIInv

LEMMA StepKeeps ==
    ASSUME SyncIInv, NEW g \in G, Step(g)
    PROVE  SyncIInv'
<1>1. CASE SemaStep(g) /\ UNCHANGED <<prog, syncvars, panicked>>
  BY <1>1, SemaStepKeeps
<1>2. CASE MutexStep(g)
  BY <1>2, MutexStepKeeps
<1>3. CASE Begin(g) \/ RWStep(g) \/ WgStep(g) \/ CondStep(g) \/ OnceStep(g)
  BY <1>3, BodyStepKeeps
<1> QED BY <1>1, <1>2, <1>3 DEF Step

LEMMA StutterKeeps ==
    ASSUME SyncIInv, UNCHANGED vars
    PROVE  SyncIInv'
<1>1. UNCHANGED <<gr, sem, root, syncsema, prog, mutex, rw, wg, cond, once, panicked>>
  BY DEF vars, semavars, syncvars
<1>2. SyncTypes'
  BY <1>1 DEF SyncIInv, SyncTypes
<1>3. PlaceInv' /\ OwnInv' /\ WgInv'
  BY <1>1 DEF SyncIInv, PlaceInv, OwnInv, WgInv, Looking
<1>4. (\A r \in Roots : RootsOf(r)') /\ PairInv'
  BY <1>1 DEF SyncIInv, RootsOf, PairInv, At
<1>5. SemaSafe'
  BY <1>1 DEF SyncIInv, SemaSafe, SemaNoLostWakeup, NwaitCounts, Queued, OnTheWay
<1>6. OneWakeup'
  BY <1>1 DEF SyncIInv, OneWakeup, Count, Awake
<1> QED BY <1>2, <1>3, <1>4, <1>5, <1>6 DEF SyncIInv

LEMMA SyncIInvAlways == Spec => []SyncIInv
<1>1. Init => SyncIInv
  BY InitSafe
<1>2. SyncIInv /\ [Next]_vars => SyncIInv'
  BY StepKeeps, StutterKeeps DEF Next
<1> QED BY <1>1, <1>2, PTL DEF Spec

(* Semaphores lose no wakeup (src/src/pkg/runtime/sema.goc): for any       *)
(* number of goroutines, of addresses that share a SemaRoot and of calls   *)
(* of package sync, while goroutines sleep on an address somebody is under *)
(* way for each unit of its word, and nwait, which semrelease reads        *)
(* without the root's Lock, counts the waiters.                            *)
THEOREM SemaIsSafe == Spec => []SemaSafe
<1>1. SyncIInv => SemaSafe
  BY DEF SyncIInv
<1> QED BY <1>1, SyncIInvAlways, PTL

(* Mutex (src/src/pkg/sync/mutex.go): whatever goroutines meet in Lock and *)
(* Unlock, and even if a program unlocks what another goroutine locked,    *)
(* mutexWoken stands for exactly one wakeup that is under way, and the     *)
(* waiters that are counted with those wakeups are the goroutines that     *)
(* sleep.                                                                  *)
THEOREM OneWakeupAlways == Spec => []OneWakeup
<1>1. SyncIInv => OneWakeup
  BY DEF SyncIInv
<1> QED BY <1>1, SyncIInvAlways, PTL
=============================================================================
