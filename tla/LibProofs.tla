----------------------------- MODULE LibProofs -----------------------------
(***************************************************************************)
(* Theorems about package context, for every set of contexts, every way    *)
(* they are derived from each other, and every choice of deadlines and     *)
(* foreign parents; and about network descriptors and the poller, for any  *)
(* number of goroutines and connections, and whatever calls they make.     *)
(***************************************************************************)
EXTENDS Context, NetInv, FiniteSetTheorems, TLAPS

(***************************************************************************)
(* Package context                                                         *)
(***************************************************************************)

Errs == {"nil", "Canceled", "DeadlineExceeded"}

(* The values of the variables.                                            *)
ContextTypeOK ==
    /\ st \in [Ctxs -> {"none", "live", "cancelling", "cancelled"}]
    /\ err \in [Ctxs -> Errs]
    /\ children \in [Ctxs -> SUBSET Ctxs]
    /\ todo \in [Ctxs -> SUBSET Ctxs]
    /\ remove \in [Ctxs -> BOOLEAN]
    /\ timer \in [Ctxs -> {"nil", "unset", "armed", "gone"}]
    /\ watch \in [Ctxs -> {"none", "waiting", "gone"}]

(* err is set by the cancel that takes a context out of the live ones.     *)
ErrTold == \A c \in Ctxs : err[c] = "nil" <=> st[c] \in {"none", "live"}

(* Where a context below c is, as c is live, being cancelled, cancelled.   *)
PassedOn ==
    \A c, k \in Ctxs : Registers(k, c) =>
      /\ st[c] # "none"
      /\ st[c] = "live" => k \in children[c] \/ st[k] = "cancelled"
      /\ st[c] = "cancelling" => k \in todo[c] \/ st[k] = "cancelled"
      /\ st[c] = "cancelled" => st[k] = "cancelled"

(* A context knows only those that have registered with it.                *)
OwnChildren ==
    \A c, k \in Ctxs : k \in children[c] \cup todo[c] => Registers(k, c)

OnlyForeign == \A c \in Ctxs : watch[c] = "waiting" => c \in Foreign

(* A child in a live parent's map that is cancelled removes itself: its    *)
(* cancel was not the parent's.                                            *)
WillRemove ==
    \A c, k \in Ctxs :
      st[c] = "live" /\ k \in children[c] /\ st[k] \in {"cancelling", "cancelled"} => remove[k]

ContextInv ==
    /\ ContextTypeOK /\ ErrTold /\ PassedOn
    /\ OwnChildren /\ OnlyForeign /\ WillRemove

(* The first step of cancel keeps the invariant.  Without removeFromParent *)
(* it must be known that no live parent has the context in its map.        *)
LEMMA StartInv ==
    ASSUME ContextInv, NEW c \in Ctxs, NEW e \in Errs \ {"nil"}, NEW rm \in BOOLEAN,
           Start(c, e, rm),
           timer' \in [Ctxs -> {"nil", "unset", "armed", "gone"}],
           watch' \in [Ctxs -> {"none", "waiting", "gone"}],
           \A k \in Ctxs : watch'[k] = "waiting" => watch[k] = "waiting",
           rm \/ \A p \in Ctxs : c \in children[p] => st[p] # "live"
    PROVE  ContextInv'
<1>1. ContextTypeOK'
  BY DEF ContextInv, ContextTypeOK, Start, Errs
<1>2. ErrTold'
  BY DEF ContextInv, ContextTypeOK, ErrTold, Start, Errs
<1>3. PassedOn'
  BY DEF ContextInv, ContextTypeOK, PassedOn, Registers, Start
<1>4. OwnChildren'
  BY DEF ContextInv, ContextTypeOK, OwnChildren, Registers, Start
<1>5. OnlyForeign'
  BY DEF ContextInv, OnlyForeign
<1>6. WillRemove'
  BY DEF ContextInv, ContextTypeOK, WillRemove, Start
<1> QED
  BY <1>1, <1>2, <1>3, <1>4, <1>5, <1>6 DEF ContextInv

(* A context that is derived, live or cancelled from the start, keeps the  *)
(* invariant; nothing is below it yet.                                     *)
LEMMA NewInv ==
    ASSUME ContextInv, NEW c \in Ctxs, NewRoot(c) \/ NewChild(c) \/ NewForeign(c)
    PROVE  ContextInv'
<1> USE ContextConstants
<1>0. st[c] = "none" /\ \A k \in Ctxs : ~Registers(k, c)
  BY DEF ContextInv, PassedOn, NewRoot, NewChild, NewForeign
<1>1. CASE NewRoot(c)
  BY <1>1, <1>0 DEF ContextInv, ContextTypeOK, NewRoot, NewTimer, ErrTold, OnlyForeign, PassedOn,
      OwnChildren, WillRemove, Registers
<1>2. CASE NewChild(c)
  <2> DEFINE p == Parent[c]
  <2>0. p \in Ctxs /\ p # c /\ st[p] \in {"live", "cancelled"} /\ (Alive(p) <=> st[p] = "live")
    BY <1>0, <1>2 DEF ContextInv, ContextTypeOK, ErrTold, NewChild, Returned, Free, Alive
  <2>1. ContextTypeOK'
    BY <1>2, <2>0 DEF ContextInv, ContextTypeOK, NewChild, NewTimer
  <2>2. ErrTold' /\ OnlyForeign'
    BY <1>2, <2>0 DEF ContextInv, ContextTypeOK, NewChild, ErrTold, OnlyForeign, Alive
  <2>3. PassedOn'
    BY <1>0, <1>2, <2>0 DEF ContextInv, ContextTypeOK, NewChild, PassedOn, Registers
  <2>4. OwnChildren'
    BY <1>0, <1>2, <2>0 DEF ContextInv, ContextTypeOK, NewChild, OwnChildren, Registers
  <2>5. WillRemove'
    BY <1>0, <1>2, <2>0 DEF ContextInv, OwnChildren, Registers, ContextTypeOK, NewChild, WillRemove
  <2> QED
    BY <2>1, <2>2, <2>3, <2>4, <2>5 DEF ContextInv
<1>3. CASE NewForeign(c)
  BY <1>3, <1>0 DEF ContextInv, ContextTypeOK, NewForeign, NewTimer, ErrTold, OnlyForeign,
      PassedOn, OwnChildren, WillRemove, Registers
<1> QED
  BY <1>1, <1>2, <1>3

(* The later steps of a cancel keep the invariant.                         *)
LEMMA CancelInv ==
    ASSUME ContextInv, NEW c \in Ctxs,
           \/ \E k \in Ctxs : ChildDone(c, k)
           \/ CancelEnd(c) \/ RemoveChild(c)
    PROVE  ContextInv'
<1> USE ContextConstants
<1>1. ASSUME NEW k \in Ctxs, ChildDone(c, k)
      PROVE  ContextInv'
  BY <1>1 DEF ContextInv, ContextTypeOK, ErrTold, PassedOn, OwnChildren, OnlyForeign, WillRemove,
              Registers, ChildDone
<1>2. CASE CancelEnd(c)
  BY <1>2 DEF ContextInv, ContextTypeOK, ErrTold, OnlyForeign, CancelEnd, PassedOn, Registers,
      OwnChildren, WillRemove
<1>3. CASE RemoveChild(c)
  BY <1>3 DEF ContextInv, ContextTypeOK, ErrTold, OnlyForeign, RemoveChild, Without, PassedOn,
      OwnChildren, Registers, WillRemove
<1> QED
  BY <1>1, <1>2, <1>3

(* Every step of package context keeps the invariant.                      *)
LEMMA NextInv == ContextInv /\ [ContextNext]_cvars => ContextInv'
<1> SUFFICES ASSUME ContextInv, [ContextNext]_cvars PROVE ContextInv'
  OBVIOUS
<1> USE ContextConstants
<1>1. CASE UNCHANGED cvars
  BY <1>1 DEF ContextInv, ContextTypeOK, ErrTold, PassedOn, OwnChildren, OnlyForeign, WillRemove,
              Registers, cvars
<1>2. ASSUME NEW c \in Ctxs, NewRoot(c) \/ NewChild(c) \/ NewForeign(c)
      PROVE  ContextInv'
  BY <1>2, NewInv
<1>3. ASSUME NEW c \in Ctxs, Cancel(c) \/ DeadlinePassed(c)
      PROVE  ContextInv'
  BY <1>3, StartInv DEF Cancel, DeadlinePassed, Errs, ContextInv, ContextTypeOK
<1>4. ASSUME NEW c \in Ctxs, Fire(c)
      PROVE  ContextInv'
  <2>1. timer' \in [Ctxs -> {"nil", "unset", "armed", "gone"}] /\ UNCHANGED watch
    BY <1>4 DEF Fire, ContextInv, ContextTypeOK
  <2>2. CASE st[c] = "live"
    BY <1>4, <2>2, <2>1, StartInv DEF Fire, Errs, ContextInv, ContextTypeOK
  <2>3. CASE st[c] # "live"
    BY <1>4, <2>1, <2>3 DEF Fire, ContextInv, ContextTypeOK, ErrTold, PassedOn, OwnChildren,
                            OnlyForeign, WillRemove, Registers
  <2> QED
    BY <2>2, <2>3
<1>5. ASSUME NEW c \in Ctxs, NEW k \in Ctxs, CancelChild(c, k)
      PROVE  ContextInv'
  <2>1. Start(k, err[c], FALSE) /\ UNCHANGED <<timer, watch>>
    BY <1>5 DEF CancelChild
  <2>2. err[c] \in Errs \ {"nil"}
    BY <1>5 DEF CancelChild, ContextInv, ContextTypeOK, ErrTold
  <2>3. \A p \in Ctxs : k \in children[p] => st[p] # "live"
    BY <1>5 DEF CancelChild, ContextInv, OwnChildren, Registers
  <2> QED
    BY <2>1, <2>2, <2>3, StartInv DEF ContextInv, ContextTypeOK
<1>6. ASSUME NEW c \in Ctxs, ParentDone(c)
      PROVE  ContextInv'
  <2>1. /\ watch' \in [Ctxs -> {"none", "waiting", "gone"}] /\ UNCHANGED timer
        /\ \A k \in Ctxs : watch'[k] = "waiting" => watch[k] = "waiting"
    BY <1>6 DEF ParentDone, ContextInv, ContextTypeOK
  <2>2. CASE st[c] = "live"
    <3>1. Start(c, err[Parent[c]], FALSE) /\ err[Parent[c]] \in Errs \ {"nil"}
      BY <1>6, <2>2 DEF ParentDone, ContextInv, ContextTypeOK
    <3>2. \A p \in Ctxs : c \notin children[p]
      BY <1>6 DEF ParentDone, ContextInv, OnlyForeign, OwnChildren, Registers
    <3> QED
      BY <2>1, <3>1, <3>2, StartInv DEF ContextInv, ContextTypeOK
  <2>3. CASE st[c] # "live"
    BY <1>6, <2>1, <2>3 DEF ParentDone, ContextInv, ContextTypeOK, ErrTold, PassedOn, OwnChildren,
                            OnlyForeign, WillRemove, Registers
  <2> QED
    BY <2>2, <2>3
<1>7. ASSUME NEW c \in Ctxs, SetTimer(c) \/ StopTimer(c) \/ WatchEnds(c)
      PROVE  ContextInv'
  BY <1>7 DEF SetTimer, StopTimer, WatchEnds, ContextInv, ContextTypeOK, ErrTold, PassedOn,
              OwnChildren, OnlyForeign, WillRemove, Registers
<1>8. ASSUME NEW c \in Ctxs,
             \/ \E k \in Ctxs : ChildDone(c, k)
             \/ CancelEnd(c) \/ RemoveChild(c)
      PROVE  ContextInv'
  BY <1>8, CancelInv
<1> QED
  BY <1>1, <1>2, <1>3, <1>4, <1>5, <1>6, <1>7, <1>8 DEF ContextNext, ContextProgress

(* ContextInv is an invariant of package context.                          *)
LEMMA InvHolds == ContextSpec => []ContextInv
<1>1. ContextInit => ContextInv
  BY ContextConstants
  DEF ContextInit, ContextInv, ContextTypeOK, ErrTold, PassedOn, OwnChildren, OnlyForeign, WillRemove,
      Registers, Errs
<1> QED
  BY <1>1, NextInv, PTL DEF ContextSpec

(* When cancel returns, every context that was derived from the cancelled  *)
(* one is cancelled too, in every tree of contexts and for every order in  *)
(* which contexts are derived, cancelled and run into their deadlines.     *)
THEOREM CancellationReachesAll == ContextSpec => []CancelledBelow
<1>1. ContextInv => CancelledBelow
  BY DEF ContextInv, PassedOn, CancelledBelow
<1> QED
  BY <1>1, InvHolds, PTL

(* A live context keeps no child whose cancel has returned.                *)
THEOREM CancelledAreForgotten == ContextSpec => []Forgotten
<1>1. ContextInv => Forgotten
  BY DEF ContextInv, WillRemove, Forgotten
<1> QED
  BY <1>1, InvHolds, PTL

(* Both, as module MCLib checks them for a tree of five.                   *)
THEOREM ContextIsSafe == ContextSpec => []ContextSafe
<1>1. CancelledBelow /\ Forgotten => ContextSafe
  BY DEF ContextSafe
<1> QED
  BY <1>1, CancellationReachesAll, CancelledAreForgotten, PTL

(***************************************************************************)
(* Network descriptors: what a call and a reference stand for              *)
(***************************************************************************)

(* The call of a goroutine that is in one, or about to begin it.           *)
LEMMA CallFacts ==
  ASSUME NetTypes, InCall, NEW i \in Goroutines, g[i].pc # "idle" \/ Ready(i)
  PROVE  /\ g[i].i \in DOMAIN NetPrograms[nprog].calls[i]
         /\ Call(i) \in NetCalls /\ Call(i).fd \in Fds
         /\ Mode(i) \in Modes /\ Mutex(i) \in Mutexes
         /\ Mu(i) \in MuRec
         /\ fd[Call(i).fd] \in FdRec
<1>1. g[i] \in GRec /\ g[i].i \in Nat \ {0}
  BY DEF NetTypes, GRec
<1>2. NetPrograms[nprog].calls[i] \in Seq(NetCalls)
  BY NetConstants DEF NetTypes
<1>3. g[i].i <= Len(NetPrograms[nprog].calls[i])
  BY DEF InCall, Ready
<1>4. g[i].i \in DOMAIN NetPrograms[nprog].calls[i]
  BY <1>1, <1>2, <1>3
<1>5. Call(i) \in NetCalls
  BY <1>2, <1>4 DEF Call
<1>6. Call(i).fd \in Fds
  BY <1>5 DEF NetCalls
<1>7. Mode(i) \in Modes /\ Mutex(i) \in Mutexes
  BY DEF Mode, Mutex, Modes, Mutexes
<1>8. Mu(i) \in MuRec /\ fd[Call(i).fd] \in FdRec
  BY <1>6, <1>7 DEF Mu, NetTypes
<1> QED
  BY <1>4, <1>5, <1>6, <1>7, <1>8

(* A goroutine that stays in its call has the same one after the step.     *)
LEMMA SameCall ==
  ASSUME NEW i \in Goroutines, nprog' = nprog, g'[i].i = g[i].i
  PROVE  /\ Call(i)' = Call(i) /\ Mode(i)' = Mode(i) /\ Mutex(i)' = Mutex(i)
         /\ \A f, x : Uses(i, f, x)' <=> Uses(i, f, x)
BY DEF Call, Mode, Mutex, Does, Uses

(* References are held by goroutines only: there are finitely many.        *)
LEMMA HoldersFinite ==
  ASSUME NEW f, NEW x
  PROVE  IsFiniteSet(Holders(f, x)) /\ Cardinality(Holders(f, x)) \in Nat
BY NetConstants, FS_Subset, FS_CardinalityType DEF Holders

(* No raw call is made on a netFD that is closed.                          *)
LEMMA RawIsOpen ==
  ASSUME NetTypes, InCall, Life, RawAlone, NEW i \in Goroutines, g[i].pc # "idle" \/ Ready(i), Mutex(i) = "raw"
  PROVE  ~fdmu[Call(i).fd]["net"].closed
<1>1. g[i].i \in DOMAIN NetPrograms[nprog].calls[i] /\ Call(i).fd \in Fds
  BY CallFacts
<1>2. Call(i).op \in Raw
  BY DEF Mutex, Does, Raw
<1>3. ASSUME fdmu[Call(i).fd]["net"].closed PROVE FALSE
  <2>1. Closes(Call(i).fd)
    BY <1>1, <1>3 DEF Life
  <2>0. PICK j \in Goroutines :
          \E k \in DOMAIN NetPrograms[nprog].calls[j] :
            NetPrograms[nprog].calls[j][k].op = "Close" /\ NetPrograms[nprog].calls[j][k].fd = Call(i).fd
    BY <2>1 DEF Closes
  <2>2. PICK k \in DOMAIN NetPrograms[nprog].calls[j] :
          NetPrograms[nprog].calls[j][k].op = "Close" /\ NetPrograms[nprog].calls[j][k].fd = Call(i).fd
    BY <2>0
  <2>3. Apart(Call(i), NetPrograms[nprog].calls[j][k])
    BY <1>1, <2>2 DEF RawAlone, NetTypes, Call
  <2> QED
    BY <2>2, <2>3, <1>2 DEF Apart
<1> QED
  BY <1>3

(* Whoever holds a reference finds the socket open and the PollDesc its    *)
(* own: a netFD is destroyed when ref is 0, and ref counts.                *)
LEMMA HolderFacts ==
  ASSUME NetIInv, RawAlone, NEW i \in Goroutines, g[i].pc \in Holding
  PROVE  /\ fd[Call(i).fd].sock = "open"
         /\ Pd(i) = fd[Call(i).fd].pd /\ Pd(i) # Nil
         /\ Pd(i) \in DOMAIN pds /\ Pd(i) \in Nat /\ pds[Pd(i)] \in PdRec /\ pds[Pd(i)].fd = Call(i).fd
         /\ Mu(i).ref > 0
<1> DEFINE f == Call(i).fd
<1>0. NetTypes /\ InCall /\ Counted /\ Life /\ Owned
  BY DEF NetIInv
<1>1. g[i].pc # "idle"
  BY DEF Holding, Locking
<1>2. f \in Fds /\ Mutex(i) \in Mutexes /\ fd[f] \in FdRec
  BY <1>0, <1>1, CallFacts
<1>3. i \in Holders(f, Mutex(i))
  BY DEF Holders, Uses
<1>4. Cardinality(Holders(f, Mutex(i))) # 0
  BY <1>3, HoldersFinite, FS_EmptySet
<1>5. Mu(i).ref > 0
  BY <1>0, <1>2, <1>4, HoldersFinite DEF Mu, Counted
<1>6. ~fdmu[f]["net"].closed \/ fdmu[f]["net"].ref > 0
  BY <1>5, <1>0, <1>1, RawIsOpen, <1>2 DEF Mu, Mutexes
<1>7. fd[f].sock # "none"
  BY <1>0, <1>1 DEF InCall
<1>8. fd[f].sock = "open" /\ fd[f].pd # Nil
  BY <1>0, <1>2, <1>6, <1>7 DEF Life, FdRec
<1>9. fd[f].pd \in DOMAIN pds /\ pds[fd[f].pd].fd = f /\ fd[f].raw = fd[f].pd
  BY <1>0, <1>2, <1>8 DEF Owned
<1>10. Pd(i) = fd[f].pd
  BY <1>9 DEF Pd
<1>11. fd[f].pd \in Nat /\ pds[fd[f].pd] \in PdRec
  BY <1>0, <1>9 DEF NetTypes
<1> QED
  BY <1>5, <1>8, <1>9, <1>10, <1>11

(* Of one PollDesc and mode, one goroutine is in the middle of its I/O.    *)
LEMMA OneSide ==
  ASSUME NetIInv, RawAlone, NEW i \in Goroutines, NEW j \in Goroutines,
         g[i].pc \in Locking, g[j].pc \in Locking, Pd(i) = Pd(j), Mode(i) = Mode(j)
  PROVE  i = j
<1>0. NetTypes /\ InCall /\ Locked
  BY DEF NetIInv
<1>1. g[i].pc \in Holding /\ g[j].pc \in Holding /\ g[i].pc # "idle" /\ g[j].pc # "idle"
  BY DEF Holding, Locking
<1>2. Call(i).fd = Call(j).fd
  BY <1>1, HolderFacts
<1>3. Call(i).op \in IO /\ Call(j).op \in IO
  BY <1>0, <1>1 DEF InCall, OpsAt
<1>4. /\ g[i].i \in DOMAIN NetPrograms[nprog].calls[i]
      /\ g[j].i \in DOMAIN NetPrograms[nprog].calls[j]
  BY <1>0, <1>1, CallFacts
<1>5. Apart(Call(i), Call(j)) /\ Apart(Call(j), Call(i))
  BY <1>0, <1>4 DEF RawAlone, NetTypes, Call
<1>6. Mutex(i) = Mutex(j)
  BY <1>2, <1>3, <1>5 DEF Apart, Mutex, Mode, Does, IO
<1>7. Uses(j, Call(i).fd, Mutex(i))
  BY <1>2, <1>6 DEF Uses
<1> QED
  BY <1>0, <1>7 DEF Locked

(* One goroutine more or less among those that hold a reference.           *)
LEMMA HoldersMore ==
  ASSUME NEW f, NEW x, NEW i \in Goroutines, i \notin Holders(f, x), Holders(f, x)' = Holders(f, x) \cup {i}
  PROVE  Cardinality(Holders(f, x)') = Cardinality(Holders(f, x)) + 1
BY HoldersFinite, FS_AddElement

(* One reference less.                                                     *)
LEMMA HoldersLess ==
  ASSUME NEW f, NEW x, NEW i \in Goroutines, i \in Holders(f, x), Holders(f, x)' = Holders(f, x) \ {i}
  PROVE  Cardinality(Holders(f, x)') = Cardinality(Holders(f, x)) - 1
BY HoldersFinite, FS_RemoveElement

(* What a step of i on its fdMutex does: it leaves mu there, and goes on   *)
(* in s.                                                                   *)
MutexMove(i, mu, s) ==
  /\ mu \in MuRec /\ s \in GRec
  /\ SetMu(i, mu) /\ g' = [g EXCEPT ![i] = s]
  /\ UNCHANGED <<nprog, fd, pds, cache, net, firing, throw>>
  /\ g[i].pc \notin {"wait", "parked", "woken", "evict"} \cup Ending
  /\ s.pc \notin {"wait", "parked", "woken"}
  /\ s.pc # "idle" => s.i = g[i].i /\ Call(i).op \in OpsAt(s.pc)
  /\ \/ (g[i].pc \in Holding <=> s.pc \in Holding) /\ mu.ref = Mu(i).ref
     \/ g[i].pc \notin Holding /\ s.pc \in Holding /\ mu.ref = Mu(i).ref + 1 /\ ~Mu(i).closed
     \/ g[i].pc \in Holding /\ s.pc \notin Holding /\ mu.ref = Mu(i).ref - 1
  /\ s.pc \in Locking => Mode(i) \in mu.lock /\ (g[i].pc \notin Locking => Mode(i) \notin Mu(i).lock)
  /\ \A m \in Mu(i).lock : m \notin mu.lock => g[i].pc \in Locking /\ s.pc \notin Locking /\ m = Mode(i)
  /\ \/ mu.closed = Mu(i).closed /\ s.pc # "evict"
     \/ ~Mu(i).closed /\ mu.closed /\ s.pc = "evict"
  /\ s.pc \in Ending => s.pc = "destroy" /\ mu.closed /\ mu.ref = 0 /\ Mutex(i) = "net" /\ g[i].pc \in Holding

(* A step on a fdMutex keeps the types.                                    *)
LEMMA MutexTypes ==
  ASSUME NetIInv, NEW i \in Goroutines, g[i].pc # "idle" \/ Ready(i), NEW mu, NEW s, MutexMove(i, mu, s)
  PROVE  /\ NetTypes'
         /\ g'[i] = s /\ \A j \in Goroutines \ {i} : g'[j] = g[j]
         /\ \A f \in Fds, x \in Mutexes :
              fdmu'[f][x] = IF Uses(i, f, x) THEN mu ELSE fdmu[f][x]
BY CallFacts DEF NetIInv, MutexMove, SetMu, NetTypes, Uses

(* What the call of i, and those of the others, are after such a step.     *)
LEMMA MutexCalls ==
  ASSUME NetIInv, NEW i \in Goroutines, g[i].pc # "idle" \/ Ready(i), NEW mu, NEW s, MutexMove(i, mu, s)
  PROVE  /\ \A j \in Goroutines : j # i \/ s.pc # "idle" =>
              /\ Call(j)' = Call(j) /\ Mode(j)' = Mode(j) /\ Mutex(j)' = Mutex(j) /\ Pd(j)' = Pd(j)
              /\ \A f, x : Uses(j, f, x)' <=> Uses(j, f, x)
         /\ InCall'
<1>1. g'[i] = s /\ \A j \in Goroutines \ {i} : g'[j] = g[j]
  BY MutexTypes
<1>2. nprog' = nprog /\ fd' = fd /\ (s.pc # "idle" => s.i = g[i].i /\ Call(i).op \in OpsAt(s.pc))
  BY DEF MutexMove
<1>3. ASSUME NEW j \in Goroutines, j # i \/ s.pc # "idle"
      PROVE  /\ Call(j)' = Call(j) /\ Mode(j)' = Mode(j) /\ Mutex(j)' = Mutex(j) /\ Pd(j)' = Pd(j)
             /\ \A f, x : Uses(j, f, x)' <=> Uses(j, f, x)
  BY <1>1, <1>2, <1>3, SameCall DEF Pd
<1>4. ASSUME NEW j \in Goroutines, g'[j].pc # "idle"
      PROVE  /\ g'[j].i <= Len(NetPrograms[nprog].calls[j])
             /\ Call(j).op \in OpsAt(g'[j].pc) /\ fd[Call(j).fd].sock # "none"
  <2>1. CASE j # i
    BY <2>1, <1>1, <1>4 DEF NetIInv, InCall
  <2>2. CASE j = i
    <3>1. Call(i).op \in OpsAt(s.pc) /\ s.i = g[i].i
      BY <1>1, <1>2, <1>4, <2>2
    <3>2. CASE g[i].pc # "idle"
      BY <1>1, <2>2, <3>1, <3>2 DEF NetIInv, InCall
    <3>3. CASE Ready(i)
      <4>1. fd[Call(i).fd].sock # "none"
        BY <1>1, <1>4, <2>2, <3>1, <3>3 DEF MutexMove, GRec, OpsAt, IO, Refs, Ready, Does
      <4> QED
        BY <1>1, <2>2, <3>1, <3>3, <4>1 DEF Ready
    <3> QED
      BY <3>2, <3>3
  <2> QED
    BY <2>1, <2>2
<1>5. InCall'
  BY <1>1, <1>3, <1>2, <1>4 DEF InCall
<1> QED
  BY <1>3, <1>5

(* ref still counts those who hold the fdMutex.                            *)
LEMMA MutexCounts ==
  ASSUME NetIInv, NEW i \in Goroutines, g[i].pc # "idle" \/ Ready(i), NEW mu, NEW s, MutexMove(i, mu, s)
  PROVE  Counted'
<1>0. NetTypes /\ InCall /\ Counted
  BY DEF NetIInv
<1>1. /\ g'[i] = s /\ \A j \in Goroutines \ {i} : g'[j] = g[j]
      /\ \A f \in Fds, x \in Mutexes : fdmu'[f][x] = IF Uses(i, f, x) THEN mu ELSE fdmu[f][x]
  BY MutexTypes
<1>2. \A j \in Goroutines : j # i \/ s.pc # "idle" => \A f, x : Uses(j, f, x)' <=> Uses(j, f, x)
  BY MutexCalls
<1>3. ASSUME NEW f \in Fds, NEW x \in Mutexes PROVE fdmu'[f][x].ref = Cardinality(Holders(f, x)')
  <2>1. fdmu[f][x].ref = Cardinality(Holders(f, x)) /\ Cardinality(Holders(f, x)) \in Nat
    BY <1>0, <1>3, HoldersFinite DEF Counted
  <2>2. s.pc \in Holding => s.pc # "idle"
    BY DEF Holding, Locking
  <2>3. ASSUME NEW j \in Goroutines, j # i PROVE j \in Holders(f, x)' <=> j \in Holders(f, x)
    BY <1>1, <1>2, <2>3 DEF Holders
  <2>4. i \in Holders(f, x)' <=> s.pc \in Holding /\ Uses(i, f, x)
    BY <1>1, <1>2, <2>2 DEF Holders
  <2>5. i \in Holders(f, x) <=> g[i].pc \in Holding /\ Uses(i, f, x)
    BY DEF Holders
  <2>6. Holders(f, x)' \subseteq Goroutines /\ Holders(f, x) \subseteq Goroutines
    BY DEF Holders
  <2>7. CASE ~Uses(i, f, x)
    BY <2>3, <2>4, <2>5, <2>6, <2>7, <1>1, <1>3, <2>1
  <2>8. CASE Uses(i, f, x)
    <3>0. Mu(i) = fdmu[f][x] /\ fdmu'[f][x] = mu
      BY <1>1, <1>3, <2>8 DEF Uses, Mu
    <3>1. CASE (g[i].pc \in Holding <=> s.pc \in Holding) /\ mu.ref = Mu(i).ref
      BY <2>3, <2>4, <2>5, <2>6, <3>1, <2>1, <3>0
    <3>2. CASE g[i].pc \notin Holding /\ s.pc \in Holding /\ mu.ref = Mu(i).ref + 1
      BY <2>3, <2>4, <2>5, <2>6, <2>8, <3>2, HoldersMore, <2>1, <3>0
    <3>3. CASE g[i].pc \in Holding /\ s.pc \notin Holding /\ mu.ref = Mu(i).ref - 1
      BY <2>3, <2>4, <2>5, <2>6, <2>8, <3>3, HoldersLess, <2>1, <3>0
    <3> QED
      BY <3>1, <3>2, <3>3 DEF MutexMove
  <2> QED
    BY <2>7, <2>8
<1> QED
  BY <1>3 DEF Counted

(* A mode of the fdMutex is still locked by one goroutine at most.         *)
LEMMA MutexLocks ==
  ASSUME NetIInv, NEW i \in Goroutines, g[i].pc # "idle" \/ Ready(i), NEW mu, NEW s, MutexMove(i, mu, s)
  PROVE  Locked'
<1>0. NetTypes /\ InCall /\ Locked
  BY DEF NetIInv
<1>1. /\ g'[i] = s /\ \A j \in Goroutines \ {i} : g'[j] = g[j]
      /\ \A f \in Fds, x \in Mutexes : fdmu'[f][x] = IF Uses(i, f, x) THEN mu ELSE fdmu[f][x]
  BY MutexTypes
<1>2. \A j \in Goroutines : j # i \/ s.pc # "idle" =>
        /\ Call(j)' = Call(j) /\ Mode(j)' = Mode(j) /\ Mutex(j)' = Mutex(j)
        /\ \A f, x : Uses(j, f, x)' <=> Uses(j, f, x)
  BY MutexCalls
<1>3. s.pc \in Locking => s.pc # "idle"
  BY DEF Locking
<1>4. \A j \in Goroutines : g[j].pc \in Locking => g[j].pc # "idle"
  BY DEF Locking
<1>5. /\ s.pc \in Locking => Mode(i) \in mu.lock /\ (g[i].pc \notin Locking => Mode(i) \notin Mu(i).lock)
      /\ \A m \in Mu(i).lock : m \notin mu.lock => g[i].pc \in Locking /\ s.pc \notin Locking /\ m = Mode(i)
  BY DEF MutexMove
<1>6. ASSUME NEW j \in Goroutines, g'[j].pc \in Locking
      PROVE  /\ Mode(j) \in fdmu'[Call(j).fd][Mutex(j)].lock
             /\ \A k \in Goroutines \ {j} :
                  g'[k].pc \in Locking /\ Uses(k, Call(j).fd, Mutex(j)) => Mode(k) # Mode(j)
  <2>1. CASE j = i
    <3>1. Mode(i) \in fdmu'[Call(i).fd][Mutex(i)].lock
      BY <1>0, CallFacts, <1>1, <1>5, <1>6, <2>1 DEF Uses
    <3>2. ASSUME NEW k \in Goroutines \ {i}, g'[k].pc \in Locking, Uses(k, Call(i).fd, Mutex(i)), Mode(k) = Mode(i)
          PROVE  FALSE
      BY <1>0, <1>1, <3>2, <1>5, <1>6, <2>1 DEF Locked, Uses, Mu
    <3> QED
      BY <2>1, <3>1, <3>2
  <2>2. CASE j # i
    <3>1. g[j].pc \in Locking /\ g'[j] = g[j]
      BY <1>1, <1>6, <2>2
    <3>2. Mode(j) \in Mu(j).lock /\ Call(j).fd \in Fds /\ Mutex(j) \in Mutexes
      BY <1>0, <1>4, <3>1, CallFacts DEF Locked
    <3>3. ASSUME NEW k \in Goroutines \ {j}, g'[k].pc \in Locking, Uses(k, Call(j).fd, Mutex(j)), Mode(k) = Mode(j)
          PROVE  FALSE
      <4>1. CASE k # i
        BY <1>0, <1>1, <3>1, <3>3, <4>1 DEF Locked
      <4>2. CASE k = i
        BY <3>3, <4>2, <1>1, <1>5, <3>2, <1>0, <3>1 DEF Uses, Mu, Locked
      <4> QED
        BY <4>1, <4>2
    <3>4. Mode(j) \in fdmu'[Call(j).fd][Mutex(j)].lock
      <4>1. CASE ~Uses(i, Call(j).fd, Mutex(j))
        BY <1>1, <3>2, <4>1 DEF Mu
      <4>2. CASE Uses(i, Call(j).fd, Mutex(j))
        <5>1. Mu(j) = Mu(i) /\ fdmu'[Call(j).fd][Mutex(j)] = mu
          BY <1>1, <3>2, <4>2 DEF Uses, Mu
        <5>2. ASSUME Mode(j) \notin mu.lock PROVE FALSE
          BY <1>5, <3>2, <5>1, <5>2, <1>0, <2>2, <3>1, <4>2 DEF Locked
        <5> QED
          BY <5>1, <5>2
      <4> QED
        BY <4>1, <4>2
    <3> QED
      BY <3>3, <3>4
  <2> QED
    BY <2>1, <2>2
<1>7. ASSUME NEW j \in Goroutines, g'[j].pc \in Locking
      PROVE  /\ Mode(j)' \in Mu(j)'.lock
             /\ \A k \in Goroutines \ {j} :
                  g'[k].pc \in Locking /\ Uses(k, Call(j).fd, Mutex(j))' => Mode(k)' # Mode(j)'
  BY <1>1, <1>2, <1>3, <1>7, <1>6 DEF Mu, Uses
<1> QED
  BY <1>7 DEF Locked

(* A netFD is destroyed by the last one to leave it.                       *)
LEMMA MutexLife ==
  ASSUME NetIInv, NEW i \in Goroutines, g[i].pc # "idle" \/ Ready(i), NEW mu, NEW s, MutexMove(i, mu, s)
  PROVE  Life'
<1>0. NetTypes /\ InCall /\ Life /\ Counted
  BY DEF NetIInv
<1>1. \A f \in Fds, x \in Mutexes : fdmu'[f][x] = IF Uses(i, f, x) THEN mu ELSE fdmu[f][x]
  BY MutexTypes
<1>2. nprog' = nprog /\ fd' = fd
  BY DEF MutexMove
<1>3. ASSUME NEW f \in Fds
      PROVE  /\ ~fdmu'[f]["raw"].closed
             /\ fdmu'[f]["net"].closed => Closes(f) /\ fd[f].sock # "none"
             /\ ~fdmu'[f]["net"].closed \/ fdmu'[f]["net"].ref > 0 =>
                  fd[f].sock # "closed" /\ (fd[f].sock = "open" => fd[f].pd # Nil)
             /\ fd[f].sock = "none" => fd[f].pd = Nil
  <2>0. s.pc # "idle" => Call(i).op \in OpsAt(s.pc)
    BY DEF MutexMove
  <2>1. s.pc = "evict" => Mutex(i) = "net" /\ Call(i).op = "Close"
    BY <2>0 DEF OpsAt, Locking, Mutex, Does
  <2>2. CASE ~Uses(i, f, "net") /\ ~Uses(i, f, "raw")
    BY <1>0, <1>1, <1>3, <2>2 DEF Life, Mutexes
  <2>3. CASE Uses(i, f, "raw")
    BY <1>1, <1>3, <2>3, <2>1, <1>0 DEF Mutexes, Uses, Mu, MutexMove, Life
  <2>4. CASE Uses(i, f, "net")
    <3>1. Mu(i) = fdmu[f]["net"] /\ fdmu'[f]["net"] = mu /\ fdmu'[f]["raw"] = fdmu[f]["raw"]
      BY <1>1, <1>3, <2>4 DEF Mutexes, Uses, Mu
    <3>2. mu.closed => Closes(f) /\ fd[f].sock # "none"
      <4>1. CASE mu.closed = Mu(i).closed
        BY <1>0, <1>3, <3>1, <4>1 DEF Life
      <4>2. CASE s.pc = "evict"
        BY <1>0, CallFacts, <2>1, <2>4, <4>2 DEF Closes, Uses, Call, InCall, Ready, Does
      <4> QED
        BY <4>1, <4>2 DEF MutexMove
    <3>3. ASSUME ~mu.closed \/ mu.ref > 0 PROVE ~Mu(i).closed \/ Mu(i).ref > 0
      BY <1>0, CallFacts, <3>3 DEF MuRec, MutexMove
    <3> QED
      BY <1>0, <1>3, <3>1, <3>2, <3>3 DEF Life
  <2> QED
    BY <2>2, <2>3, <2>4
<1>4. \A f : Closes(f)' <=> Closes(f)
  BY <1>2 DEF Closes
<1> QED
  BY <1>2, <1>3, <1>4 DEF Life

(* The closer, and whoever destroys the netFD, is still the only one.      *)
LEMMA MutexEnds ==
  ASSUME NetIInv, NEW i \in Goroutines, g[i].pc # "idle" \/ Ready(i), NEW mu, NEW s, MutexMove(i, mu, s)
  PROVE  Closing' /\ Evicting' /\ Destroying'
<1>0. NetTypes /\ InCall /\ Life /\ Counted /\ Closing /\ Evicting /\ Destroying
  BY DEF NetIInv
<1>1. /\ g'[i] = s /\ \A j \in Goroutines \ {i} : g'[j] = g[j]
      /\ \A f \in Fds, x \in Mutexes : fdmu'[f][x] = IF Uses(i, f, x) THEN mu ELSE fdmu[f][x]
  BY MutexTypes
<1>2. \A j \in Goroutines : j # i \/ s.pc # "idle" => Call(j)' = Call(j)
  BY MutexCalls
<1>3. nprog' = nprog /\ fd' = fd /\ pds' = pds /\ g[i].pc \notin {"evict"} \cup Ending
  BY DEF MutexMove
<1>4. Mu(i) \in MuRec /\ mu \in MuRec /\ Call(i).fd \in Fds /\ Mutex(i) \in Mutexes
  BY <1>0, CallFacts DEF MutexMove
<1>5. s.pc = "evict" => Mutex(i) = "net" /\ ~Mu(i).closed /\ mu.closed
  BY DEF MutexMove, OpsAt, Locking, Mutex, Does
<1>6. s.pc # "evict" => mu.closed = Mu(i).closed
  BY DEF MutexMove
<1>7. \A j \in Goroutines : \A f : j # i => (Evicts(j, f)' <=> Evicts(j, f))
  BY <1>1, <1>2 DEF Evicts
<1>8. \A f : Evicts(i, f)' <=> s.pc = "evict" /\ Call(i).fd = f
  BY <1>1, <1>2 DEF Evicts
<1>9. \A f : ~Evicts(i, f)
  BY <1>3 DEF Evicts
<1>10. \A f \in Fds : f # Call(i).fd \/ Mutex(i) # "net" => fdmu'[f]["net"] = fdmu[f]["net"]
  BY <1>1 DEF Uses, Mutexes
<1>11. Mutex(i) = "net" => fdmu'[Call(i).fd]["net"] = mu /\ Mu(i) = fdmu[Call(i).fd]["net"]
  BY <1>1, <1>4 DEF Uses, Mutexes, Mu
<1>12. Closing'
  BY <1>3, <1>0, <1>5, <1>7, <1>8, <1>9, <1>10, <1>6, <1>11 DEF Closing
<1>13. Evicting'
  <2> SUFFICES ASSUME NEW j \in Goroutines, g'[j].pc = "evict"
               PROVE  /\ fdmu'[Call(j)'.fd]["net"].closed
                      /\ \A k \in Goroutines \ {j} : ~Evicts(k, Call(j).fd)'
    BY DEF Evicting
  <2>0. \A k \in Goroutines : Evicts(k, Call(j).fd)' <=> g'[k].pc = "evict" /\ Call(k)'.fd = Call(j)'.fd
    BY DEF Evicts
  <2>1. CASE j = i
    <3>1. s.pc = "evict" /\ Call(i)' = Call(i)
      BY <1>1, <1>2, <2>1
    <3>2. ASSUME NEW k \in Goroutines \ {i}, g'[k].pc = "evict", Call(k)'.fd = Call(i)'.fd PROVE FALSE
      BY <1>1, <1>2, <3>2, <1>0, <1>5, <1>11, <3>1 DEF Evicting
    <3> QED
      BY <1>5, <1>11, <2>0, <2>1, <3>1, <3>2
  <2>2. CASE j # i
    <3>1. g[j].pc = "evict" /\ Call(j)' = Call(j)
      BY <1>1, <1>2, <2>2
    <3>2. fdmu[Call(j).fd]["net"].closed /\ \A k \in Goroutines \ {j} : ~Evicts(k, Call(j).fd)
      BY <1>0, <3>1 DEF Evicting
    <3>3. Call(j).fd \in Fds
      BY <1>0, <3>1, CallFacts
    <3>4. fdmu'[Call(j).fd]["net"].closed
      BY <1>5, <1>6, <1>10, <1>11, <3>2, <3>3
    <3>5. ASSUME NEW k \in Goroutines \ {j}, g'[k].pc = "evict", Call(k)'.fd = Call(j).fd PROVE FALSE
      <4>1. CASE k # i
        BY <1>1, <1>2, <3>2, <3>5, <4>1 DEF Evicts
      <4>2. CASE k = i
        BY <1>1, <1>2, <3>5, <4>2, <1>5, <1>11, <3>2
      <4> QED
        BY <4>1, <4>2
    <3> QED
      BY <2>0, <3>1, <3>4, <3>5
  <2> QED
    BY <2>1, <2>2
<1>14. Destroying'
  <2> SUFFICES ASSUME NEW j \in Goroutines, g'[j].pc \in Ending
               PROVE  /\ fdmu'[Call(j)'.fd]["net"].closed /\ fdmu'[Call(j)'.fd]["net"].ref = 0
                      /\ fd[Call(j)'.fd].sock = "open"
                      /\ (g'[j].pc = "destroy" <=> fd[Call(j)'.fd].pd # Nil)
                      /\ \A k \in Goroutines \ {j} : ~(g'[k].pc \in Ending /\ Call(k)'.fd = Call(j)'.fd)
    BY <1>3 DEF Destroying
  <2>0. \A k \in Goroutines : k # i \/ s.pc # "idle" => Call(k)' = Call(k)
    BY <1>2
  <2>i. s.pc \in Ending => /\ s.pc = "destroy" /\ mu.closed /\ mu.ref = 0 /\ Mutex(i) = "net" /\ s.pc # "idle"
                           /\ g[i].pc \in Holding /\ Mu(i).ref > 0
    BY <1>4 DEF Ending, Holding, Locking, MuRec, MutexMove
  <2>1. CASE j = i
    <3>1. Call(i)' = Call(i) /\ s.pc \in Ending
      BY <1>1, <2>0, <2>i, <2>1
    <3>2. fd[Call(i).fd].sock = "open" /\ fd[Call(i).fd].pd # Nil
      BY <1>0, <2>i, <3>1, CallFacts, <1>4, <1>11 DEF InCall, Holding, Locking, Life, FdRec
    <3>3. ASSUME NEW k \in Goroutines \ {i}, g'[k].pc \in Ending, Call(k)'.fd = Call(i).fd PROVE FALSE
      BY <1>1, <2>0, <3>3, <1>0, <1>11, <2>i, <3>1 DEF Destroying
    <3> QED
      BY <1>1, <1>11, <2>1, <2>i, <3>1, <3>2, <3>3
  <2>2. CASE j # i
    <3>1. g[j].pc \in Ending /\ Call(j)' = Call(j) /\ g'[j] = g[j]
      BY <1>1, <2>0, <2>2
    <3>2. /\ fdmu[Call(j).fd]["net"].closed /\ fdmu[Call(j).fd]["net"].ref = 0
          /\ fd[Call(j).fd].sock = "open" /\ (g[j].pc = "destroy" <=> fd[Call(j).fd].pd # Nil)
          /\ \A k \in Goroutines \ {j} : ~(g[k].pc \in Ending /\ Call(k).fd = Call(j).fd)
      BY <1>0, <3>1 DEF Destroying
    <3>3. Call(j).fd \in Fds
      BY <1>0, <3>1, CallFacts DEF Ending
    <3>4. fdmu'[Call(j).fd]["net"].closed /\ fdmu'[Call(j).fd]["net"].ref = 0
      <4>1. CASE Mutex(i) # "net" \/ Call(i).fd # Call(j).fd
        BY <1>10, <3>2, <3>3, <4>1
      <4>2. CASE Mutex(i) = "net" /\ Call(i).fd = Call(j).fd
        BY <1>4, <1>11, <3>2, <4>2 DEF MuRec, MutexMove
      <4> QED
        BY <4>1, <4>2
    <3>5. ASSUME NEW k \in Goroutines \ {j}, g'[k].pc \in Ending, Call(k)'.fd = Call(j).fd PROVE FALSE
      <4>1. CASE k # i
        BY <1>1, <2>0, <3>2, <3>5, <4>1
      <4>2. CASE k = i
        BY <1>1, <2>0, <2>i, <3>5, <4>2, <1>11, <3>2
      <4> QED
        BY <4>1, <4>2
    <3> QED
      BY <3>1, <3>2, <3>4, <3>5
  <2> QED
    BY <2>1, <2>2
<1> QED
  BY <1>12, <1>13, <1>14

(* The poller is not concerned.                                            *)
LEMMA MutexPoll ==
  ASSUME NetIInv, NEW i \in Goroutines, g[i].pc # "idle" \/ Ready(i), NEW mu, NEW s, MutexMove(i, mu, s)
  PROVE  Owned' /\ Cached' /\ Waiting' /\ TimersFit' /\ EdgesKept' /\ EventsFit'
<1>0. NetTypes /\ Owned /\ Cached /\ Waiting /\ TimersFit /\ EdgesKept /\ EventsFit
  BY DEF NetIInv
<1>1. g'[i] = s /\ \A j \in Goroutines \ {i} : g'[j] = g[j]
  BY MutexTypes
<1>2. \A j \in Goroutines \ {i} : Call(j)' = Call(j) /\ Mode(j)' = Mode(j) /\ Pd(j)' = Pd(j)
  BY MutexCalls
<1>3. fd' = fd /\ pds' = pds /\ cache' = cache /\ net' = net /\ firing' = firing
  BY DEF MutexMove
<1>4. g[i].pc \notin {"wait", "parked", "woken"} /\ s.pc \notin {"wait", "parked", "woken"}
  BY DEF MutexMove
<1>5. Owned' /\ Cached' /\ EventsFit'
  BY <1>0, <1>3 DEF Owned, Cached, EventsFit
<1>6. TimersFit'
  BY <1>0, <1>3 DEF TimersFit
<1>7. Waiting'
  <2>1. ASSUME NEW p \in DOMAIN pds, NEW m \in Modes, NEW j \in Goroutines, pds[p].waits[m] = j
        PROVE  g'[j].pc = "parked" /\ Pd(j)' = p /\ Mode(j)' = m
    BY <1>0, <2>1, <1>1, <1>2, <1>4 DEF Waiting
  <2>2. ASSUME NEW j \in Goroutines, g'[j].pc = "parked" PROVE pds[Pd(j)'].waits[Mode(j)'] = j
    BY <1>1, <1>4, <2>2, <1>0, <1>2 DEF Waiting
  <2> QED
    BY <1>3, <2>1, <2>2 DEF Waiting
<1>8. EdgesKept'
  BY <1>3, <1>1, <1>4, <1>0, <1>2 DEF EdgesKept, Awaits, Signalled
<1> QED
  BY <1>5, <1>6, <1>7, <1>8

(* A step on a fdMutex keeps the invariant.                                *)
LEMMA MutexStep ==
  ASSUME NetIInv, NEW i \in Goroutines, g[i].pc # "idle" \/ Ready(i), NEW mu, NEW s, MutexMove(i, mu, s)
  PROVE  NetIInv'
BY MutexTypes, MutexCalls, MutexCounts, MutexLocks, MutexLife, MutexEnds, MutexPoll DEF NetIInv

(* Where a goroutine is when its call has returned.                        *)
LEMMA ReturnState ==
  ASSUME g \in [Goroutines -> GRec], NEW i \in Goroutines, NEW res \in Results, Return(i, res)
  PROVE  \E s \in GRec : g' = [g EXCEPT ![i] = s] /\ s.pc = "idle"
<1>1. PICK r : r = g[i]
  OBVIOUS
<1>2. r \in GRec /\ r.i \in Nat \ {0}
  BY <1>1 DEF GRec
<1>3. PICK k \in Nat \ {0} : k = r.i + 1
  BY <1>2
<1>4. PICK s : s = [r EXCEPT !.pc = "idle", !.i = k, !.res = res, !.n = 0]
  OBVIOUS
<1>5. s \in GRec /\ s.pc = "idle"
  BY <1>2, <1>3, <1>4 DEF GRec, Places
<1>6. s = [r EXCEPT !.pc = "idle", !.i = r.i + 1, !.res = res, !.n = 0]
  BY <1>3, <1>4
<1>7. g' = [g EXCEPT ![i] = s]
  BY <1>1, <1>6 DEF Return
<1> QED
  BY <1>5, <1>7

(* RWLock: the mode is locked, or the goroutine waits, or it is turned     *)
(* away.                                                                   *)
LEMMA RWLockKeeps ==
  ASSUME NetIInv, NEW i \in Goroutines, RWLock(i)
  PROVE  NetIInv'
<1>0. NetTypes /\ InCall
  BY DEF NetIInv
<1>1. g[i].pc # "idle" \/ Ready(i)
  BY DEF RWLock, At
<1>2. Mu(i) \in MuRec /\ Mode(i) \in Modes /\ g[i] \in GRec
  BY <1>0, <1>1, CallFacts DEF NetTypes
<1>3. g[i].pc \in {"idle", "again"} /\ Call(i).op \in IO
  BY <1>0 DEF RWLock, Ready, At, Does, InCall, OpsAt
<1>4. /\ g[i].pc \notin {"wait", "parked", "woken", "evict"} \cup Ending
      /\ g[i].pc \notin Holding /\ g[i].pc \notin Locking
  BY <1>3 DEF Ending, Holding, Locking
<1>5. UNCHANGED <<nprog, fd, pds, cache, net, firing, throw>>
  BY DEF RWLock
<1>6. CASE Mu(i).closed
  <2>1. fdmu' = fdmu /\ Return(i, "errClosing")
    BY <1>6 DEF RWLock
  <2>2. g \in [Goroutines -> GRec] /\ "errClosing" \in Results
    BY <1>0 DEF NetTypes, Results
  <2>3. PICK s \in GRec : g' = [g EXCEPT ![i] = s] /\ s.pc = "idle"
    BY <2>1, <2>2, ReturnState
  <2>5. SetMu(i, Mu(i))
    BY <1>0, <1>1, <2>1, CallFacts DEF SetMu, Mu, NetTypes
  <2>7. s.pc \notin Holding /\ s.pc \notin Locking /\ s.pc \notin Ending
    BY <2>3 DEF Ending, Holding, Locking
  <2>6. MutexMove(i, Mu(i), s)
    BY <1>2, <1>4, <1>5, <2>3, <2>5, <2>7 DEF MutexMove
  <2> QED
    BY <1>1, <2>6, MutexStep
<1>7. CASE ~Mu(i).closed /\ Mode(i) \notin Mu(i).lock
  <2>1. PICK mu : mu = [Mu(i) EXCEPT !.lock = Mu(i).lock \cup {Mode(i)}, !.ref = Mu(i).ref + 1]
    OBVIOUS
  <2>2. mu \in MuRec /\ mu.lock = Mu(i).lock \cup {Mode(i)} /\ mu.ref = Mu(i).ref + 1 /\ mu.closed = Mu(i).closed
    <3>1. PICK r : r = Mu(i)
      OBVIOUS
    <3>2. PICK l \in SUBSET Modes : l = Mu(i).lock \cup {Mode(i)}
      BY <1>2 DEF MuRec
    <3>3. PICK n \in Nat : n = Mu(i).ref + 1
      BY <1>2 DEF MuRec
    <3>4. mu = [r EXCEPT !.lock = l, !.ref = n] /\ r \in MuRec
      BY <1>2, <2>1, <3>1, <3>2, <3>3
    <3>5. mu \in MuRec /\ mu.lock = l /\ mu.ref = n /\ mu.closed = r.closed
      BY <3>4 DEF MuRec
    <3> QED
      BY <3>1, <3>2, <3>3, <3>5
  <2>3. PICK s : s = [g[i] EXCEPT !.pc = "prepare"]
    OBVIOUS
  <2>4. s \in GRec /\ s.pc = "prepare" /\ s.i = g[i].i
    BY <1>2, <2>3 DEF GRec, Places, Holding, Locking
  <2>5. SetMu(i, mu) /\ Goto(i, "prepare")
    BY <1>7, <2>1 DEF RWLock
  <2>6. g' = [g EXCEPT ![i] = s]
    BY <2>3, <2>5 DEF Goto
  <2>7. Call(i).op \in OpsAt(s.pc) /\ s.pc \in Holding /\ s.pc \in Locking /\ s.pc \notin Ending
    BY <1>3, <2>4 DEF OpsAt, Holding, Locking, Ending
  <2>8. MutexMove(i, mu, s)
    BY <1>2, <1>4, <1>5, <1>7, <2>2, <2>4, <2>5, <2>6, <2>7 DEF MutexMove
  <2> QED
    BY <1>1, <2>8, MutexStep
<1>8. CASE ~Mu(i).closed /\ Mode(i) \in Mu(i).lock
  BY <1>2, <1>8, <1>3, <1>4, <1>5, <1>1, MutexStep DEF MuRec, GRec, Places, RWLock, Goto, OpsAt,
      Holding, Locking, Ending, MutexMove
<1> QED
  BY <1>6, <1>7, <1>8

(* One who waited for the lock tries again.                                *)
LEMMA SemacquireKeeps ==
  ASSUME NetIInv, NEW i \in Goroutines, Semacquire(i)
  PROVE  NetIInv'
<1>0. NetTypes /\ InCall
  BY DEF NetIInv
<1>1. g[i].pc = "sema" /\ Mu(i).sema[Mode(i)] > 0
  BY DEF Semacquire, At
<1>2. Mu(i) \in MuRec /\ Mode(i) \in Modes /\ g[i] \in GRec /\ Call(i).op \in IO
  BY <1>0, <1>1, CallFacts DEF NetTypes, InCall, OpsAt
<1>3. PICK mu : mu = [Mu(i) EXCEPT !.sema[Mode(i)] = Mu(i).sema[Mode(i)] - 1]
  OBVIOUS
<1>4. mu \in MuRec /\ mu.lock = Mu(i).lock /\ mu.ref = Mu(i).ref /\ mu.closed = Mu(i).closed
  BY <1>1, <1>2, <1>3 DEF MuRec
<1>5. PICK s : s = [g[i] EXCEPT !.pc = "again"]
  OBVIOUS
<1>6. s \in GRec /\ s.pc = "again" /\ s.i = g[i].i
  BY <1>2, <1>5 DEF GRec, Places
<1>7. SetMu(i, mu) /\ Goto(i, "again") /\ UNCHANGED <<nprog, fd, pds, cache, net, firing, throw>>
  BY <1>3 DEF Semacquire
<1>8. g' = [g EXCEPT ![i] = s]
  BY <1>5, <1>7 DEF Goto
<1>9. /\ Call(i).op \in OpsAt(s.pc) /\ s.pc \notin Holding /\ s.pc \notin Locking /\ s.pc \notin Ending
      /\ g[i].pc \notin Holding /\ g[i].pc \notin Locking /\ g[i].pc \notin Ending
  BY <1>1, <1>2, <1>6 DEF OpsAt, Holding, Locking, Ending
<1>10. MutexMove(i, mu, s)
  BY <1>1, <1>2, <1>4, <1>6, <1>7, <1>8, <1>9 DEF MutexMove
<1> QED
  BY <1>1, <1>10, MutexStep

(* A call that begins on a closed mutex returns at once.                   *)
LEMMA ClosedReturns ==
  ASSUME NetIInv, NEW i \in Goroutines, Ready(i), fdmu' = fdmu, Return(i, "errClosing"),
         UNCHANGED <<nprog, fd, pds, cache, net, firing, throw>>
  PROVE  NetIInv'
<1>0. NetTypes /\ InCall
  BY DEF NetIInv
<1>1. g[i].pc = "idle" /\ Mu(i) \in MuRec
  BY <1>0, CallFacts DEF Ready, At
<1>2. g \in [Goroutines -> GRec] /\ "errClosing" \in Results
  BY <1>0 DEF NetTypes, Results
<1>3. PICK s \in GRec : g' = [g EXCEPT ![i] = s] /\ s.pc = "idle"
  BY <1>2, ReturnState
<1>4. SetMu(i, Mu(i))
  BY <1>0, CallFacts DEF SetMu, Mu, NetTypes
<1>5. /\ s.pc \notin Holding /\ s.pc \notin Locking /\ s.pc \notin Ending
      /\ g[i].pc \notin Holding /\ g[i].pc \notin Locking /\ g[i].pc \notin Ending
  BY <1>1, <1>3 DEF Ending, Holding, Locking
<1>6. MutexMove(i, Mu(i), s)
  BY <1>1, <1>3, <1>4, <1>5 DEF MutexMove
<1> QED
  BY <1>6, MutexStep

(* Incref: a reference, unless the netFD is closed.                        *)
LEMMA IncrefKeeps ==
  ASSUME NetIInv, NEW i \in Goroutines, Incref(i)
  PROVE  NetIInv'
<1>0. NetTypes /\ InCall
  BY DEF NetIInv
<1>1. Ready(i) /\ g[i].pc = "idle" /\ Call(i).op \in Refs
  BY DEF Incref, Ready, At, Does
<1>2. Mu(i) \in MuRec /\ g[i] \in GRec
  BY <1>0, <1>1, CallFacts DEF NetTypes
<1>3. UNCHANGED <<nprog, fd, pds, cache, net, firing, throw>>
  BY DEF Incref
<1>4. CASE Mu(i).closed
  BY <1>1, <1>3, <1>4, ClosedReturns DEF Incref
<1>5. CASE ~Mu(i).closed
  <2>1. PICK mu : mu = [Mu(i) EXCEPT !.ref = Mu(i).ref + 1]
    OBVIOUS
  <2>2. mu \in MuRec /\ mu.lock = Mu(i).lock /\ mu.ref = Mu(i).ref + 1 /\ mu.closed = Mu(i).closed
    BY <1>2, <2>1 DEF MuRec
  <2>3. PICK s : s = [g[i] EXCEPT !.pc = "use"]
    OBVIOUS
  <2>4. s \in GRec /\ s.pc = "use" /\ s.i = g[i].i
    BY <1>2, <2>3 DEF GRec, Places, Holding
  <2>5. SetMu(i, mu) /\ Goto(i, "use")
    BY <1>5, <2>1 DEF Incref
  <2>6. g' = [g EXCEPT ![i] = s]
    BY <2>3, <2>5 DEF Goto
  <2>7. /\ Call(i).op \in OpsAt(s.pc) /\ s.pc \in Holding /\ s.pc \notin Locking /\ s.pc \notin Ending
        /\ g[i].pc \notin Holding /\ g[i].pc \notin Locking /\ g[i].pc \notin Ending
    BY <1>1, <2>4 DEF OpsAt, Holding, Locking, Ending
  <2>8. MutexMove(i, mu, s)
    BY <1>1, <1>3, <1>5, <2>2, <2>4, <2>5, <2>6, <2>7 DEF MutexMove
  <2> QED
    BY <1>1, <2>8, MutexStep
<1> QED
  BY <1>4, <1>5

(* IncrefAndClose: the first closer wakes everyone and is to evict.        *)
LEMMA IncrefAndCloseKeeps ==
  ASSUME NetIInv, NEW i \in Goroutines, IncrefAndClose(i)
  PROVE  NetIInv'
<1>0. NetTypes /\ InCall
  BY DEF NetIInv
<1>1. Ready(i) /\ g[i].pc = "idle" /\ Call(i).op = "Close"
  BY DEF IncrefAndClose, Ready, At, Does
<1>2. Mu(i) \in MuRec /\ g[i] \in GRec
  BY <1>0, <1>1, CallFacts DEF NetTypes
<1>3. UNCHANGED <<nprog, fd, pds, cache, net, firing, throw>>
  BY DEF IncrefAndClose
<1>4. CASE Mu(i).closed
  BY <1>1, <1>3, <1>4, ClosedReturns DEF IncrefAndClose
<1>5. CASE ~Mu(i).closed
  <2>0. PICK r : r = Mu(i)
    OBVIOUS
  <2>a. PICK v : v = WakeAll(r)
    OBVIOUS
  <2>b. v \in MuRec /\ v.lock = r.lock /\ v.ref = r.ref /\ v.closed = r.closed
    <3>0. r \in MuRec
      BY <1>2, <2>0
    <3>1. PICK w : w = [m \in Modes |-> 0]
      OBVIOUS
    <3>2. w \in [Modes -> Nat]
      BY <3>1
    <3>3. PICK t : t = [m \in Modes |-> r.sema[m] + r.wait[m]]
      OBVIOUS
    <3>4. t \in [Modes -> Nat]
      BY <3>0, <3>3 DEF MuRec
    <3>5. v = [r EXCEPT !.wait = w, !.sema = t]
      BY <2>a, <3>0, <3>1, <3>3 DEF WakeAll, MuRec
    <3> QED
      BY <3>0, <3>2, <3>4, <3>5 DEF MuRec
  <2>1. PICK mu : mu = [v EXCEPT !.closed = TRUE, !.ref = v.ref + 1]
    OBVIOUS
  <2>2. mu \in MuRec /\ mu.lock = Mu(i).lock /\ mu.ref = Mu(i).ref + 1 /\ mu.closed
    <3>1. PICK n \in Nat : n = v.ref + 1
      BY <2>b DEF MuRec
    <3>2. mu = [v EXCEPT !.closed = TRUE, !.ref = n]
      BY <2>1, <3>1
    <3>3. mu \in MuRec /\ mu.lock = v.lock /\ mu.ref = n /\ mu.closed
      BY <2>b, <3>2 DEF MuRec
    <3> QED
      BY <2>0, <2>b, <3>1, <3>3
  <2>3. PICK s : s = [g[i] EXCEPT !.pc = "evict"]
    OBVIOUS
  <2>4. s \in GRec /\ s.pc = "evict" /\ s.i = g[i].i
    BY <1>2, <2>3 DEF GRec, Places, Holding
  <2>5. SetMu(i, mu) /\ Goto(i, "evict")
    BY <1>5, <2>0, <2>a, <2>1 DEF IncrefAndClose
  <2>6. g' = [g EXCEPT ![i] = s]
    BY <2>3, <2>5 DEF Goto
  <2>7. /\ Call(i).op \in OpsAt(s.pc) /\ s.pc \in Holding /\ s.pc \notin Locking /\ s.pc \notin Ending
        /\ g[i].pc \notin Holding /\ g[i].pc \notin Locking /\ g[i].pc \notin Ending
    BY <1>1, <2>4 DEF OpsAt, Holding, Locking, Ending
  <2>8. MutexMove(i, mu, s)
    BY <1>1, <1>3, <1>5, <2>2, <2>4, <2>5, <2>6, <2>7 DEF MutexMove
  <2> QED
    BY <1>1, <2>8, MutexStep
<1> QED
  BY <1>4, <1>5

(* Giving a reference back: the last one to leave a closed netFD destroys  *)
(* it.                                                                     *)
LEMMA LeaveKeeps ==
  ASSUME NetIInv, NEW i \in Goroutines, g[i].pc \in {"decref", "unlock"}, NEW mu \in MuRec,
         mu.ref = Mu(i).ref - 1, mu.closed = Mu(i).closed,
         \A m \in Mu(i).lock : m \notin mu.lock => g[i].pc = "unlock" /\ m = Mode(i),
         Leave(i, mu), UNCHANGED <<nprog, fd, pds, cache, net, firing, throw>>
  PROVE  NetIInv'
<1>0. NetTypes /\ InCall
  BY DEF NetIInv
<1>1. g[i] \in GRec /\ g[i].pc # "idle" /\ g \in [Goroutines -> GRec]
  BY <1>0 DEF NetTypes
<1>2. /\ g[i].pc \notin {"wait", "parked", "woken", "evict"} /\ g[i].pc \in Holding
      /\ g[i].pc \notin Ending /\ (g[i].pc = "unlock" => g[i].pc \in Locking)
  BY DEF Ending, Holding, Locking
<1>3. SetMu(i, mu)
  BY DEF Leave
<1>4. CASE LastRef(mu) /\ Mutex(i) = "net"
  <2>1. PICK s : s = [g[i] EXCEPT !.pc = "destroy"]
    OBVIOUS
  <2>2. s \in GRec /\ s.pc = "destroy" /\ s.i = g[i].i
    BY <1>1, <2>1 DEF GRec, Places, Ending
  <2>3. g' = [g EXCEPT ![i] = s]
    BY <1>4, <2>1 DEF Leave, Goto
  <2>4. Call(i).op \in OpsAt("destroy")
    BY <1>0, <1>1, <1>4 DEF InCall, OpsAt, Locking, Mutex, Does, IO, Refs
  <2>5. s.pc \notin Holding /\ s.pc \notin Locking /\ s.pc # "evict" /\ s.pc \notin {"wait", "parked", "woken"}
    BY <2>2 DEF Holding, Locking
  <2>6. mu.closed /\ mu.ref = 0
    BY <1>4 DEF LastRef
  <2>7. MutexMove(i, mu, s)
    BY <1>2, <1>3, <1>4, <2>2, <2>3, <2>4, <2>5, <2>6 DEF MutexMove
  <2> QED
    BY <1>1, <2>7, MutexStep
<1>5. CASE ~(LastRef(mu) /\ Mutex(i) = "net")
  BY <1>1, <1>5, ReturnState, <1>2, <1>3, MutexStep DEF Leave, GRec, Holding, Locking, Ending,
      MutexMove
<1> QED
  BY <1>4, <1>5

(* Decref: the last one to leave a closed netFD is to destroy it.          *)
LEMMA DecrefKeeps ==
  ASSUME NetIInv, RawAlone, NEW i \in Goroutines, Decref(i)
  PROVE  NetIInv'
<1>0. NetTypes /\ InCall
  BY DEF NetIInv
<1>1. g[i].pc = "decref" /\ g[i].pc \in Holding /\ g[i].pc # "idle"
  BY DEF Decref, At, Holding
<1>2. Mu(i).ref > 0
  BY <1>1, HolderFacts
<1>3. Mu(i) \in MuRec
  BY <1>0, <1>1, CallFacts
<1>4. PICK mu : mu = [Mu(i) EXCEPT !.ref = Mu(i).ref - 1]
  OBVIOUS
<1>5. mu \in MuRec /\ mu.lock = Mu(i).lock /\ mu.ref = Mu(i).ref - 1 /\ mu.closed = Mu(i).closed
  BY <1>2, <1>3, <1>4 DEF MuRec
<1>6. Leave(i, mu) /\ UNCHANGED <<nprog, fd, pds, cache, net, firing>>
  BY <1>4 DEF Decref
<1>7. throw' = throw
  <2>1. Mu(i).ref # 0
    BY <1>2, <1>3 DEF MuRec
  <2> QED
    BY <2>1, Zenon DEF Decref
<1> QED
  BY <1>1, <1>5, <1>6, <1>7, LeaveKeeps

(* RWUnlock: so is the last one to end its I/O.                            *)
LEMMA RWUnlockKeeps ==
  ASSUME NetIInv, RawAlone, NEW i \in Goroutines, RWUnlock(i)
  PROVE  NetIInv'
<1>0. NetTypes /\ InCall /\ Locked
  BY DEF NetIInv
<1>1. g[i].pc = "unlock" /\ g[i].pc \in Holding /\ g[i].pc # "idle" /\ g[i].pc \in Locking
  BY DEF RWUnlock, At, Holding, Locking
<1>2. Mu(i).ref > 0 /\ Mode(i) \in Mu(i).lock
  BY <1>0, <1>1, HolderFacts DEF Locked
<1>3. Mu(i) \in MuRec /\ Mode(i) \in Modes
  BY <1>0, <1>1, CallFacts
<1>o. PICK one : one = (IF Mu(i).wait[Mode(i)] > 0 THEN 1 ELSE 0)
  OBVIOUS
<1>4. PICK mu : mu = [Mu(i) EXCEPT !.lock = @ \ {Mode(i)}, !.ref = @ - 1, !.wait[Mode(i)] = @ - one,
                                   !.sema[Mode(i)] = @ + one]
  OBVIOUS
<1>5. mu \in MuRec /\ mu.lock = Mu(i).lock \ {Mode(i)} /\ mu.ref = Mu(i).ref - 1 /\ mu.closed = Mu(i).closed
  <2>1. PICK r : r = Mu(i)
    OBVIOUS
  <2>2. PICK l \in SUBSET Modes : l = r.lock \ {Mode(i)}
    BY <1>3, <2>1 DEF MuRec
  <2>3. PICK n \in Nat : n = r.ref - 1
    BY <1>2, <1>3, <2>1 DEF MuRec
  <2>4. PICK w \in Nat : w = r.wait[Mode(i)] - one
    BY <1>o, <1>3, <2>1 DEF MuRec
  <2>5. PICK t \in Nat : t = r.sema[Mode(i)] + one
    BY <1>o, <1>3, <2>1 DEF MuRec
  <2>6. mu = [r EXCEPT !.lock = l, !.ref = n, !.wait[Mode(i)] = w, !.sema[Mode(i)] = t] /\ r \in MuRec
    BY <1>3, <1>4, <2>1, <2>2, <2>3, <2>4, <2>5
  <2>7. mu \in MuRec /\ mu.lock = l /\ mu.ref = n /\ mu.closed = r.closed
    BY <1>3, <2>6 DEF MuRec
  <2> QED
    BY <2>1, <2>2, <2>3, <2>7
<1>6. Leave(i, mu) /\ UNCHANGED <<nprog, fd, pds, cache, net, firing>>
  BY <1>o, <1>4 DEF RWUnlock
<1>7. throw' = throw
  <2>1. Mu(i).ref # 0
    BY <1>2, <1>3 DEF MuRec
  <2> QED
    BY <1>2, <2>1, Zenon DEF RWUnlock
<1> QED
  BY <1>1, <1>5, <1>6, <1>7, LeaveKeeps

(* How a goroutine gets on in a step that leaves fdMutexes, netFDs and     *)
(* pollcache alone: the reference it holds, or not, is the same.           *)
Moves(j) ==
  /\ g'[j].i = g[j].i
  /\ \/ g'[j].pc = g[j].pc
     \/ g[j].pc \in Locking /\ g'[j].pc \in Locking
     \/ g[j].pc \in {"use", "evict"} /\ g'[j].pc = "decref"

InnerStep ==
  /\ UNCHANGED <<nprog, fdmu, fd, cache, throw>>
  /\ pds' \in Seq(PdRec) /\ DOMAIN pds' = DOMAIN pds
  /\ \A p \in DOMAIN pds : pds'[p].fd = pds[p].fd /\ (pds[p].closing => pds'[p].closing)
  /\ net' \in NetRec /\ firing' \in SUBSET FiringRec /\ g' \in [Goroutines -> GRec]
  /\ \A j \in Goroutines : Moves(j)

(* Everyone is in the same call, with the same PollDesc.                   *)
LEMMA InnerCalls ==
  ASSUME InnerStep, NEW j \in Goroutines
  PROVE  /\ Call(j)' = Call(j) /\ Mode(j)' = Mode(j) /\ Mutex(j)' = Mutex(j) /\ Pd(j)' = Pd(j)
         /\ Mu(j)' = Mu(j)
         /\ \A f, x : Uses(j, f, x)' <=> Uses(j, f, x)
BY SameCall DEF InnerStep, Moves, Pd, Mu

(* Nobody takes a reference, or gives one back.                            *)
LEMMA InnerPlaces ==
  ASSUME InnerStep, NEW j \in Goroutines
  PROVE  /\ g'[j].pc \in Locking <=> g[j].pc \in Locking
         /\ g'[j].pc \in Holding <=> g[j].pc \in Holding
         /\ g'[j].pc \in Ending <=> g[j].pc \in Ending
         /\ g'[j].pc = "destroy" <=> g[j].pc = "destroy"
         /\ g'[j].pc = "idle" <=> g[j].pc = "idle"
         /\ g'[j].pc = "evict" => g[j].pc = "evict"
<1>1. Moves(j)
  BY DEF InnerStep
<1> QED
  BY <1>1 DEF Moves, Locking, Holding, Ending

(* References, locks and owners are as they were.                          *)
LEMMA InnerKeeps ==
  ASSUME NetIInv, InnerStep
  PROVE  /\ NetTypes' /\ InCall' /\ Counted' /\ Locked' /\ Life' /\ Evicting' /\ Destroying'
         /\ Owned' /\ Cached'
<1>0. /\ NetTypes /\ InCall /\ Counted /\ Locked /\ Life /\ Evicting /\ Destroying
      /\ Owned /\ Cached
  BY DEF NetIInv
<1>1. nprog' = nprog /\ fd' = fd /\ fdmu' = fdmu /\ cache' = cache /\ throw' = throw
  BY DEF InnerStep
<1>2. NetTypes'
  BY <1>0, <1>1 DEF NetTypes, InnerStep
<1>3. InCall'
  BY <1>1, InnerCalls, InnerPlaces, <1>0 DEF InCall, InnerStep, Moves, OpsAt, Locking
<1>4. Counted'
  BY <1>1, InnerCalls, InnerPlaces, <1>0 DEF Counted, Holders
<1>5. Locked'
  <2> SUFFICES ASSUME NEW j \in Goroutines, g'[j].pc \in Locking
               PROVE  /\ Mode(j)' \in Mu(j)'.lock
                      /\ \A k \in Goroutines \ {j} :
                           g'[k].pc \in Locking /\ Uses(k, Call(j).fd, Mutex(j))' => Mode(k)' # Mode(j)'
    BY DEF Locked
  <2>1. Mode(j)' = Mode(j) /\ Mu(j)' = Mu(j) /\ Call(j)' = Call(j) /\ Mutex(j)' = Mutex(j) /\ g[j].pc \in Locking
    BY InnerCalls, InnerPlaces
  <2>2. ASSUME NEW k \in Goroutines \ {j}, g'[k].pc \in Locking, Uses(k, Call(j).fd, Mutex(j))'
        PROVE  Mode(k)' # Mode(j)'
    BY <2>2, InnerCalls, InnerPlaces, <2>1, <1>0 DEF Uses, Locked
  <2> QED
    BY <1>0, <2>1, <2>2 DEF Locked
<1>6. Life'
  BY <1>1, <1>0 DEF Closes, Life
<1>7. Evicting'
  <2> SUFFICES ASSUME NEW j \in Goroutines, g'[j].pc = "evict"
               PROVE  /\ fdmu[Call(j)'.fd]["net"].closed
                      /\ \A k \in Goroutines \ {j} : ~Evicts(k, Call(j).fd)'
    BY <1>1 DEF Evicting
  <2>1. Call(j)' = Call(j) /\ g[j].pc = "evict"
    BY InnerCalls, InnerPlaces
  <2>2. ASSUME NEW k \in Goroutines \ {j}, Evicts(k, Call(j).fd)' PROVE FALSE
    BY <2>2, InnerCalls, InnerPlaces, <1>0, <2>1 DEF Evicts, Evicting
  <2> QED
    BY <1>0, <2>1, <2>2 DEF Evicting
<1>8. Destroying'
  BY <1>1, InnerCalls, InnerPlaces, <1>0 DEF Destroying
<1>9. Owned'
  BY <1>0, <1>1 DEF Owned, InnerStep
<1>10. Cached'
  BY <1>0, <1>1 DEF Cached, InnerStep
<1> QED
  BY <1>2, <1>3, <1>4, <1>5, <1>6, <1>7, <1>8, <1>9, <1>10

(* Nothing is closed meanwhile.                                            *)
LEMMA ClosingKept ==
  ASSUME NetIInv, InnerStep, \A p \in DOMAIN pds : pds'[p].closing = pds[p].closing,
         \A j \in Goroutines : g[j].pc = "evict" => g'[j].pc = "evict"
  PROVE  Closing'
BY InnerCalls, InnerPlaces DEF NetIInv, InnerStep, Closing, Owned, Evicts

(* No timer is touched.                                                    *)
SameTimers(p) ==
  /\ pds'[p].closing = pds[p].closing /\ pds'[p].seq = pds[p].seq
  /\ pds'[p].d = pds[p].d /\ pds'[p].t = pds[p].t

(* Then the timers still fit.                                              *)
LEMMA TimersKept ==
  ASSUME NetIInv, DOMAIN pds' = DOMAIN pds, firing' = firing, \A p \in DOMAIN pds : SameTimers(p)
  PROVE  TimersFit'
<1>0. TimersFit
  BY DEF NetIInv
<1>1. ASSUME NEW p \in DOMAIN pds PROVE TimerFits(pds'[p])
  BY <1>0 DEF TimersFit, SameTimers, TimerFits
<1>2. ASSUME NEW t \in firing PROVE t.pd \in DOMAIN pds /\ FiringFits(t, pds'[t.pd])
  BY <1>0 DEF TimersFit, FiringFits, SameTimers
<1> QED
  BY <1>1, <1>2 DEF TimersFit

(* The PollDesc of a goroutine that does I/O is there.                     *)
LEMMA PdThere ==
  ASSUME NetIInv, RawAlone, NEW j \in Goroutines, g[j].pc \in Locking \/ Awaits(g[j])
  PROVE  /\ Pd(j) \in DOMAIN pds /\ Mode(j) \in Modes /\ Call(j).fd \in Fds /\ g[j].pc \in Locking
         /\ Pd(j) = fd[Call(j).fd].pd /\ Pd(j) # Nil /\ pds[Pd(j)] \in PdRec
BY HolderFacts, CallFacts DEF Awaits, Locking, Holding, NetIInv

(* Nobody parks, and nobody who is parked is woken.                        *)
LEMMA WaitsKept ==
  ASSUME NetIInv, RawAlone, InnerStep, \A p \in DOMAIN pds : pds'[p].waits = pds[p].waits,
         \A j \in Goroutines : g'[j].pc = "parked" <=> g[j].pc = "parked"
  PROVE  Waiting'
<1>0. Waiting
  BY DEF NetIInv
<1>1. ASSUME NEW p \in DOMAIN pds', NEW m \in Modes, NEW j \in Goroutines, pds'[p].waits[m] = j
      PROVE  g'[j].pc = "parked" /\ Pd(j)' = p /\ Mode(j)' = m
  BY InnerCalls, <1>1, <1>0 DEF InnerStep, Waiting
<1>2. ASSUME NEW j \in Goroutines, g'[j].pc = "parked" PROVE pds'[Pd(j)'].waits[Mode(j)'] = j
  BY <1>2, InnerCalls, <1>0, PdThere DEF Waiting, Locking
<1> QED
  BY <1>1, <1>2 DEF Waiting

(* No event is lost, and nobody begins to wait for a socket that is ready. *)
LEMMA EdgesFrame ==
  ASSUME NetIInv, RawAlone, InnerStep, \A p \in DOMAIN pds : pds'[p].waits = pds[p].waits,
         net.edges \cup net.taken \subseteq net'.edges \cup net'.taken,
         \A j \in Goroutines : Awaits(g'[j]) /\ net'.avail[Call(j).fd][Mode(j)] > 0 =>
           Awaits(g[j]) /\ net.avail[Call(j).fd][Mode(j)] > 0
  PROVE  EdgesKept'
BY InnerCalls, PdThere DEF NetIInv, EdgesKept, Signalled

(* One count of many is set.                                               *)
LEMMA CountSet ==
  ASSUME NEW c \in Counts, NEW f \in Fds, NEW m \in Modes, NEW n \in Nat
  PROVE  /\ [c EXCEPT ![f][m] = n] \in Counts
         /\ \A h \in Fds, k \in Modes : [c EXCEPT ![f][m] = n][h][k] = IF h = f /\ k = m THEN n ELSE c[h][k]
BY DEF Counts

(* What is the same in a step of the kernel, or of a system call.          *)
SamePds == pds' = pds /\ firing' = firing

(* A step that leaves PollDescs and timers alone.                          *)
LEMMA NetOnly ==
  ASSUME NetIInv, RawAlone, SamePds, UNCHANGED <<nprog, fdmu, fd, cache, throw>>, net' \in NetRec,
         g' \in [Goroutines -> GRec], \A j \in Goroutines : Moves(j),
         \A j \in Goroutines : /\ g'[j].pc = "parked" <=> g[j].pc = "parked"
                               /\ g[j].pc = "evict" => g'[j].pc = "evict",
         EdgesKept', EventsFit'
  PROVE  NetIInv'
BY WaitsKept, ClosingKept, TimersKept, InnerKeeps DEF NetIInv, InnerStep, SamePds, NetTypes,
    SameTimers

(* shutdown, or the function that RawControl was given.                    *)
LEMMA ControlKeeps ==
  ASSUME NetIInv, RawAlone, NEW i \in Goroutines, Control(i)
  PROVE  NetIInv'
<1>0. NetTypes /\ EventsFit
  BY DEF NetIInv
<1>1. g[i].pc = "use" /\ g' = [g EXCEPT ![i].pc = "decref"] /\ g \in [Goroutines -> GRec]
  BY <1>0 DEF Control, At, Goto, NetTypes
<1>2. SamePds /\ UNCHANGED <<nprog, fdmu, fd, cache, throw>> /\ net' = net
  BY DEF Control, SamePds
<1>3. g' \in [Goroutines -> GRec]
  BY <1>1 DEF GRec, Places, Holding
<1>4. \A j \in Goroutines : g'[j].i = g[j].i /\ g'[j].param = g[j].param /\ (j # i => g'[j] = g[j])
  BY <1>1 DEF GRec
<1>5. g'[i].pc = "decref"
  BY <1>1 DEF GRec
<1>6. \A j \in Goroutines : Moves(j)
  BY <1>1, <1>4, <1>5 DEF Moves
<1>7. InnerStep
  BY <1>0, <1>2, <1>3, <1>6 DEF InnerStep, SamePds, NetTypes
<1>8. EdgesKept'
  BY <1>4, <1>5, <1>2, <1>7, EdgesFrame DEF Awaits, SamePds
<1>9. EventsFit'
  BY <1>0, <1>2 DEF EventsFit, SamePds
<1> QED
  BY <1>0, <1>1, <1>2, <1>3, <1>4, <1>5, <1>6, <1>8, <1>9, NetOnly DEF NetTypes

(* epoll reports an event.                                                 *)
LEMMA EpollwaitKeeps ==
  ASSUME NetIInv, RawAlone, NEW e, epollwait(e)
  PROVE  NetIInv'
<1>0. NetTypes /\ EventsFit
  BY DEF NetIInv
<1>1. e \in net.edges /\ net' = [net EXCEPT !.edges = net.edges \ {e}, !.taken = net.taken \cup {e}] /\ net \in NetRec
  BY <1>0 DEF epollwait, NetTypes
<1>2. SamePds /\ UNCHANGED <<nprog, fdmu, fd, cache, throw>> /\ g' = g
  BY DEF epollwait, SamePds
<1>3. /\ net' \in NetRec /\ net'.avail = net.avail
      /\ net'.edges \cup net'.taken = net.edges \cup net.taken
  BY <1>1 DEF NetRec, Events
<1>4. \A j \in Goroutines : Moves(j)
  BY <1>2 DEF Moves
<1>5. InnerStep
  BY <1>0, <1>2, <1>3, <1>4 DEF InnerStep, SamePds, NetTypes
<1>6. EdgesKept'
  BY <1>2, <1>3, <1>5, EdgesFrame DEF SamePds
<1>7. EventsFit'
  BY <1>0, <1>2, <1>3 DEF EventsFit, SamePds
<1> QED
  BY <1>0, <1>2, <1>3, <1>4, <1>6, <1>7, NetOnly DEF NetTypes

(* Data, or room, and the event of it.                                     *)
LEMMA ArriveKeeps ==
  ASSUME NetIInv, RawAlone, NEW f \in Fds, NEW m \in Modes, Arrive(f, m)
  PROVE  NetIInv'
<1>0. NetTypes /\ EventsFit /\ Owned /\ EdgesKept
  BY DEF NetIInv
<1>1. /\ net \in NetRec /\ net.left[f][m] > 0
      /\ net' = [net EXCEPT !.avail[f][m] = @ + 1, !.left[f][m] = @ - 1,
                   !.edges = IF fd[f].pd = Nil THEN net.edges ELSE net.edges \cup {<<fd[f].pd, m>>}]
  BY <1>0 DEF Arrive, NetTypes
<1>2. SamePds /\ UNCHANGED <<nprog, fdmu, fd, cache, throw>> /\ g' = g
  BY DEF Arrive, SamePds
<1>3. fd[f].pd # Nil => fd[f].pd \in DOMAIN pds /\ fd[f].pd \in Nat
  BY <1>0 DEF Owned, NetTypes
<1>4. /\ net' \in NetRec /\ net'.taken = net.taken /\ net.edges \subseteq net'.edges
      /\ \A e \in net'.edges : e \in net.edges \/ (fd[f].pd # Nil /\ e = <<fd[f].pd, m>>)
      /\ fd[f].pd # Nil => <<fd[f].pd, m>> \in net'.edges
      /\ \A h \in Fds, k \in Modes : net'.avail[h][k] = IF h = f /\ k = m THEN net.avail[f][m] + 1 ELSE net.avail[h][k]
  <2>0. net.avail \in Counts /\ net.left \in Counts /\ net.edges \in Events
    BY <1>1 DEF NetRec
  <2>1. PICK a : a = [net.avail EXCEPT ![f][m] = net.avail[f][m] + 1]
    OBVIOUS
  <2>2. /\ a \in Counts
        /\ \A h \in Fds, k \in Modes : a[h][k] = IF h = f /\ k = m THEN net.avail[f][m] + 1 ELSE net.avail[h][k]
    BY <2>0, <2>1, CountSet DEF Counts
  <2>3. PICK l : l = [net.left EXCEPT ![f][m] = net.left[f][m] - 1]
    OBVIOUS
  <2>4. l \in Counts
    BY <1>1, <2>0, <2>3, CountSet DEF Counts
  <2>5. PICK e : e = (IF fd[f].pd = Nil THEN net.edges ELSE net.edges \cup {<<fd[f].pd, m>>})
    OBVIOUS
  <2>6. e \in Events
    BY <1>3, <2>0, <2>5 DEF Events
  <2>7. net' = [net EXCEPT !.avail = a, !.left = l, !.edges = e]
    BY <1>1, <2>1, <2>3, <2>5 DEF NetRec
  <2>8. net' \in NetRec /\ net'.taken = net.taken /\ net'.edges = e /\ net'.avail = a
    BY <1>1, <2>2, <2>4, <2>6, <2>7 DEF NetRec
  <2> QED
    BY <2>2, <2>5, <2>8
<1>5. \A j \in Goroutines : Moves(j)
  BY <1>2 DEF Moves
<1>6. InnerStep
  BY <1>0, <1>2, <1>4, <1>5 DEF InnerStep, SamePds, NetTypes
<1>7. EdgesKept'
  <2> SUFFICES ASSUME NEW j \in Goroutines, Awaits(g[j]), net'.avail[Call(j)'.fd][Mode(j)'] > 0
               PROVE  Signalled(Pd(j), Mode(j))'
    BY <1>2 DEF EdgesKept
  <2>1. Call(j)' = Call(j) /\ Mode(j)' = Mode(j) /\ Pd(j)' = Pd(j)
    BY <1>6, InnerCalls
  <2>2. Call(j).fd \in Fds /\ Mode(j) \in Modes /\ Pd(j) = fd[Call(j).fd].pd /\ Pd(j) # Nil
    BY PdThere
  <2>3. CASE Call(j).fd = f /\ Mode(j) = m
    BY <1>4, <2>2, <2>3, <2>1 DEF Signalled
  <2>4. CASE ~(Call(j).fd = f /\ Mode(j) = m)
    BY <1>4, <2>1, <2>2, <2>4, <1>0, <1>2 DEF EdgesKept, Signalled, SamePds
  <2> QED
    BY <2>3, <2>4
<1>8. EventsFit'
  BY <1>2, <1>0, <1>3, <1>4 DEF EventsFit, SamePds
<1> QED
  BY <1>0, <1>2, <1>4, <1>5, <1>7, <1>8, NetOnly DEF NetTypes

(* read or write, or EAGAIN.                                               *)
LEMMA TransferKeeps ==
  ASSUME NetIInv, RawAlone, NEW i \in Goroutines, Transfer(i)
  PROVE  NetIInv'
<1>0. NetTypes /\ InCall /\ EventsFit
  BY DEF NetIInv
<1> DEFINE f == Call(i).fd
           m == Mode(i)
<1>1. g[i].pc = "io" /\ g \in [Goroutines -> GRec] /\ net \in NetRec
  BY <1>0 DEF Transfer, At, NetTypes
<1>2. SamePds /\ UNCHANGED <<nprog, fdmu, fd, cache, throw>>
  BY DEF Transfer, SamePds
<1>3. f \in Fds /\ m \in Modes
  BY <1>0, <1>1, CallFacts
<1>4. PICK s \in GRec : /\ g' = [g EXCEPT ![i] = s] /\ s.i = g[i].i /\ s.pc \in {"unlock", "io", "wait"}
                        /\ s.pc = "wait" => net' = net /\ ~(net.avail[f][m] > 0)
  <2>r. PICK r \in GRec : r = g[i]
    BY <1>1
  <2>1. CASE net.avail[f][m] > 0 /\ g[i].n + 1 >= Call(i).n
    <3>1. PICK s : s = [r EXCEPT !.pc = "unlock", !.res = "nil"]
      OBVIOUS
    <3>2. s \in GRec /\ s.i = r.i /\ s.pc = "unlock"
      BY <3>1 DEF GRec, Places, Holding, Locking, Results
    <3>3. g' = [g EXCEPT ![i].pc = "unlock", ![i].res = "nil"]
      BY <2>1 DEF Transfer
    <3>4. g' = [g EXCEPT ![i] = s]
      BY <2>r, <3>1, <3>3
    <3> QED
      BY <2>r, <3>2, <3>4
  <2>2. CASE net.avail[f][m] > 0 /\ ~(g[i].n + 1 >= Call(i).n)
    BY <2>2, <2>r, <1>1 DEF GRec, Transfer
  <2>3. CASE ~(net.avail[f][m] > 0)
    BY <2>3, <2>r DEF GRec, Places, Holding, Locking, Transfer, Goto
  <2> QED
    BY <2>1, <2>2, <2>3
<1>5. /\ net' \in NetRec /\ net'.edges = net.edges /\ net'.taken = net.taken
      /\ \A h \in Fds, k \in Modes : net'.avail[h][k] > 0 => net.avail[h][k] > 0
  <2>0. net.avail \in Counts
    BY <1>1 DEF NetRec
  <2>1. CASE net.avail[f][m] > 0
    <3>1. PICK a : a = [net.avail EXCEPT ![f][m] = net.avail[f][m] - 1]
      OBVIOUS
    <3>2. /\ a \in Counts
          /\ \A h \in Fds, k \in Modes : a[h][k] = IF h = f /\ k = m THEN net.avail[f][m] - 1 ELSE net.avail[h][k]
      <4>1. net.avail[f][m] - 1 \in Nat
        BY <1>3, <2>0, <2>1 DEF Counts
      <4> HIDE DEF f, m
      <4> QED
        BY <1>3, <2>0, <3>1, <4>1, CountSet
    <3>3. net' = [net EXCEPT !.avail[f][m] = net.avail[f][m] - 1]
      BY <2>1 DEF Transfer
    <3>4. net' = [net EXCEPT !.avail = a]
      BY <1>1, <3>1, <3>3 DEF NetRec
    <3>5. net' \in NetRec /\ net'.edges = net.edges /\ net'.taken = net.taken /\ net'.avail = a
      BY <1>1, <3>2, <3>4 DEF NetRec
    <3> QED
      BY <2>1, <3>2, <3>5
  <2>2. CASE ~(net.avail[f][m] > 0)
    <3>1. net' = net
      BY <2>2 DEF Transfer
    <3> QED
      BY <1>1, <3>1
  <2> QED
    BY <2>1, <2>2
<1>6. g' \in [Goroutines -> GRec] /\ g'[i] = s /\ \A j \in Goroutines : j # i => g'[j] = g[j]
  BY <1>1, <1>4
<1>7. \A j \in Goroutines : Moves(j)
  BY <1>1, <1>4, <1>6 DEF Moves, Locking
<1>8. InnerStep
  BY <1>0, <1>2, <1>5, <1>6, <1>7 DEF InnerStep, SamePds, NetTypes
<1>9. EdgesKept'
  <2>1. ASSUME NEW j \in Goroutines, Awaits(g'[j]), net'.avail[Call(j).fd][Mode(j)] > 0
        PROVE  Awaits(g[j]) /\ net.avail[Call(j).fd][Mode(j)] > 0
    <3>1. CASE j = i
      BY <1>4, <1>6, <2>1, <3>1 DEF Awaits
    <3>2. CASE j # i
      BY <1>6, <2>1, <3>2, PdThere, <1>5
    <3> QED
      BY <3>1, <3>2
  <2> QED
    BY <1>2, <1>5, <1>8, <2>1, EdgesFrame DEF SamePds
<1>10. EventsFit'
  BY <1>0, <1>2, <1>5 DEF EventsFit, SamePds
<1>11. \A j \in Goroutines : /\ g'[j].pc = "parked" <=> g[j].pc = "parked"
                             /\ g[j].pc = "evict" => g'[j].pc = "evict"
  BY <1>1, <1>4, <1>6
<1> QED
  BY <1>2, <1>5, <1>6, <1>7, <1>9, <1>10, <1>11, NetOnly

(* A step that changes one PollDesc.                                       *)
LEMMA OnePd ==
  ASSUME NetTypes, NEW p \in DOMAIN pds, NEW b \in PdRec, pds' = [pds EXCEPT ![p] = b]
  PROVE  /\ pds' \in Seq(PdRec) /\ DOMAIN pds' = DOMAIN pds /\ pds'[p] = b
         /\ \A q \in DOMAIN pds : q # p => pds'[q] = pds[q]
         /\ \A q \in DOMAIN pds : pds[q] \in PdRec
BY DEF NetTypes

(* A timer that is taken off the heap.                                     *)
TakenOff(a, m) == [a EXCEPT !.t[m].heap = FALSE]

(* Nothing else is changed in its PollDesc.                                *)
LEMMA OffHeap ==
  ASSUME NEW a \in PdRec, NEW m \in Modes, NEW b, b = TakenOff(a, m)
  PROVE  /\ b \in PdRec /\ b.fd = a.fd /\ b.waits = a.waits
         /\ b.closing = a.closing /\ b.seq = a.seq /\ b.d = a.d
         /\ \A k \in Modes : /\ b.t[k].fv = a.t[k].fv /\ b.t[k].modes = a.t[k].modes /\ b.t[k].seq = a.t[k].seq
                             /\ k # m => b.t[k].heap = a.t[k].heap
         /\ ~b.t[m].heap
<1>1. PICK q : q = [a.t[m] EXCEPT !.heap = FALSE]
  OBVIOUS
<1>2. a.t \in [Modes -> TimerRec]
  BY DEF PdRec
<1>3. a.t[m] \in TimerRec
  BY <1>2
<1>4. q \in TimerRec /\ ~q.heap /\ q.fv = a.t[m].fv /\ q.modes = a.t[m].modes /\ q.seq = a.t[m].seq
  BY <1>1, <1>3 DEF TimerRec
<1>5. PICK u : u = [a.t EXCEPT ![m] = q]
  OBVIOUS
<1>6. u \in [Modes -> TimerRec] /\ u[m] = q /\ \A k \in Modes : k # m => u[k] = a.t[k]
  BY <1>2, <1>4, <1>5
<1>7. b = [a EXCEPT !.t = u]
  BY <1>1, <1>5 DEF PdRec, TakenOff
<1>8. /\ b \in PdRec /\ b.fd = a.fd /\ b.waits = a.waits
      /\ b.closing = a.closing /\ b.seq = a.seq /\ b.d = a.d /\ b.t = u
  BY <1>6, <1>7 DEF PdRec
<1>9. \A k \in Modes : /\ b.t[k].fv = a.t[k].fv /\ b.t[k].modes = a.t[k].modes /\ b.t[k].seq = a.t[k].seq
                       /\ k # m => b.t[k].heap = a.t[k].heap
  BY <1>4, <1>6, <1>8
<1>10. ~b.t[m].heap
  BY <1>4, <1>6, <1>8
<1> QED
  BY <1>8, <1>9, <1>10

(* The timer that fires is the one that was set.                           *)
LEMMA ExpireTimers ==
  ASSUME NetIInv, NEW p \in DOMAIN pds, NEW m \in Modes, Expire(p, m), NEW b \in PdRec, pds' = [pds EXCEPT ![p] = b],
         b = TakenOff(pds[p], m)
  PROVE  TimersFit' /\ firing' \in SUBSET FiringRec
<1>0. TimersFit /\ NetTypes
  BY DEF NetIInv
<1>1. PICK a : a = pds[p]
  OBVIOUS
<1>2. a \in PdRec /\ TimerFits(a) /\ a.t[m].heap
  BY <1>0, <1>1, OnePd DEF TimersFit, Expire
<1>3. /\ b.closing = a.closing /\ b.seq = a.seq /\ b.d = a.d
      /\ \A k \in Modes : /\ b.t[k].fv = a.t[k].fv /\ b.t[k].modes = a.t[k].modes /\ b.t[k].seq = a.t[k].seq
                          /\ k # m => b.t[k].heap = a.t[k].heap
      /\ ~b.t[m].heap
  <2>1. b = TakenOff(a, m)
    BY <1>1
  <2> QED
    BY <1>2, <2>1, OffHeap
<1>4. TimerFits(b)
  BY <1>2, <1>3 DEF TimerFits, Modes
<1>5. PICK t : t = [pd |-> p, modes |-> a.t[m].modes, seq |-> a.t[m].seq]
  OBVIOUS
<1>6. firing' = firing \cup {t}
  BY <1>1, <1>5 DEF Expire
<1>7. /\ a.t[m].fv /\ a.t[m].seq = a.seq /\ a.t[m].modes # {} /\ First(a.t[m].modes) = m
      /\ a.t[m].modes \subseteq Modes /\ a.seq \in Nat
  BY <1>2 DEF TimerFits, PdRec, TimerRec
<1>8. t \in FiringRec /\ t.pd = p /\ t.modes = a.t[m].modes /\ t.seq = a.seq
  BY <1>0, <1>5, <1>7 DEF FiringRec, NetTypes
<1>9. FiringFits(t, b)
  BY <1>3, <1>7, <1>8 DEF FiringFits
<1>10. /\ DOMAIN pds' = DOMAIN pds /\ pds'[p] = b
       /\ \A q \in DOMAIN pds : q # p => pds'[q] = pds[q]
  BY <1>0, OnePd
<1>11. ASSUME NEW u \in firing PROVE u.pd \in DOMAIN pds /\ FiringFits(u, pds'[u.pd])
  <2>1. u.pd \in DOMAIN pds /\ FiringFits(u, pds[u.pd]) /\ u \in FiringRec
    BY <1>0 DEF TimersFit, NetTypes
  <2>2. CASE u.pd # p
    BY <1>10, <2>1, <2>2
  <2>3. CASE u.pd = p
    BY <1>1, <2>1, <2>3, <1>3, <1>10 DEF First, Modes, FiringFits
  <2> QED
    BY <2>2, <2>3
<1>12. ASSUME NEW q \in DOMAIN pds PROVE TimerFits(pds'[q])
  BY <1>0, <1>4, <1>10 DEF TimersFit
<1>13. TimersFit'
  BY <1>6, <1>8, <1>9, <1>10, <1>11, <1>12 DEF TimersFit
<1> QED
  BY <1>0, <1>6, <1>8, <1>13 DEF NetTypes

(* A timer is taken off the heap.                                          *)
LEMMA ExpireKeeps ==
  ASSUME NetIInv, RawAlone, NEW p \in DOMAIN pds, NEW m \in Modes, Expire(p, m)
  PROVE  NetIInv'
<1>0. NetTypes /\ EventsFit
  BY DEF NetIInv
<1>1. PICK b : b = TakenOff(pds[p], m)
  OBVIOUS
<1>2. pds[p] \in PdRec
  BY <1>0 DEF NetTypes
<1>3. b \in PdRec /\ b.fd = pds[p].fd /\ b.closing = pds[p].closing /\ b.waits = pds[p].waits
  BY <1>1, <1>2, OffHeap
<1>4. pds' = [pds EXCEPT ![p] = b]
  BY <1>1 DEF Expire, SetPd, TakenOff
<1>5. TimersFit' /\ firing' \in SUBSET FiringRec
  BY <1>1, <1>3, <1>4, ExpireTimers
<1>6. /\ pds' \in Seq(PdRec) /\ DOMAIN pds' = DOMAIN pds /\ pds'[p] = b
      /\ \A q \in DOMAIN pds : q # p => pds'[q] = pds[q]
  BY <1>0, <1>3, <1>4, OnePd
<1>7. UNCHANGED <<nprog, fdmu, fd, cache, net, g, throw>>
  BY DEF Expire
<1>8. \A j \in Goroutines : Moves(j)
  BY <1>7 DEF Moves
<1>9. \A q \in DOMAIN pds : pds'[q].fd = pds[q].fd /\ pds'[q].closing = pds[q].closing /\ pds'[q].waits = pds[q].waits
  BY <1>3, <1>6
<1>10. InnerStep
  BY <1>0, <1>5, <1>6, <1>7, <1>8, <1>9 DEF InnerStep, NetTypes
<1>11. Waiting'
  BY <1>7, <1>9, <1>10, WaitsKept
<1>12. Closing'
  BY <1>7, <1>9, <1>10, ClosingKept
<1>13. EdgesKept'
  BY <1>7, <1>9, <1>10, EdgesFrame
<1>14. EventsFit'
  BY <1>0, <1>6, <1>7 DEF EventsFit
<1> QED
  BY <1>5, <1>10, <1>11, <1>12, <1>13, <1>14, InnerKeeps DEF NetIInv

(***************************************************************************)
(* A goroutine that does I/O changes who waits on its side.                *)
(***************************************************************************)

(* It leaves v there and goes on in s.                                     *)
SideMove(i, v, s) ==
  /\ g[i].pc \in {"prepare", "wait", "woken"} /\ s \in GRec
  /\ g' = [g EXCEPT ![i] = s] /\ s.i = g[i].i
  /\ pds' = [pds EXCEPT ![Pd(i)].waits[Mode(i)] = v]
  /\ UNCHANGED <<nprog, fdmu, fd, cache, net, firing, throw>>
  /\ \/ v = Nil /\ s.pc = "io"
     \/ v = i /\ s.pc = "parked" /\ Awaits(g[i]) /\ pds[Pd(i)].waits[Mode(i)] # READY

(* Nobody else waits there.                                                *)
LEMMA SideFree ==
  ASSUME NetIInv, RawAlone, NEW i \in Goroutines, g[i].pc \in Locking, g[i].pc # "parked"
  PROVE  pds[Pd(i)].waits[Mode(i)] \in {Nil, READY}
<1>1. Pd(i) \in DOMAIN pds /\ Mode(i) \in Modes /\ pds[Pd(i)] \in PdRec
  BY PdThere
<1>2. pds[Pd(i)].waits[Mode(i)] \in Goroutines \cup {Nil, READY}
  BY <1>1 DEF PdRec
<1>3. ASSUME NEW j \in Goroutines, pds[Pd(i)].waits[Mode(i)] = j PROVE FALSE
  BY <1>1, <1>3, OneSide DEF NetIInv, Waiting, Locking
<1> QED
  BY <1>2, <1>3

(* A goroutine parks, or consumes what is on its side.                     *)
LEMMA SideStep ==
  ASSUME NetIInv, RawAlone, NEW i \in Goroutines, NEW v, NEW s, SideMove(i, v, s)
  PROVE  NetIInv'
<1> DEFINE p == Pd(i)
           m == Mode(i)
<1>0. NetTypes /\ Waiting /\ EdgesKept /\ EventsFit
  BY DEF NetIInv
<1>1. /\ g[i].pc \in {"prepare", "wait", "woken"} /\ s \in GRec
      /\ g' = [g EXCEPT ![i] = s] /\ s.i = g[i].i
      /\ UNCHANGED <<nprog, fdmu, fd, cache, net, firing, throw>>
      /\ \/ v = Nil /\ s.pc = "io"
         \/ v = i /\ s.pc = "parked" /\ Awaits(g[i]) /\ pds[p].waits[m] # READY
  BY DEF SideMove
<1>2. g[i].pc \in Locking /\ s.pc \in Locking /\ g[i].pc # "parked"
  BY <1>1 DEF Locking
<1>3. p \in DOMAIN pds /\ m \in Modes /\ pds[p] \in PdRec
  BY <1>2, PdThere
<1>4. PICK b : b = [pds[p] EXCEPT !.waits[m] = v]
  OBVIOUS
<1>5. v \in Goroutines \cup {Nil}
  BY <1>1
<1>6. /\ b \in PdRec /\ b.fd = pds[p].fd /\ b.closing = pds[p].closing /\ b.seq = pds[p].seq
      /\ b.d = pds[p].d /\ b.t = pds[p].t /\ b.waits[m] = v
      /\ \A k \in Modes : k # m => b.waits[k] = pds[p].waits[k]
  BY <1>3, <1>5, <1>4 DEF PdRec
<1>7. pds' = [pds EXCEPT ![p] = b]
  BY <1>4 DEF SideMove
<1>8. /\ pds' \in Seq(PdRec) /\ DOMAIN pds' = DOMAIN pds /\ pds'[p] = b
      /\ \A q \in DOMAIN pds : q # p => pds'[q] = pds[q]
  BY <1>0, <1>3, <1>6, <1>7, OnePd
<1>9. g' \in [Goroutines -> GRec] /\ g'[i] = s /\ \A j \in Goroutines : j # i => g'[j] = g[j]
  BY <1>0, <1>1 DEF NetTypes
<1>10. \A j \in Goroutines : Moves(j)
  BY <1>1, <1>2, <1>9 DEF Moves
<1>11. InnerStep
  BY <1>0, <1>1, <1>6, <1>8, <1>9, <1>10 DEF InnerStep, NetTypes
<1>12. TimersFit'
  BY <1>1, <1>6, <1>8, TimersKept DEF SameTimers
<1>13. Closing'
  BY <1>1, <1>6, <1>8, <1>9, <1>11, ClosingKept
<1>14. EventsFit'
  BY <1>0, <1>1, <1>8 DEF EventsFit
<1>15. \A j \in Goroutines : Call(j)' = Call(j) /\ Mode(j)' = Mode(j) /\ Pd(j)' = Pd(j)
  BY <1>11, InnerCalls
<1>16. pds[p].waits[m] \in {Nil, READY}
  BY <1>2, SideFree
<1>17. \A j \in Goroutines : j # i /\ g[j].pc \in Locking => Pd(j) # p \/ Mode(j) # m
  BY <1>2, OneSide
<1>18. Waiting'
  <2>1. ASSUME NEW q \in DOMAIN pds, NEW k \in Modes, NEW j \in Goroutines, pds'[q].waits[k] = j
        PROVE  g'[j].pc = "parked" /\ Pd(j) = q /\ Mode(j) = k
    <3>1. CASE q = p /\ k = m
      BY <1>6, <1>8, <2>1, <3>1, <1>1, NetConstants, <1>9
    <3>2. CASE ~(q = p /\ k = m)
      BY <1>6, <1>8, <2>1, <3>2, <1>0, <1>2, <1>9 DEF Waiting
    <3> QED
      BY <3>1, <3>2
  <2>2. ASSUME NEW j \in Goroutines, g'[j].pc = "parked" PROVE pds'[Pd(j)].waits[Mode(j)] = j
    <3>1. CASE j = i
      BY <1>1, <1>6, <1>8, <1>9, <2>2, <3>1
    <3>2. CASE j # i
      BY <1>9, <2>2, <3>2, PdThere, <1>0, <1>6, <1>8, <1>17 DEF Locking, Waiting
    <3> QED
      BY <3>1, <3>2
  <2> QED
    BY <1>8, <1>15, <2>1, <2>2 DEF Waiting
<1>19. EdgesKept'
  <2> SUFFICES ASSUME NEW j \in Goroutines, Awaits(g'[j]), net.avail[Call(j).fd][Mode(j)] > 0
               PROVE  <<Pd(j), Mode(j)>> \in net.edges \cup net.taken \/ pds'[Pd(j)].waits[Mode(j)] = READY
    BY <1>1, <1>15 DEF EdgesKept, Signalled
  <2>1. CASE j = i
    BY <1>1, <1>9, <2>1, <1>0 DEF Awaits, EdgesKept, Signalled
  <2>2. CASE j # i
    BY <1>9, <2>2, <1>0, PdThere, <1>6, <1>8, <1>17 DEF EdgesKept, Signalled
  <2> QED
    BY <2>1, <2>2
<1> QED
  BY <1>11, <1>12, <1>13, <1>14, <1>18, <1>19, InnerKeeps DEF NetIInv

(* A goroutine ends its I/O, or tries it, without a word to the poller.    *)
LEMMA IOMoves ==
  ASSUME NetIInv, RawAlone, NEW i \in Goroutines, g[i].pc \in {"prepare", "wait", "woken"},
         NEW s \in GRec, g' = [g EXCEPT ![i] = s], s.i = g[i].i, s.pc \in {"unlock", "io"},
         UNCHANGED <<nprog, fdmu, fd, pds, cache, net, firing, throw>>
  PROVE  NetIInv'
BY EdgesFrame, NetOnly DEF NetIInv, NetTypes, SamePds, Moves, Locking, Awaits, InnerStep, EventsFit

(* It ends with an error.                                                  *)
LEMMA IOFails ==
  ASSUME NetIInv, RawAlone, NEW i \in Goroutines, g[i].pc \in {"prepare", "wait", "woken"},
         NEW e \in {"errClosing", "errTimeout"}, g' = [g EXCEPT ![i].pc = "unlock", ![i].res = e],
         UNCHANGED <<nprog, fdmu, fd, pds, cache, net, firing, throw>>
  PROVE  NetIInv'
<1>1. g \in [Goroutines -> GRec]
  BY DEF NetIInv, NetTypes
<1>2. PICK s : s = [g[i] EXCEPT !.pc = "unlock", !.res = e]
  OBVIOUS
<1>3. s \in GRec /\ s.i = g[i].i /\ s.pc = "unlock"
  BY <1>1, <1>2 DEF GRec, Places, Holding, Locking, Results
<1>4. g' = [g EXCEPT ![i] = s]
  BY <1>2
<1> QED
  BY <1>3, <1>4, IOMoves

(* The values of checkerr.                                                 *)
LEMMA CheckErr ==
  ASSUME NEW pd, NEW m
  PROVE  checkerr(pd, m) \in {"nil", "errClosing", "errTimeout"}
BY DEF checkerr

(* Going on in another place of the same call.                             *)
LEMMA GotoState ==
  ASSUME NetIInv, NEW i \in Goroutines, NEW l \in Places, Goto(i, l)
  PROVE  \E s \in GRec : g' = [g EXCEPT ![i] = s] /\ s.i = g[i].i /\ s.pc = l /\ s.param = g[i].param
<1>1. g \in [Goroutines -> GRec]
  BY DEF NetIInv, NetTypes
<1>2. PICK s : s = [g[i] EXCEPT !.pc = l]
  OBVIOUS
<1>3. s \in GRec /\ s.i = g[i].i /\ s.pc = l /\ s.param = g[i].param
  BY <1>1, <1>2 DEF GRec
<1>4. g' = [g EXCEPT ![i] = s]
  BY <1>2 DEF Goto
<1> QED
  BY <1>3, <1>4

(* pds[p] with another goroutine, or none, on side m.                      *)
Side(p, m, v) == [pds[p] EXCEPT !.waits[m] = v]

(* That is the PollDesc after the step.                                    *)
LEMMA SetSide ==
  ASSUME NEW p, NEW m, NEW v, SetPd(p, Side(p, m, v))
  PROVE  pds' = [pds EXCEPT ![p].waits[m] = v]
BY DEF SetPd, Side

(* pollReset clears the side, or fails.                                    *)
LEMMA PrepareKeeps ==
  ASSUME NetIInv, RawAlone, NEW i \in Goroutines, Prepare(i)
  PROVE  NetIInv'
<1>1. g[i].pc = "prepare"
  BY DEF Prepare, At
<1>2. UNCHANGED <<nprog, fdmu, fd, cache, net, firing, throw>>
  BY DEF Prepare
<1>3. CASE checkerr(pds[Pd(i)], Mode(i)) = "nil"
  <2>1. SetPd(Pd(i), Side(Pd(i), Mode(i), Nil)) /\ Goto(i, "io")
    BY <1>3 DEF Prepare, Side
  <2>2. "io" \in Places
    BY DEF Places, Holding, Locking
  <2>3. PICK s \in GRec : g' = [g EXCEPT ![i] = s] /\ s.i = g[i].i /\ s.pc = "io"
    BY <2>1, <2>2, GotoState
  <2>4. SideMove(i, Nil, s)
    BY <1>1, <1>2, <2>1, <2>3, SetSide DEF SideMove
  <2> QED
    BY <2>4, SideStep
<1>4. CASE checkerr(pds[Pd(i)], Mode(i)) # "nil"
  BY <1>4, <1>1, <1>2, CheckErr, IOFails DEF Prepare
<1> QED
  BY <1>3, <1>4

(* The second half of pollWait.                                            *)
LEMMA BlockKeeps ==
  ASSUME NetIInv, RawAlone, NEW i \in Goroutines, g[i].pc \in {"wait", "woken"}, Awaits(g[i]),
         Block(i, checkerr(pds[Pd(i)], Mode(i))), UNCHANGED <<nprog, fdmu, fd, cache, net, firing>>
  PROVE  NetIInv'
<1> DEFINE w == pds[Pd(i)].waits[Mode(i)]
<1>1. w \in {Nil, READY}
  BY SideFree DEF Locking
<1>2. CASE checkerr(pds[Pd(i)], Mode(i)) # "nil"
  BY <1>2, CheckErr, IOFails DEF Block
<1>3. CASE checkerr(pds[Pd(i)], Mode(i)) = "nil"
  <2>1. throw' = throw
    BY <1>1, <1>3 DEF Block
  <2>2. CASE w = READY
    <3>1. SetPd(Pd(i), Side(Pd(i), Mode(i), Nil)) /\ Goto(i, "io")
      BY <1>3, <2>2 DEF Block, Side
    <3>2. "io" \in Places
      BY DEF Places, Holding, Locking
    <3>3. PICK s \in GRec : g' = [g EXCEPT ![i] = s] /\ s.i = g[i].i /\ s.pc = "io"
      BY <3>1, <3>2, GotoState
    <3>4. SideMove(i, Nil, s)
      BY <2>1, <3>1, <3>3, SetSide DEF SideMove
    <3> QED
      BY <3>4, SideStep
  <2>3. CASE w # READY
    <3>1. SetPd(Pd(i), Side(Pd(i), Mode(i), i)) /\ Goto(i, "parked")
      BY <1>3, <2>3 DEF Block, Side
    <3>2. "parked" \in Places
      BY DEF Places, Holding, Locking
    <3>3. PICK s \in GRec : g' = [g EXCEPT ![i] = s] /\ s.i = g[i].i /\ s.pc = "parked"
      BY <3>1, <3>2, GotoState
    <3>4. SideMove(i, i, s)
      BY <2>1, <2>3, <3>1, <3>3, SetSide DEF SideMove
    <3> QED
      BY <3>4, SideStep
  <2> QED
    BY <2>2, <2>3
<1> QED
  BY <1>2, <1>3

(* pollWait: an error, an event that is there already, or the goroutine    *)
(* parks.                                                                  *)
LEMMA PollWaitKeeps ==
  ASSUME NetIInv, RawAlone, NEW i \in Goroutines, pollWait(i)
  PROVE  NetIInv'
BY BlockKeeps DEF pollWait, At, Awaits

(* The same once it is woken.                                              *)
LEMMA PollWokenKeeps ==
  ASSUME NetIInv, RawAlone, NEW i \in Goroutines, pollWoken(i)
  PROVE  NetIInv'
<1>1. g[i].pc = "woken" /\ UNCHANGED <<nprog, fdmu, fd, cache, net, firing>>
  BY DEF pollWoken, At
<1>2. CASE g[i].param
  BY <1>2, GotoState, <1>1, IOMoves DEF pollWoken, Places, Holding, Locking
<1>3. CASE ~g[i].param
  BY <1>1, <1>3, BlockKeeps DEF pollWoken, Awaits
<1> QED
  BY <1>2, <1>3

(***************************************************************************)
(* netpollunblock                                                          *)
(***************************************************************************)

(* Goroutine j waits on one of the sides ms of PollDesc p.                 *)
Wakes(j, p, ms) == g[j].pc = "parked" /\ Pd(j) = p /\ Mode(j) \in ms

(* Those who are made ready are those who wait there.                      *)
LEMMA WokenIs ==
  ASSUME NetIInv, RawAlone, NEW p \in DOMAIN pds, NEW ms \in SUBSET Modes, NEW io \in BOOLEAN,
         NEW a, a = Woken(pds[p], ms, io)
  PROVE  /\ a \in [Goroutines -> GRec]
         /\ \A j \in Goroutines : /\ a[j].i = g[j].i
                                  /\ Wakes(j, p, ms) => a[j].pc = "woken" /\ a[j].param = io
                                  /\ ~Wakes(j, p, ms) => a[j] = g[j]
<1>0. NetTypes /\ Waiting
  BY DEF NetIInv
<1>1. PICK who : who = {pds[p].waits[m] : m \in {k \in ms : Blocked(pds[p], k)}}
  OBVIOUS
<1>2. a = [i \in Goroutines |-> IF i \in who THEN [g[i] EXCEPT !.pc = "woken", !.param = io] ELSE g[i]]
  BY <1>1 DEF Woken
<1>3. ASSUME NEW j \in Goroutines PROVE j \in who <=> Wakes(j, p, ms)
  <2>1. ASSUME j \in who PROVE Wakes(j, p, ms)
    BY <1>1, <2>1, <1>0 DEF Waiting, Wakes
  <2>2. ASSUME Wakes(j, p, ms) PROVE j \in who
    BY <1>0, <2>2, NetConstants, <1>1 DEF Waiting, Wakes, READY, Blocked
  <2> QED
    BY <2>1, <2>2
<1>4. ASSUME NEW j \in Goroutines
      PROVE  /\ a[j] \in GRec /\ a[j].i = g[j].i
             /\ Wakes(j, p, ms) => a[j].pc = "woken" /\ a[j].param = io
             /\ ~Wakes(j, p, ms) => a[j] = g[j]
  <2>0. g[j] \in GRec
    BY <1>0 DEF NetTypes
  <2>1. CASE Wakes(j, p, ms)
    BY <2>0, <1>2, <1>3, <2>1 DEF GRec, Places, Holding, Locking
  <2>2. CASE ~Wakes(j, p, ms)
    BY <1>2, <1>3, <2>0, <2>2
  <2> QED
    BY <2>1, <2>2
<1>5. a \in [Goroutines -> GRec]
  BY <1>2, <1>4
<1> QED
  BY <1>4, <1>5

(* A PollDesc becomes b, with those on its sides ms made ready; the event  *)
(* that is consumed, if any, is left there as READY or given to them.      *)
UnblockStep(p, b, ms, io) ==
  /\ pds' = [pds EXCEPT ![p] = b] /\ b \in PdRec /\ b.fd = pds[p].fd /\ (pds[p].closing => b.closing)
  /\ \A m \in Modes : b.waits[m] = IF m \in ms THEN Unblocked(pds[p].waits[m], io) ELSE pds[p].waits[m]
  /\ g' \in [Goroutines -> GRec]
  /\ \A j \in Goroutines :
       /\ g'[j].i = g[j].i
       /\ Wakes(j, p, ms) => g'[j].pc = "woken" /\ g'[j].param = io
       /\ ~Wakes(j, p, ms) => g'[j] = g[j] \/ (g[j].pc \in {"use", "evict"} /\ g'[j].pc = "decref")
  /\ net' \in NetRec /\ net'.avail = net.avail
  /\ net'.edges \cup net'.taken \subseteq net.edges \cup net.taken
  /\ \A q, k : <<q, k>> \in net.edges \cup net.taken =>
       <<q, k>> \in net'.edges \cup net'.taken \/ (io /\ q = p /\ k \in ms)
  /\ firing' \in SUBSET FiringRec
  /\ UNCHANGED <<nprog, fdmu, fd, cache, throw>>

(* What is left on a side that was unblocked.                              *)
LEMMA UnblockedIs ==
  ASSUME NEW w, NEW io \in BOOLEAN
  PROVE  /\ Unblocked(w, io) \in {Nil, READY}
         /\ w = READY \/ (w = Nil /\ io) => Unblocked(w, io) = READY
BY DEF Unblocked

(* No goroutine is Nil or READY.                                           *)
LEMMA Distinct ==
  ASSUME NEW j \in Goroutines
  PROVE  j \notin {Nil, READY}
BY NetConstants DEF READY

(* The frame of an unblocking step.                                        *)
LEMMA UnblockInner ==
  ASSUME NetIInv, RawAlone, NEW p \in DOMAIN pds, NEW b, NEW ms \in SUBSET Modes, NEW io \in BOOLEAN,
         UnblockStep(p, b, ms, io)
  PROVE  /\ InnerStep /\ pds'[p] = b /\ DOMAIN pds' = DOMAIN pds
         /\ \A q \in DOMAIN pds : q # p => pds'[q] = pds[q]
<1>0. NetTypes
  BY DEF NetIInv
<1>1. b \in PdRec /\ pds' = [pds EXCEPT ![p] = b] /\ b.fd = pds[p].fd /\ (pds[p].closing => b.closing)
  BY DEF UnblockStep
<1>2. /\ pds' \in Seq(PdRec) /\ DOMAIN pds' = DOMAIN pds /\ pds'[p] = b
      /\ \A q \in DOMAIN pds : q # p => pds'[q] = pds[q]
  BY <1>0, <1>1, OnePd
<1>3. ASSUME NEW j \in Goroutines PROVE Moves(j)
  BY DEF UnblockStep, Moves, Wakes, Locking
<1>4. \A q \in DOMAIN pds : pds'[q].fd = pds[q].fd /\ (pds[q].closing => pds'[q].closing)
  BY <1>1, <1>2
<1>5. /\ UNCHANGED <<nprog, fdmu, fd, cache, throw>>
      /\ net' \in NetRec /\ firing' \in SUBSET FiringRec /\ g' \in [Goroutines -> GRec]
  BY DEF UnblockStep
<1>6. InnerStep
  BY <1>2, <1>3, <1>4, <1>5 DEF InnerStep
<1> QED
  BY <1>2, <1>6

(* Those who are made ready no longer wait; the others still do.           *)
LEMMA UnblockWaiting ==
  ASSUME NetIInv, RawAlone, NEW p \in DOMAIN pds, NEW b, NEW ms \in SUBSET Modes, NEW io \in BOOLEAN,
         UnblockStep(p, b, ms, io)
  PROVE  Waiting'
<1>0. Waiting
  BY DEF NetIInv
<1>1. /\ InnerStep /\ pds'[p] = b /\ DOMAIN pds' = DOMAIN pds
      /\ \A q \in DOMAIN pds : q # p => pds'[q] = pds[q]
  BY UnblockInner
<1>2. \A j \in Goroutines : Pd(j)' = Pd(j) /\ Mode(j)' = Mode(j)
  BY <1>1, InnerCalls
<1>3. \A m \in Modes : b.waits[m] = IF m \in ms THEN Unblocked(pds[p].waits[m], io) ELSE pds[p].waits[m]
  BY DEF UnblockStep
<1>4. \A j \in Goroutines :
       /\ Wakes(j, p, ms) => g'[j].pc = "woken"
       /\ ~Wakes(j, p, ms) => g'[j] = g[j] \/ (g[j].pc \in {"use", "evict"} /\ g'[j].pc = "decref")
  BY DEF UnblockStep
<1>5. ASSUME NEW q \in DOMAIN pds, NEW k \in Modes, NEW j \in Goroutines, pds'[q].waits[k] = j
      PROVE  g'[j].pc = "parked" /\ Pd(j) = q /\ Mode(j) = k
  <2>1. CASE q = p /\ k \in ms
    BY <1>1, <1>3, <1>5, <2>1, UnblockedIs, Distinct
  <2>2. CASE ~(q = p /\ k \in ms)
    BY <1>1, <1>3, <1>5, <2>2, <1>0, <1>4 DEF Waiting, Wakes
  <2> QED
    BY <2>1, <2>2
<1>6. ASSUME NEW j \in Goroutines, g'[j].pc = "parked" PROVE pds'[Pd(j)].waits[Mode(j)] = j
  BY <1>4, <1>6, PdThere, <1>0, <1>1, <1>3 DEF Locking, Waiting, Wakes
<1> QED
  BY <1>1, <1>2, <1>5, <1>6 DEF Waiting

(* An event that is consumed goes to the one who waits for it.             *)
LEMMA UnblockEdges ==
  ASSUME NetIInv, RawAlone, NEW p \in DOMAIN pds, NEW b, NEW ms \in SUBSET Modes, NEW io \in BOOLEAN,
         UnblockStep(p, b, ms, io)
  PROVE  EdgesKept' /\ EventsFit'
<1>0. Waiting /\ EdgesKept /\ EventsFit
  BY DEF NetIInv
<1>1. /\ InnerStep /\ pds'[p] = b /\ DOMAIN pds' = DOMAIN pds
      /\ \A q \in DOMAIN pds : q # p => pds'[q] = pds[q]
  BY UnblockInner
<1>2. \A j \in Goroutines : Call(j)' = Call(j) /\ Pd(j)' = Pd(j) /\ Mode(j)' = Mode(j)
  BY <1>1, InnerCalls
<1>3. \A m \in Modes : b.waits[m] = IF m \in ms THEN Unblocked(pds[p].waits[m], io) ELSE pds[p].waits[m]
  BY DEF UnblockStep
<1>4. \A j \in Goroutines :
       /\ Wakes(j, p, ms) => g'[j].pc = "woken" /\ g'[j].param = io
       /\ ~Wakes(j, p, ms) => g'[j] = g[j] \/ (g[j].pc \in {"use", "evict"} /\ g'[j].pc = "decref")
  BY DEF UnblockStep
<1>5. /\ net'.avail = net.avail
      /\ \A q, k : <<q, k>> \in net.edges \cup net.taken =>
           <<q, k>> \in net'.edges \cup net'.taken \/ (io /\ q = p /\ k \in ms)
  BY DEF UnblockStep
<1>6. EventsFit'
  BY <1>0, <1>1 DEF EventsFit, UnblockStep
<1>7. EdgesKept'
  <2> SUFFICES ASSUME NEW j \in Goroutines, Awaits(g'[j]), net.avail[Call(j).fd][Mode(j)] > 0
               PROVE  <<Pd(j), Mode(j)>> \in net'.edges \cup net'.taken \/ pds'[Pd(j)].waits[Mode(j)] = READY
    BY <1>2, <1>5 DEF EdgesKept, Signalled
  <2>1. CASE Wakes(j, p, ms)
    BY <1>4, <2>1, <1>0, Distinct, <1>5 DEF Awaits, Wakes, EdgesKept, Waiting, Signalled
  <2>2. CASE ~Wakes(j, p, ms)
    <3>1. Awaits(g[j])
      BY <1>4, <2>2 DEF Awaits
    <3>2. Signalled(Pd(j), Mode(j)) /\ Pd(j) \in DOMAIN pds /\ Mode(j) \in Modes /\ g[j].pc \in Locking
      BY <1>0, <3>1, PdThere DEF EdgesKept
    <3>3. CASE Pd(j) = p /\ Mode(j) \in ms
      <4>1. g[j].pc # "parked"
        BY <2>2, <3>3 DEF Wakes
      <4>2. pds[p].waits[Mode(j)] \in {Nil, READY}
        BY <3>2, <3>3, <4>1, SideFree
      <4>3. CASE pds[p].waits[Mode(j)] = READY
        BY <1>1, <1>3, <3>2, <3>3, <4>3, UnblockedIs
      <4>4. CASE pds[p].waits[Mode(j)] # READY
        BY <3>2, <3>3, <4>4, <1>5, <1>1, <1>3, <4>2, UnblockedIs DEF Signalled
      <4> QED
        BY <4>3, <4>4
    <3>4. CASE ~(Pd(j) = p /\ Mode(j) \in ms)
      BY <1>1, <1>3, <3>2, <3>4, <1>5 DEF Signalled
    <3> QED
      BY <3>3, <3>4
  <2> QED
    BY <2>1, <2>2
<1> QED
  BY <1>6, <1>7

(* netpollunblock changes who waits on the sides ms, and nothing else.     *)
LEMMA UnblockPd ==
  ASSUME NEW a \in PdRec, NEW ms \in SUBSET Modes, NEW io \in BOOLEAN, NEW b, b = netpollunblock(a, ms, io)
  PROVE  /\ b \in PdRec /\ b.fd = a.fd /\ b.closing = a.closing /\ b.seq = a.seq /\ b.d = a.d /\ b.t = a.t
         /\ \A m \in Modes : b.waits[m] = IF m \in ms THEN Unblocked(a.waits[m], io) ELSE a.waits[m]
BY UnblockedIs DEF PdRec, netpollunblock

(* An event is given to whoever waits, or left for the next to come.       *)
LEMMA NetpollreadyKeeps ==
  ASSUME NetIInv, RawAlone, NEW p \in DOMAIN pds, NEW m \in Modes, netpollready(<<p, m>>)
  PROVE  NetIInv'
<1>0. NetTypes
  BY DEF NetIInv
<1>1. /\ net' = [net EXCEPT !.taken = net.taken \ {<<p, m>>}]
      /\ pds' = [pds EXCEPT ![p] = netpollunblock(pds[p], {m}, TRUE)]
      /\ g' = Woken(pds[p], {m}, TRUE)
      /\ UNCHANGED <<nprog, fdmu, fd, cache, firing, throw>>
  BY DEF netpollready, SetPd
<1>t. PICK io \in BOOLEAN : io = TRUE
  OBVIOUS
<1>3. PICK ms \in SUBSET Modes : ms = {m}
  OBVIOUS
<1>2. PICK b : b = netpollunblock(pds[p], ms, io)
  OBVIOUS
<1>4. pds[p] \in PdRec
  BY <1>0 DEF NetTypes
<1>5. /\ b \in PdRec /\ b.fd = pds[p].fd /\ b.closing = pds[p].closing /\ b.seq = pds[p].seq
      /\ b.d = pds[p].d /\ b.t = pds[p].t
      /\ \A k \in Modes : b.waits[k] = IF k \in ms THEN Unblocked(pds[p].waits[k], io) ELSE pds[p].waits[k]
  BY <1>2, <1>4, UnblockPd
<1>6. g' = Woken(pds[p], ms, io) /\ pds' = [pds EXCEPT ![p] = b]
  BY <1>t, <1>1, <1>2, <1>3
<1>7. /\ g' \in [Goroutines -> GRec]
      /\ \A j \in Goroutines : /\ g'[j].i = g[j].i
                               /\ Wakes(j, p, ms) => g'[j].pc = "woken" /\ g'[j].param = io
                               /\ ~Wakes(j, p, ms) => g'[j] = g[j]
  BY <1>6, WokenIs
<1>8. net' \in NetRec /\ net'.avail = net.avail /\ net'.edges = net.edges /\ net'.taken = net.taken \ {<<p, m>>}
  BY <1>0, <1>1 DEF NetTypes, NetRec, Events
<1>9. /\ net'.edges \cup net'.taken \subseteq net.edges \cup net.taken
      /\ \A q, k : <<q, k>> \in net.edges \cup net.taken =>
           <<q, k>> \in net'.edges \cup net'.taken \/ (io /\ q = p /\ k \in ms)
  BY <1>t, <1>3, <1>8
<1>10. firing' \in SUBSET FiringRec
  BY <1>0, <1>1 DEF NetTypes
<1>11. UnblockStep(p, b, ms, io)
  BY <1>1, <1>5, <1>6, <1>7, <1>8, <1>9, <1>10 DEF UnblockStep
<1>12. /\ InnerStep /\ pds'[p] = b /\ DOMAIN pds' = DOMAIN pds
       /\ \A q \in DOMAIN pds : q # p => pds'[q] = pds[q]
  BY <1>11, UnblockInner
<1>13. Waiting' /\ EdgesKept' /\ EventsFit'
  BY <1>11, UnblockWaiting, UnblockEdges
<1>14. TimersFit'
  BY <1>1, <1>5, <1>12, TimersKept DEF SameTimers
<1>15. Closing'
  BY <1>7, <1>5, <1>12, ClosingKept DEF Wakes
<1> QED
  BY <1>12, <1>13, <1>14, <1>15, InnerKeeps DEF NetIInv

(* A PollDesc with a new seq: what fires for it is stale.                  *)
LEMMA TimersBumped ==
  ASSUME NetIInv, NEW p \in DOMAIN pds, NEW b \in PdRec, pds'[p] = b, DOMAIN pds' = DOMAIN pds,
         \A q \in DOMAIN pds : q # p => pds'[q] = pds[q],
         firing' = firing, TimerFits(b), b.seq = pds[p].seq + 1
  PROVE  TimersFit'
<1>0. TimersFit /\ NetTypes
  BY DEF NetIInv
<1>1. \A q \in DOMAIN pds : TimerFits(pds'[q])
  BY <1>0 DEF TimersFit
<1>2. ASSUME NEW u \in firing PROVE u.pd \in DOMAIN pds /\ FiringFits(u, pds'[u.pd])
  <2>1. u.pd \in DOMAIN pds /\ FiringFits(u, pds[u.pd]) /\ u \in FiringRec /\ pds[u.pd] \in PdRec
    BY <1>0 DEF TimersFit, NetTypes
  <2>2. CASE u.pd # p
    BY <2>1, <2>2
  <2>3. CASE u.pd = p
    BY <2>1, <2>3 DEF FiringFits, FiringRec, PdRec
  <2> QED
    BY <2>2, <2>3
<1> QED
  BY <1>1, <1>2 DEF TimersFit

(* The timers that pollSetDeadline starts fit the deadlines.               *)
LEMMA NewTimersFit ==
  ASSUME NEW d \in [Modes -> Int], NEW n \in Nat, NEW t, t = NewTimers(d, n)
  PROVE  /\ t \in [Modes -> TimerRec]
         /\ \A m \in Modes :
              /\ t[m].heap => t[m].fv
              /\ t[m].fv => /\ t[m].seq = n /\ t[m].modes # {} /\ First(t[m].modes) = m
                            /\ \A k \in t[m].modes : d[k] > 0
         /\ t["r"].fv /\ t["w"].fv => "w" \notin t["r"].modes
<1>1. PICK both : both = [fv |-> TRUE, heap |-> TRUE, modes |-> Modes, seq |-> n]
  OBVIOUS
<1>2. PICK r : r = [fv |-> TRUE, heap |-> TRUE, modes |-> {"r"}, seq |-> n]
  OBVIOUS
<1>3. PICK w : w = [fv |-> TRUE, heap |-> TRUE, modes |-> {"w"}, seq |-> n]
  OBVIOUS
<1>4. PICK no : no = NoTimer
  OBVIOUS
<1>5. /\ both \in TimerRec /\ both.fv /\ both.seq = n /\ both.modes = Modes
      /\ r \in TimerRec /\ r.fv /\ r.seq = n /\ r.modes = {"r"}
      /\ w \in TimerRec /\ w.fv /\ w.seq = n /\ w.modes = {"w"}
      /\ no \in TimerRec /\ ~no.fv /\ ~no.heap
  BY <1>1, <1>2, <1>3, <1>4 DEF TimerRec, NoTimer, Modes
<1>6. First(Modes) = "r" /\ First({"r"}) = "r" /\ First({"w"}) = "w"
  BY DEF First, Modes
<1>7. CASE d["r"] > 0 /\ d["r"] = d["w"]
  BY <1>1, <1>4, <1>7, <1>5, <1>6 DEF NewTimers, Modes
<1>8. CASE ~(d["r"] > 0 /\ d["r"] = d["w"])
  <2>1. t = [m \in Modes |-> IF d[m] > 0 THEN [fv |-> TRUE, heap |-> TRUE, modes |-> {m}, seq |-> n] ELSE no]
    BY <1>4, <1>8 DEF NewTimers
  <2>2. /\ t["r"] = IF d["r"] > 0 THEN r ELSE no
        /\ t["w"] = IF d["w"] > 0 THEN w ELSE no
    BY <1>2, <1>3, <2>1 DEF Modes
  <2>3. t \in [Modes -> TimerRec]
    BY <1>5, <2>2, <2>1 DEF Modes
  <2>4. \A m \in Modes : m = "r" \/ m = "w"
    BY DEF Modes
  <2>5. /\ t["r"].heap => t["r"].fv
        /\ t["r"].fv => t["r"].seq = n /\ t["r"].modes = {"r"} /\ d["r"] > 0
    BY <1>5, <2>2
  <2>6. /\ t["w"].heap => t["w"].fv
        /\ t["w"].fv => t["w"].seq = n /\ t["w"].modes = {"w"} /\ d["w"] > 0
    BY <1>5, <2>2
  <2> QED
    BY <1>6, <2>3, <2>4, <2>5, <2>6
<1> QED
  BY <1>7, <1>8

(* pds[p] with new deadlines d.                                            *)
Dated(a, d) == [a EXCEPT !.seq = @ + 1, !.d = d, !.t = NewTimers(d, a.seq + 1)]

(* Deadlines d, on a PollDesc that is not closing.                         *)
LEMMA DatedFits ==
  ASSUME NEW a \in PdRec, ~a.closing, NEW d \in [Modes -> Int], NEW b, b = Dated(a, d)
  PROVE  /\ b \in PdRec /\ b.fd = a.fd /\ b.closing = a.closing /\ b.seq = a.seq + 1 /\ b.waits = a.waits
         /\ TimerFits(b)
<1>1. PICK n \in Nat : n = a.seq + 1
  BY DEF PdRec
<1>2. PICK t : t = NewTimers(d, n)
  OBVIOUS
<1>3. /\ t \in [Modes -> TimerRec]
      /\ \A m \in Modes :
           /\ t[m].heap => t[m].fv
           /\ t[m].fv => /\ t[m].seq = n /\ t[m].modes # {} /\ First(t[m].modes) = m
                         /\ \A k \in t[m].modes : d[k] > 0
      /\ t["r"].fv /\ t["w"].fv => "w" \notin t["r"].modes
  BY <1>2, NewTimersFit
<1>4. b = [a EXCEPT !.seq = n, !.d = d, !.t = t]
  BY <1>1, <1>2 DEF Dated
<1>5. /\ b \in PdRec /\ b.fd = a.fd /\ b.closing = a.closing /\ b.seq = n /\ b.waits = a.waits
      /\ b.d = d /\ b.t = t
  BY <1>3, <1>4 DEF PdRec
<1>6. TimerFits(b)
  BY <1>3, <1>5 DEF TimerFits
<1> QED
  BY <1>1, <1>5, <1>6

(* pollSetDeadline: new timers, and those past their deadline are made     *)
(* ready.                                                                  *)
LEMMA PollSetDeadlineKeeps ==
  ASSUME NetIInv, RawAlone, NEW i \in Goroutines, pollSetDeadline(i)
  PROVE  NetIInv'
<1>0. NetTypes /\ InCall /\ EventsFit
  BY DEF NetIInv
<1>1. g[i].pc = "use" /\ g[i].pc \in Holding /\ g[i].pc # "idle" /\ Call(i).op = "SetDeadline"
  BY DEF pollSetDeadline, At, Does, Holding
<1>2. PICK p : p = Pd(i)
  OBVIOUS
<1>3. p \in DOMAIN pds /\ pds[p] \in PdRec
  BY <1>1, <1>2, HolderFacts
<1>4. UNCHANGED <<nprog, fdmu, fd, cache, net, firing, throw>>
  BY DEF pollSetDeadline
<1>5. g \in [Goroutines -> GRec] /\ "decref" \in Places
  BY <1>0 DEF NetTypes, Places, Holding
<1>6. CASE pds[p].closing
  <2>1. Goto(i, "decref") /\ pds' = pds
    BY <1>2, <1>6 DEF pollSetDeadline
  <2>2. PICK s \in GRec : g' = [g EXCEPT ![i] = s] /\ s.i = g[i].i /\ s.pc = "decref"
    BY <1>5, <2>1, GotoState
  <2>3. g' \in [Goroutines -> GRec] /\ g'[i] = s /\ \A j \in Goroutines : j # i => g'[j] = g[j]
    BY <1>5, <2>2
  <2>4. \A j \in Goroutines : Moves(j)
    BY <1>1, <2>2, <2>3 DEF Moves
  <2>5. InnerStep
    BY <1>0, <1>4, <2>1, <2>3, <2>4 DEF InnerStep, NetTypes
  <2>6. \A j \in Goroutines : /\ g'[j].pc = "parked" <=> g[j].pc = "parked"
                              /\ g[j].pc = "evict" => g'[j].pc = "evict"
                              /\ Awaits(g'[j]) => Awaits(g[j])
    BY <1>1, <2>2, <2>3 DEF Awaits
  <2>7. EdgesKept'
    BY <1>4, <2>1, <2>5, <2>6, EdgesFrame
  <2>8. EventsFit' /\ net' \in NetRec /\ SamePds
    BY <1>0, <1>4, <2>1 DEF EventsFit, NetTypes, SamePds
  <2> QED
    BY <1>4, <2>3, <2>4, <2>6, <2>7, <2>8, NetOnly
<1>7. CASE ~pds[p].closing
  <2>1. PICK d : d = [m \in Modes |-> IF m \in Call(i).modes THEN Call(i).d ELSE pds[p].d[m]]
    OBVIOUS
  <2>2. d \in [Modes -> Int]
    BY <1>0, <1>1, CallFacts, <1>3, <2>1 DEF NetCalls, IO, PdRec
  <2>3. PICK ms \in SUBSET Modes : ms = {m \in Modes : d[m] < 0}
    OBVIOUS
  <2>4. PICK c : c = Dated(pds[p], d)
    OBVIOUS
  <2>5. /\ c \in PdRec /\ c.fd = pds[p].fd /\ c.closing = pds[p].closing /\ c.seq = pds[p].seq + 1
        /\ c.waits = pds[p].waits /\ TimerFits(c)
    BY <1>3, <1>7, <2>2, <2>4, DatedFits
  <2>f. PICK io \in BOOLEAN : io = FALSE
    OBVIOUS
  <2>6. PICK b : b = netpollunblock(c, ms, io)
    OBVIOUS
  <2>7. /\ b \in PdRec /\ b.fd = c.fd /\ b.closing = c.closing /\ b.seq = c.seq /\ b.d = c.d /\ b.t = c.t
        /\ \A m \in Modes : b.waits[m] = IF m \in ms THEN Unblocked(c.waits[m], io) ELSE c.waits[m]
    BY <2>5, <2>6, UnblockPd
  <2>8. PICK a : a = Woken(pds[p], ms, io)
    OBVIOUS
  <2>9. /\ a \in [Goroutines -> GRec]
        /\ \A j \in Goroutines : /\ a[j].i = g[j].i
                                 /\ Wakes(j, p, ms) => a[j].pc = "woken" /\ a[j].param = io
                                 /\ ~Wakes(j, p, ms) => a[j] = g[j]
    <3>1. p \in DOMAIN pds /\ ms \in SUBSET Modes /\ io \in BOOLEAN
      BY <1>3
    <3> QED
      BY <2>8, <3>1, WokenIs
  <2>10. pds' = [pds EXCEPT ![p] = b] /\ g' = [a EXCEPT ![i].pc = "decref"]
    BY <1>2, <1>7, <2>1, <2>3, <2>4, <2>f, <2>6, <2>8 DEF pollSetDeadline, Dated, SetPd
  <2>11. ~Wakes(i, p, ms)
    BY <1>1 DEF Wakes
  <2>12. PICK s : s = [a[i] EXCEPT !.pc = "decref"]
    OBVIOUS
  <2>13. s \in GRec /\ s.pc = "decref" /\ s.i = g[i].i
    BY <1>5, <2>9, <2>12 DEF GRec
  <2>14. g' = [a EXCEPT ![i] = s]
    BY <2>10, <2>12
  <2>15. g' \in [Goroutines -> GRec] /\ g'[i] = s /\ \A j \in Goroutines : j # i => g'[j] = a[j]
    BY <2>9, <2>13, <2>14
  <2>16. \A j \in Goroutines :
          /\ g'[j].i = g[j].i
          /\ Wakes(j, p, ms) => g'[j].pc = "woken" /\ g'[j].param = io
          /\ ~Wakes(j, p, ms) => g'[j] = g[j] \/ (g[j].pc \in {"use", "evict"} /\ g'[j].pc = "decref")
    BY <1>1, <2>9, <2>11, <2>13, <2>15
  <2>17. net \in NetRec /\ firing \in SUBSET FiringRec
    BY <1>0 DEF NetTypes
  <2>18. UnblockStep(p, b, ms, io)
    BY <1>4, <2>5, <2>7, <2>10, <2>15, <2>16, <2>17 DEF UnblockStep
  <2>19. /\ InnerStep /\ pds'[p] = b /\ DOMAIN pds' = DOMAIN pds
         /\ \A q \in DOMAIN pds : q # p => pds'[q] = pds[q]
    BY <1>3, <2>18, UnblockInner
  <2>20. Waiting' /\ EdgesKept' /\ EventsFit'
    BY <1>3, <2>18, UnblockWaiting, UnblockEdges
  <2>21. TimerFits(b)
    BY <2>5, <2>7 DEF TimerFits
  <2>22. TimersFit'
    BY <1>3, <1>4, <2>5, <2>7, <2>19, <2>21, TimersBumped
  <2>23. Closing'
    BY <1>1, <2>9, <2>15, <2>5, <2>7, <2>19, ClosingKept DEF Wakes
  <2> QED
    BY <2>19, <2>20, <2>22, <2>23, InnerKeeps DEF NetIInv
<1> QED
  BY <1>6, <1>7

(* A PollDesc whose netFD is being closed.                                 *)
Shut(a) == [a EXCEPT !.closing = TRUE, !.seq = @ + 1, !.t = [m \in Modes |-> NoTimer]]

(* Its timers are stopped.                                                 *)
LEMMA ShutFits ==
  ASSUME NEW a \in PdRec, NEW b, b = Shut(a)
  PROVE  /\ b \in PdRec /\ b.fd = a.fd /\ b.closing /\ b.seq = a.seq + 1 /\ b.waits = a.waits
         /\ TimerFits(b)
<1>1. PICK n \in Nat : n = a.seq + 1
  BY DEF PdRec
<1>2. PICK t : t = [m \in Modes |-> NoTimer]
  OBVIOUS
<1>3. /\ NoTimer \in TimerRec /\ ~NoTimer.fv /\ ~NoTimer.heap
  BY DEF NoTimer, TimerRec, Modes
<1>4. t \in [Modes -> TimerRec] /\ \A m \in Modes : ~t[m].fv /\ ~t[m].heap
  BY <1>2, <1>3
<1>5. b = [a EXCEPT !.closing = TRUE, !.seq = n, !.t = t]
  BY <1>1, <1>2 DEF Shut
<1>6. /\ b \in PdRec /\ b.fd = a.fd /\ b.closing /\ b.seq = n /\ b.waits = a.waits /\ b.t = t
  BY <1>4, <1>5 DEF PdRec
<1>7. TimerFits(b)
  BY <1>4, <1>6 DEF TimerFits, Modes
<1> QED
  BY <1>1, <1>6, <1>7

(* Close evicts: the PollDesc is closing, and nobody waits on it any more. *)
LEMMA PollUnblockKeeps ==
  ASSUME NetIInv, RawAlone, NEW i \in Goroutines, pollUnblock(i)
  PROVE  NetIInv'
<1>0. NetTypes /\ InCall /\ Closing /\ Evicting /\ Owned
  BY DEF NetIInv
<1>1. g[i].pc = "evict" /\ g[i].pc \in Holding /\ g[i].pc # "idle"
  BY DEF pollUnblock, At, Holding
<1>2. PICK p : p = Pd(i)
  OBVIOUS
<1>3. p \in DOMAIN pds /\ pds[p] \in PdRec /\ p = fd[Call(i).fd].pd /\ p # Nil /\ Call(i).fd \in Fds
  BY <1>0, <1>1, <1>2, HolderFacts, CallFacts
<1>4. Evicts(i, Call(i).fd) /\ fdmu[Call(i).fd]["net"].closed
  BY <1>0, <1>1 DEF Evicts, Evicting
<1>5. ~pds[p].closing
  BY <1>0, <1>3, <1>4 DEF Closing
<1>6. UNCHANGED <<nprog, fdmu, fd, cache, net, firing>>
  BY DEF pollUnblock
<1>7. throw' = throw
  BY <1>2, <1>5, Zenon DEF pollUnblock
<1>8. PICK io \in BOOLEAN : io = FALSE
  OBVIOUS
<1>9. PICK ms \in SUBSET Modes : ms = Modes
  OBVIOUS
<1>10. PICK c : c = Shut(pds[p])
  OBVIOUS
<1>11. /\ c \in PdRec /\ c.fd = pds[p].fd /\ c.closing /\ c.seq = pds[p].seq + 1 /\ c.waits = pds[p].waits
       /\ TimerFits(c)
  BY <1>3, <1>10, ShutFits
<1>12. PICK b : b = netpollunblock(c, ms, io)
  OBVIOUS
<1>13. /\ b \in PdRec /\ b.fd = c.fd /\ b.closing = c.closing /\ b.seq = c.seq /\ b.d = c.d /\ b.t = c.t
       /\ \A m \in Modes : b.waits[m] = IF m \in ms THEN Unblocked(c.waits[m], io) ELSE c.waits[m]
  <2>1. c \in PdRec /\ ms \in SUBSET Modes /\ io \in BOOLEAN
    BY <1>11
  <2> QED
    BY <1>12, <2>1, UnblockPd
<1>14. PICK a : a = Woken(pds[p], ms, io)
  OBVIOUS
<1>15. /\ a \in [Goroutines -> GRec]
       /\ \A j \in Goroutines : /\ a[j].i = g[j].i
                                /\ Wakes(j, p, ms) => a[j].pc = "woken" /\ a[j].param = io
                                /\ ~Wakes(j, p, ms) => a[j] = g[j]
  <2>1. p \in DOMAIN pds /\ ms \in SUBSET Modes /\ io \in BOOLEAN
    BY <1>3
  <2> QED
    BY <1>14, <2>1, WokenIs
<1>16. pds' = [pds EXCEPT ![p] = b] /\ g' = [a EXCEPT ![i].pc = "decref"]
  BY <1>2, <1>8, <1>9, <1>10, <1>12, <1>14 DEF pollUnblock, Shut, SetPd
<1>17. ~Wakes(i, p, ms)
  BY <1>1 DEF Wakes
<1>18. PICK s : s = [a[i] EXCEPT !.pc = "decref"]
  OBVIOUS
<1>19. s \in GRec /\ s.pc = "decref" /\ s.i = g[i].i
  BY <1>15, <1>18 DEF GRec, Places, Holding
<1>20. g' = [a EXCEPT ![i] = s]
  BY <1>16, <1>18
<1>21. g' \in [Goroutines -> GRec] /\ g'[i] = s /\ \A j \in Goroutines : j # i => g'[j] = a[j]
  BY <1>15, <1>19, <1>20
<1>22. \A j \in Goroutines :
        /\ g'[j].i = g[j].i
        /\ Wakes(j, p, ms) => g'[j].pc = "woken" /\ g'[j].param = io
        /\ ~Wakes(j, p, ms) => g'[j] = g[j] \/ (g[j].pc \in {"use", "evict"} /\ g'[j].pc = "decref")
  BY <1>1, <1>15, <1>17, <1>19, <1>21
<1>23. net \in NetRec /\ firing \in SUBSET FiringRec
  BY <1>0 DEF NetTypes
<1>24. UnblockStep(p, b, ms, io)
  BY <1>5, <1>11, <1>13, <1>6, <1>7, <1>16, <1>21, <1>22, <1>23 DEF UnblockStep
<1>25. /\ InnerStep /\ pds'[p] = b /\ DOMAIN pds' = DOMAIN pds
       /\ \A q \in DOMAIN pds : q # p => pds'[q] = pds[q]
  <2>1. p \in DOMAIN pds
    BY <1>3
  <2> QED
    BY <1>24, <2>1, UnblockInner
<1>26. Waiting' /\ EdgesKept' /\ EventsFit'
  <2>1. p \in DOMAIN pds
    BY <1>3
  <2> QED
    BY <1>24, <2>1, UnblockWaiting, UnblockEdges
<1>27. TimersFit'
  <2>1. TimerFits(b)
    BY <1>11, <1>13 DEF TimerFits
  <2> QED
    BY <1>3, <1>6, <1>11, <1>13, <1>25, <2>1, TimersBumped
<1>28. Closing'
  <2> SUFFICES ASSUME NEW f \in Fds, fd[f].pd # Nil
               PROVE  pds'[fd[f].pd].closing <=> fdmu[f]["net"].closed /\ \A j \in Goroutines : ~Evicts(j, f)'
    BY <1>6 DEF Closing
  <2>1. \A j \in Goroutines : Call(j)' = Call(j)
    BY <1>25, InnerCalls
  <2>2. CASE f = Call(i).fd
    <3>1. pds'[fd[f].pd].closing
      BY <1>3, <1>11, <1>13, <1>25, <2>2
    <3>2. ASSUME NEW j \in Goroutines, Evicts(j, f)' PROVE FALSE
      BY <2>1, <3>2, <1>15, <1>19, <1>21, <1>0, <1>1, <2>2 DEF Evicts, Wakes, Evicting
    <3> QED
      BY <1>4, <2>2, <3>1, <3>2
  <2>3. CASE f # Call(i).fd
    <3>1. fd[f].pd \in DOMAIN pds /\ pds[fd[f].pd].fd = f /\ pds[p].fd = Call(i).fd
      BY <1>0, <1>3 DEF Owned
    <3>2. pds'[fd[f].pd] = pds[fd[f].pd]
      BY <1>25, <2>3, <3>1
    <3>3. \A j \in Goroutines : Evicts(j, f)' <=> Evicts(j, f)
      BY <1>19, <1>21, <2>1, <2>3, <1>15 DEF Evicts, Wakes
    <3> QED
      BY <1>0, <3>2, <3>3 DEF Closing
  <2> QED
    BY <2>2, <2>3
<1> QED
  BY <1>25, <1>26, <1>27, <1>28, InnerKeeps DEF NetIInv

(* The mode whose timer serves the modes ms is one of them.                *)
LEMMA FirstIs ==
  ASSUME NEW ms \in SUBSET Modes, ms # {}
  PROVE  /\ First(ms) \in ms /\ First(ms) \in Modes
         /\ \A m \in ms : m = First(ms) \/ (m = "w" /\ First(ms) = "r")
BY DEF First, Modes

(* A PollDesc whose deadlines on the sides ms have passed.                 *)
Passed(a, ms) ==
  [a EXCEPT !.d = [m \in Modes |-> IF m \in ms THEN -1 ELSE @[m]],
            !.t = [m \in Modes |-> IF m \in ms THEN [@[m] EXCEPT !.fv = FALSE] ELSE @[m]]]

(* What is left of its deadlines and timers.                               *)
LEMMA PassedIs ==
  ASSUME NEW a \in PdRec, NEW ms \in SUBSET Modes, NEW b, b = Passed(a, ms)
  PROVE  /\ b \in PdRec /\ b.fd = a.fd /\ b.closing = a.closing /\ b.seq = a.seq /\ b.waits = a.waits
         /\ \A m \in Modes :
              /\ b.d[m] = IF m \in ms THEN -1 ELSE a.d[m]
              /\ b.t[m].heap = a.t[m].heap /\ b.t[m].modes = a.t[m].modes /\ b.t[m].seq = a.t[m].seq
              /\ m \in ms => ~b.t[m].fv
              /\ m \notin ms => b.t[m].fv = a.t[m].fv
<1>1. PICK d : d = [m \in Modes |-> IF m \in ms THEN -1 ELSE a.d[m]]
  OBVIOUS
<1>2. a.d \in [Modes -> Int] /\ a.t \in [Modes -> TimerRec]
  BY DEF PdRec
<1>3. d \in [Modes -> Int]
  BY <1>1, <1>2
<1>4. PICK t : t = [m \in Modes |-> IF m \in ms THEN [a.t[m] EXCEPT !.fv = FALSE] ELSE a.t[m]]
  OBVIOUS
<1>5. ASSUME NEW m \in Modes
      PROVE  /\ t[m] \in TimerRec
             /\ t[m].heap = a.t[m].heap /\ t[m].modes = a.t[m].modes /\ t[m].seq = a.t[m].seq
             /\ m \in ms => ~t[m].fv
             /\ m \notin ms => t[m].fv = a.t[m].fv
  <2>1. PICK q \in TimerRec : q = a.t[m]
    BY <1>2
  <2>2. CASE m \in ms
    BY <1>4, <2>1, <2>2 DEF TimerRec
  <2>3. CASE m \notin ms
    <3>1. t[m] = q
      BY <1>4, <2>1, <2>3
    <3> QED
      BY <2>1, <2>3, <3>1
  <2> QED
    BY <2>2, <2>3
<1>6. t \in [Modes -> TimerRec]
  BY <1>4, <1>5
<1>7. b = [a EXCEPT !.d = d, !.t = t]
  BY <1>1, <1>4 DEF Passed
<1>8. /\ b \in PdRec /\ b.fd = a.fd /\ b.closing = a.closing /\ b.seq = a.seq /\ b.waits = a.waits
      /\ b.d = d /\ b.t = t
  BY <1>3, <1>6, <1>7 DEF PdRec
<1> QED
  BY <1>1, <1>5, <1>8

(* A timer that fires and is not stale finds its deadline and its fv.      *)
LEMMA FiresFor ==
  ASSUME NEW a \in PdRec, TimerFits(a), NEW t \in FiringRec, FiringFits(t, a), t.seq = a.seq
  PROVE  /\ First(t.modes) \in Modes /\ a.t[First(t.modes)].fv
         /\ \A m \in t.modes : m \in Modes /\ a.d[m] > 0 /\ ~a.t[m].heap
         /\ ~a.closing
<1>1. /\ t.modes # {} /\ t.modes \in SUBSET Modes
      /\ a.t[First(t.modes)].fv /\ ~a.t[First(t.modes)].heap /\ a.t[First(t.modes)].modes = t.modes
  BY DEF FiringFits, FiringRec
<1>2. /\ First(t.modes) \in t.modes /\ First(t.modes) \in Modes
      /\ \A m \in t.modes : m = First(t.modes) \/ (m = "w" /\ First(t.modes) = "r")
  BY <1>1, FirstIs
<1>3. \A m \in t.modes : a.d[m] > 0
  BY <1>1, <1>2 DEF TimerFits
<1>4. ASSUME NEW m \in t.modes PROVE ~a.t[m].heap
  <2>1. CASE m = First(t.modes)
    BY <1>1, <2>1
  <2>2. CASE m = "w" /\ First(t.modes) = "r"
    BY <1>1, <2>2 DEF TimerFits, Modes
  <2> QED
    BY <1>2, <2>1, <2>2
<1>5. ~a.closing
  BY <1>1, <1>2 DEF TimerFits
<1> QED
  BY <1>1, <1>2, <1>3, <1>4, <1>5

(* What is left when it has run still fits.                                *)
LEMMA PassedFits ==
  ASSUME NEW a \in PdRec, TimerFits(a), NEW t \in FiringRec, FiringFits(t, a), t.seq = a.seq,
         NEW b, b = Passed(a, t.modes)
  PROVE  TimerFits(b)
<1>1. t.modes \in SUBSET Modes
  BY DEF FiringRec
<1>2. /\ b.closing = a.closing /\ b.seq = a.seq
      /\ \A m \in Modes :
           /\ b.d[m] = IF m \in t.modes THEN -1 ELSE a.d[m]
           /\ b.t[m].heap = a.t[m].heap /\ b.t[m].modes = a.t[m].modes /\ b.t[m].seq = a.t[m].seq
           /\ m \in t.modes => ~b.t[m].fv
           /\ m \notin t.modes => b.t[m].fv = a.t[m].fv
  BY <1>1, PassedIs
<1>3. /\ First(t.modes) \in Modes /\ a.t[First(t.modes)].fv
      /\ \A m \in t.modes : m \in Modes /\ a.d[m] > 0 /\ ~a.t[m].heap
      /\ ~a.closing
  BY FiresFor
<1>4. t.modes # {} /\ a.t[First(t.modes)].modes = t.modes
  BY DEF FiringFits
<1>5. \A m \in Modes : b.t[m].fv => a.t[m].fv /\ m \notin t.modes
  BY <1>2
<1>6. \A m \in Modes : b.t[m].heap => b.t[m].fv
  BY <1>3, <1>2 DEF TimerFits
<1>7. ASSUME NEW m \in Modes, b.t[m].fv, NEW k \in b.t[m].modes PROVE b.d[k] > 0
  <2>1. /\ a.t[m].fv /\ m \notin t.modes /\ k \in a.t[m].modes /\ a.d[k] > 0
        /\ First(a.t[m].modes) = m /\ k \in Modes
    BY <1>2, <1>5, <1>7 DEF TimerFits, PdRec, TimerRec
  <2>2. k \notin t.modes
    <3>1. CASE m = "r"
      BY <1>1, <1>4, <2>1, <3>1, <1>3 DEF First, Modes, TimerFits
    <3>2. CASE m = "w"
      BY <2>1, <3>2 DEF First, Modes
    <3> QED
      BY <3>1, <3>2 DEF Modes
  <2> QED
    BY <1>2, <2>1, <2>2
<1>8. \A m \in Modes : b.t[m].fv => b.t[m].seq = b.seq /\ b.t[m].modes # {} /\ First(b.t[m].modes) = m
  BY <1>2, <1>5 DEF TimerFits
<1>9. b.t["r"].fv /\ b.t["w"].fv => "w" \notin b.t["r"].modes
  BY <1>2, <1>5 DEF TimerFits, Modes
<1>10. ~b.closing
  BY <1>2, <1>3
<1> QED
  BY <1>6, <1>7, <1>8, <1>9, <1>10 DEF TimerFits

(* Another timer of the same PollDesc that is not stale serves the other   *)
(* side.                                                                   *)
LEMMA OthersFit ==
  ASSUME NEW a \in PdRec, TimerFits(a), NEW t \in FiringRec, FiringFits(t, a), t.seq = a.seq,
         NEW b, b = Passed(a, t.modes), NEW u \in FiringRec, u # t, u.pd = t.pd, FiringFits(u, a)
  PROVE  FiringFits(u, b)
<1>1. t.modes \in SUBSET Modes /\ u.modes \in SUBSET Modes /\ u.modes # {} /\ t.modes # {}
  BY DEF FiringRec, FiringFits
<1>2. /\ b.seq = a.seq
      /\ \A m \in Modes :
           /\ b.t[m].heap = a.t[m].heap /\ b.t[m].modes = a.t[m].modes
           /\ m \notin t.modes => b.t[m].fv = a.t[m].fv
  BY <1>1, PassedIs
<1>3. CASE u.seq # a.seq
  BY <1>2, <1>3 DEF FiringFits
<1>4. CASE u.seq = a.seq
  <2>1. a.t[First(t.modes)].fv /\ a.t[First(t.modes)].modes = t.modes
    BY DEF FiringFits
  <2>2. a.t[First(u.modes)].fv /\ ~a.t[First(u.modes)].heap /\ a.t[First(u.modes)].modes = u.modes /\ u.seq <= a.seq
    BY <1>4 DEF FiringFits
  <2>3. First(u.modes) \in Modes
    BY <1>1, FirstIs
  <2>4. u.modes # t.modes
    BY <1>4 DEF FiringRec
  <2>5. First(u.modes) # First(t.modes)
    BY <2>1, <2>2, <2>4
  <2>6. First(u.modes) \notin t.modes
    <3>1. ASSUME First(u.modes) \in t.modes PROVE FALSE
      BY <1>1, <2>5, <3>1, FirstIs, <2>1, <2>2 DEF TimerFits
    <3> QED
      BY <3>1
  <2>7. b.t[First(u.modes)].fv /\ ~b.t[First(u.modes)].heap /\ b.t[First(u.modes)].modes = u.modes
    BY <1>2, <2>2, <2>3, <2>6
  <2> QED
    BY <1>1, <1>2, <2>2, <2>7 DEF FiringFits
<1> QED
  BY <1>3, <1>4

(* A stale timer does nothing.                                             *)
LEMMA StaleKeeps ==
  ASSUME NetIInv, RawAlone, NEW t \in firing, firing' = firing \ {t},
         UNCHANGED <<nprog, fdmu, fd, pds, cache, net, g, throw>>
  PROVE  NetIInv'
BY WaitsKept, ClosingKept, EdgesFrame, InnerKeeps DEF NetIInv, Moves, InnerStep, NetTypes,
    EventsFit, TimersFit

(* deadlineimpl finds the deadline it was started for, or is stale.        *)
LEMMA DeadlineimplKeeps ==
  ASSUME NetIInv, RawAlone, NEW t \in firing, deadlineimpl(t)
  PROVE  NetIInv'
<1>0. NetTypes /\ TimersFit
  BY DEF NetIInv
<1>1. firing' = firing \ {t} /\ UNCHANGED <<nprog, fdmu, fd, cache, net>>
  BY DEF deadlineimpl
<1>2. CASE Stale(t)
  BY <1>2, <1>1, StaleKeeps DEF deadlineimpl
<1>3. CASE ~Stale(t)
  <2>1. PICK p : p = t.pd
    OBVIOUS
  <2>2. p \in DOMAIN pds
    BY <1>0, <2>1 DEF TimersFit
  <2>3. PICK a : a = pds[p]
    OBVIOUS
  <2>4. a \in PdRec /\ TimerFits(a) /\ t \in FiringRec /\ FiringFits(t, a)
    BY <1>0, <2>1, <2>2, <2>3 DEF TimersFit, NetTypes
  <2>5. t.seq = a.seq
    BY <1>3, <2>1, <2>3 DEF Stale
  <2>6. /\ First(t.modes) \in Modes /\ a.t[First(t.modes)].fv
        /\ \A m \in t.modes : m \in Modes /\ a.d[m] > 0 /\ ~a.t[m].heap
        /\ ~a.closing
    BY <2>4, <2>5, FiresFor
  <2>7. ~(\E m \in t.modes : a.d[m] <= 0)
    BY <2>4, <2>6 DEF PdRec
  <2>8. a.t[IF "r" \in t.modes THEN "r" ELSE "w"].fv
    BY <2>6 DEF First
  <2>9. throw' = throw
    BY <1>3, <2>1, <2>3, <2>7, <2>8, Zenon DEF deadlineimpl
  <2>10. PICK ms \in SUBSET Modes : ms = t.modes
    BY <2>4 DEF FiringRec
  <2>11. PICK io \in BOOLEAN : io = FALSE
    OBVIOUS
  <2>12. PICK c : c = Passed(a, t.modes)
    OBVIOUS
  <2>13. /\ c \in PdRec /\ c.fd = a.fd /\ c.closing = a.closing /\ c.seq = a.seq /\ c.waits = a.waits
    BY <2>4, <2>10, <2>12, PassedIs
  <2>14. TimerFits(c)
    BY <2>4, <2>5, <2>12, PassedFits
  <2>15. PICK b : b = netpollunblock(c, ms, io)
    OBVIOUS
  <2>16. /\ b \in PdRec /\ b.fd = c.fd /\ b.closing = c.closing /\ b.seq = c.seq /\ b.d = c.d /\ b.t = c.t
         /\ \A m \in Modes : b.waits[m] = IF m \in ms THEN Unblocked(c.waits[m], io) ELSE c.waits[m]
    BY <2>13, <2>15, UnblockPd
  <2>17. pds' = [pds EXCEPT ![p] = b] /\ g' = Woken(pds[p], ms, io)
    BY <1>3, <2>1, <2>3, <2>10, <2>11, <2>12, <2>15 DEF deadlineimpl, Passed, SetPd
  <2>18. /\ g' \in [Goroutines -> GRec]
         /\ \A j \in Goroutines : /\ g'[j].i = g[j].i
                                  /\ Wakes(j, p, ms) => g'[j].pc = "woken" /\ g'[j].param = io
                                  /\ ~Wakes(j, p, ms) => g'[j] = g[j]
    BY <2>2, <2>17, WokenIs
  <2>19. net \in NetRec /\ firing' \in SUBSET FiringRec
    BY <1>0, <1>1 DEF NetTypes
  <2>20. UnblockStep(p, b, ms, io)
    BY <2>3, <2>6, <2>13, <2>16, <1>1, <2>9, <2>17, <2>18, <2>19 DEF UnblockStep
  <2>21. /\ InnerStep /\ pds'[p] = b /\ DOMAIN pds' = DOMAIN pds
         /\ \A q \in DOMAIN pds : q # p => pds'[q] = pds[q]
    BY <2>2, <2>20, UnblockInner
  <2>22. Waiting' /\ EdgesKept' /\ EventsFit'
    BY <2>2, <2>20, UnblockWaiting, UnblockEdges
  <2>23. Closing'
    BY <2>18, <2>3, <2>13, <2>16, <2>21, ClosingKept DEF Wakes
  <2>24. TimersFit'
    <3>1. TimerFits(b)
      BY <2>14, <2>16 DEF TimerFits
    <3>2. \A q \in DOMAIN pds : TimerFits(pds'[q])
      BY <1>0, <2>21, <3>1 DEF TimersFit
    <3>3. ASSUME NEW u \in firing' PROVE u.pd \in DOMAIN pds /\ FiringFits(u, pds'[u.pd])
      <4>1. u \in firing /\ u # t /\ u.pd \in DOMAIN pds /\ FiringFits(u, pds[u.pd]) /\ u \in FiringRec
        BY <1>0, <1>1, <3>3 DEF TimersFit, NetTypes
      <4>2. CASE u.pd # p
        BY <2>21, <4>1, <4>2
      <4>3. CASE u.pd = p
        <5>1. FiringFits(u, c)
          BY <2>1, <2>3, <2>4, <2>5, <2>12, <4>1, <4>3, OthersFit
        <5>2. FiringFits(u, b)
          BY <2>16, <5>1 DEF FiringFits
        <5> QED
          BY <2>21, <4>1, <4>3, <5>2
      <4> QED
        BY <4>2, <4>3
    <3> QED
      BY <2>21, <3>2, <3>3 DEF TimersFit
  <2> QED
    BY <2>21, <2>22, <2>23, <2>24, InnerKeeps DEF NetIInv
<1> QED
  BY <1>2, <1>3

(***************************************************************************)
(* Opening and destroying a netFD that nobody holds                        *)
(***************************************************************************)

(* i, which holds no reference, changes its netFD to r and goes on in s.   *)
FdStep(i, r, s) ==
  /\ g[i].pc \notin Holding /\ s \in GRec /\ s.pc \notin Holding /\ g' = [g EXCEPT ![i] = s]
  /\ Call(i).fd \in Fds /\ r \in FdRec /\ fd' = [fd EXCEPT ![Call(i).fd] = r]
  /\ \A j \in Goroutines : g[j].pc \in Holding => Call(j).fd # Call(i).fd
  /\ UNCHANGED <<nprog, fdmu, throw>>

(* The others are where they were; those who hold a reference have the     *)
(* same PollDesc.                                                          *)
LEMMA FdFrame ==
  ASSUME NetIInv, NEW i \in Goroutines, NEW r, NEW s, FdStep(i, r, s)
  PROVE  /\ g' \in [Goroutines -> GRec] /\ g'[i] = s /\ \A j \in Goroutines : j # i => g'[j] = g[j]
         /\ fd' \in [Fds -> FdRec] /\ fd'[Call(i).fd] = r /\ \A h \in Fds : h # Call(i).fd => fd'[h] = fd[h]
         /\ \A j \in Goroutines : j # i =>
              /\ Call(j)' = Call(j) /\ Mode(j)' = Mode(j) /\ Mutex(j)' = Mutex(j) /\ Mu(j)' = Mu(j)
              /\ \A f, x : Uses(j, f, x)' <=> Uses(j, f, x)
         /\ \A j \in Goroutines : (g'[j].pc \in Holding <=> g[j].pc \in Holding)
         /\ \A j \in Goroutines : g[j].pc \in Holding =>
              /\ j # i /\ Call(j).fd # Call(i).fd /\ Call(j).fd \in Fds
              /\ Pd(j)' = Pd(j) /\ Call(j)' = Call(j) /\ Mode(j)' = Mode(j) /\ g'[j] = g[j]
         /\ \A j \in Goroutines, f \in Fds : Evicts(j, f)' <=> Evicts(j, f)
<1>0. NetTypes /\ InCall
  BY DEF NetIInv
<1>1. /\ g[i].pc \notin Holding /\ s \in GRec /\ s.pc \notin Holding /\ g' = [g EXCEPT ![i] = s]
      /\ Call(i).fd \in Fds /\ r \in FdRec /\ fd' = [fd EXCEPT ![Call(i).fd] = r]
      /\ \A j \in Goroutines : g[j].pc \in Holding => Call(j).fd # Call(i).fd
      /\ nprog' = nprog /\ fdmu' = fdmu
  BY DEF FdStep
<1>2. g' \in [Goroutines -> GRec] /\ g'[i] = s /\ \A j \in Goroutines : j # i => g'[j] = g[j]
  BY <1>0, <1>1 DEF NetTypes
<1>3. fd' \in [Fds -> FdRec] /\ fd'[Call(i).fd] = r /\ \A h \in Fds : h # Call(i).fd => fd'[h] = fd[h]
  BY <1>0, <1>1 DEF NetTypes
<1>4. ASSUME NEW j \in Goroutines, j # i
      PROVE  /\ Call(j)' = Call(j) /\ Mode(j)' = Mode(j) /\ Mutex(j)' = Mutex(j) /\ Mu(j)' = Mu(j)
             /\ \A f, x : Uses(j, f, x)' <=> Uses(j, f, x)
  BY <1>2, <1>4, <1>1, SameCall DEF Mu
<1>5. \A j \in Goroutines : (g'[j].pc \in Holding <=> g[j].pc \in Holding)
  BY <1>1, <1>2
<1>6. ASSUME NEW j \in Goroutines, g[j].pc \in Holding
      PROVE  /\ j # i /\ Call(j).fd # Call(i).fd /\ Call(j).fd \in Fds
             /\ Pd(j)' = Pd(j) /\ Call(j)' = Call(j) /\ Mode(j)' = Mode(j) /\ g'[j] = g[j]
  BY <1>1, <1>6, <1>0, CallFacts, <1>4, <1>3, <1>2 DEF Holding, Locking, Pd
<1>7. ASSUME NEW j \in Goroutines, NEW f \in Fds PROVE Evicts(j, f)' <=> Evicts(j, f)
  <2>1. CASE j = i
    BY <1>1, <1>2, <2>1 DEF Holding, Evicts
  <2>2. CASE j # i
    BY <1>2, <1>4, <2>2 DEF Evicts
  <2> QED
    BY <2>1, <2>2
<1> QED
  BY <1>2, <1>3, <1>4, <1>5, <1>6, <1>7

(* What does not depend on the netFD.                                      *)
LEMMA FdKeeps ==
  ASSUME NetIInv, NEW i \in Goroutines, NEW r, NEW s, FdStep(i, r, s)
  PROVE  Counted' /\ Locked' /\ Evicting'
<1>0. Counted /\ Locked /\ Evicting
  BY DEF NetIInv
<1>1. /\ \A j \in Goroutines : j # i =>
           /\ Call(j)' = Call(j) /\ Mode(j)' = Mode(j) /\ Mutex(j)' = Mutex(j) /\ Mu(j)' = Mu(j)
           /\ \A f, x : Uses(j, f, x)' <=> Uses(j, f, x)
      /\ \A j \in Goroutines : (g'[j].pc \in Holding <=> g[j].pc \in Holding)
      /\ \A j \in Goroutines : g[j].pc \in Holding => j # i /\ g'[j] = g[j] /\ Call(j).fd \in Fds
      /\ \A j \in Goroutines, f \in Fds : Evicts(j, f)' <=> Evicts(j, f)
  BY FdFrame
<1>2. fdmu' = fdmu
  BY DEF FdStep
<1>3. Counted'
  BY <1>2, <1>1, <1>0 DEF Counted, Holders
<1>4. \A j \in Goroutines : g'[j].pc \in Locking => g[j].pc \in Locking /\ j # i
  BY <1>1 DEF Holding
<1>5. Locked'
  <2> SUFFICES ASSUME NEW j \in Goroutines, g'[j].pc \in Locking
               PROVE  /\ Mode(j)' \in Mu(j)'.lock
                      /\ \A k \in Goroutines \ {j} :
                           g'[k].pc \in Locking /\ Uses(k, Call(j).fd, Mutex(j))' => Mode(k)' # Mode(j)'
    BY DEF Locked
  <2>1. Mode(j)' = Mode(j) /\ Mu(j)' = Mu(j) /\ Call(j)' = Call(j) /\ Mutex(j)' = Mutex(j) /\ g[j].pc \in Locking
    BY <1>1, <1>4
  <2>2. ASSUME NEW k \in Goroutines \ {j}, g'[k].pc \in Locking, Uses(k, Call(j).fd, Mutex(j))'
        PROVE  Mode(k)' # Mode(j)'
    BY <1>1, <1>4, <2>2, <2>1, <1>0 DEF Uses, Locked
  <2> QED
    BY <1>0, <2>1, <2>2 DEF Locked
<1>6. Evicting'
  BY <1>2, <1>1, <1>0 DEF Evicting, Holding, Evicts
<1> QED
  BY <1>3, <1>5, <1>6

(* Whoever ends a netFD is alone on it: it is closed and ref is 0.         *)
LEMMA EnderAlone ==
  ASSUME NetIInv, RawAlone, NEW i \in Goroutines, g[i].pc \in Ending, NEW j \in Goroutines, g[j].pc \in Holding
  PROVE  Call(j).fd # Call(i).fd
BY CallFacts, RawIsOpen, HolderFacts DEF NetIInv, Ending, Holding, Locking, Destroying, Mu, Mutexes

(* The socket is closed: the netFD is gone.                                *)
LEMMA ClosesocketKeeps ==
  ASSUME NetIInv, RawAlone, NEW i \in Goroutines, closesocket(i)
  PROVE  NetIInv'
<1>0. /\ NetTypes /\ InCall /\ Life /\ Closing /\ Destroying /\ Owned /\ Cached /\ Waiting
      /\ TimersFit /\ EdgesKept /\ EventsFit
  BY DEF NetIInv
<1>1. g[i].pc = "closesocket" /\ g[i].pc \in Ending /\ g[i].pc \notin Holding /\ g[i].pc # "idle"
  BY DEF closesocket, At, Ending, Holding, Locking
<1>2. PICK f : f = Call(i).fd
  OBVIOUS
<1>3. /\ f \in Fds /\ fd[f] \in FdRec /\ fdmu[f]["net"].closed /\ fdmu[f]["net"].ref = 0
      /\ fd[f].sock = "open" /\ fd[f].pd = Nil
      /\ \A j \in Goroutines \ {i} : ~(g[j].pc \in Ending /\ Call(j).fd = f)
  BY <1>0, <1>1, <1>2, CallFacts DEF Destroying
<1>4. UNCHANGED <<nprog, fdmu, pds, cache, net, firing>> /\ throw' = throw
  BY <1>2, <1>3 DEF closesocket
<1>5. PICK s \in GRec : g' = [g EXCEPT ![i] = s] /\ s.pc = "idle"
  BY <1>0, ReturnState DEF NetTypes, GRec, closesocket
<1>6. PICK r : r = [fd[f] EXCEPT !.sock = "closed"]
  OBVIOUS
<1>7. r \in FdRec /\ r.sock = "closed" /\ r.pd = fd[f].pd /\ r.raw = fd[f].raw
  BY <1>3, <1>6 DEF FdRec
<1>8. fd' = [fd EXCEPT ![f] = r]
  BY <1>2, <1>6 DEF closesocket
<1>9. FdStep(i, r, s)
  BY <1>5, <1>1, EnderAlone, <1>2, <1>3, <1>4, <1>7, <1>8 DEF Holding, Locking, FdStep
<1>10. /\ g' \in [Goroutines -> GRec] /\ g'[i] = s /\ \A j \in Goroutines : j # i => g'[j] = g[j]
       /\ fd' \in [Fds -> FdRec] /\ fd'[f] = r /\ \A h \in Fds : h # f => fd'[h] = fd[h]
       /\ \A j \in Goroutines : j # i => Call(j)' = Call(j)
       /\ \A j \in Goroutines : (g'[j].pc \in Holding <=> g[j].pc \in Holding)
       /\ \A j \in Goroutines : g[j].pc \in Holding =>
            /\ j # i /\ Call(j).fd # f /\ Call(j).fd \in Fds
            /\ Pd(j)' = Pd(j) /\ Call(j)' = Call(j) /\ Mode(j)' = Mode(j) /\ g'[j] = g[j]
       /\ \A j \in Goroutines, h \in Fds : Evicts(j, h)' <=> Evicts(j, h)
  BY <1>2, <1>9, FdFrame
<1>11. Counted' /\ Locked' /\ Evicting'
  BY <1>9, FdKeeps
<1>12. NetTypes'
  BY <1>0, <1>4, <1>10 DEF NetTypes
<1>13. \A h \in Fds : fd'[h].pd = fd[h].pd /\ fd'[h].raw = fd[h].raw
  BY <1>7, <1>10
<1>14. InCall'
  BY <1>4, <1>5, <1>10, <1>0, CallFacts, <1>7 DEF InCall
<1>15. Life'
  BY <1>4, <1>3, <1>0, <1>7, <1>10 DEF Closes, Life
<1>16. Closing'
  BY <1>0, <1>4, <1>10, <1>13 DEF Closing
<1>17. Destroying'
  BY <1>4, <1>5, <1>10, <1>0, <1>3, CallFacts DEF Destroying, Ending
<1>18. Owned' /\ Cached'
  BY <1>0, <1>4, <1>13 DEF Owned, Cached
<1>19. Waiting'
  BY <1>1, <1>5, <1>10, <1>0, <1>4 DEF Holding, Locking, Waiting
<1>20. TimersFit' /\ EventsFit'
  BY <1>0, <1>4 DEF TimersFit, EventsFit
<1>21. EdgesKept'
  BY <1>4, <1>10, <1>0 DEF EdgesKept, Awaits, Holding, Locking, Signalled
<1> QED
  BY <1>11, <1>12, <1>14, <1>15, <1>16, <1>17, <1>18, <1>19, <1>20, <1>21 DEF NetIInv

(* The PollDesc of a netFD that is destroyed: closing, and nobody waits.   *)
LEMMA DestroyedPd ==
  ASSUME NetIInv, RawAlone, NEW i \in Goroutines, g[i].pc = "destroy", NEW p, p = fd[Call(i).fd].pd
  PROVE  /\ p # Nil /\ p \in DOMAIN pds /\ p \in Nat /\ pds[p].fd = Call(i).fd
         /\ pds[p].closing /\ ~\E m \in Modes : Blocked(pds[p], m)
<1>0. NetTypes /\ InCall /\ Closing /\ Destroying /\ Owned /\ Waiting
  BY DEF NetIInv
<1>1. g[i].pc # "idle" /\ g[i].pc \in Ending
  BY DEF Ending
<1>2. Call(i).fd \in Fds /\ p # Nil /\ fdmu[Call(i).fd]["net"].closed
  BY <1>0, <1>1, CallFacts DEF Destroying
<1>3. p \in DOMAIN pds /\ p \in Nat /\ pds[p].fd = Call(i).fd /\ pds[p] \in PdRec
  BY <1>0, <1>2 DEF Owned, NetTypes
<1>4. \A j \in Goroutines : ~Evicts(j, Call(i).fd)
  BY <1>1, EnderAlone DEF Evicts, Holding
<1>5. pds[p].closing
  BY <1>0, <1>2, <1>4 DEF Closing
<1>6. ASSUME NEW m \in Modes, Blocked(pds[p], m) PROVE FALSE
  BY <1>3, <1>6, <1>0, HolderFacts, <1>1, EnderAlone DEF Blocked, PdRec, Waiting, Holding, Locking
<1> QED
  BY <1>2, <1>3, <1>5, <1>6

(* The PollDesc goes to pollcache.                                         *)
LEMMA PollCloseKeeps ==
  ASSUME NetIInv, RawAlone, NEW i \in Goroutines, pollClose(i)
  PROVE  NetIInv'
<1>0. /\ NetTypes /\ InCall /\ Life /\ Closing /\ Destroying /\ Owned /\ Cached /\ Waiting
      /\ TimersFit /\ EdgesKept /\ EventsFit
  BY DEF NetIInv
<1>1. g[i].pc = "destroy" /\ g[i].pc \in Ending /\ g[i].pc \notin Holding /\ g[i].pc # "idle"
  BY DEF pollClose, At, Ending, Holding, Locking
<1>2. PICK f : f = Call(i).fd
  OBVIOUS
<1>3. /\ f \in Fds /\ fd[f] \in FdRec /\ fdmu[f]["net"].closed /\ fdmu[f]["net"].ref = 0
      /\ fd[f].sock = "open"
      /\ \A j \in Goroutines \ {i} : ~(g[j].pc \in Ending /\ Call(j).fd = f)
  BY <1>0, <1>1, <1>2, CallFacts DEF Destroying
<1>4. PICK p : p = fd[f].pd
  OBVIOUS
<1>5. /\ p # Nil /\ p \in DOMAIN pds /\ p \in Nat /\ pds[p].fd = f
      /\ pds[p].closing /\ ~\E m \in Modes : Blocked(pds[p], m)
  BY <1>1, <1>2, <1>4, DestroyedPd
<1>6. /\ UNCHANGED <<nprog, fdmu, pds, firing>> /\ Goto(i, "closesocket")
      /\ net' = [net EXCEPT !.edges = {e \in net.edges : e[1] # p}]
      /\ cache' = <<p>> \o cache /\ fd' = [fd EXCEPT ![f].pd = Nil]
  BY <1>2, <1>4, <1>5 DEF pollClose
<1>7. throw' = throw
  BY <1>2, <1>4, <1>5, Zenon DEF pollClose
<1>8. PICK s \in GRec : g' = [g EXCEPT ![i] = s] /\ s.i = g[i].i /\ s.pc = "closesocket"
  <2>1. "closesocket" \in Places
    BY DEF Places, Ending
  <2> QED
    BY <1>6, <2>1, GotoState
<1>9. PICK r : r = [fd[f] EXCEPT !.pd = Nil]
  OBVIOUS
<1>10. r \in FdRec /\ r.sock = "open" /\ r.pd = Nil
  BY <1>3, <1>9 DEF FdRec
<1>11. fd' = [fd EXCEPT ![f] = r]
  BY <1>6, <1>9
<1>12. FdStep(i, r, s)
  BY <1>8, <1>1, EnderAlone, <1>2, <1>3, <1>6, <1>7, <1>10, <1>11 DEF Holding, Locking, FdStep
<1>13. /\ g' \in [Goroutines -> GRec] /\ g'[i] = s /\ \A j \in Goroutines : j # i => g'[j] = g[j]
       /\ fd' \in [Fds -> FdRec] /\ fd'[f] = r /\ \A h \in Fds : h # f => fd'[h] = fd[h]
       /\ \A j \in Goroutines : j # i => Call(j)' = Call(j)
       /\ \A j \in Goroutines : (g'[j].pc \in Holding <=> g[j].pc \in Holding)
       /\ \A j \in Goroutines : g[j].pc \in Holding =>
            /\ j # i /\ Call(j).fd # f /\ Call(j).fd \in Fds
            /\ Pd(j)' = Pd(j) /\ Call(j)' = Call(j) /\ Mode(j)' = Mode(j) /\ g'[j] = g[j]
       /\ \A j \in Goroutines, h \in Fds : Evicts(j, h)' <=> Evicts(j, h)
  BY <1>2, <1>12, FdFrame
<1>14. Call(i)' = Call(i)
  BY <1>6, <1>8, <1>13, SameCall
<1>15. Counted' /\ Locked' /\ Evicting'
  BY <1>12, FdKeeps
<1>16. /\ net' \in NetRec /\ net'.avail = net.avail /\ net'.taken = net.taken
       /\ net'.edges = {e \in net.edges : e[1] # p}
  BY <1>0, <1>6 DEF NetTypes, NetRec, Events
<1>17. /\ cache' \in Seq(Nat) /\ Len(cache') = Len(cache) + 1 /\ cache'[1] = p
       /\ \A k \in 1..Len(cache) : cache'[k + 1] = cache[k]
  BY <1>0, <1>5, <1>6, SMTT(60) DEF NetTypes
<1>18. ASSUME NEW k \in DOMAIN cache', k # 1 PROVE k - 1 \in DOMAIN cache /\ cache'[k] = cache[k - 1]
  <2>1. cache \in Seq(Nat) /\ Len(cache) \in Nat /\ DOMAIN cache = 1..Len(cache)
    BY <1>0 DEF NetTypes
  <2>2. DOMAIN cache' = 1..(Len(cache) + 1)
    BY <1>17
  <2>3. k - 1 \in 1..Len(cache) /\ (k - 1) + 1 = k
    BY <1>18, <2>1, <2>2
  <2> QED
    BY <1>17, <2>1, <2>3
<1>19. NetTypes'
  BY <1>0, <1>6, <1>7, <1>13, <1>16, <1>17 DEF NetTypes
<1>20. InCall'
  <2> SUFFICES ASSUME NEW j \in Goroutines, g'[j].pc # "idle"
               PROVE  /\ g'[j].i <= Len(NetPrograms[nprog].calls[j])
                      /\ Call(j)'.op \in OpsAt(g'[j].pc) /\ fd'[Call(j)'.fd].sock # "none"
    BY <1>6 DEF InCall
  <2>1. Call(j)' = Call(j) /\ g'[j].i = g[j].i /\ g[j].pc # "idle"
    BY <1>1, <1>8, <1>13, <1>14
  <2>2. /\ g[j].i <= Len(NetPrograms[nprog].calls[j]) /\ Call(j).op \in OpsAt(g[j].pc)
        /\ fd[Call(j).fd].sock # "none" /\ Call(j).fd \in Fds
    BY <1>0, <2>1, CallFacts DEF InCall
  <2>3. OpsAt(g'[j].pc) = OpsAt(g[j].pc)
    BY <1>1, <1>8, <1>13 DEF OpsAt, Locking
  <2>4. fd'[Call(j).fd].sock # "none"
    BY <1>10, <1>13, <2>2
  <2> QED
    BY <2>1, <2>2, <2>3, <2>4
<1>21. Life'
  BY <1>6, <1>0, <1>3, <1>10, <1>13 DEF Closes, Life
<1>22. Closing'
  BY <1>0, <1>6, <1>10, <1>13 DEF Closing
<1>23. Destroying'
  <2> SUFFICES ASSUME NEW j \in Goroutines, g'[j].pc \in Ending
               PROVE  /\ fdmu[Call(j)'.fd]["net"].closed /\ fdmu[Call(j)'.fd]["net"].ref = 0
                      /\ fd'[Call(j)'.fd].sock = "open"
                      /\ (g'[j].pc = "destroy" <=> fd'[Call(j)'.fd].pd # Nil)
                      /\ \A k \in Goroutines \ {j} : ~(g'[k].pc \in Ending /\ Call(k)'.fd = Call(j)'.fd)
    BY <1>6 DEF Destroying
  <2>0. \A k \in Goroutines : Call(k)' = Call(k) /\ (g'[k].pc \in Ending => g[k].pc \in Ending)
    BY <1>1, <1>13, <1>14
  <2>1. Call(j)' = Call(j) /\ g[j].pc \in Ending
    BY <2>0
  <2>2. \A k \in Goroutines \ {j} : ~(g[k].pc \in Ending /\ Call(k).fd = Call(j).fd)
    BY <1>0, <2>1 DEF Destroying
  <2>3. CASE j = i
    BY <1>2, <1>3, <1>8, <1>10, <1>13, <2>0, <2>1, <2>2, <2>3
  <2>4. CASE j # i
    <3>1. Call(j).fd # f /\ Call(j).fd \in Fds /\ g'[j] = g[j]
      BY <2>1, <1>0, <1>3, <1>13, <2>4, CallFacts DEF Ending
    <3>2. fd'[Call(j).fd] = fd[Call(j).fd]
      BY <1>13, <3>1
    <3>3. /\ fdmu[Call(j).fd]["net"].closed /\ fdmu[Call(j).fd]["net"].ref = 0
          /\ fd[Call(j).fd].sock = "open" /\ (g[j].pc = "destroy" <=> fd[Call(j).fd].pd # Nil)
      BY <1>0, <2>1 DEF Destroying
    <3> QED
      BY <2>0, <2>1, <2>2, <3>1, <3>2, <3>3
  <2> QED
    BY <2>3, <2>4
<1>24. Owned'
  BY <1>6, <1>10, <1>13, <1>0, <1>5, <1>17, <1>18 DEF Owned
<1>25. Cached'
  <2>1. \A k \in DOMAIN cache : cache[k] # p
    BY <1>0, <1>3, <1>4, <1>5 DEF Owned
  <2>2. \A k \in DOMAIN cache' : cache'[k] \in DOMAIN pds /\ pds[cache'[k]].closing
    BY <1>0, <1>5, <1>17, <1>18 DEF Cached
  <2>3. ASSUME NEW k \in DOMAIN cache', NEW l \in DOMAIN cache', cache'[k] = cache'[l] PROVE k = l
    <3>1. CASE k = 1 \/ l = 1
      BY <1>17, <1>18, <2>1, <2>3, <3>1
    <3>2. CASE k # 1 /\ l # 1
      BY <1>18, <3>2, <1>0, <2>3, <1>17 DEF Cached
    <3> QED
      BY <3>1, <3>2
  <2> QED
    BY <1>6, <2>2, <2>3 DEF Cached
<1>26. Waiting'
  BY <1>1, <1>8, <1>13, <1>0, <1>6 DEF Holding, Locking, Waiting
<1>27. TimersFit' /\ EventsFit'
  BY <1>0, <1>6, <1>16 DEF TimersFit, EventsFit
<1>28. EdgesKept'
  BY <1>13, <1>0, <1>16, <1>5, HolderFacts, <1>6 DEF EdgesKept, Awaits, Holding, Locking, Signalled
<1> QED
  BY <1>15, <1>19, <1>20, <1>21, <1>22, <1>23, <1>24, <1>25, <1>26, <1>27, <1>28 DEF NetIInv

(* A PollDesc that is opened has no timer that is set, and nobody waits.   *)
LEMMA OpenedIs ==
  ASSUME NEW a, NEW f \in Fds, NEW b, b = Opened(a, f), a = NewPd \/ (a \in PdRec /\ TimerFits(a) /\ a.closing)
  PROVE  /\ b \in PdRec /\ b.fd = f /\ ~b.closing /\ b.seq = a.seq + 1 /\ TimerFits(b)
         /\ \A m \in Modes : b.waits[m] = Nil
<1>1. PICK n : n = a.seq + 1
  OBVIOUS
<1>2. PICK w : w = [m \in Modes |-> Nil]
  OBVIOUS
<1>3. PICK d : d = [m \in Modes |-> 0]
  OBVIOUS
<1>4. PICK t : t = a.t
  OBVIOUS
<1>5. /\ w \in [Modes -> Goroutines \cup {Nil, READY}] /\ d \in [Modes -> Int]
      /\ \A m \in Modes : w[m] = Nil
  BY <1>2, <1>3
<1>6. n \in Nat /\ t \in [Modes -> TimerRec] /\ \A m \in Modes : ~t[m].fv /\ ~t[m].heap
  <2>1. CASE a = NewPd
    BY <2>1, <1>1, <1>4 DEF NoTimer, TimerRec, Modes, NewPd
  <2>2. CASE a \in PdRec /\ TimerFits(a) /\ a.closing
    BY <1>1, <1>4, <2>2 DEF PdRec, TimerFits
  <2> QED
    BY <2>1, <2>2
<1>7. b = [fd |-> f, closing |-> FALSE, seq |-> n, waits |-> w, d |-> d, t |-> t]
  BY <1>1, <1>2, <1>3, <1>4 DEF Opened, NewPd, PdRec
<1>8. b \in PdRec /\ b.fd = f /\ ~b.closing /\ b.seq = n /\ b.waits = w /\ b.d = d /\ b.t = t
  BY <1>5, <1>6, <1>7 DEF PdRec
<1>9. TimerFits(b)
  BY <1>6, <1>8 DEF TimerFits, Modes
<1> QED
  BY <1>1, <1>5, <1>8, <1>9

(* The PollDesc that pollOpen takes, and what becomes of pollcache.        *)
Takes(p, b) ==
  /\ p \in Nat \ {0} /\ b \in PdRec /\ TimerFits(b) /\ ~b.closing /\ \A m \in Modes : b.waits[m] = Nil
  /\ pds' \in Seq(PdRec) /\ DOMAIN pds' = DOMAIN pds \cup {p} /\ pds'[p] = b
  /\ \A q \in DOMAIN pds : q # p => pds'[q] = pds[q]
  /\ p \in DOMAIN pds => b.seq = pds[p].seq + 1
  /\ \A h \in Fds : fd[h].pd = Nil \/ fd[h].pd # p
  /\ cache' \in Seq(Nat) /\ \A k \in DOMAIN cache' : cache'[k] # p
  /\ \A k \in DOMAIN cache' : \E l \in DOMAIN cache : cache'[k] = cache[l]
  /\ \A k, l \in DOMAIN cache' : cache'[k] = cache'[l] => k = l
  /\ throw' = throw

(* Nobody waits on a PollDesc in pollcache.                                *)
LEMMA CachedIdle ==
  ASSUME NetIInv, RawAlone, NEW k \in DOMAIN cache, NEW m \in Modes
  PROVE  ~Blocked(pds[cache[k]], m)
<1>0. NetTypes /\ InCall /\ Owned /\ Cached /\ Waiting
  BY DEF NetIInv
<1>1. cache[k] \in DOMAIN pds /\ pds[cache[k]] \in PdRec
  BY <1>0 DEF Cached, NetTypes
<1> SUFFICES ASSUME Blocked(pds[cache[k]], m) PROVE FALSE
  OBVIOUS
<1>2. PICK j \in Goroutines : pds[cache[k]].waits[m] = j
  BY <1>1 DEF Blocked, PdRec
<1>3. g[j].pc = "parked" /\ Pd(j) = cache[k]
  BY <1>0, <1>1, <1>2 DEF Waiting
<1>4. g[j].pc \in Locking
  BY <1>3 DEF Locking
<1>5. Pd(j) = fd[Call(j).fd].pd /\ Pd(j) # Nil /\ Call(j).fd \in Fds
  BY <1>4, PdThere
<1> QED
  <2>1. \A l \in DOMAIN cache : cache[l] # fd[Call(j).fd].pd
    BY <1>0, <1>5 DEF Owned
  <2> QED
    BY <1>3, <1>5, <2>1

(* pollOpen takes the head of pollcache, or a new PollDesc.                *)
LEMMA OpenTakes ==
  ASSUME NetIInv, RawAlone, NEW i \in Goroutines, Open(i)
  PROVE  \E p, b : /\ Takes(p, b) /\ b.fd = Call(i).fd
                   /\ fd' = [fd EXCEPT ![Call(i).fd] = [pd |-> p, raw |-> p, sock |-> "open"]]
<1>0. NetTypes /\ InCall /\ Owned /\ Cached /\ TimersFit
  BY DEF NetIInv
<1>1. Ready(i)
  BY DEF Open
<1>2. PICK f \in Fds : f = Call(i).fd
  BY <1>0, <1>1, CallFacts
<1>3. pds \in Seq(PdRec) /\ Len(pds) \in Nat /\ DOMAIN pds = 1..Len(pds) /\ cache \in Seq(Nat)
  BY <1>0 DEF NetTypes
<1>4. CASE cache # << >>
  <2>1. PICK p : p = Head(cache)
    OBVIOUS
  <2>2. 1 \in DOMAIN cache /\ p = cache[1]
    BY <1>3, <1>4, <2>1
  <2>3. p \in DOMAIN pds /\ pds[p] \in PdRec /\ TimerFits(pds[p]) /\ pds[p].closing /\ p \in Nat \ {0}
    BY <1>0, <1>3, <2>2 DEF Cached, TimersFit
  <2>4. PICK b : b = Opened(pds[p], f)
    OBVIOUS
  <2>5. /\ b \in PdRec /\ b.fd = f /\ ~b.closing /\ b.seq = pds[p].seq + 1 /\ TimerFits(b)
        /\ \A m \in Modes : b.waits[m] = Nil
    BY <2>3, <2>4, OpenedIs
  <2>6. /\ cache' = Tail(cache) /\ pds' = [pds EXCEPT ![p] = b]
        /\ fd' = [fd EXCEPT ![f] = [pd |-> p, raw |-> p, sock |-> "open"]]
    BY <1>2, <1>4, <2>1, <2>4 DEF Open
  <2>7. throw' = throw
    BY <2>2, CachedIdle, <1>4, <2>1 DEF Open
  <2>8. /\ pds' \in Seq(PdRec) /\ DOMAIN pds' = DOMAIN pds /\ pds'[p] = b
        /\ \A q \in DOMAIN pds : q # p => pds'[q] = pds[q]
    BY <1>0, <2>3, <2>5, <2>6, OnePd
  <2>9. /\ cache' \in Seq(Nat) /\ DOMAIN cache' \subseteq Int
        /\ \A k \in DOMAIN cache' : k + 1 \in DOMAIN cache /\ cache'[k] = cache[k + 1] /\ k + 1 # 1
    BY <1>3, <1>4, <2>6
  <2>10. \A k \in DOMAIN cache' : cache'[k] # p
    BY <1>0, <2>2, <2>9 DEF Cached
  <2>11. ASSUME NEW k \in DOMAIN cache', NEW l \in DOMAIN cache', cache'[k] = cache'[l] PROVE k = l
    <3>1. k + 1 = l + 1
      BY <1>0, <2>9, <2>11 DEF Cached
    <3> QED
      BY <2>9, <3>1
  <2>12. \A h \in Fds : fd[h].pd = Nil \/ fd[h].pd # p
    BY <1>0, <2>2 DEF Owned
  <2>13. Takes(p, b)
    BY <2>3, <2>8, <2>9, <2>11, <2>5, <2>7, <2>10, <2>12 DEF Takes
  <2> QED
    BY <1>2, <2>5, <2>6, <2>13
<1>5. CASE cache = << >>
  <2>1. PICK p : p = Len(pds) + 1
    OBVIOUS
  <2>2. p \in Nat \ {0} /\ p \notin DOMAIN pds
    BY <1>3, <2>1
  <2>3. PICK a : a = NewPd
    OBVIOUS
  <2>4. PICK b : b = Opened(a, f)
    OBVIOUS
  <2>5. /\ b \in PdRec /\ b.fd = f /\ ~b.closing /\ TimerFits(b)
        /\ \A m \in Modes : b.waits[m] = Nil
    BY <2>3, <2>4, OpenedIs
  <2>6. /\ cache' = cache /\ pds' = Append(pds, b)
        /\ fd' = [fd EXCEPT ![f] = [pd |-> p, raw |-> p, sock |-> "open"]]
    BY <1>2, <1>5, <2>1, <2>3, <2>4 DEF Open
  <2>7. throw' = throw
    BY <1>5 DEF NewPd, Blocked, Open
  <2>8. /\ pds' \in Seq(PdRec) /\ DOMAIN pds' = DOMAIN pds \cup {p} /\ pds'[p] = b
        /\ \A q \in DOMAIN pds : q # p => pds'[q] = pds[q]
    BY <1>3, <2>1, <2>5, <2>6
  <2>9. cache' \in Seq(Nat) /\ DOMAIN cache' = {}
    BY <1>5, <2>6
  <2>10. \A h \in Fds : fd[h].pd = Nil \/ fd[h].pd # p
    BY <1>0, <2>2 DEF Owned
  <2>11. Takes(p, b)
    BY <2>2, <2>5, <2>7, <2>8, <2>9, <2>10 DEF Takes
  <2> QED
    BY <1>2, <2>5, <2>6, <2>11
<1> QED
  BY <1>4, <1>5

(* A connection is opened.                                                 *)
LEMMA OpenKeeps ==
  ASSUME NetIInv, RawAlone, NEW i \in Goroutines, Open(i)
  PROVE  NetIInv'
<1>0. /\ NetTypes /\ InCall /\ Life /\ Closing /\ Destroying /\ Owned /\ Cached /\ Waiting
      /\ TimersFit /\ EdgesKept /\ EventsFit
  BY DEF NetIInv
<1>1. Ready(i) /\ g[i].pc = "idle" /\ fd[Call(i).fd].sock = "none"
  BY DEF Open, Ready, At
<1>2. PICK f : f = Call(i).fd
  OBVIOUS
<1>3. f \in Fds /\ fd[f] \in FdRec /\ fd[f].sock = "none" /\ fd[f].pd = Nil /\ ~fdmu[f]["net"].closed
  BY <1>0, <1>1, <1>2, CallFacts DEF Life
<1>4. UNCHANGED <<nprog, fdmu, net, firing>>
  BY DEF Open
<1>a. PICK p, b : /\ Takes(p, b) /\ b.fd = f
                  /\ fd' = [fd EXCEPT ![f] = [pd |-> p, raw |-> p, sock |-> "open"]]
  BY <1>2, OpenTakes
<1>b. /\ p \in Nat \ {0} /\ b \in PdRec /\ TimerFits(b) /\ ~b.closing /\ \A m \in Modes : b.waits[m] = Nil
      /\ pds' \in Seq(PdRec) /\ DOMAIN pds' = DOMAIN pds \cup {p} /\ pds'[p] = b
      /\ \A q \in DOMAIN pds : q # p => pds'[q] = pds[q]
      /\ \A h \in Fds : fd[h].pd = Nil \/ fd[h].pd # p
      /\ cache' \in Seq(Nat) /\ throw' = throw
  BY <1>a DEF Takes
<1>5. PICK s \in GRec : g' = [g EXCEPT ![i] = s] /\ s.pc = "idle"
  BY <1>0, ReturnState DEF NetTypes, Results, Open
<1>6. PICK r : r = [pd |-> p, raw |-> p, sock |-> "open"]
  OBVIOUS
<1>7. r \in FdRec /\ r.sock = "open" /\ r.pd = p /\ r.raw = p
  BY <1>b, <1>6 DEF FdRec
<1>8. p # Nil
  BY <1>b, NetConstants
<1>9. FdStep(i, r, s)
  <2>1. s.pc \notin Holding /\ g[i].pc \notin Holding
    BY <1>1, <1>5 DEF Holding, Locking
  <2>2. ASSUME NEW j \in Goroutines, g[j].pc \in Holding PROVE Call(j).fd # Call(i).fd
    <3>1. g[j].pc # "idle"
      BY <2>2 DEF Holding, Locking
    <3> QED
      BY <1>0, <1>1, <3>1 DEF InCall
  <2> QED
    BY <1>a, <1>b, <1>2, <1>3, <1>4, <1>5, <1>6, <1>7, <2>1, <2>2 DEF FdStep
<1>10. /\ g' \in [Goroutines -> GRec] /\ g'[i] = s /\ \A j \in Goroutines : j # i => g'[j] = g[j]
       /\ fd' \in [Fds -> FdRec] /\ fd'[f] = r /\ \A h \in Fds : h # f => fd'[h] = fd[h]
       /\ \A j \in Goroutines : j # i => Call(j)' = Call(j)
       /\ \A j \in Goroutines : (g'[j].pc \in Holding <=> g[j].pc \in Holding)
       /\ \A j \in Goroutines : g[j].pc \in Holding =>
            /\ j # i /\ Call(j).fd # f /\ Call(j).fd \in Fds
            /\ Pd(j)' = Pd(j) /\ Call(j)' = Call(j) /\ Mode(j)' = Mode(j) /\ g'[j] = g[j]
       /\ \A j \in Goroutines, h \in Fds : Evicts(j, h)' <=> Evicts(j, h)
  BY <1>2, <1>9, FdFrame
<1>11. Counted' /\ Locked' /\ Evicting'
  BY <1>9, FdKeeps
<1>12. NetTypes'
  BY <1>0, <1>b, <1>4, <1>10 DEF NetTypes
<1>13. \A j \in Goroutines : g[j].pc # "idle" => Call(j).fd # f /\ Call(j).fd \in Fds /\ j # i
  BY <1>0, CallFacts, <1>1, <1>3 DEF InCall
<1>14. InCall'
  BY <1>4, <1>5, <1>10, <1>0, <1>13 DEF InCall
<1>15. Life'
  BY <1>4, <1>0, <1>3, <1>7, <1>8, <1>10 DEF Closes, Life
<1>16. Closing'
  <2> SUFFICES ASSUME NEW h \in Fds, fd'[h].pd # Nil
               PROVE  pds'[fd'[h].pd].closing <=> fdmu[h]["net"].closed /\ \A j \in Goroutines : ~Evicts(j, h)'
    BY <1>4 DEF Closing
  <2>1. CASE h = f
    BY <1>b, <1>3, <1>7, <1>10, <2>1
  <2>2. CASE h # f
    BY <1>0, <1>b, <1>10, <2>2 DEF Owned, Closing
  <2> QED
    BY <2>1, <2>2
<1>17. Destroying'
  BY <1>4, <1>5, <1>10, <1>13, <1>0 DEF Destroying, Ending
<1>18. \A k \in DOMAIN cache' : cache'[k] # p /\ \E l \in DOMAIN cache : cache'[k] = cache[l]
  BY <1>a DEF Takes
<1>19. Owned'
  <2> SUFFICES ASSUME NEW h \in Fds, fd'[h].pd # Nil
               PROVE  /\ fd'[h].pd \in DOMAIN pds' /\ pds'[fd'[h].pd].fd = h /\ fd'[h].raw = fd'[h].pd
                      /\ \A k \in DOMAIN cache' : cache'[k] # fd'[h].pd
    BY DEF Owned
  <2>1. CASE h = f
    BY <1>a, <1>b, <1>7, <1>10, <1>18, <2>1
  <2>2. CASE h # f
    BY <1>b, <1>10, <2>2, <1>0, <1>18 DEF Owned
  <2> QED
    BY <2>1, <2>2
<1>20. Cached'
  <2>1. \A k \in DOMAIN cache' : cache'[k] \in DOMAIN pds' /\ pds'[cache'[k]].closing
    BY <1>18, <1>0, <1>b DEF Cached
  <2> QED
    BY <1>a, <2>1 DEF Cached, Takes
<1>21. Waiting'
  <2>1. ASSUME NEW q \in DOMAIN pds', NEW m \in Modes, NEW j \in Goroutines, pds'[q].waits[m] = j
        PROVE  g'[j].pc = "parked" /\ Pd(j)' = q /\ Mode(j)' = m
    BY <1>b, <2>1, Distinct, <1>0, <1>10 DEF Waiting, Holding, Locking
  <2>2. ASSUME NEW j \in Goroutines, g'[j].pc = "parked" PROVE pds'[Pd(j)'].waits[Mode(j)'] = j
    BY <2>2, <1>10, PdThere, <1>b, <1>0 DEF Holding, Locking, Waiting
  <2> QED
    BY <2>1, <2>2 DEF Waiting
<1>22. TimersFit'
  <2>1. \A q \in DOMAIN pds' : TimerFits(pds'[q])
    BY <1>0, <1>b DEF TimersFit
  <2>2. ASSUME NEW u \in firing PROVE u.pd \in DOMAIN pds' /\ FiringFits(u, pds'[u.pd])
    <3>1. u.pd \in DOMAIN pds /\ FiringFits(u, pds[u.pd]) /\ u \in FiringRec /\ pds[u.pd] \in PdRec
      BY <1>0 DEF TimersFit, NetTypes
    <3>2. CASE u.pd # p
      BY <1>b, <3>1, <3>2
    <3>3. CASE u.pd = p
      BY <1>a, <3>1, <3>3, <1>b DEF Takes, FiringFits, FiringRec, PdRec
    <3> QED
      BY <3>2, <3>3
  <2> QED
    BY <1>4, <2>1, <2>2 DEF TimersFit
<1>23. EventsFit'
  BY <1>0, <1>b, <1>4 DEF EventsFit
<1>24. EdgesKept'
  BY <1>4, <1>10, <1>0, PdThere, <1>b DEF EdgesKept, Awaits, Holding, Locking, Signalled
<1> QED
  BY <1>11, <1>12, <1>14, <1>15, <1>16, <1>17, <1>19, <1>20, <1>21, <1>22, <1>23, <1>24 DEF NetIInv

(* The invariant holds at first.                                           *)
LEMMA NetStarts == NetInit => NetIInv
<1> SUFFICES ASSUME NetInit PROVE NetIInv
  OBVIOUS
<1>1. /\ nprog \in DOMAIN NetPrograms
      /\ fdmu = [f \in Fds |-> [x \in {"net", "raw"} |-> FreeMutex]]
      /\ fd = [f \in Fds |-> IF f = 1 THEN [pd |-> 1, raw |-> 1, sock |-> "open"]
                                      ELSE [pd |-> Nil, raw |-> Nil, sock |-> "none"]]
      /\ pds = <<Opened(NewPd, 1)>> /\ cache = << >> /\ firing = {} /\ throw = "none"
      /\ net = [avail |-> [f \in Fds |-> [m \in Modes |-> 0]], edges |-> {}, taken |-> {},
                left |-> NetPrograms[nprog].arrivals]
      /\ g = [i \in Goroutines |-> [pc |-> "idle", i |-> 1, param |-> FALSE, res |-> "none", n |-> 0]]
  BY DEF NetInit
<1>2. 1 \in Fds /\ 1 # Nil
  BY NetConstants
<1>3. PICK b : b = Opened(NewPd, 1)
  OBVIOUS
<1>4. /\ b \in PdRec /\ b.fd = 1 /\ ~b.closing /\ TimerFits(b) /\ \A m \in Modes : b.waits[m] = Nil
  <2>1. PICK a : a = NewPd
    OBVIOUS
  <2> QED
    BY <1>2, <1>3, <2>1, OpenedIs
<1>5. pds \in Seq(PdRec) /\ DOMAIN pds = {1} /\ pds[1] = b
  BY <1>1, <1>3, <1>4
<1>6. \A i \in Goroutines : g[i].pc = "idle"
  BY <1>1
<1>7. g \in [Goroutines -> GRec]
  BY <1>1 DEF GRec, Places, Results
<1>8. \A f \in Fds, x \in Mutexes : /\ fdmu[f][x] \in MuRec /\ fdmu[f][x].ref = 0 /\ ~fdmu[f][x].closed
  BY <1>1 DEF FreeMutex, MuRec, Mutexes
<1>9. fdmu \in [Fds -> [Mutexes -> MuRec]]
  <2>1. FreeMutex \in MuRec
    BY DEF FreeMutex, MuRec
  <2> QED
    BY <1>1, <2>1 DEF Mutexes
<1>10. /\ fd \in [Fds -> FdRec] /\ fd[1].pd = 1 /\ fd[1].raw = 1 /\ fd[1].sock = "open"
       /\ \A f \in Fds : f # 1 => fd[f].pd = Nil /\ fd[f].sock = "none"
  BY <1>1, <1>2 DEF FdRec
<1>11. net \in NetRec /\ net.edges = {} /\ net.taken = {}
  BY <1>1, NetConstants DEF Counts, NetRec, Events
<1>12. cache \in Seq(Nat) /\ DOMAIN cache = {}
  BY <1>1
<1>13. NetTypes
  BY <1>1, <1>5, <1>7, <1>9, <1>10, <1>11, <1>12 DEF NetTypes
<1>14. InCall /\ Locked /\ Evicting /\ Destroying
  BY <1>6 DEF InCall, Locked, Evicting, Destroying, Locking, Ending
<1>15. Counted
  BY <1>6, FS_EmptySet, <1>8 DEF Counted, Holders, Holding, Locking
<1>16. Life
  BY <1>8, <1>2, <1>10 DEF Mutexes, Life
<1>17. Closing
  BY <1>8, <1>4, <1>5, <1>10 DEF Mutexes, Closing
<1>18. Owned /\ Cached
  BY <1>4, <1>5, <1>10, <1>12 DEF Owned, Cached
<1>19. Waiting
  BY <1>4, <1>5, <1>6, Distinct DEF Waiting
<1>20. TimersFit
  BY <1>1, <1>4, <1>5 DEF TimersFit
<1>21. EdgesKept /\ EventsFit
  BY <1>6, <1>11 DEF EdgesKept, EventsFit, Awaits
<1> QED
  BY <1>13, <1>14, <1>15, <1>16, <1>17, <1>18, <1>19, <1>20, <1>21 DEF NetIInv

(* A step that changes nothing.                                            *)
LEMMA NetStutters ==
  ASSUME NetIInv, RawAlone, UNCHANGED nvars
  PROVE  NetIInv'
BY WaitsKept, ClosingKept, EdgesFrame, InnerKeeps DEF NetIInv, nvars, Moves, InnerStep, NetTypes,
    EventsFit, TimersFit

(* Every step keeps the invariant: one case for each action.               *)
LEMMA NetSteps ==
  ASSUME NetIInv, RawAlone, [NetNext]_nvars
  PROVE  NetIInv'
<1>1. ASSUME NEW i \in Goroutines, RWLock(i) PROVE NetIInv'
  BY <1>1, RWLockKeeps
<1>2. ASSUME NEW i \in Goroutines, Semacquire(i) PROVE NetIInv'
  BY <1>2, SemacquireKeeps
<1>3. ASSUME NEW i \in Goroutines, Incref(i) PROVE NetIInv'
  BY <1>3, IncrefKeeps
<1>4. ASSUME NEW i \in Goroutines, IncrefAndClose(i) PROVE NetIInv'
  BY <1>4, IncrefAndCloseKeeps
<1>5. ASSUME NEW i \in Goroutines, Decref(i) PROVE NetIInv'
  BY <1>5, DecrefKeeps
<1>6. ASSUME NEW i \in Goroutines, RWUnlock(i) PROVE NetIInv'
  BY <1>6, RWUnlockKeeps
<1>7. ASSUME NEW i \in Goroutines, Prepare(i) PROVE NetIInv'
  BY <1>7, PrepareKeeps
<1>8. ASSUME NEW i \in Goroutines, pollWait(i) PROVE NetIInv'
  BY <1>8, PollWaitKeeps
<1>9. ASSUME NEW i \in Goroutines, pollWoken(i) PROVE NetIInv'
  BY <1>9, PollWokenKeeps
<1>10. ASSUME NEW i \in Goroutines, pollSetDeadline(i) PROVE NetIInv'
  BY <1>10, PollSetDeadlineKeeps
<1>11. ASSUME NEW i \in Goroutines, pollUnblock(i) PROVE NetIInv'
  BY <1>11, PollUnblockKeeps
<1>12. ASSUME NEW i \in Goroutines, Open(i) PROVE NetIInv'
  BY <1>12, OpenKeeps
<1>13. ASSUME NEW i \in Goroutines, pollClose(i) PROVE NetIInv'
  BY <1>13, PollCloseKeeps
<1>14. ASSUME NEW i \in Goroutines, closesocket(i) PROVE NetIInv'
  BY <1>14, ClosesocketKeeps
<1>15. ASSUME NEW i \in Goroutines, Transfer(i) PROVE NetIInv'
  BY <1>15, TransferKeeps
<1>16. ASSUME NEW i \in Goroutines, Control(i) PROVE NetIInv'
  BY <1>16, ControlKeeps
<1>17. ASSUME NEW p \in DOMAIN pds, NEW m \in Modes, Expire(p, m) PROVE NetIInv'
  BY <1>17, ExpireKeeps
<1>18. ASSUME NEW p \in DOMAIN pds, NEW m \in Modes, epollwait(<<p, m>>) PROVE NetIInv'
  BY <1>18, EpollwaitKeeps
<1>19. ASSUME NEW p \in DOMAIN pds, NEW m \in Modes, netpollready(<<p, m>>) PROVE NetIInv'
  BY <1>19, NetpollreadyKeeps
<1>20. ASSUME NEW t \in firing, deadlineimpl(t) PROVE NetIInv'
  BY <1>20, DeadlineimplKeeps
<1>21. ASSUME NEW f \in Fds, NEW m \in Modes, Arrive(f, m) PROVE NetIInv'
  BY <1>21, ArriveKeeps
<1>22. CASE NetProgress
  BY <1>22, <1>1, <1>2, <1>3, <1>4, <1>5, <1>6, <1>7, <1>8, <1>9, <1>10, <1>11, <1>12, <1>13, <1>14,
     <1>15, <1>16, <1>17, <1>18, <1>19, <1>20 DEF NetProgress
<1>23. CASE UNCHANGED nvars
  BY <1>23, NetStutters
<1> QED
  BY <1>21, <1>22, <1>23 DEF NetNext

(* The invariant of the network descriptors and the poller, for programs   *)
(* that keep raw calls apart: who holds what, and where each event is.     *)
THEOREM NetInvariant == RawAlone => (NetSpec => []NetIInv)
<1> SUFFICES ASSUME RawAlone PROVE NetSpec => []NetIInv
  OBVIOUS
<1>1. NetInit => NetIInv
  BY NetStarts
<1>2. NetIInv /\ [NetNext]_nvars => NetIInv'
  BY NetSteps
<1> QED
  BY <1>1, <1>2, PTL DEF NetSpec

(* FdValid: whoever is about to use a socket or its PollDesc finds it open *)
(* and its own, for any number of goroutines, connections and calls.       *)
THEOREM FdIsValid == RawAlone => (NetSpec => []FdValid)
<1> SUFFICES ASSUME RawAlone PROVE NetSpec => []FdValid
  OBVIOUS
<1>1. NetIInv => FdValid
  BY HolderFacts DEF FdValid, Holding, Locking
<1>2. NetSpec => []NetIInv
  BY NetInvariant
<1> QED
  BY <1>1, <1>2, PTL

(* PollSafe: nothing is thrown, and no event is lost to a goroutine that   *)
(* waits for it.                                                           *)
THEOREM PollIsSafe == RawAlone => (NetSpec => []PollSafe)
<1> SUFFICES ASSUME RawAlone PROVE NetSpec => []PollSafe
  OBVIOUS
<1>1. NetIInv => PollSafe
  <2> SUFFICES ASSUME NetIInv PROVE PollSafe
    OBVIOUS
  <2>0. NetTypes /\ Waiting /\ EdgesKept
    BY DEF NetIInv
  <2>1. NoThrow
    BY <2>0 DEF NoThrow, NetTypes
  <2>2. NoLostEdge
    BY <2>0, Distinct DEF NoLostEdge, At, EdgesKept, Awaits, Waiting, Signalled
  <2> QED
    BY <2>1, <2>2 DEF PollSafe
<1>2. NetSpec => []NetIInv
  BY NetInvariant
<1> QED
  BY <1>1, <1>2, PTL
=============================================================================
