------------------------------ MODULE SyncPool ------------------------------
(***************************************************************************)
(* sync.Pool (pool_compatible.go) over the pinning of                      *)
(* runtime/sync_compatible.goc: items a program puts and gets, a private   *)
(* one and a list of shared ones for every P.                              *)
(*                                                                         *)
(* A goroutine that is pinned is not preempted, so it is alone on its P    *)
(* and GOMAXPROCS, which stops the world, waits for it.  One that is not   *)
(* pinned may be on any P the next time it pins.                           *)
(***************************************************************************)
EXTENDS Naturals, Sequences

CONSTANTS
    PoolUsers,  \* the goroutines
    Items,
    NoItem,
    MaxProcs,   \* the largest GOMAXPROCS
    MaxGrow,    \* bound: changes of GOMAXPROCS
    MaxPoolCalls  \* bound: calls of Get and Put of a goroutine

ASSUME PoolConstants == NoItem \notin PoolUsers \cup Items /\ MaxProcs \in Nat \ {0}

VARIABLES
    procs,      \* GOMAXPROCS
    arrays,     \* the arrays of poolLocals made so far: the sequence of their contents
    local,      \* p.local: an index of arrays, 0 for nil
    localSize,  \* p.localSize
    pmu,        \* allPoolsMu: its holder
    gs,         \* gs[g]: where goroutine g is, with its locals
    grows,
    bad         \* an index was out of range

ovars == <<procs, arrays, local, localSize, pmu, gs, grows, bad>>

Start == [pc |-> "idle", pid |-> 0, pinned |-> FALSE, s |-> 0, l |-> 0, x |-> NoItem, from |-> 0, op |-> "get"]

(* Every item is with a goroutine; Ps are numbered from 0.                 *)
PoolInit ==
    /\ procs \in 1 .. MaxProcs
    /\ arrays = << >> /\ local = 0 /\ localSize = 0 /\ pmu = NoItem
    /\ gs = [g \in PoolUsers |-> [at |-> Start, has |-> IF g \in Items THEN {g} ELSE {}, n |-> 0]]
    /\ grows = 0 /\ bad = FALSE

PoolAt(g) == gs[g].at
PoolSet(g, a) == gs' = [gs EXCEPT ![g].at = a]
GetReturns(g, x) == gs' = [gs EXCEPT ![g] = [at |-> Start, has |-> @.has \cup {x}, n |-> @.n]]
Pinned(p) == \E g \in PoolUsers : PoolAt(g).pinned /\ PoolAt(g).pid = p

(* runtime_procPin: m->locks++.  Nobody else is running on the P.          *)
CanPin(p) == ~Pinned(p)

Elem(a, p) == arrays[a][p + 1]
Update(a, p, v) == arrays' = [arrays EXCEPT ![a][p + 1] = v]
Fresh(size) == [i \in 1 .. size |-> [private |-> NoItem, shared |-> << >>]]

(***************************************************************************)
(* pin and pinSlow                                                         *)
(***************************************************************************)
pin(g, op, x) ==
    /\ PoolAt(g).pc = "idle" /\ gs[g].n < MaxPoolCalls
    /\ op = "put" => x \in gs[g].has
    /\ op = "get" => x = NoItem
    /\ \E p \in 0 .. procs - 1 :
         /\ CanPin(p)
         /\ gs' = [gs EXCEPT ![g] = [at |-> [Start EXCEPT !.pc = "size", !.pid = p, !.pinned = TRUE,
                                                          !.op = op, !.x = x],
                                     has |-> @.has \ {x}, n |-> @.n + 1]]
    /\ UNCHANGED <<procs, arrays, local, localSize, pmu, grows, bad>>

LoadSize(g) ==
    /\ PoolAt(g).pc = "size"
    /\ PoolSet(g, [PoolAt(g) EXCEPT !.pc = "local", !.s = localSize])
    /\ UNCHANGED <<procs, arrays, local, localSize, pmu, grows, bad>>

(* uintptr(pid) < s: the local pool, else pinSlow, which unpins.           *)
LoadLocal(g) ==
    /\ PoolAt(g).pc = "local"
    /\ PoolSet(g, IF PoolAt(g).pid < PoolAt(g).s THEN [PoolAt(g) EXCEPT !.pc = "use", !.l = local, !.s = 0]
              ELSE [PoolAt(g) EXCEPT !.pc = "slow", !.pinned = FALSE, !.s = 0])
    /\ UNCHANGED <<procs, arrays, local, localSize, pmu, grows, bad>>

(* Under allPoolsMu, and pinned again, perhaps elsewhere.                  *)
pinSlow(g) ==
    /\ PoolAt(g).pc = "slow" /\ pmu = NoItem
    /\ pmu' = g
    /\ \E p \in 0 .. procs - 1 :
         /\ CanPin(p)
         /\ PoolSet(g, [PoolAt(g) EXCEPT !.pc = IF p < localSize THEN "unlock" ELSE "grow", !.pid = p, !.pinned = TRUE, !.l = local])
    /\ UNCHANGED <<procs, arrays, local, localSize, grows, bad>>

(* Mutant: the size is stored before the array.                            *)
PublishFirst_Size == "size"

(* What pinSlow stores first: the new array, then its size.                *)
PublishFirst == "local"

StoreLocal == arrays' = Append(arrays, Fresh(procs)) /\ local' = Len(arrays) + 1 /\ UNCHANGED localSize
StoreSize == localSize' = procs /\ UNCHANGED <<arrays, local>>

Grow(g) ==
    /\ PoolAt(g).pc = "grow"
    /\ IF PublishFirst = "local" THEN StoreLocal ELSE StoreSize
    /\ PoolSet(g, [PoolAt(g) EXCEPT !.pc = "grow2", !.l = Len(arrays) + 1])
    /\ UNCHANGED <<procs, pmu, grows, bad>>

Grow2(g) ==
    /\ PoolAt(g).pc = "grow2"
    /\ IF PublishFirst = "local" THEN StoreSize ELSE StoreLocal
    /\ PoolSet(g, [PoolAt(g) EXCEPT !.pc = "unlock"])
    /\ UNCHANGED <<procs, pmu, grows, bad>>

(* The deferred Unlock.                                                    *)
PoolUnlock(g) ==
    /\ PoolAt(g).pc = "unlock"
    /\ pmu' = NoItem
    /\ PoolSet(g, [PoolAt(g) EXCEPT !.pc = "use"])
    /\ UNCHANGED <<procs, arrays, local, localSize, grows, bad>>

(***************************************************************************)
(* Put and Get                                                             *)
(***************************************************************************)
InRange(a, p) == a \in DOMAIN arrays /\ p + 1 \in DOMAIN arrays[a]

(* l.private is read: Put looks whether it is free, Get takes it.          *)
ReadPrivate(g) ==
    LET a == PoolAt(g) IN
    /\ a.pc = "use"
    /\ bad' = ~InRange(a.l, a.pid)
    /\ IF bad' THEN UNCHANGED gs
       ELSE LET v == Elem(a.l, a.pid).private IN
            IF a.op = "put"
              THEN PoolSet(g, IF v = NoItem THEN [a EXCEPT !.pc = "write"]
                          ELSE [a EXCEPT !.pc = "shared", !.pinned = FALSE])
              ELSE PoolSet(g, [a EXCEPT !.pc = "write", !.x = v])
    /\ UNCHANGED <<procs, arrays, local, localSize, pmu, grows>>

(* l.private is written, and the goroutine unpinned.                       *)
WritePrivate(g) ==
    LET a == PoolAt(g)
        l == Elem(a.l, a.pid)
    IN
    /\ a.pc = "write"
    /\ Update(a.l, a.pid, [l EXCEPT !.private = IF a.op = "put" THEN a.x ELSE NoItem])
    /\ IF a.op = "put" THEN PoolSet(g, Start)
       ELSE IF a.x # NoItem THEN GetReturns(g, a.x)
       ELSE PoolSet(g, [a EXCEPT !.pc = "shared", !.pinned = FALSE])
    /\ UNCHANGED <<procs, local, localSize, pmu, grows, bad>>

(* Put appends to l.shared under its lock.                                 *)
PutShared(g) ==
    LET a == PoolAt(g)
        l == Elem(a.l, a.pid)
    IN
    /\ a.pc = "shared" /\ a.op = "put"
    /\ Update(a.l, a.pid, [l EXCEPT !.shared = Append(@, a.x)])
    /\ PoolSet(g, Start)
    /\ UNCHANGED <<procs, local, localSize, pmu, grows, bad>>

PopShared(g, arr, p, otherwise) ==
    LET l == Elem(arr, p)
        last == Len(l.shared)
    IN
    IF last > 0
      THEN /\ Update(arr, p, [l EXCEPT !.shared = SubSeq(@, 1, last - 1)])
           /\ GetReturns(g, l.shared[last])
      ELSE UNCHANGED arrays /\ PoolSet(g, otherwise)

(* Get takes the last of l.shared, or goes to getSlow.                     *)
GetShared(g) ==
    LET a == PoolAt(g) IN
    /\ a.pc = "shared" /\ a.op = "get"
    /\ PopShared(g, a.l, a.pid, [a EXCEPT !.pc = "gsize"])
    /\ UNCHANGED <<procs, local, localSize, pmu, grows, bad>>

(* getSlow loads the size, the array, and where it is.                     *)
SlowSize(g) ==
    /\ PoolAt(g).pc = "gsize"
    /\ PoolSet(g, [PoolAt(g) EXCEPT !.pc = "glocal", !.s = localSize])
    /\ UNCHANGED <<procs, arrays, local, localSize, pmu, grows, bad>>

SlowLocal(g) ==
    /\ PoolAt(g).pc = "glocal"
    /\ \E p \in 0 .. procs - 1 :
         CanPin(p) /\ PoolSet(g, [PoolAt(g) EXCEPT !.pc = "steal", !.l = local, !.pid = 0, !.from = p])
    /\ UNCHANGED <<procs, arrays, local, localSize, pmu, grows, bad>>

(* The pools of all Ps in turn; pid counts them, from is where it began.   *)
(* When none has an item, New makes one, which is not among Items.         *)
Steal(g) ==
    LET a == PoolAt(g)
        p == (a.from + a.pid + 1) % a.s
    IN
    /\ a.pc = "steal"
    /\ IF a.pid = a.s THEN PoolSet(g, Start) /\ UNCHANGED <<arrays, bad>>
       ELSE /\ bad' = ~InRange(a.l, p)
            /\ IF bad' THEN UNCHANGED <<gs, arrays>>
               ELSE PopShared(g, a.l, p, [a EXCEPT !.pid = @ + 1])
    /\ UNCHANGED <<procs, local, localSize, pmu, grows>>

(* runtime.GOMAXPROCS(n): the world is stopped, so nobody is pinned.       *)
GOMAXPROCS ==
    /\ grows < MaxGrow /\ grows' = grows + 1
    /\ \A g \in PoolUsers : ~PoolAt(g).pinned
    /\ \E n \in 1 .. MaxProcs : n # procs /\ procs' = n
    /\ UNCHANGED <<arrays, local, localSize, pmu, gs, bad>>

PoolNext ==
    /\ ~bad
    /\ \/ \E g \in PoolUsers :
            \/ pin(g, "get", NoItem) \/ \E x \in Items : pin(g, "put", x)
            \/ LoadSize(g) \/ LoadLocal(g) \/ pinSlow(g) \/ Grow(g) \/ Grow2(g) \/ PoolUnlock(g)
            \/ ReadPrivate(g) \/ WritePrivate(g) \/ PutShared(g) \/ GetShared(g)
            \/ SlowSize(g) \/ SlowLocal(g) \/ Steal(g)
       \/ GOMAXPROCS

PoolSpec == PoolInit /\ [][PoolNext]_ovars

(***************************************************************************)
(* Properties                                                              *)
(***************************************************************************)
Carries(g, x) ==
    x \in gs[g].has \/ (PoolAt(g).x = x /\ (PoolAt(g).op = "put" \/ PoolAt(g).pc = "write"))
(* The slots of arrays that hold x; of one that Get is about to take out   *)
(* of private, none.                                                       *)
Stored(x) ==
    {q \in (DOMAIN arrays) \X (1 .. MaxProcs) :
       /\ q[2] \in DOMAIN arrays[q[1]]
       /\ LET l == arrays[q[1]][q[2]] IN
          \/ l.private = x /\ ~\E g \in PoolUsers : PoolAt(g).op = "get" /\ PoolAt(g).pc = "write" /\ PoolAt(g).x = x
          \/ \E i \in DOMAIN l.shared : l.shared[i] = x}

(* An item that was put once is never with two goroutines, and never with  *)
(* one while the pool still has it: only the P a goroutine is pinned to    *)
(* keeps two of them off one private item.                                 *)
OneOwner ==
    \A x \in Items :
      /\ \A g, k \in PoolUsers : Carries(g, x) /\ Carries(k, x) => g = k
      /\ (\E g \in PoolUsers : Carries(g, x)) => Stored(x) = {}
      /\ \A q, r \in Stored(x) : q = r

(* Whatever GOMAXPROCS does in between, the array a goroutine has loaded   *)
(* is as long as the size it has loaded before it, and has a place for its *)
(* P.                                                                      *)
LocalInRange == ~bad

(* Items have one owner, and arrays are indexed within their bounds.       *)
PoolSafe == OneOwner /\ LocalInRange
=============================================================================
