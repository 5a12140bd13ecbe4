------------------------------ MODULE SyncMap ------------------------------
(***************************************************************************)
(* sync.Map (src/pkg/sync/map_compatible.go): a map that is read without   *)
(* its mutex from an immutable part, read, and written under the mutex in  *)
(* another, dirty, which takes the place of read after enough misses.      *)
(*                                                                         *)
(* A step is one atomic operation on read or on an entry together with     *)
(* what is done under mu around it.  Every value is stored by one call, so *)
(* that pointers to values are compared by the values.                     *)
(***************************************************************************)
EXTENDS Integers, Sequences, FiniteSets

CONSTANTS
    Goroutines, \* numbered from 1
    Keys,
    Programs,   \* a sequence; each: calls[g], and go[g], how many calls of 1 come before g starts
    None

VARIABLES
    prog,       \* the number of the program that is run
    mu,         \* who holds Map.mu
    read,       \* Map.read: m[k] is an entry or None, and amended
    dirty,      \* Map.dirty: the same as read.m, or NilMap
    misses,     \* Map.misses
    ent,        \* ent[e]: entry e's p, which is a value, NilPtr or Expunged
    l,          \* l[g]: where goroutine g is, and its local variables
    lin         \* ghost: the plain maps, with the results they gave to the calls
                \* under way, that explain what the calls have returned

vars == <<prog, mu, read, dirty, misses, ent, l, lin>>

NilPtr == "nil"
Expunged == "expunged"
Absent == "absent"
NilMap == << >>
Empty == [k \in Keys |-> None]
Entries(m) == {k \in Keys : m[k] # None}
NoResult == [k \in Keys |-> "none"]

Init ==
    /\ prog \in DOMAIN Programs
    /\ mu = None
    /\ read = [m |-> Empty, amended |-> FALSE]
    /\ dirty = NilMap /\ misses = 0 /\ ent = << >>
    /\ l = [g \in Goroutines |-> [pc |-> "idle", i |-> 1, e |-> None, p |-> NilPtr, miss |-> FALSE,
                                  todo |-> {}, res |-> NoResult]]
    /\ lin = {[m |-> [k \in Keys |-> Absent], r |-> [g \in Goroutines |-> NoResult]]}

Call(g) == Programs[prog].calls[g][l[g].i]
Is(g, ops) == Call(g).op \in ops
At(g, label) == l[g].pc = label
Ranges == {"Range", "RangeFirst"}

(***************************************************************************)
(* The plain map that a sync.Map stands for: a call takes effect at one    *)
(* moment, and Range at one moment for each key.                           *)
(***************************************************************************)
KeysOf(call) == IF call.op \in Ranges THEN Keys ELSE {call.key}

Effect(call, c, g, k) ==
    LET v == c.m[k]
        new == CASE call.op = "Store" -> call.val
                 [] call.op = "LoadOrStore" /\ v = Absent -> call.val
                 [] call.op = "Delete" -> Absent
                 [] OTHER -> v
        result == CASE call.op \in {"Store", "Delete"} -> "ok"
                    [] call.op = "LoadOrStore" -> new
                    [] OTHER -> v
    IN  [m |-> [c.m EXCEPT ![k] = new], r |-> [c.r EXCEPT ![g][k] = result]]

(* g's call returns result: keep the configurations that gave it.          *)
Explained(g, result) ==
    LET under == {g} \cup {h \in Goroutines : ~At(h, "idle")}
        tasks == UNION {{h} \X KeysOf(Call(h)) : h \in under}
        More(S) == S \cup {Effect(Call(x[1]), c, x[1], x[2]) :
                           <<c, x>> \in {y \in S \X tasks : y[1].r[y[2][1]][y[2][2]] = "none"}}
        closure[n \in 0 .. Cardinality(tasks)] == IF n = 0 THEN lin ELSE More(closure[n - 1])
    IN  {[c EXCEPT !.r[g] = NoResult] :
            c \in {d \in closure[Cardinality(tasks)] :
                     \A k \in Keys : result[k] \in {"none", d.r[g][k]}}}

ReturnAll(g, result) ==
    /\ lin' = Explained(g, result)
    /\ l' = [l EXCEPT ![g] = [pc |-> "idle", i |-> @.i + 1, e |-> None, p |-> NilPtr, miss |-> FALSE,
                              todo |-> {}, res |-> NoResult]]

Return(g, v) == ReturnAll(g, [NoResult EXCEPT ![Call(g).key] = v])

Goto(g, label, e) ==
    /\ l' = [l EXCEPT ![g].pc = label, ![g].e = e]
    /\ UNCHANGED lin

RangeOver(g, m) ==
    /\ l' = [l EXCEPT ![g].pc = "range", ![g].e = m, ![g].todo = Entries(m)]
    /\ UNCHANGED lin

(***************************************************************************)
(* The calls' first look at read, without mu.                              *)
(***************************************************************************)
Begin(g) ==
    /\ At(g, "idle") /\ l[g].i <= Len(Programs[prog].calls[g]) /\ l[1].i > Programs[prog].go[g]
    /\ IF Is(g, Ranges)
       THEN IF read.amended THEN Goto(g, "lock", None) ELSE RangeOver(g, read.m)
       ELSE LET e == read.m[Call(g).key] IN
            IF e # None THEN Goto(g, "load", e)
            ELSE IF read.amended \/ Is(g, {"Store", "LoadOrStore"}) THEN Goto(g, "lock", None)
            ELSE Return(g, IF Is(g, {"Load"}) THEN Absent ELSE "ok")
    /\ UNCHANGED <<prog, mu, read, dirty, misses, ent>>

(***************************************************************************)
(* entry.load, tryStore, tryLoadOrStore and delete: load p, then compare   *)
(* and swap it, from the beginning if it has changed.                      *)
(***************************************************************************)

(* The end of a call that may hold mu.                                     *)
Done(g, v) ==
    IF mu = g /\ l[g].miss
    THEN /\ l' = [l EXCEPT ![g].pc = "miss", ![g].p = v]
         /\ UNCHANGED <<lin, mu>>
    ELSE /\ Return(g, v)
         /\ mu' = IF mu = g THEN None ELSE mu

Swap(g) ==
    /\ l' = [l EXCEPT ![g].pc = "cas", ![g].p = ent[l[g].e]]
    /\ UNCHANGED <<lin, mu>>

(* Mutant: tryStore stores into an expunged entry.                         *)
TryStore_Expunged(g) == Swap(g)

TryStore(g) ==
    IF ent[l[g].e] = Expunged THEN Goto(g, "lock", None) /\ UNCHANGED mu ELSE Swap(g)

TryLoadOrStore(g) ==
    LET p == ent[l[g].e] IN
    IF p = Expunged /\ mu # g THEN Goto(g, "lock", None) /\ UNCHANGED mu
    ELSE IF p = NilPtr THEN Swap(g) ELSE Done(g, p)

LoadEntry(g) ==
    LET p == ent[l[g].e] IN
    /\ At(g, "load")
    /\ \/ Is(g, {"Load"}) /\ Done(g, IF p \in {NilPtr, Expunged} THEN Absent ELSE p)
       \/ Is(g, {"Store"}) /\ TryStore(g)
       \/ Is(g, {"LoadOrStore"}) /\ TryLoadOrStore(g)
       \/ Is(g, {"Delete"}) /\ IF p \in {NilPtr, Expunged} THEN Done(g, "ok") ELSE Swap(g)
    /\ UNCHANGED <<prog, read, dirty, misses, ent>>

CompareAndSwap(g) ==
    LET e == l[g].e IN
    /\ At(g, "cas")
    /\ IF ent[e] # l[g].p
       THEN Goto(g, "load", e) /\ UNCHANGED <<mu, ent>>
       ELSE /\ ent' = [ent EXCEPT ![e] = IF Is(g, {"Delete"}) THEN NilPtr ELSE Call(g).val]
            /\ Done(g, IF Is(g, {"LoadOrStore"}) THEN Call(g).val ELSE "ok")
    /\ UNCHANGED <<prog, read, dirty, misses>>

(***************************************************************************)
(* Under mu.                                                               *)
(***************************************************************************)
Promote ==
    /\ read' = [m |-> dirty, amended |-> FALSE]
    /\ dirty' = NilMap
    /\ misses' = 0

missLocked ==
    IF misses + 1 < Cardinality(Entries(dirty))
    THEN misses' = misses + 1 /\ UNCHANGED <<read, dirty>>
    ELSE Promote

LockLoad(g) ==
    LET k == Call(g).key
        slow == read.m[k] = None /\ read.amended
        e == IF slow THEN dirty[k] ELSE read.m[k]
    IN  /\ At(g, "lock") /\ mu = None /\ Is(g, {"Load"})
        /\ IF slow THEN missLocked ELSE UNCHANGED <<read, dirty, misses>>
        /\ IF e = None THEN Return(g, Absent) ELSE Goto(g, "load", e)
        /\ UNCHANGED <<prog, mu, ent>>

LockDelete(g) ==
    LET k == Call(g).key IN
    /\ At(g, "lock") /\ mu = None /\ Is(g, {"Delete"})
    /\ IF read.m[k] # None
       THEN Goto(g, "load", read.m[k]) /\ UNCHANGED dirty
       ELSE /\ dirty' = IF read.amended THEN [dirty EXCEPT ![k] = None] ELSE dirty
            /\ Return(g, "ok")
    /\ UNCHANGED <<prog, mu, read, misses, ent>>

LockRange(g) ==
    /\ At(g, "lock") /\ mu = None /\ Is(g, Ranges)
    /\ IF read.amended THEN Promote /\ RangeOver(g, dirty)
       ELSE RangeOver(g, read.m) /\ UNCHANGED <<read, dirty, misses>>
    /\ UNCHANGED <<prog, mu, ent>>

Unexpunged(k, e) == dirty' = [dirty EXCEPT ![k] = e]

(* unexpungeLocked                                                         *)
Unexpunge(k, e) ==
    IF ent[e] = Expunged
    THEN ent' = [ent EXCEPT ![e] = NilPtr] /\ Unexpunged(k, e)
    ELSE UNCHANGED <<ent, dirty>>

InDirty(k) == k \in DOMAIN dirty /\ dirty[k] # None

(* The entry is in read, in dirty, or in neither.                          *)
LockStore(g) ==
    LET k == Call(g).key
        e == read.m[k]
        label == IF Is(g, {"Store"}) THEN "store" ELSE "load"
        copy == ~read.amended /\ dirty = NilMap
    IN  /\ At(g, "lock") /\ mu = None /\ Is(g, {"Store", "LoadOrStore"})
        /\ mu' = g
        /\ \/ /\ e # None
              /\ Unexpunge(k, e)
              /\ Goto(g, label, e)
           \/ /\ e = None /\ InDirty(k)
              /\ l' = [l EXCEPT ![g].pc = label, ![g].e = dirty[k], ![g].miss = Is(g, {"LoadOrStore"})]
              /\ UNCHANGED <<ent, dirty, lin>>
           \/ /\ e = None /\ ~InDirty(k)
              /\ dirty' = IF copy THEN Empty ELSE dirty
              /\ l' = [l EXCEPT ![g].pc = "add", ![g].todo = IF copy THEN Entries(read.m) ELSE {}]
              /\ UNCHANGED <<ent, lin>>
        /\ UNCHANGED <<prog, read, misses>>

storeLocked(g) ==
    /\ At(g, "store")
    /\ ent' = [ent EXCEPT ![l[g].e] = Call(g).val]
    /\ mu' = None
    /\ Return(g, "ok")
    /\ UNCHANGED <<prog, read, dirty, misses>>

Miss(g) ==
    /\ At(g, "miss")
    /\ missLocked
    /\ mu' = None
    /\ Return(g, l[g].p)
    /\ UNCHANGED <<prog, ent>>

tryExpungeLocked(e) ==
    ent' = [ent EXCEPT ![e] = IF @ = NilPtr THEN Expunged ELSE @]

(* dirtyLocked, in any order of the keys.                                  *)
dirtyLocked(g) ==
    /\ At(g, "add")
    /\ \E k \in l[g].todo :
         LET e == read.m[k] IN
         /\ tryExpungeLocked(e)
         /\ dirty' = IF ent[e] \in {NilPtr, Expunged} THEN dirty ELSE [dirty EXCEPT ![k] = e]
         /\ l' = [l EXCEPT ![g].todo = @ \ {k}]
    /\ UNCHANGED <<prog, mu, read, misses, lin>>

Add(g) ==
    /\ At(g, "add") /\ l[g].todo = {}
    /\ read' = [read EXCEPT !.amended = TRUE]
    /\ ent' = Append(ent, Call(g).val)
    /\ dirty' = [dirty EXCEPT ![Call(g).key] = Len(ent')]
    /\ mu' = None
    /\ Return(g, IF Is(g, {"LoadOrStore"}) THEN Call(g).val ELSE "ok")
    /\ UNCHANGED <<prog, misses>>

(***************************************************************************)
(* Range's loop over what read was; f returns false at the first key of a  *)
(* RangeFirst.                                                             *)
(***************************************************************************)
RangeKey(g) ==
    /\ At(g, "range")
    /\ \E k \in l[g].todo :
         LET p == ent[l[g].e[k]]
             ok == p \notin {NilPtr, Expunged}
             res == [l[g].res EXCEPT ![k] = IF ok THEN p ELSE Absent]
         IN  IF ok /\ Is(g, {"RangeFirst"}) THEN ReturnAll(g, res)
             ELSE /\ l' = [l EXCEPT ![g].todo = @ \ {k}, ![g].res = res]
                  /\ UNCHANGED lin
    /\ UNCHANGED <<prog, mu, read, dirty, misses, ent>>

RangeEnd(g) ==
    /\ At(g, "range") /\ l[g].todo = {}
    /\ ReturnAll(g, [k \in Keys |-> IF l[g].e[k] = None THEN Absent ELSE l[g].res[k]])
    /\ UNCHANGED <<prog, mu, read, dirty, misses, ent>>

Next ==
    \E g \in Goroutines :
      \/ Begin(g) \/ LoadEntry(g) \/ CompareAndSwap(g)
      \/ LockLoad(g) \/ LockDelete(g) \/ LockRange(g) \/ LockStore(g)
      \/ storeLocked(g) \/ Miss(g) \/ dirtyLocked(g) \/ Add(g)
      \/ RangeKey(g) \/ RangeEnd(g)

Spec == Init /\ [][Next]_vars

(***************************************************************************)
(* Properties                                                              *)
(***************************************************************************)

(* Whatever the calls have returned, a plain map would have returned if    *)
(* each call had taken effect at once between its beginning and its end;   *)
(* a Range has looked at each key at some moment of its own.               *)
Linearizable == lin # {}

(* Between calls that hold mu, dirty has every entry of read that is not   *)
(* expunged, and none that is: it can take the place of read at any time.  *)
(* Without a dirty map nothing is expunged and read is complete.           *)
DirtyCovers ==
    mu = None =>
      /\ read.amended <=> dirty # NilMap
      /\ \A k \in Entries(read.m) :
           IF ent[read.m[k]] = Expunged THEN dirty # NilMap /\ dirty[k] = None
           ELSE dirty # NilMap => dirty[k] = read.m[k]

(* The calls are those of a plain map, and dirty is always fit to take     *)
(* over.                                                                   *)
MapSafe == Linearizable /\ DirtyCovers
=============================================================================
