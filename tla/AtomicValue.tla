---------------------------- MODULE AtomicValue -----------------------------
(***************************************************************************)
(* atomic.Value (value_compatible.go): an interface value of two words,    *)
(* loaded and stored one word at a time by several goroutines.             *)
(*                                                                         *)
(* A value is an element of Values and has a type; the word data points to *)
(* it.  The first Store puts a type that is none, Busy, while it stores.   *)
(***************************************************************************)
EXTENDS Naturals

CONSTANTS
    Users,      \* the goroutines
    Values,
    TypeOf,     \* TypeOf[v]
    None, Busy,
    MaxValueCalls   \* bound: calls of a goroutine

(* The first word of an interface is the address of a type.                *)
ASSUME ValueConstants ==
    /\ None # Busy /\ None \notin Values
    /\ \A v \in Values : TypeOf[v] \notin {None, Busy}

VARIABLES
    typ, data,  \* the words
    at,         \* at[g]: where goroutine g is: [pc, x, typ], and its calls so far
    got,        \* got[g]: what its last Load returned: [typ, data]
    current,    \* the value stored last, None at first
    seen        \* seen[g]: the values that were current during g's Load

avars == <<typ, data, at, got, current, seen>>
Nothing == [typ |-> None, data |-> None]

ValueInit ==
    /\ typ = None /\ data = None /\ current = None
    /\ at = [g \in Users |-> [pc |-> "idle", x |-> None, typ |-> None, n |-> 0]]
    /\ got = [g \in Users |-> Nothing]
    /\ seen = [g \in Users |-> {None}]

ValueGo(g, label) == at' = [at EXCEPT ![g].pc = label]
ValueBack(g) == at' = [at EXCEPT ![g].pc = "idle", ![g].x = None, ![g].typ = None]

(* x takes effect: it is seen by every Load that is going on.              *)
TakesEffect(x) ==
    /\ current' = x
    /\ seen' = [g \in Users |-> IF at[g].pc = "loaddata" THEN seen[g] \cup {x} ELSE seen[g]]

(***************************************************************************)
(* Load                                                                    *)
(***************************************************************************)
ValueCall(g) == at[g].pc = "idle" /\ at[g].n < MaxValueCalls

Complete(t) == t \notin {None, Busy}

Load(g) ==
    /\ ValueCall(g)
    /\ at' = [at EXCEPT ![g].pc = IF Complete(typ) THEN "loaddata" ELSE "idle",
                        ![g].typ = IF Complete(typ) THEN typ ELSE None, ![g].n = @ + 1]
    /\ got' = IF Complete(typ) THEN got ELSE [got EXCEPT ![g] = Nothing]
    /\ seen' = [seen EXCEPT ![g] = {current}]
    /\ UNCHANGED <<typ, data, current>>

LoadData(g) ==
    /\ at[g].pc = "loaddata"
    /\ got' = [got EXCEPT ![g] = [typ |-> at[g].typ, data |-> data]]
    /\ ValueBack(g)
    /\ UNCHANGED <<typ, data, current, seen>>

(***************************************************************************)
(* Store                                                                   *)
(***************************************************************************)
Store(g, x) ==
    /\ ValueCall(g)
    /\ at' = [at EXCEPT ![g] = [pc |-> "loadtyp", x |-> x, typ |-> None, n |-> @.n + 1]]
    /\ UNCHANGED <<typ, data, got, current, seen>>

(* The loop: spin while the first Store is in progress; a value of another *)
(* type panics.                                                            *)
LoadTyp(g) ==
    /\ at[g].pc = "loadtyp"
    /\ CASE typ = None -> ValueGo(g, "swap")
         [] typ = Busy -> UNCHANGED at
         [] Complete(typ) -> IF typ # TypeOf[at[g].x] THEN ValueBack(g) ELSE ValueGo(g, "overwrite")
    /\ UNCHANGED <<typ, data, got, current, seen>>

(* Mutant: two goroutines may both be the first.                           *)
First_Both == typ \in {None, Busy}

First == typ = None

Swap(g) ==
    /\ at[g].pc = "swap"
    /\ IF First THEN typ' = Busy /\ ValueGo(g, "first") ELSE UNCHANGED typ /\ ValueGo(g, "loadtyp")
    /\ UNCHANGED <<data, got, current, seen>>

(* The first Store: the data, then the type.                               *)
FirstData(g) ==
    /\ at[g].pc = "first"
    /\ data' = at[g].x
    /\ ValueGo(g, "firsttyp")
    /\ UNCHANGED <<typ, got, current, seen>>

FirstTyp(g) ==
    /\ at[g].pc = "firsttyp"
    /\ typ' = TypeOf[at[g].x]
    /\ TakesEffect(at[g].x)
    /\ ValueBack(g)
    /\ UNCHANGED <<data, got>>

Overwrite(g) ==
    /\ at[g].pc = "overwrite"
    /\ data' = at[g].x
    /\ TakesEffect(at[g].x)
    /\ ValueBack(g)
    /\ UNCHANGED <<typ, got>>

ValueNext ==
    \E g \in Users :
      \/ Load(g) \/ LoadData(g) \/ \E x \in Values : Store(g, x)
      \/ LoadTyp(g) \/ Swap(g) \/ FirstData(g) \/ FirstTyp(g) \/ Overwrite(g)

ValueSpec == ValueInit /\ [][ValueNext]_avars

(***************************************************************************)
(* Property                                                                *)
(***************************************************************************)

(* A Load returns one of the values that were stored last at some moment   *)
(* of it, with that value's own type, and never half of one: nil only      *)
(* while nothing was stored, and no data under another's type.             *)
LoadsWhole ==
    \A g \in Users :
      at[g].pc # "loaddata" =>
        \/ got[g] = Nothing /\ None \in seen[g]
        \/ got[g].data \in seen[g] \ {None} /\ got[g].typ = TypeOf[got[g].data]
=============================================================================
