------------------------------ MODULE LFStack -------------------------------
(***************************************************************************)
(* lfstack.c: the lock-free stacks of the collector's work buffers.        *)
(*                                                                         *)
(* A head is one 64-bit word: a node and, in the bits a pointer leaves     *)
(* free, the node's push count modulo CntMod (2^17 in the code).  Threads  *)
(* push the nodes they hold on either stack and pop nodes off either, as   *)
(* getempty, putempty and getfull do with the stacks empty and full.       *)
(* Loads and compare-and-swaps of shared words are steps of their own.     *)
(***************************************************************************)
EXTENDS Naturals, FiniteSets

CONSTANTS
    Threads, Heads,
    NumNodes,
    CntMod,     \* the push counts a head can tell apart
    MaxPush     \* bound: how often a node is pushed; less than CntMod

Nodes == 1 .. NumNodes
NilNode == 0

VARIABLES
    head,       \* head[h]: [node, cnt]
    next,       \* next[n]
    pushcnt,    \* pushcnt[n]
    thr         \* thr[t]: where thread t is, with its locals

lvars == <<head, next, pushcnt, thr>>

Word(n) == [node |-> n, cnt |-> IF n = NilNode THEN 0 ELSE pushcnt[n] % CntMod]
Idle == [pc |-> "idle", h |-> NilNode, n |-> NilNode, old |-> [node |-> NilNode, cnt |-> 0], n2 |-> NilNode,
         new |-> [node |-> NilNode, cnt |-> 0]]

(* One stack holds all nodes, one on top of the other.                     *)
Init ==
    /\ next = [n \in Nodes |-> n - 1]
    /\ pushcnt = [n \in Nodes |-> 1]
    /\ head = [h \in Heads |-> Word(IF h = (CHOOSE k \in Heads : TRUE) THEN NumNodes ELSE NilNode)]
    /\ thr = [t \in Threads |-> [held |-> {}, l |-> Idle]]

L(t) == thr[t].l
Set(t, l) == thr' = [thr EXCEPT ![t].l = l]

(***************************************************************************)
(* lfstackpush                                                             *)
(***************************************************************************)

(* Mutant: the node goes out under its old count.                          *)
Bumped_Not(c) == c

Bumped(c) == c + 1

(* node->pushcnt++, and the word the head is to get.                       *)
Push(t, h, n) ==
    /\ L(t).pc = "idle" /\ n \in thr[t].held /\ pushcnt[n] < MaxPush
    /\ pushcnt' = [pushcnt EXCEPT ![n] = Bumped(@)]
    /\ thr' = [thr EXCEPT ![t] = [held |-> @.held \ {n},
                 l |-> [Idle EXCEPT !.pc = "pushload", !.h = h, !.n = n,
                                    !.new = [node |-> n, cnt |-> Bumped(pushcnt[n]) % CntMod]]]]
    /\ UNCHANGED <<head, next>>

PushLoad(t) ==
    /\ L(t).pc = "pushload"
    /\ next' = [next EXCEPT ![L(t).n] = head[L(t).h].node]
    /\ Set(t, [L(t) EXCEPT !.pc = "pushcas", !.old = head[L(t).h]])
    /\ UNCHANGED <<head, pushcnt>>

Swap(t, ok, again) ==
    LET l == L(t) IN
    IF head[l.h] = l.old
      THEN head' = [head EXCEPT ![l.h] = l.new] /\ ok
      ELSE UNCHANGED head /\ Set(t, [l EXCEPT !.pc = again])

PushCas(t) ==
    /\ L(t).pc = "pushcas"
    /\ Swap(t, Set(t, Idle), "pushload")
    /\ UNCHANGED <<next, pushcnt>>

(***************************************************************************)
(* lfstackpop                                                              *)
(***************************************************************************)
Pop(t, h) ==
    /\ L(t).pc = "idle" /\ head[h].node # NilNode
    /\ Set(t, [Idle EXCEPT !.pc = "popnext", !.h = h, !.old = head[h]])
    /\ UNCHANGED <<head, next, pushcnt>>

PopNext(t) ==
    /\ L(t).pc = "popnext"
    /\ Set(t, [L(t) EXCEPT !.pc = "popcnt", !.n2 = next[L(t).old.node]])
    /\ UNCHANGED <<head, next, pushcnt>>

(* The word of the next node, with the count it has now.                   *)
PopCnt(t) ==
    /\ L(t).pc = "popcnt"
    /\ Set(t, [L(t) EXCEPT !.pc = "popcas", !.new = Word(L(t).n2)])
    /\ UNCHANGED <<head, next, pushcnt>>

PopCas(t) ==
    /\ L(t).pc = "popcas"
    /\ Swap(t, thr' = [thr EXCEPT ![t] = [held |-> @.held \cup {L(t).old.node}, l |-> Idle]], "popload")
    /\ UNCHANGED <<next, pushcnt>>

(* The loop goes round, and may find the stack empty.                      *)
PopLoad(t) ==
    /\ L(t).pc = "popload"
    /\ Set(t, IF head[L(t).h].node = NilNode THEN Idle
              ELSE [L(t) EXCEPT !.pc = "popnext", !.old = head[L(t).h]])
    /\ UNCHANGED <<head, next, pushcnt>>

Next ==
    \E t \in Threads :
      \/ \E h \in Heads : Pop(t, h) \/ \E n \in Nodes : Push(t, h, n)
      \/ PushLoad(t) \/ PushCas(t)
      \/ PopNext(t) \/ PopCnt(t) \/ PopCas(t) \/ PopLoad(t)

Spec == Init /\ [][Next]_lvars

(***************************************************************************)
(* Property                                                                *)
(***************************************************************************)

(* The nodes reached from n in at most Cardinality(Nodes) steps.           *)
Below(n) ==
    LET f[k \in 0 .. Cardinality(Nodes)] ==
          IF k = 0 THEN {n} \ {NilNode}
          ELSE f[k - 1] \cup ({next[m] : m \in f[k - 1]} \ {NilNode})
    IN f[Cardinality(Nodes)]

OnStack(n, h) == n \in Below(head[h].node)
HeldBy(n, t) == n \in thr[t].held \/ (L(t).pc \in {"pushload", "pushcas"} /\ L(t).n = n)

(* However pushes and pops on both stacks interleave, every node is on one *)
(* stack or with one thread: none is lost and none is handed out twice,    *)
(* although a node may be popped and pushed again behind the back of a     *)
(* thread that has loaded the head.                                        *)
EveryNodeOnce ==
    \A n \in Nodes :
      Cardinality({h \in Heads : OnStack(n, h)} \cup {t \in Threads : HeldBy(n, t)}) = 1
=============================================================================
