------------------------------ MODULE ChanAbs ------------------------------
(***************************************************************************)
(* What Go promises of channels, without locks, wait queues or wakeups:    *)
(* a channel is a FIFO queue of at most Cap[c] values and a closed flag,   *)
(* and every send, receive, close and select takes effect in one atomic    *)
(* step between its call and its return.  An unbuffered send and receive   *)
(* take effect together.  The detailed module Chan is shown to implement   *)
(* this one.                                                               *)
(***************************************************************************)
EXTENDS Integers, Sequences

CONSTANTS G, Chan, Cap, Menu, MaxOps, NoVal

VARIABLES
    q,          \* q[c]: the values in the buffer of c, oldest first
    closed,     \* closed[c]
    op,         \* op[g]: the arguments of g's latest operation
    nops,       \* how many operations g has started
    res         \* res[g]: its outcome, the case that fired, the value received

vars == <<q, closed, op, nops, res>>

(* The cases of s that are not on a nil channel, in their order.           *)
Increasing(n, S) ==
    {f \in [1 .. n -> S] : /\ \A i, j \in 1 .. n : i < j => f[i] < f[j]
                           /\ \A k \in S : \E i \in 1 .. n : f[i] = k}
NotNil(s) ==
    LET S == {k \in 1 .. Len(s) : s[k].ch # 0} IN
    UNION {{[i \in 1 .. n |-> s[f[i]]] : f \in Increasing(n, S)} : n \in 0 .. Len(s)}

Result(st, i, v) == [st |-> st, cas |-> i, val |-> v]
Pending(g) == res[g].st = "pending"
Elem(g) == <<g, nops[g]>>

(* Case i of the pending operation of g is a send (receive) on c.          *)
Wants(g, i, d, c) ==
    /\ Pending(g)
    /\ op[g].fn # "closechan"
    /\ i \in DOMAIN op[g].cases
    /\ op[g].cases[i] = [dir |-> d, ch |-> c]

Init ==
    /\ q = [c \in Chan |-> << >>]
    /\ closed = [c \in Chan |-> FALSE]
    /\ op = [g \in G |-> [fn |-> "chanrecv", block |-> FALSE, cases |-> << >>]]
    /\ nops = [g \in G |-> 0]
    /\ res = [g \in G |-> Result("none", 0, NoVal)]

(* A select does not see its cases on nil channels.                        *)
Call(g) ==
    /\ ~Pending(g) /\ nops[g] < MaxOps[g]
    /\ \E o \in Menu[g] :
         \/ o.fn # "selectgo" /\ op' = [op EXCEPT ![g] = o]
         \/ /\ o.fn = "selectgo"
            /\ \E cases \in NotNil(o.cases) :
                 op' = [op EXCEPT ![g] = [o EXCEPT !.cases = cases]]
    /\ nops' = [nops EXCEPT ![g] = @ + 1]
    /\ res' = [res EXCEPT ![g] = Result("pending", 0, NoVal)]
    /\ UNCHANGED <<q, closed>>

SendBuffered(g, i, c) ==
    /\ Wants(g, i, "send", c)
    /\ ~closed[c] /\ Len(q[c]) < Cap[c]
    /\ q' = [q EXCEPT ![c] = Append(@, Elem(g))]
    /\ res' = [res EXCEPT ![g] = Result("done", i, NoVal)]
    /\ UNCHANGED <<closed, op, nops>>

RecvBuffered(g, i, c) ==
    /\ Wants(g, i, "recv", c)
    /\ q[c] # << >>
    /\ q' = [q EXCEPT ![c] = Tail(@)]
    /\ res' = [res EXCEPT ![g] = Result("done", i, Head(q[c]))]
    /\ UNCHANGED <<closed, op, nops>>

(* Unbuffered: s sends to r, and both take effect together.                *)
Rendezvous(s, i, r, j, c) ==
    /\ s # r /\ Cap[c] = 0 /\ ~closed[c]
    /\ Wants(s, i, "send", c) /\ Wants(r, j, "recv", c)
    /\ res' = [res EXCEPT ![s] = Result("done", i, NoVal),
                          ![r] = Result("done", j, Elem(s))]
    /\ UNCHANGED <<q, closed, op, nops>>

SendClosed(g, i, c) ==
    /\ Wants(g, i, "send", c) /\ closed[c]
    /\ res' = [res EXCEPT ![g] = Result("panic", i, NoVal)]
    /\ UNCHANGED <<q, closed, op, nops>>

RecvClosed(g, i, c) ==
    /\ Wants(g, i, "recv", c) /\ closed[c] /\ q[c] = << >>
    /\ res' = [res EXCEPT ![g] = Result("closed", i, NoVal)]
    /\ UNCHANGED <<q, closed, op, nops>>

(* A non-blocking operation gives up only when none of its cases could     *)
(* proceed on a buffer or a closed channel.                                *)
GiveUp(g) ==
    /\ Pending(g) /\ op[g].fn # "closechan" /\ ~op[g].block
    /\ \A i \in DOMAIN op[g].cases : \A c \in Chan :
         /\ Wants(g, i, "send", c) => ~closed[c] /\ Len(q[c]) = Cap[c]
         /\ Wants(g, i, "recv", c) => ~closed[c] /\ q[c] = << >>
    /\ res' = [res EXCEPT ![g] = Result("default", 0, NoVal)]
    /\ UNCHANGED <<q, closed, op, nops>>

Close(g) ==
    LET c == op[g].cases[1].ch IN
    /\ Pending(g) /\ op[g].fn = "closechan"
    /\ c \in Chan /\ ~closed[c]
    /\ closed' = [closed EXCEPT ![c] = TRUE]
    /\ res' = [res EXCEPT ![g] = Result("done", 1, NoVal)]
    /\ UNCHANGED <<q, op, nops>>

ClosePanic(g) ==
    LET c == op[g].cases[1].ch IN
    /\ Pending(g) /\ op[g].fn = "closechan"
    /\ c = 0 \/ (c \in Chan /\ closed[c])
    /\ res' = [res EXCEPT ![g] = Result("panic", 1, NoVal)]
    /\ UNCHANGED <<q, closed, op, nops>>

OneCase(g, i, c) ==
    SendBuffered(g, i, c) \/ RecvBuffered(g, i, c) \/ SendClosed(g, i, c) \/ RecvClosed(g, i, c)

Next ==
    \/ \E g \in G : Call(g) \/ GiveUp(g) \/ Close(g) \/ ClosePanic(g)
    \/ \E g \in G : \E i \in DOMAIN op[g].cases : \E c \in Chan : OneCase(g, i, c)
    \/ \E s, r \in G : \E i \in DOMAIN op[s].cases, j \in DOMAIN op[r].cases :
         \E c \in Chan : Rendezvous(s, i, r, j, c)

Spec == Init /\ [][Next]_vars
=============================================================================
