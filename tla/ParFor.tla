------------------------------- MODULE ParFor -------------------------------
(***************************************************************************)
(* parfor.c: the parallel for the collector marks and sweeps with.         *)
(*                                                                         *)
(* Every thread has a range [begin, end) in one 64-bit word.  It takes     *)
(* iterations off the front by an atomic add, and others take the upper    *)
(* half by a compare-and-swap.  A thread that has seen no work for long    *)
(* counts itself done.                                                     *)
(***************************************************************************)
EXTENDS Naturals, FiniteSets

CONSTANTS
    nthr,       \* threads, at least two: one alone runs the loop serially
    cnt         \* iterations

ASSUME ParConstants == nthr \in Nat \ {0} /\ cnt \in Nat

Thr == 0 .. nthr - 1
Iterations == 0 .. cnt - 1

VARIABLES
    wait,       \* whether a thread waits for the others at the end: sweeping does, marking does not
    pos,        \* pos[t]: [begin, end]
    done,       \* threads that are done
    runs,       \* runs[i]: how often body(i) has been started
    busy,       \* the iterations whose body is running
    pthr,       \* pthr[t]: where thread t is, with its locals
    pthrow

pvars == <<wait, pos, done, runs, busy, pthr, pthrow>>

(* parforsetup                                                             *)
ParInit ==
    /\ wait \in BOOLEAN
    /\ pos = [t \in Thr |-> [begin |-> (cnt * t) \div nthr, end |-> (cnt * (t + 1)) \div nthr]]
    /\ done = 0
    /\ runs = [i \in Iterations |-> 0] /\ busy = {}
    /\ pthr = [t \in Thr |-> [pc |-> "away", idle |-> FALSE, long |-> FALSE, victim |-> t,
                             old |-> [begin |-> 0, end |-> 0]]]
    /\ pthrow = FALSE

ParAt(t, label) == pthr[t].pc = label
ParGo(t, label) == pthr' = [pthr EXCEPT ![t].pc = label]
Empty == [begin |-> 0, end |-> 0]
HasHalf(p) == p.begin + 1 < p.end

(* parfordo: the thread comes in, and gets an index of its own.            *)
parfordo(t) ==
    /\ ParAt(t, "away") /\ ParGo(t, "bump")
    /\ UNCHANGED <<wait, pos, done, runs, busy, pthrow>>

(* xadd64(mypos, 1): while there is local work, bump the low index.        *)
Bump(t) ==
    LET p == pos[t] IN
    /\ ParAt(t, "bump")
    /\ pos' = [pos EXCEPT ![t].begin = @ + 1]
    /\ IF p.begin < p.end
         THEN /\ runs' = [runs EXCEPT ![p.begin] = @ + 1] /\ busy' = busy \cup {p.begin}
              /\ pthr' = [pthr EXCEPT ![t].pc = "body", ![t].old = p]
         ELSE /\ pthr' = [pthr EXCEPT ![t].pc = "try", ![t].idle = FALSE, ![t].long = FALSE, ![t].old = Empty]
              /\ UNCHANGED <<runs, busy>>
    /\ UNCHANGED <<wait, done, pthrow>>

BodyEnds(t) ==
    /\ ParAt(t, "body")
    /\ busy' = busy \ {pthr[t].old.begin}
    /\ pthr' = [pthr EXCEPT ![t].pc = "bump", ![t].old = Empty]
    /\ UNCHANGED <<wait, pos, done, runs, pthrow>>

(* No work for long enough: try is over its limit, and the thread counts.  *)
(* One that need not wait is gone before.                                  *)
CountIdle(t) ==
    /\ ParAt(t, "try") /\ ~pthr[t].idle /\ wait
    /\ done' = done + 1
    /\ pthr' = [pthr EXCEPT ![t].pc = "check", ![t].idle = TRUE, ![t].long = TRUE]
    /\ UNCHANGED <<wait, pos, runs, busy, pthrow>>

(* The limit is not reached, or it is counted already.                     *)
KeepTrying(t) ==
    /\ ParAt(t, "try") /\ (pthr[t].idle \/ ~pthr[t].long)
    /\ ParGo(t, "check")
    /\ UNCHANGED <<wait, pos, done, runs, busy, pthrow>>

(* Mutant: a thread that is not idle counts for one it may not be.         *)
AllDone_Slack(t) == done + 1 >= nthr

AllDone(t) == (done + IF pthr[t].idle THEN 0 ELSE 1) = nthr

(* The count is read: all are done, or a victim is chosen.                 *)
Check(t) ==
    /\ ParAt(t, "check")
    /\ IF AllDone(t) THEN ParGo(t, IF pthr[t].idle THEN "exit" ELSE "leave")
       ELSE \E v \in Thr \ {t} : pthr' = [pthr EXCEPT ![t].pc = "load", ![t].victim = v]
    /\ UNCHANGED <<wait, pos, done, runs, busy, pthrow>>

(* The last xadd(&done, 1) of a thread that did not count yet.             *)
Leave(t) ==
    /\ ParAt(t, "leave")
    /\ done' = done + 1
    /\ ParGo(t, "exit")
    /\ UNCHANGED <<wait, pos, runs, busy, pthrow>>

LoadVictim(t) ==
    LET p == pos[pthr[t].victim] IN
    /\ ParAt(t, "load")
    /\ pthr' = [pthr EXCEPT ![t].old = IF HasHalf(p) THEN p ELSE Empty,
                          ![t].pc = IF ~HasHalf(p) THEN "fail" ELSE IF pthr[t].idle THEN "unidle" ELSE "cas"]
    /\ UNCHANGED <<wait, pos, done, runs, busy, pthrow>>

Uncounted == done - 1

Unidle(t) ==
    /\ ParAt(t, "unidle")
    /\ done' = Uncounted
    /\ pthr' = [pthr EXCEPT ![t].pc = "cas", ![t].idle = FALSE]
    /\ UNCHANGED <<wait, pos, runs, busy, pthrow>>

Half(p) == p.begin + (p.end - p.begin) \div 2

Lower(p) == [p EXCEPT !.end = Half(p)]

Cas(t) ==
    LET l == pthr[t] IN
    /\ ParAt(t, "cas")
    /\ IF pos[l.victim] = l.old
         THEN /\ pos' = [pos EXCEPT ![l.victim] = Lower(l.old)]
              /\ pthr' = [pthr EXCEPT ![t].old = [begin |-> Half(l.old), end |-> l.old.end], ![t].pc = "stolen"]
         ELSE UNCHANGED pos /\ ParGo(t, "load")
    /\ UNCHANGED <<wait, done, runs, busy, pthrow>>

(* The stolen range becomes the thread's own.                              *)
Stolen(t) ==
    /\ ParAt(t, "stolen")
    /\ pthrow' = pthr[t].idle
    /\ pos' = [pos EXCEPT ![t] = pthr[t].old]
    /\ pthr' = [pthr EXCEPT ![t].pc = "bump", ![t].old = Empty, ![t].long = FALSE]
    /\ UNCHANGED <<wait, done, runs, busy>>

(* Backoff: a thread that has tried for long and need not wait goes.       *)
Backoff(t) ==
    /\ ParAt(t, "fail")
    /\ \/ ParGo(t, "try")
       \/ ~wait /\ ~pthr[t].idle /\ ParGo(t, "leave")
    /\ UNCHANGED <<wait, pos, done, runs, busy, pthrow>>

ParNext ==
    \E t \in Thr :
      \/ parfordo(t) \/ Bump(t) \/ BodyEnds(t) \/ CountIdle(t) \/ KeepTrying(t) \/ Check(t) \/ Leave(t)
      \/ LoadVictim(t) \/ Unidle(t) \/ Cas(t) \/ Stolen(t) \/ Backoff(t)

ParSpec == ParInit /\ [][ParNext]_pvars

(***************************************************************************)
(* Properties                                                              *)
(***************************************************************************)

(* No iteration is run twice, and none is in nobody's hands: it has run,   *)
(* or is in the range of one thread, its owner's or a thief's.             *)
EachIterationOnce ==
    /\ ~pthrow
    /\ \A i \in Iterations :
         LET owners == {t \in Thr : pos[t].begin <= i /\ i < pos[t].end}
             thieves == {t \in Thr : ParAt(t, "stolen") /\ pthr[t].old.begin <= i /\ i < pthr[t].old.end}
         IN runs[i] + Cardinality(owners) + Cardinality(thieves) = 1

(* A thread that waits for the others, and leaves because all are done,    *)
(* leaves no iteration behind, neither to be run nor running: the sweep is *)
(* over when parfordo returns.                                             *)
AllRunAtExit ==
    wait /\ (\E t \in Thr : pthr[t].pc \in {"leave", "exit"}) =>
      busy = {} /\ \A i \in Iterations : runs[i] = 1

(* Every iteration runs once, before the threads that wait for it leave.   *)
ParForSafe == EachIterationOnce /\ AllRunAtExit
=============================================================================
