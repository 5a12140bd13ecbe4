------------------------------- MODULE Timers -------------------------------
(***************************************************************************)
(* time.goc: the heap of timers and the goroutine timerproc that runs      *)
(* them.  What is done under the lock of timers is one step; timerproc     *)
(* leaves the lock to call a timer's function and to sleep.                *)
(*                                                                         *)
(* timers.t is a sequence: the timer at index i of the code is h[i + 1].   *)
(***************************************************************************)
EXTENDS Integers, Sequences

CONSTANTS
    TimerIds,
    Whens,      \* the deadlines and ...
    Periods,    \* ... the periods given to startTimer
    Never,      \* 2^63 - 1
    MaxTime,    \* bound: the clock
    Starts      \* the beginnings: a heap of [id, when], the timers used later,
                \* and a bound on the calls of startTimer and stopTimer

VARIABLES
    h,          \* timers.t[0 .. len-1]
    tm,         \* tm[t]: [i, when, period] of timer t
    sleeping, rescheduling, note,
    started,    \* timers.timerproc is not nil
    proc,       \* timerproc: where it is, its now, the one-shot timer it fires, the deadline it sleeps for
    clock,
    ops,        \* the timers the program uses, and the calls it has left
    due,        \* due[t]: starts of t less stops and calls of its function
    throw

tvars == <<h, tm, sleeping, rescheduling, note, started, proc, clock, ops, due, throw>>

(***************************************************************************)
(* The heap, with four children to a node.  A heap s is the sequence s.t,  *)
(* and s.m holds what each timer knows, its index i among it: every move   *)
(* of a timer also sets its i.                                             *)
(***************************************************************************)
Heap(hp, m) == [t |-> hp, m |-> m]
When(s, i) == s.m[s.t[i + 1]].when

Swapped(s, i, j) ==
    Heap([s.t EXCEPT ![i + 1] = s.t[j + 1], ![j + 1] = s.t[i + 1]],
         [s.m EXCEPT ![s.t[j + 1]].i = i, ![s.t[i + 1]].i = j])

RECURSIVE siftup(_, _), siftdown(_, _)

siftup(s, i) ==
    LET p == (i - 1) \div 4 IN
    IF i > 0 /\ When(s, i) < When(s, p) THEN siftup(Swapped(s, i, p), p) ELSE s

Children(s, i) == {c \in 4 * i + 1 .. 4 * i + 4 : c < Len(s.t)}

(* Of children with the same deadline: the left one of each pair, and the  *)
(* left pair.                                                              *)
Earliest(s, cs) ==
    CHOOSE c \in cs : \A d \in cs : When(s, c) < When(s, d) \/ (When(s, c) = When(s, d) /\ c <= d)

siftdown(s, i) ==
    LET cs == Children(s, i)  c == Earliest(s, cs) IN
    IF cs = {} \/ When(s, c) >= When(s, i) THEN s ELSE siftdown(Swapped(s, c, i), c)

(* The timer that takes the place of a deleted one may have to rise.       *)
Settled(s, i) == siftdown(siftup(s, i), i)

(* The last timer takes the place i.                                       *)
LastTo(i) ==
    LET n == Len(h) IN
    Heap(SubSeq([h EXCEPT ![i + 1] = h[n]], 1, n - 1), [tm EXCEPT ![h[n]].i = i])

(***************************************************************************)
(* addtimer and deltimer                                                   *)
(***************************************************************************)
InHeap(t) == \E k \in DOMAIN h : h[k] = t

(* Mutant: a timer is thought to be the first only in an empty heap.       *)
IsFirst_Empty(s, t) == Len(s.t) = 1

IsFirst(s, t) == s.m[t].i = 0

addtimer(t, when, period) ==
    LET w == IF when < 0 THEN Never ELSE when
        new == [i |-> Len(h), when |-> w, period |-> period]
        s == siftup(Heap(Append(h, t), [tm EXCEPT ![t] = new]), Len(h))
        kick == IsFirst(s, t)
    IN
    /\ t \in ops.ids /\ ops.left > 0 /\ ops' = [ops EXCEPT !.left = @ - 1]
    /\ ~InHeap(t)
    /\ h' = s.t /\ tm' = s.m
    /\ note' = (note \/ (kick /\ sleeping))
    /\ throw' = (throw \/ (kick /\ sleeping /\ note))
    /\ sleeping' = (sleeping /\ ~kick)
    /\ rescheduling' = (rescheduling /\ ~kick)
    /\ proc' = IF (kick /\ rescheduling) \/ ~started THEN [proc EXCEPT !.pc = "start"] ELSE proc
    /\ started' = TRUE
    /\ due' = [due EXCEPT ![t] = @ + 1]
    /\ UNCHANGED clock

Registered(t) == tm[t].i \in 0 .. Len(h) - 1 /\ h[tm[t].i + 1] = t

deltimer(t) ==
    LET i == tm[t].i
        last == Len(h) - 1
        s == IF i = last THEN Heap(SubSeq(h, 1, last), tm) ELSE Settled(LastTo(i), i)
    IN
    /\ t \in ops.ids /\ ops.left > 0 /\ ops' = [ops EXCEPT !.left = @ - 1]
    /\ IF Registered(t)
         THEN /\ h' = s.t /\ tm' = s.m
              /\ due' = [due EXCEPT ![t] = @ - 1]
         ELSE UNCHANGED <<h, tm, due>>
    /\ UNCHANGED <<sleeping, rescheduling, note, started, proc, clock, throw>>

(***************************************************************************)
(* timerproc                                                               *)
(***************************************************************************)

(* A periodic timer's next deadline: the first after now.                  *)
NextWhen(t, now) == tm[t].when + tm[t].period * (1 + (now - tm[t].when) \div tm[t].period)

(* With the lock, from the top of the loop or after a timer's function:    *)
(* fire the first timer, or sleep until its time, or park.                 *)
Look ==
    LET now == IF proc.pc = "start" THEN clock ELSE proc.now
        asleep == IF proc.pc = "start" THEN FALSE ELSE sleeping
        t == h[1]
    IN
    /\ proc.pc \in {"start", "again"}
    /\ CASE h = << >> ->
              /\ rescheduling' = TRUE /\ sleeping' = asleep
              /\ proc' = [proc EXCEPT !.pc = "parked", !.now = 0]
              /\ UNCHANGED <<h, tm, note>>
         [] h # << >> /\ tm[t].when > now ->
              /\ sleeping' = TRUE /\ note' = FALSE
              /\ proc' = [proc EXCEPT !.pc = "tosleep", !.now = tm[t].when - now, !.until = tm[t].when]
              /\ UNCHANGED <<h, tm, rescheduling>>
         [] h # << >> /\ tm[t].when <= now ->
              LET again == tm[t].period > 0
                  s == siftdown(IF again THEN Heap(h, [tm EXCEPT ![t].when = NextWhen(t, now)])
                                ELSE LastTo(0), 0)
              IN /\ h' = s.t
                 /\ tm' = IF again THEN s.m ELSE [s.m EXCEPT ![t].i = -1]
                 /\ sleeping' = asleep
                 /\ proc' = [proc EXCEPT !.pc = "fire", !.now = now,
                                       !.once = IF again THEN {} ELSE {t}]
                 /\ UNCHANGED <<rescheduling, note>>
    /\ UNCHANGED <<started, clock, ops, due, throw>>

(* f(now, arg), without the lock.                                          *)
Fire ==
    /\ proc.pc = "fire"
    /\ due' = [t \in TimerIds |-> IF t \in proc.once THEN due[t] - 1 ELSE due[t]]
    /\ proc' = [proc EXCEPT !.pc = "again", !.once = {}]
    /\ UNCHANGED <<h, tm, sleeping, rescheduling, note, started, clock, ops, throw>>

(* notetsleepg begins: delta from the time it is called.                   *)
Sleep ==
    /\ proc.pc = "tosleep"
    /\ proc' = [proc EXCEPT !.pc = "asleep", !.now = clock + proc.now]
    /\ UNCHANGED <<h, tm, sleeping, rescheduling, note, started, clock, ops, due, throw>>

(* It ends by the Note or by the time.                                     *)
WakeUp ==
    /\ proc.pc = "asleep" /\ (note \/ clock >= proc.now)
    /\ proc' = [proc EXCEPT !.pc = "start", !.now = 0, !.until = 0]
    /\ UNCHANGED <<h, tm, sleeping, rescheduling, note, started, clock, ops, due, throw>>

Tick ==
    /\ clock < MaxTime /\ clock' = clock + 1
    /\ UNCHANGED <<h, tm, sleeping, rescheduling, note, started, proc, ops, due, throw>>

Init ==
    \E b \in Starts :
      LET hp == b.heap
          at(t) == {k \in DOMAIN hp : hp[k].id = t}
          on(t) == at(t) # {}
      IN
      /\ h = [k \in DOMAIN hp |-> hp[k].id]
      /\ tm = [t \in TimerIds |->
                 IF on(t) THEN LET k == CHOOSE k \in at(t) : TRUE IN
                               [i |-> k - 1, when |-> hp[k].when, period |-> 0]
                 ELSE [i |-> 0, when |-> 0, period |-> 0]]
      /\ sleeping = FALSE /\ rescheduling = FALSE /\ note = FALSE
      /\ started = (hp # << >>)
      /\ proc = [pc |-> IF hp = << >> THEN "none" ELSE "start", now |-> 0, until |-> 0, once |-> {}]
      /\ clock = 0 /\ ops = [ids |-> b.ids, left |-> b.ops]
      /\ due = [t \in TimerIds |-> IF on(t) THEN 1 ELSE 0]
      /\ throw = FALSE

Next ==
    \/ \E t \in TimerIds :
         \/ \E w \in Whens, p \in Periods : addtimer(t, w, p)
         \/ deltimer(t)
    \/ Look \/ Fire \/ Sleep \/ WakeUp \/ Tick

Spec == Init /\ [][Next]_tvars

(***************************************************************************)
(* Properties                                                              *)
(***************************************************************************)

(* Between operations the heap is one: no timer is due before its parent,  *)
(* and every timer knows its index, by which deltimer finds it.            *)
HeapOK ==
    \A i \in 0 .. Len(h) - 1 :
      /\ i > 0 => tm[h[(i - 1) \div 4 + 1]].when <= tm[h[i + 1]].when
      /\ tm[h[i + 1]].i = i

(* timerproc does not sleep past a timer: while it is parked there is      *)
(* none, and while it sleeps the first one is not due before the time it   *)
(* has set out to sleep until, or its Note is set.  The Note is not set    *)
(* twice.                                                                  *)
TimerprocAwake ==
    /\ ~throw
    /\ proc.pc = "parked" => h = << >>
    /\ proc.pc \in {"tosleep", "asleep"} /\ h # << >> /\ ~note => proc.until <= tm[h[1]].when

(* A timer is not fired more often than it was started, and not at all     *)
(* once stopTimer has said that it is stopped; stopTimer never says so of  *)
(* a timer that fires, and never removes another.                          *)
FiresAsStarted ==
    \A t \in TimerIds :
      due[t] = (IF InHeap(t) THEN 1 ELSE 0) + (IF t \in proc.once THEN 1 ELSE 0)

(* The heap is one, timerproc does not sleep past it, and timers fire as   *)
(* they were started.                                                      *)
TimersSafe == HeapOK /\ TimerprocAwake /\ FiresAsStarted
=============================================================================
