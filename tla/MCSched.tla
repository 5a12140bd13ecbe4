------------------------------ MODULE MCSched ------------------------------
(* Small instances of the scheduler for TLC: what each goroutine of a      *)
(* program may choose to do, and how often.                                *)
EXTENDS Sched

Threads == 0 .. 3
OneP == {0}
TwoPs == {0, 1}
TwoGs == 1 .. 2
ThreeGs == 1 .. 3
OneOrTwo == {1, 2}

Program(menu, ops, procs) ==
    [menu |-> menu, ops |-> ops, procs |-> procs, background |-> {}, maxmcount |-> 4, net |-> FALSE]

(* Creation, parking, readying, yielding, preemption.                      *)
Core == Program(<<{"new", "exit"}, {"park", "long"}, {"ready", "gosched"}>>, <<2, 1, 1>>, {2})

(* System calls, alone and of a goroutine that is locked to its thread;    *)
(* goroutine 2 is the scavenger, which sleeps in notetsleepg.              *)
Syscall ==
    [Program(<<{"new", "sys", "lock", "unlock", "gosched"}, {"sysblock"}>>, <<3, 1>>, {1})
        EXCEPT !.background = {2}]

(* The network poller, in a program that may have three threads.           *)
Net(ops, procs) ==
    [Program(<<{"new", "net"}, {"net"}>>, ops, {procs}) EXCEPT !.maxmcount = 3, !.net = TRUE]

(* Collections and changes of GOMAXPROCS during other work.                *)
Stw == Program(<<{"new", "gc"}, {"procs", "sysblock"}>>, <<2, 1>>, {2})

Mixed == {Core, Syscall, Net(<<2, 2>>, 1), Net(<<2, 1>>, 2), Stw}

(* Programs that come to an end: a collection and a system call.           *)
Ending == {Program(<<{"new", "sys"}, {"gc"}>>, <<2, 1>>, {2})}

(* Two goroutines that wait for the network and then run for long.         *)
Busy ==
    {[Program(<<{"new", "net", "long"}, {"net", "long"}>>, <<2, 1>>, {1}) EXCEPT !.net = TRUE]}
=============================================================================
