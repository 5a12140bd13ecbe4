------------------------------ MODULE MCPrims -------------------------------
(***************************************************************************)
(* Package sync and the runtime's primitives, one at a time: scen says     *)
(* which.  The others stay as they are.                                    *)
(***************************************************************************)
EXTENDS MCSync, Futex, SigQueue, ParFor, SyncPool, AtomicValue

CONSTANTS A, B, C       \* threads, goroutines or stacks

VARIABLES
    scen, thrown,                                                               \* all
    head, next, pushcnt, lthr,                                                  \* LFStack
    h, tm, sleeping, rescheduling, tnote, started, proc, clock, ops, due        \* Timers

OneTwo == <<1, 2>>
Types == <<1, 1, 2>>

LF == INSTANCE LFStack WITH
    Threads <- {A, B}, Heads <- {A, C}, NumNodes <- 2, CntMod <- 4, MaxPush <- 2, thr <- lthr

(* Ten timers, three of them below the top's second, third and fifth; the  *)
(* tenth, which takes the place of a deleted one, is due before others.    *)
TenTimers ==
    LET due_at == <<1, 4, 2, 3, 2, 5, 5, 5, 5, 3>> IN [k \in 1 .. 10 |-> [id |-> k, when |-> due_at[k]]]
Beginnings ==
    {[heap |-> << >>, ids |-> Three, ops |-> 3],
     [heap |-> TenTimers, ids |-> {1, 3, 6, 9, 10}, ops |-> 1]}
Tm == INSTANCE Timers WITH
    TimerIds <- 1 .. 10, Whens <- {-1, 1, 2}, Periods <- {0, 1}, Never <- 99, MaxTime <- 2,
    Starts <- Beginnings, note <- tnote, throw <- thrown

lvars == <<head, next, pushcnt, lthr>>
tvars == <<h, tm, sleeping, rescheduling, tnote, started, proc, clock, ops, due, thrown>>
prims == <<fvars, svars, lvars, pvars, tvars, ovars, avars>>
all == <<scen, vars, mvars, prims>>

(* What is not used stays as it is at its start, or is 0.                  *)
PrimInit ==
    /\ scen \in {"sync", "futex", "signals", "lfstack", "parfor", "timers", "pool", "value"}
    /\ SyncInit /\ (scen # "sync" => prog = NoCalls /\ mprog = 1)
    /\ FutexInit /\ SigInit /\ ValueInit
    /\ ParInit /\ (scen # "parfor" => wait)
    /\ PoolInit /\ (scen # "pool" => procs = 1)
    /\ IF scen = "lfstack" THEN LF!Init
       ELSE head = 0 /\ next = 0 /\ pushcnt = 0 /\ lthr = 0
    /\ IF scen = "timers" THEN Tm!Init
       ELSE /\ h = 0 /\ tm = 0 /\ sleeping = 0 /\ rescheduling = 0 /\ tnote = 0 /\ started = 0
            /\ proc = 0 /\ clock = 0 /\ ops = 0 /\ due = 0 /\ thrown = FALSE

Is(s) == scen = s /\ UNCHANGED <<scen, vars, mvars>>

OnlySignals == Is("signals") /\ UNCHANGED <<fvars, lvars, pvars, tvars, ovars, avars>>

PrimNext ==
    \/ scen = "sync" /\ SyncNext /\ UNCHANGED <<scen, prims>>
    \/ Is("futex") /\ FutexNext /\ UNCHANGED <<svars, lvars, pvars, tvars, ovars, avars>>
    \/ OnlySignals /\ SigNext
    \/ Is("lfstack") /\ LF!Next /\ UNCHANGED <<fvars, svars, pvars, tvars, ovars, avars>>
    \/ Is("parfor") /\ ParNext /\ UNCHANGED <<fvars, svars, lvars, tvars, ovars, avars>>
    \/ Is("timers") /\ Tm!Next /\ UNCHANGED <<fvars, svars, lvars, pvars, ovars, avars>>
    \/ Is("pool") /\ PoolNext /\ UNCHANGED <<fvars, svars, lvars, pvars, tvars, avars>>
    \/ Is("value") /\ ValueNext /\ UNCHANGED <<fvars, svars, lvars, pvars, tvars, ovars>>

PrimSpec ==
    /\ PrimInit /\ [][PrimNext]_all
    /\ \A g \in G : WF_all(scen = "sync" /\ ~panicked /\ Step(g) /\ UNCHANGED <<scen, mvars, prims>>)
    /\ WF_all(OnlySignals /\ Progress)

(***************************************************************************)
(* The properties of the modules that are not extended, by the names they  *)
(* have there.                                                             *)
(***************************************************************************)

(* A node is on one lock-free stack or with one thread.                    *)
EveryNodeOnce == scen = "lfstack" => LF!EveryNodeOnce

(* The timers are a heap and know their indices, timerproc does not sleep  *)
(* past a timer, and a timer fires as often as it was started and not      *)
(* stopped.                                                                *)
TimersSafe == scen = "timers" => Tm!TimersSafe

(* All calls of package sync return, and a wanted signal gets to the       *)
(* channels that want it.                                                  *)
AllArrive == AllReturn /\ []<>NothingOwed
=============================================================================
