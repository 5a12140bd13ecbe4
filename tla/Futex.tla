------------------------------- MODULE Futex -------------------------------
(***************************************************************************)
(* lock_futex.c: the runtime's Lock and Note on the kernel's futexes.      *)
(*                                                                         *)
(* Threads take the Lock and release it.  Under it, one of them, Sleeper,  *)
(* may prepare to sleep on the Note, and another may wake it, once; this   *)
(* is how timerproc and addtimer use a Note.  Every exchange, compare and  *)
(* swap, load and system call is a step.                                   *)
(***************************************************************************)
EXTENDS Integers

CONSTANTS
    Threads,
    Sleeper,    \* the thread that sleeps on the Note
    MaxLocks    \* bound: how often the Lock is taken

UNLOCKED == 0
LOCKED == 1
SLEEPING == 2

VARIABLES
    key,        \* the Lock
    note,       \* the Note's key
    wanted,     \* Sleeper sleeps, or is about to, and nobody has woken it
    th,         \* th[t]: where thread t is, its variable wait, and how long it sleeps on
                \* the Note (-1: until it is woken)
    left,       \* how often the Lock may still be taken
    throw

fvars == <<key, note, wanted, th, left, throw>>

FutexInit ==
    /\ key = UNLOCKED /\ note = 0 /\ wanted = FALSE
    /\ th = [t \in Threads |-> [pc |-> "idle", wait |-> LOCKED, ns |-> -1]]
    /\ left = MaxLocks /\ throw = FALSE

ThreadAt(t, label) == th[t].pc = label
ThreadTo(t, label) == th' = [th EXCEPT ![t].pc = label]

(***************************************************************************)
(* lock                                                                    *)
(***************************************************************************)

(* Mutant: a thread that finds others sleeping does not pass it on.        *)
Seen_Locked(v) == LOCKED

Seen(v) == v

(* The speculative grab: it may turn SLEEPING into LOCKED.                 *)
Grab(t) ==
    /\ ThreadAt(t, "idle") /\ left > 0
    /\ key' = LOCKED /\ left' = left - 1
    /\ th' = [th EXCEPT ![t].pc = IF key = UNLOCKED THEN "held" ELSE "spin",
                        ![t].wait = Seen(key)]
    /\ UNCHANGED <<note, wanted, throw>>

(* Active and passive spinning: a compare-and-swap that succeeds.          *)
Spin(t) ==
    /\ ThreadAt(t, "spin") /\ key = UNLOCKED
    /\ key' = th[t].wait
    /\ ThreadTo(t, "held")
    /\ UNCHANGED <<note, wanted, left, throw>>

(* Enough of it: the exchange before the sleep.                            *)
SpinEnds(t) ==
    /\ ThreadAt(t, "spin")
    /\ key' = SLEEPING
    /\ th' = [th EXCEPT ![t].pc = IF key = UNLOCKED THEN "held" ELSE "sleep", ![t].wait = SLEEPING]
    /\ UNCHANGED <<note, wanted, left, throw>>

(* futexsleep: the kernel compares and sleeps in one step.                 *)
futexsleep(t) ==
    /\ ThreadAt(t, "sleep")
    /\ ThreadTo(t, IF key = SLEEPING THEN "asleep" ELSE "spin")
    /\ UNCHANGED <<key, note, wanted, left, throw>>

(* A futex may wake up for no reason.                                      *)
Spurious(t) ==
    /\ \/ ThreadAt(t, "asleep") /\ ThreadTo(t, "spin")
       \/ ThreadAt(t, "noteasleep") /\ ThreadTo(t, "noteload")
    /\ UNCHANGED <<key, note, wanted, left, throw>>

(***************************************************************************)
(* unlock                                                                  *)
(***************************************************************************)
After(t) == IF t = Sleeper /\ wanted THEN "noteload" ELSE "idle"

Unlock(t) ==
    /\ ThreadAt(t, "held")
    /\ key' = UNLOCKED
    /\ throw' = (key = UNLOCKED)
    /\ ThreadTo(t, IF key = SLEEPING THEN "wake" ELSE After(t))
    /\ UNCHANGED <<note, wanted, left>>

(* futexwakeup(&l->key, 1)                                                 *)
UnlockWake(t) ==
    LET sleepers == {s \in Threads : ThreadAt(s, "asleep")} IN
    /\ ThreadAt(t, "wake")
    /\ \/ /\ sleepers = {} /\ ThreadTo(t, After(t))
       \/ \E s \in sleepers : th' = [th EXCEPT ![t].pc = After(t), ![s].pc = "spin"]
    /\ UNCHANGED <<key, note, wanted, left, throw>>

(***************************************************************************)
(* Notes                                                                   *)
(***************************************************************************)
noteclear ==
    /\ ThreadAt(Sleeper, "held") /\ ~wanted
    /\ note' = 0 /\ wanted' = TRUE
    /\ \E ns \in {-1, 1} : th' = [th EXCEPT ![Sleeper].ns = ns]
    /\ UNCHANGED <<key, left, throw>>

(* notesleep and notetsleep: load the key, sleep if it is zero.            *)
NoteLoad(t) ==
    /\ ThreadAt(t, "noteload")
    /\ ThreadTo(t, IF note # 0 THEN "idle" ELSE "notesleep")
    /\ UNCHANGED <<key, note, wanted, left, throw>>

StillZero == note = 0

NoteSleep(t) ==
    /\ ThreadAt(t, "notesleep")
    /\ ThreadTo(t, IF StillZero THEN "noteasleep" ELSE "noteload")
    /\ UNCHANGED <<key, note, wanted, left, throw>>

(* notetsleep's time is over.                                              *)
NoteTimeout(t) ==
    /\ ThreadAt(t, "noteasleep") /\ th[t].ns >= 0
    /\ ThreadTo(t, "idle")
    /\ UNCHANGED <<key, note, wanted, left, throw>>

(* The thread that slept sees to it that it is not woken any more.         *)
NotWanted ==
    /\ ThreadAt(Sleeper, "held") /\ wanted
    /\ wanted' = FALSE
    /\ UNCHANGED <<key, note, th, left, throw>>

notewakeup(t) ==
    /\ ThreadAt(t, "held") /\ t # Sleeper /\ wanted
    /\ wanted' = FALSE
    /\ note' = 1
    /\ throw' = (note # 0)
    /\ ThreadTo(t, "notewake")
    /\ UNCHANGED <<key, left>>

NoteWake(t) ==
    /\ ThreadAt(t, "notewake")
    /\ th' = [s \in Threads |-> IF s = t THEN [th[s] EXCEPT !.pc = "held"]
                                ELSE IF ThreadAt(s, "noteasleep") THEN [th[s] EXCEPT !.pc = "noteload"]
                                ELSE th[s]]
    /\ UNCHANGED <<key, note, wanted, left, throw>>

FutexNext ==
    /\ ~throw
    /\ \/ \E t \in Threads :
            \/ Grab(t) \/ Spin(t) \/ SpinEnds(t) \/ futexsleep(t) \/ Spurious(t)
            \/ Unlock(t) \/ UnlockWake(t)
            \/ NoteLoad(t) \/ NoteSleep(t) \/ NoteTimeout(t) \/ notewakeup(t) \/ NoteWake(t)
       \/ noteclear \/ NotWanted

FutexSpec == FutexInit /\ [][FutexNext]_fvars

(***************************************************************************)
(* Properties                                                              *)
(***************************************************************************)
Holds(t) == th[t].pc \in {"held", "notewake"}

(* Two threads never hold the Lock, however its word is exchanged by those *)
(* that try, and no unlock finds it unlocked.                              *)
LockExcludes ==
    /\ \A s, t \in Threads : Holds(s) /\ Holds(t) => s = t
    /\ ~throw

(* While a thread sleeps for the Lock, the word says so, or somebody is    *)
(* about to wake one or to take the Lock as SLEEPING again: a newcomer's   *)
(* exchange does not make the holder forget the sleepers.                  *)
LockRemembersSleepers ==
    (\E s \in Threads : ThreadAt(s, "asleep")) =>
      \/ key = SLEEPING
      \/ \E t \in Threads : ThreadAt(t, "wake") \/ (th[t].pc \in {"spin", "sleep"} /\ th[t].wait = SLEEPING)

(* A thread does not sleep on a Note that is set, unless its futexwakeup   *)
(* is under way.                                                           *)
NoteNotMissed ==
    \A s \in Threads : ThreadAt(s, "noteasleep") /\ note # 0 => \E t \in Threads : ThreadAt(t, "notewake")

(* Locks exclude, and neither a Lock nor a Note loses a sleeper.           *)
FutexSafe == LockExcludes /\ LockRemembersSleepers /\ NoteNotMissed
=============================================================================
