------------------------------ MODULE SigQueue ------------------------------
(***************************************************************************)
(* Signals: the queue of sigqueue.goc between the signal handlers and the  *)
(* one goroutine that receives, and package os/signal on top of it.        *)
(*                                                                         *)
(* A signal handler runs on any thread at any time: every signal that      *)
(* arrives is an element of Arrivals, and its sigsend looks at wanted,     *)
(* sets the mask, changes the state and wakes the receiver step by step.   *)
(***************************************************************************)
EXTENDS Naturals, FiniteSets

CONSTANTS
    Signals,
    Chans,          \* the channels given to Notify, each with a buffer of one
    Arrivals,       \* the signals that arrive
    SigOf,          \* SigOf[a]: the signal of an arrival
    MaxNotify       \* bound: calls of Notify and Stop

ASSUME SigConstants == SigOf \in [Arrivals -> Signals] /\ IsFiniteSet(Chans)

HASWAITER == 1
HASSIGNAL == 2

VARIABLES
    swanted,    \* sig.wanted
    mask,       \* sig.mask: the queue
    state,      \* sig.state
    snote,      \* the Note is set
    recv,       \* signal_recv's local copy of the queue
    loop,       \* where the receiving goroutine is: "serve", "state", "sleep", "copy", "process"
    cur,        \* the signals it hands to process: one, or none
    hand,       \* hand[a]: where the handler of an arrival is
    handlers,   \* handlers[c]: the set of signals channel c wants; {} when it has no handler
    ref,        \* handlers.ref
    buf,        \* buf[c]: the signals in the channel
    calls,      \* calls of Notify and Stop so far
    owed,       \* owed[c]: signals that arrived while c wanted them and are not yet there
    stopped,    \* the channels whose last Stop is done, with what they held then
    sthrow

svars == <<swanted, mask, state, snote, recv, loop, cur, hand, handlers, ref, buf, calls, owed, stopped, sthrow>>
queue == <<swanted, mask, state, snote, recv, sthrow>>
chans == <<handlers, ref, buf, calls, owed, stopped>>

SigInit ==
    /\ swanted = {} /\ mask = {} /\ state = 0 /\ snote = FALSE /\ recv = {}
    /\ loop = "serve" /\ cur = {} /\ sthrow = FALSE
    /\ hand = [a \in Arrivals |-> "away"]
    /\ handlers = [c \in Chans |-> {}] /\ ref = [s \in Signals |-> 0]
    /\ buf = [c \in Chans |-> {}] /\ calls = 0
    /\ owed = [c \in Chans |-> {}] /\ stopped = [c \in Chans |-> [is |-> FALSE, had |-> {}]]

(***************************************************************************)
(* sigsend                                                                 *)
(***************************************************************************)
To(a, label) == hand' = [hand EXCEPT ![a] = label]

(* The signal arrives; nobody wants it, or its handler goes on.            *)
sigsend(a) ==
    LET s == SigOf[a] IN
    /\ hand[a] = "away"
    /\ To(a, IF s \in swanted THEN "queue" ELSE "gone")
    /\ owed' = [c \in Chans |-> IF s \in swanted \cap handlers[c] /\ buf[c] = {}
                                THEN owed[c] \cup {s} ELSE owed[c]]
    /\ UNCHANGED <<queue, loop, cur, handlers, ref, buf, calls, stopped>>

(* The compare-and-swap that queues it, unless it is queued already.       *)
Enqueue(a) ==
    /\ hand[a] = "queue"
    /\ To(a, IF SigOf[a] \in mask THEN "gone" ELSE "kick")
    /\ mask' = mask \cup {SigOf[a]}
    /\ UNCHANGED <<swanted, state, snote, recv, sthrow, loop, cur, chans>>

(* Mutant: the signal is left to a receiver that is believed to be awake.  *)
Kicked_Never(old) == IF old = HASWAITER THEN 0 ELSE old

Kicked(old) ==
    CASE old = HASSIGNAL -> HASSIGNAL
      [] old = HASWAITER -> 0
      [] old = 0 -> HASSIGNAL

Kick(a) ==
    /\ hand[a] = "kick"
    /\ state' = Kicked(state)
    /\ To(a, IF state = HASWAITER THEN "wake" ELSE "gone")
    /\ UNCHANGED <<swanted, mask, snote, recv, sthrow, loop, cur, chans>>

Wakeup(a) ==
    /\ hand[a] = "wake"
    /\ snote' = TRUE
    /\ sthrow' = (sthrow \/ snote)
    /\ To(a, "gone")
    /\ UNCHANGED <<swanted, mask, state, recv, loop, cur, chans>>

(***************************************************************************)
(* signal_recv, and the loop of os/signal that calls it                    *)
(***************************************************************************)
(* Mutant: serving one signal clears the word it was found in.             *)
Serve_DropRest ==
    /\ loop = "serve"
    /\ \/ \E s \in recv : /\ recv' = {}
                          /\ cur' = {s} /\ loop' = "process"
       \/ recv = {} /\ loop' = "state" /\ UNCHANGED <<recv, cur>>
    /\ UNCHANGED <<swanted, mask, state, snote, sthrow, hand, chans>>

Serve ==
    /\ loop = "serve"
    /\ \/ \E s \in recv : /\ recv' = recv \ {s}
                          /\ cur' = {s} /\ loop' = "process"
       \/ recv = {} /\ loop' = "state" /\ UNCHANGED <<recv, cur>>
    /\ UNCHANGED <<swanted, mask, state, snote, sthrow, hand, chans>>

CheckState ==
    /\ loop = "state"
    /\ sthrow' = (sthrow \/ state = HASWAITER)
    /\ state' = IF state = HASSIGNAL THEN 0 ELSE HASWAITER
    /\ loop' = IF state = HASSIGNAL THEN "copy" ELSE "sleep"
    /\ UNCHANGED <<swanted, mask, snote, recv, cur, hand, chans>>

(* notetsleepg returns, noteclear.                                         *)
RecvAwake ==
    /\ loop = "sleep" /\ snote
    /\ snote' = FALSE
    /\ loop' = "copy"
    /\ UNCHANGED <<swanted, mask, state, recv, sthrow, cur, hand, chans>>

Copy ==
    /\ loop = "copy"
    /\ recv' = mask /\ mask' = {}
    /\ loop' = "serve"
    /\ UNCHANGED <<swanted, state, snote, sthrow, cur, hand, chans>>

(* process: under the mutex, one non-blocking send to every channel.       *)
process ==
    /\ loop = "process"
    /\ buf' = [c \in Chans |-> IF cur \subseteq handlers[c] /\ buf[c] = {} THEN cur ELSE buf[c]]
    /\ owed' = [c \in Chans |-> owed[c] \ cur]
    /\ cur' = {} /\ loop' = "serve"
    /\ UNCHANGED <<queue, hand, handlers, ref, calls, stopped>>

(***************************************************************************)
(* Notify and Stop, each under the mutex of handlers                       *)
(***************************************************************************)
Notify(c, sigs) ==
    LET new == sigs \ handlers[c] IN
    /\ calls < MaxNotify /\ calls' = calls + 1
    /\ handlers' = [handlers EXCEPT ![c] = @ \cup sigs]
    /\ ref' = [s \in Signals |-> IF s \in new THEN ref[s] + 1 ELSE ref[s]]
    /\ swanted' = swanted \cup {s \in new : ref[s] = 0}
    /\ stopped' = [stopped EXCEPT ![c].is = FALSE]
    /\ UNCHANGED <<mask, state, snote, recv, sthrow, loop, cur, hand, buf, owed>>

LastRef(s) == ref[s] = 1

HandlerDeleted(c) == {}

Stop(c) ==
    /\ calls < MaxNotify /\ calls' = calls + 1
    /\ handlers[c] # {}
    /\ handlers' = [handlers EXCEPT ![c] = HandlerDeleted(c)]
    /\ ref' = [s \in Signals |-> IF s \in handlers[c] THEN ref[s] - 1 ELSE ref[s]]
    /\ swanted' = swanted \ {s \in handlers[c] : LastRef(s)}
    /\ owed' = [owed EXCEPT ![c] = {}]
    /\ stopped' = [stopped EXCEPT ![c] = [is |-> TRUE, had |-> buf[c]]]
    /\ UNCHANGED <<mask, state, snote, recv, sthrow, loop, cur, hand, buf>>

(* The program reads its channel.                                          *)
Receive(c) ==
    /\ buf[c] # {}
    /\ buf' = [buf EXCEPT ![c] = {}]
    /\ stopped' = [stopped EXCEPT ![c].had = {}]
    /\ UNCHANGED <<queue, loop, cur, hand, handlers, ref, calls, owed>>

Receiver == Serve \/ CheckState \/ RecvAwake \/ Copy \/ process
Handler(a) == Enqueue(a) \/ Kick(a) \/ Wakeup(a)

SigNext ==
    \/ Receiver
    \/ \E a \in Arrivals : sigsend(a) \/ Handler(a)
    \/ \E c \in Chans :
         \/ \E sigs \in SUBSET Signals \ {{}} : Notify(c, sigs)
         \/ Stop(c) \/ Receive(c)

(* The runtime runs the receiver, and a signal handler returns.  Nothing   *)
(* of this goes on for ever, so it is enough that something happens.       *)
Progress == Receiver \/ \E a \in Arrivals : Handler(a)

SigSpec == SigInit /\ [][SigNext]_svars /\ WF_svars(Progress)

(***************************************************************************)
(* Properties                                                              *)
(***************************************************************************)

(* The receiver never finds itself waiting ("inconsistent state"), and its *)
(* Note is never woken twice.                                              *)
SignalStateConsistent == ~sthrow

(* A receiver that sleeps with signals in the queue is about to be woken:  *)
(* by a Note that is set, or a handler that has yet to kick or wake.       *)
QueueNotForgotten ==
    loop = "sleep" /\ mask # {} =>
      snote \/ \E a \in Arrivals : hand[a] \in {"kick", "wake"}

(* os/signal's counts are those of its channels, and the runtime is told   *)
(* to deliver exactly the signals somebody wants.                          *)
WantedIsWanted ==
    /\ swanted = UNION {handlers[c] : c \in Chans}
    /\ \A s \in Signals : ref[s] = Cardinality({c \in Chans : s \in handlers[c]})

(* "When Stop returns, it is guaranteed that c will receive no more        *)
(* signals", one that is already under way included.                       *)
StopIsFinal == \A c \in Chans : stopped[c].is => buf[c] \subseteq stopped[c].had

(* Every wanted signal that has arrived got to process for every channel   *)
(* that wants it, or the channel is stopped.                               *)
NothingOwed == \A c \in Chans : owed[c] = {}

(* The queue's state is sound, no signal is forgotten in it, and channels  *)
(* get what they want and nothing after Stop.                              *)
SignalSafe == SignalStateConsistent /\ QueueNotForgotten /\ WantedIsWanted /\ StopIsFinal
=============================================================================
