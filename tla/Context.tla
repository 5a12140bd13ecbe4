------------------------------ MODULE Context ------------------------------
(***************************************************************************)
(* Package context (compatible/src/context/context.go): contexts that are  *)
(* cancelled by their cancel function, by their deadline or by their       *)
(* parent, whose children they register as.                                *)
(*                                                                         *)
(* The first cancel of a context holds its mu while it cancels the         *)
(* children, one by one and each to the end; st says how far it has come.  *)
(* mu is held only meanwhile: what else is done under it is one step.  A   *)
(* later cancel of the same context waits for mu and changes nothing.      *)
(***************************************************************************)
CONSTANTS
    Ctxs,       \* the contexts
    Parent,     \* Parent[c]: the nearest cancelCtx above c, or None
    Timers,     \* those with a deadline of their own
    Foreign,    \* those whose parent is hidden in a Context of another type
    None

ASSUME ContextConstants ==
    /\ None \notin Ctxs
    /\ Parent \in [Ctxs -> Ctxs \cup {None}]
    /\ Timers \subseteq Ctxs /\ Foreign \subseteq Ctxs

VARIABLES
    st,         \* st[c]: none, live, cancelling or cancelled
    err,        \* err[c]: why c is cancelled, or nil
    children,   \* children[c]: those a cancel of c is passed on to
    todo,       \* todo[c]: the ones it has still to be passed on to
    remove,     \* remove[c]: c has still to be removed from its parent
    timer,      \* timer[c]: nil, unset (not yet), armed or gone
    watch       \* watch[c]: the goroutine that waits for a foreign parent

cvars == <<st, err, children, todo, remove, timer, watch>>

ContextInit ==
    /\ st = [c \in Ctxs |-> "none"]
    /\ err = [c \in Ctxs |-> "nil"]
    /\ children = [c \in Ctxs |-> {}]
    /\ todo = [c \in Ctxs |-> {}]
    /\ remove = [c \in Ctxs |-> FALSE]
    /\ timer = [c \in Ctxs |-> "nil"]
    /\ watch = [c \in Ctxs |-> "none"]

(* Nobody holds c's mu.                                                    *)
Free(c) == st[c] # "cancelling"

(* WithDeadline has returned c: it can be used as a parent and cancelled.  *)
Returned(c) == st[c] # "none" /\ timer[c] # "unset"

NewTimer(c) == timer' = [timer EXCEPT ![c] = IF c \in Timers THEN "unset" ELSE "nil"]

(***************************************************************************)
(* WithCancel, and WithDeadline up to its timer.                           *)
(***************************************************************************)
NewRoot(c) ==
    /\ st[c] = "none" /\ Parent[c] = None
    /\ st' = [st EXCEPT ![c] = "live"]
    /\ NewTimer(c)
    /\ UNCHANGED <<err, children, todo, remove, watch>>

(* Mutant: a child is registered although its parent is cancelled.         *)
Alive_Always(p) == TRUE

Alive(p) == err[p] = "nil"

(* propagateCancel: register with a parent, unless it is cancelled.        *)
NewChild(c) ==
    LET p == Parent[c] IN
    /\ st[c] = "none" /\ p # None /\ c \notin Foreign
    /\ Returned(p) /\ Free(p)
    /\ IF Alive(p)
       THEN /\ children' = [children EXCEPT ![p] = @ \cup {c}]
            /\ st' = [st EXCEPT ![c] = "live"]
            /\ UNCHANGED err
       ELSE /\ st' = [st EXCEPT ![c] = "cancelled"]
            /\ err' = [err EXCEPT ![c] = err[p]]
            /\ UNCHANGED children
    /\ NewTimer(c)
    /\ UNCHANGED <<todo, remove, watch>>

(* A foreign parent is watched by a goroutine.                             *)
NewForeign(c) ==
    /\ st[c] = "none" /\ Parent[c] # None /\ c \in Foreign
    /\ Returned(Parent[c])
    /\ st' = [st EXCEPT ![c] = "live"]
    /\ watch' = [watch EXCEPT ![c] = "waiting"]
    /\ NewTimer(c)
    /\ UNCHANGED <<err, children, todo, remove>>

(***************************************************************************)
(* cancel                                                                  *)
(***************************************************************************)
Start(c, e, rm) ==
    /\ st[c] = "live"
    /\ st' = [st EXCEPT ![c] = "cancelling"]
    /\ err' = [err EXCEPT ![c] = e]
    /\ todo' = [todo EXCEPT ![c] = children[c]]
    /\ remove' = [remove EXCEPT ![c] = rm]
    /\ UNCHANGED children

(* The cancel function that the program was given.                         *)
Cancel(c) ==
    /\ Returned(c)
    /\ Start(c, "Canceled", TRUE)
    /\ UNCHANGED <<timer, watch>>

(* child.cancel(false, err)                                                *)
CancelChild(c, k) ==
    /\ st[c] = "cancelling" /\ k \in todo[c]
    /\ Start(k, err[c], FALSE)
    /\ UNCHANGED <<timer, watch>>

(* It has returned, or k was cancelled already.                            *)
ChildDone(c, k) ==
    /\ st[c] = "cancelling" /\ k \in todo[c]
    /\ st[k] = "cancelled" /\ timer[k] # "armed"
    /\ todo' = [todo EXCEPT ![c] = @ \ {k}]
    /\ UNCHANGED <<st, err, children, remove, timer, watch>>

CancelEnd(c) ==
    /\ st[c] = "cancelling" /\ todo[c] = {}
    /\ st' = [st EXCEPT ![c] = "cancelled"]
    /\ children' = [children EXCEPT ![c] = {}]
    /\ UNCHANGED <<err, todo, remove, timer, watch>>

Without(c, p) ==
    IF p = None \/ c \in Foreign THEN children ELSE [children EXCEPT ![p] = @ \ {c}]

(* removeChild                                                             *)
RemoveChild(c) ==
    LET p == Parent[c] IN
    /\ st[c] = "cancelled" /\ remove[c]
    /\ p # None => Free(p)
    /\ remove' = [remove EXCEPT ![c] = FALSE]
    /\ children' = Without(c, p)
    /\ UNCHANGED <<st, err, todo, timer, watch>>

(***************************************************************************)
(* The timer of WithDeadline and the goroutine of a foreign parent.        *)
(***************************************************************************)

(* The deadline has passed already: WithDeadline cancels c.                *)
DeadlinePassed(c) ==
    /\ timer[c] = "unset"
    /\ Start(c, "DeadlineExceeded", TRUE)
    /\ UNCHANGED <<timer, watch>>

(* The end of WithDeadline.                                                *)
SetTimer(c) ==
    /\ timer[c] = "unset" /\ Free(c)
    /\ timer' = [timer EXCEPT ![c] = IF err[c] = "nil" THEN "armed" ELSE "gone"]
    /\ UNCHANGED <<st, err, children, todo, remove, watch>>

Fire(c) ==
    /\ timer[c] = "armed"
    /\ IF st[c] = "live" THEN Start(c, "DeadlineExceeded", TRUE)
       ELSE UNCHANGED <<st, err, children, todo, remove>>
    /\ timer' = [timer EXCEPT ![c] = "gone"]
    /\ UNCHANGED watch

(* The end of timerCtx.cancel: c is out of its parent, stop the timer.     *)
StopTimer(c) ==
    /\ st[c] = "cancelled" /\ timer[c] = "armed"
    /\ timer' = [timer EXCEPT ![c] = "gone"]
    /\ UNCHANGED <<st, err, children, todo, remove, watch>>

(* <-parent.Done(), and parent.Err(), which takes the parent's mu.         *)
ParentDone(c) ==
    LET p == Parent[c] IN
    /\ watch[c] = "waiting" /\ p # None /\ err[p] # "nil" /\ Free(p)
    /\ IF st[c] = "live" THEN Start(c, err[p], FALSE)
       ELSE UNCHANGED <<st, err, children, todo, remove>>
    /\ watch' = [watch EXCEPT ![c] = "gone"]
    /\ UNCHANGED timer

(* <-child.Done()                                                          *)
WatchEnds(c) ==
    /\ watch[c] = "waiting" /\ err[c] # "nil"
    /\ watch' = [watch EXCEPT ![c] = "gone"]
    /\ UNCHANGED <<st, err, children, todo, remove, timer>>

(* What goes on by itself once a cancel has begun.                         *)
ContextProgress ==
    \E c \in Ctxs :
      \/ \E k \in Ctxs : CancelChild(c, k) \/ ChildDone(c, k)
      \/ CancelEnd(c) \/ RemoveChild(c) \/ SetTimer(c) \/ StopTimer(c)
      \/ ParentDone(c) \/ WatchEnds(c)

ContextNext ==
    \/ ContextProgress
    \/ \E c \in Ctxs :
         NewRoot(c) \/ NewChild(c) \/ NewForeign(c) \/ Cancel(c) \/ DeadlinePassed(c) \/ Fire(c)

ContextSpec == ContextInit /\ [][ContextNext]_cvars

(***************************************************************************)
(* Properties                                                              *)
(***************************************************************************)
Registers(k, c) == Parent[k] = c /\ k \notin Foreign /\ st[k] # "none"

(* When the cancel of a context returns, every context that was registered *)
(* with it is cancelled too, those included that were being derived, or    *)
(* cancelled on their own, at the same time.  One below a foreign parent   *)
(* is not registered: a goroutine cancels it when it gets to run.          *)
CancelledBelow ==
    \A c, k \in Ctxs : st[c] = "cancelled" /\ Registers(k, c) => st[k] = "cancelled"

(* A context that was cancelled, and whose cancel has returned, is kept by *)
(* no live parent: parents do not grow with every child they ever had.     *)
Forgotten ==
    \A c \in Ctxs, k \in Ctxs :
      st[c] = "live" /\ Parent[k] = c /\ st[k] = "cancelled" /\ ~remove[k] => k \notin children[c]

(* Every cancel returns: parents lock children and children their parents, *)
(* but never each other; timers are stopped and goroutines end.            *)
CancelReturns ==
    <>[](\A c \in Ctxs : err[c] # "nil" =>
           st[c] = "cancelled" /\ ~remove[c] /\ timer[c] # "armed" /\ watch[c] # "waiting")

(* A cancel reaches all contexts registered below it, and leaves no trace  *)
(* above.                                                                  *)
ContextSafe == CancelledBelow /\ Forgotten
=============================================================================
