# Formal models of the lightgo runtime and libraries

lightgo is the Go 1.2 source tree (linux/amd64), annotated in Chinese, with packages of later Go
versions ported back (`context`, `database/sql` of Go 1.10, `sync.Map`, `sync.Pool`,
`atomic.Value`, raw network connections). Its core is the runtime written in C under
`src/src/pkg/runtime`. This directory models the concurrent protocols of the runtime and of the
library packages that keep shared state, checks them with TLC on small instances and proves the most
important results with TLAPS. Paths are relative to `src/src/pkg/runtime` unless they say otherwise.

- [The system](#the-system) · [Channels](#channels) · [Scheduler](#scheduler) ·
  [Semaphores and package sync](#semaphores-and-package-sync) · [Primitives](#primitives) ·
  [database/sql](#databasesql) · [context](#context) · [http.Transport](#httptransport) ·
  [Network descriptors](#network-descriptors-and-the-poller) ·
  [Runs](#runs) · [Fairness](#fairness) · [Proofs](#proofs) · [Findings](#findings) ·
  [Not modelled](#not-modelled) · [Plan](#plan)

## The system

| component | state | operations | interacts with | what is hard | what makes it correct |
|---|---|---|---|---|---|
| channels, select (`chan.c`, `select.c`, `chan.h`) | per channel: ring buffer, `closed`, queues of waiting SudoGs, Lock; per goroutine: `param`, `selgen` | make, send, receive, close, select | park/ready of the scheduler | a select waits in many queues under many locks; results are delivered after unlocking; SudoGs live in stack frames | FIFO, one case per select, atomic rendezvous, no double or lost wakeup, no dangling SudoG |
| scheduler core (`proc.c`, `proc_p.c`, `proc_m.c`, `proc_g.c`) | `sched`, Ps with run queues, Ms, Gs | ready, newproc, park, gosched, goexit, schedule, findrunnable, startm, stopm, handoffp, checkdead, procresize | everybody | decisions from values read without a lock; hand-over through one-shot notes | a runnable G is in one place, a P has one user, no lost wakeup, deadlock reported iff real |
| system calls (`proc_syscall.c`) | P status `Psyscall`, `m->p` kept as a hint | entersyscall, entersyscallblock, exitsyscall | sysmon and stoptheworld race for the P | one compare-and-swap decides between three parties | one user per P |
| monitor (`proc_sysmon_preempt.c`) | `sysmonwait`, `sysmonnote` | sleep, poll, retake, preempt | all Ps | has no P, does not count as a running thread | awake when needed, counts stay right |
| stop/start the world (`proc_stw_gc.c`) | `gcwaiting`, `stopwait`, `stopnote` | stoptheworld, starttheworld, helpgc, GOMAXPROCS | collector | Ps run, idle, in calls, being handed off at the moment of the request | really stopped, terminates, nothing lost |
| LockOSThread (`proc_osthread.c`) | `m->lockedg`, `g->lockedm` | lock, unlock, stoplockedm, startlockedm | schedule | P moves to a sleeping thread | G and M stay together |
| semaphores (`sema.goc`) | `SemaRoot`: Lock, `nwait`, queue; `SyncSema` | semacquire, semrelease, paired acquire and release | ready/park; package sync | announce-then-check on both sides | no lost wakeup |
| `sync`: Mutex, RWMutex, WaitGroup, Cond, Once (`../sync`) | state words, counters | Lock, Unlock, RLock, Add, Wait, Signal, Do | semaphores | woken waiters compete with newcomers; counters of two parties | exclusion, progress, Wait and Do return at the right time |
| `sync.Map` (`../sync/map_compatible.go`) | `read`, `dirty`, `misses`, entries | Load, Store, LoadOrStore, Delete, Range | Mutex | an entry is shared by two maps, one read without lock | linearizable |
| futex Lock and Note (`lock_futex.c`) | one word each | lock, unlock, notesleep, notetsleep, notewakeup | everybody | three-state lock taken over by newcomers | exclusion, sleepers are remembered |
| signal queue (`sigqueue.goc`), `../os/signal` | `wanted`, `mask`, `recv`, three-state word; handlers, reference counts | sigsend, signal_recv, enable, Notify, Stop, process | a signal handler on any thread | agreement by compare-and-swap whether the receiver sleeps | no signal forgotten, Stop is final |
| lock-free stack (`lfstack.c`) | tagged head | push, pop | collector | ABA | a node is in one place |
| parallel for (`parfor.c`) | packed ranges, `done` | setup, do with stealing | collector's helpers | steal against own increment; end by a count that goes down again | every iteration once |
| timers (`time.goc`) | heap, `sleeping`, `rescheduling`, note | addtimer, deltimer, timerproc | notes, park | timerproc on its way to sleep | heap, no timer slept past, fires as often as started |
| `sync.Pool` (`../sync/pool_compatible.go`) | per-P private and shared, `localSize` | Get, Put, pinSlow | procPin, GOMAXPROCS | an array replaced while it is indexed | an item has one owner |
| `atomic.Value` (`../sync/atomic/value_compatible.go`) | two words | Load, Store | | two words, no lock | no torn value |
| `database/sql` (`src/compatible/src/database/sql`) | pool of connections, requests, Tx, Conn, Stmt, Rows | conn, putConn, exec, query, begin, commit, prepare, close, limits | driver, contexts, helper goroutines | cancelled waits, bad connections, retries, closing in any order | connection has one owner, counts are exact, nothing stays open, all calls return |
| `context` (`src/compatible/src/context`) | tree of contexts, timers | WithCancel, WithDeadline, cancel | timers, foreign parents | derive against cancel, locks of parents and children | cancellation reaches all below |
| `http.Transport` (`../net/http/transport.go`) | idle list, hand-over channel, persistConns with two loops | RoundTrip, body Read/Close, CancelRequest, CloseIdleConnections | network, server | a connection handed to a request that dials; bodies against readLoop | own response, one request per connection, returns |
| network descriptors (`../net/fd_unix.go`, `fd_mutex.go`, `netpoll.goc`) | fdMutex, PollDesc, deadlines, epoll edges | Read, Write, Close, SetDeadline, raw calls | scheduler, timers, kernel | stale timers and events of a reused PollDesc | descriptor valid while used, no lost edge, Close ends all |
| collector, allocator, hash maps, cgo, panics, stacks | heap | | | raw memory | |
| compilers, linkers, tools, rest of the standard library | | | | sequential | |

`PROJECT.json` lists the components with their sources and status, and the hazards of the code at
their lines, with the properties that would catch them.

## Channels

| module | content |
|---|---|
| `Chan` | `chansend`, `chanrecv`, `closechan` (blocking, non-blocking, nil) and `selectgo` |
| `ChanAbs` | what Go promises: a FIFO queue and a closed flag, every operation one atomic step |
| `ChanInv` | the inductive invariants: `IInv`, `QueueInv` and `RefInv`, each resting on the one before |
| `ChanProofs` | the proofs: types and locks, the throws and the queues; the refinement |
| `MCChan` | instances |

State: the fields of `Hchan` (`qcount`, `sendx`, `recvx`, `buf`, `closed`, `waitq`), of `G`
(`status`, `param`, `selgen`), the locks a goroutine holds (`held`) or that the M which parked it
has still to release (`unl`), the select's `pollorder` and loop index, the SudoG that was dequeued
and is still to be readied (`hand`), and the result (`out`, `ep`). An element is the pair of its
sender and the number of the sender's operation, so every element is distinct.

A critical section on one channel is one step: nothing it touches is read without the Lock. What
follows the unlock (copying the element, `gp->param = sg`, `ready(gp)`) is a step of its own, as the
partner may be woken by others in between. `closechan` takes a step per dequeue. `selectgo` takes
one per lock, polled case, enqueue, dequeue and unlock. A send that finds the channel closed, and a
close of a closed or nil channel, end the operation with the outcome `panic`. The race detector, the block profile and
debug output are left out. `lockorder` is the set of channels taken in address order; the heap sort
that produces it is not modelled.

`Refines` shows that `Chan` implements `ChanAbs`. The abstract step of an unbuffered exchange is the
moment the second party dequeues the first; the refinement mapping `AbsResult` therefore reads the
result of a claimed goroutine from the claimer's `hand` until it is delivered.

## Scheduler

`Sched` models `proc*.c`: threads (`ms`), processors (`ps`), goroutines (`gs`), `runtime.sched`.
`ms[m].pc` is the place in the code: `user` runs a goroutine, `sched`/`find`/`f...` are schedule and
findrunnable, `ho1`..`ho4` handoffp, `slk..` stoplockedm, `esys..`/`xsys..` system calls, `stw..` and
`start..` stopping and starting the world, `sm..` the monitor. `ret` and `iret` are the return
addresses of the shared subroutines (startm, wakep, handoffp, stopm; injectglist).

A section under sched's Lock is one step, except stoptheworld, which walks `allp` while
compare-and-swaps on P status go on beside it, and procresize, whose loops take a step per turn
(`Collect` empties a local queue into the global one, `Deal` gives one goroutine to a processor, their
index is `n`); `SchedFree` keeps all others out meanwhile. A read or
atomic operation without the lock is a step of its own. The code's `throw`s are recorded in `thrown`,
which stops the program. `checkdead` is evaluated where the code calls it, with the same counts.

Abstractions: run queues are sequences (ring, growth and queue Locks are planned as their own
module); every 61st tick of schedule becomes a free choice; which Ps sysmon finds overdue and when
its timers fire is free, except that only goroutines with `"long"` in their menu run for more than
10ms; the poller is a set of goroutines whose descriptor has become ready; a collection is: idle
threads help, finish, and the world is started; a dead G is not used again; `M` is the set of all
threads the program may have, and asking for one more is the runtime's "thread exhaustion". A
goroutine chooses from its menu in the program, a bounded number of times (`ops`), then exits. The background goroutine
(scavenger) only sleeps in `notetsleepg`, as `SchedConstants` says.

Work conservation. `WorkConserving` (settled, a local queue non-empty, then no P idle) holds for
programs without system calls or locked threads. With them the code does not aim at it:
`handoffp` (proc.c:250) reads `nmspinning`, and while it goes for the lock the spinning thread may
find work and another goroutine may be queued by a thread that sees no idle P yet; the P is then put
on the idle list without another look at the local queues. `gosched0` puts a goroutine on the global
queue and wakes nobody. Work is picked up at the next scheduling event, and `NoStall` is what holds
in general.

`Starttheworld` is the rest of procresize and what follows it under the lock. It keeps the caller's preference: processor 0 for the caller, the others idle; those
with work are handed to threads of `sched.midle`, or to new ones, by `StartP`, outside the lock.

Programs of all kinds are checked in one run (`Programs`, a set of records with menus, numbers of
operations, GOMAXPROCS values, thread limit and whether the poller is in use): the properties say for
which of them they are meant, as `WorkConserving` above.

## Semaphores and package sync

| module | content |
|---|---|
| `Sema` | `semacquire`, `semrelease`, `SyncSema` |
| `Sync` (EXTENDS `Sema`) | Mutex, RWMutex, WaitGroup, Cond, Once |
| `SyncInv` | the inductive invariants of `Sync` on `Sema`: `SyncIInv` for all programs, `LockInv` for disciplined ones |
| `SyncProofs`, `LockProofs` | their proofs: semaphores and wakeups; mutual exclusion |
| `SyncMap` | sync.Map |
| `MCSync` | programs of three goroutines, and the composition with `SyncMap` |

A goroutine is a record: place, stack of return places, local variables. Every atomic operation and
every plain read of shared memory is a step, so the composition `Sync` on `Sema` has the interleavings
of the code, not those of an idealised semaphore. A program is a sequence of calls per goroutine;
`Go` starts another.

- `SemaSafe`: while goroutines sleep on a semaphore, somebody is under way for each unit of its word
  (`SemaNoLostWakeup`), and `nwait`, which semrelease reads without the Lock, counts those in the queue
  and the one that has announced itself (`NwaitCounts`).
- `LocksSafe`: `Exclusion` of Mutex and RWMutex, and a writer waits for exactly the readers it found
  (`ReadersAccounted`). `OneWakeup`: mutexWoken stands for exactly one wakeup. `ReturnInTime`: Wait returns
  only if the counter was zero at some moment of the call (`NoEarlyWait`), Do only after f has returned
  (`OnceDone`). Every program comes to its end (`AllReturn`, part of `AllArrive`).
- `MapSafe`: the calls of a sync.Map are linearizable, and `DirtyCovers` holds. For
  `Linearizable` a ghost, `lin`, keeps every abstract map, with results already given to calls under
  way, that explains what was returned so far; a call that returns keeps those that gave the same
  result. The property is that one is left. `DirtyCovers`, the invariant behind `expunged`, says that
  dirty can take the place of read at any time.

## Primitives

`Futex`, `SigQueue`, `LFStack`, `ParFor`, `Timers`, `SyncPool`, `AtomicValue`: one module each, with
no connection between them. `MCPrims` puts them beside package sync: the variable `scen` says which
one a behaviour is about; the others stay at their start (the variables of `LFStack` and `Timers`, which
are instances, are 0). It EXTENDS `Futex`, `SigQueue`, `ParFor`, `SyncPool` and `AtomicValue`, whose theorems
are in `PrimProofs`.

- `Futex`: a step per exchange, compare-and-swap, load and futex call. A futex sleep compares and
  sleeps at once; a wakeup may be spurious. `FutexSafe`: two threads never hold the Lock
  (`LockExcludes`); if a thread sleeps, the word is SLEEPING, or somebody is about to wake one or will
  write SLEEPING (`LockRemembersSleepers`); nobody sleeps on a Note that is set, with or without
  time-out (`NoteNotMissed`).
- `SigQueue`: signals arrive on any thread while Notify and Stop change what is wanted. `sigsend` sets
  the mask bit and then moves the three-state word; `signal_recv` moves it the other way and sleeps.
  os/signal's reference counts and `process`, which delivers without blocking to buffered channels, are
  part of it; the installation of handlers in the kernel is external. `SignalSafe`: the state word never
  surprises the receiver, a receiver that sleeps beside signals is about to be woken, the runtime
  delivers what the channels want, and Stop is final. Signals arrive in the end (part of `AllArrive`).
- `LFStack`: two stacks that share nodes, heads tagged by a push count modulo `CntMod` (2^17 in the
  code). `EveryNodeOnce` is the absence of ABA; it needs fewer than `CntMod` pushes of a node while
  a thread is between load and swap, which is what the bound says.
- `ParFor`: ranges packed in one word; own increments, steals of the upper half, and the `done` count
  which a thief takes itself out of again. `ParForSafe`: each iteration once, and all before a thread
  that waits leaves.
- `Timers`: the 4-ary heap with `siftup` and `siftdown` as in the code, `deltimer` by stored index,
  periodic timers, and `timerproc` from unlock to sleep as separate steps. Each move of a timer sets the
  index of that timer, and no other. A heap of ten covers the
  second level of children. `TimersSafe`: the heap is one and timers know their indices, timerproc does
  not sleep past a timer, a timer fires as often as it was started and not stopped.
- `SyncPool`: pin excludes other goroutines of the same P only; `local` and `localSize` are two words
  read one after the other while GOMAXPROCS grows or shrinks. `PoolSafe`: an item has one owner, the
  array is indexed within its bounds.
- `AtomicValue`: type word and data word, `Busy` standing for `^uintptr(0)`.

## database/sql

`SqlPool` is the pool: `conn` with its strategies, requests and their cancellation, `putConn`,
`maybeOpenNewConnections`, `connectionOpener`, `connectionCleaner`, `driverConn` closing, `Close`,
`SetMaxOpenConns`, `SetMaxIdleConns`, `SetConnMaxLifetime`. `Sql` adds what uses it: DB, Tx, Conn, Stmt
and Rows, the two kinds of `awaitDone` goroutines, `closemu` read-write locks and the retry loops after
`driver.ErrBadConn`. A section under `db.mu` is a step, a call of the driver is a step that may fail
(bounded by `faults`), a context may be cancelled at any time (`cancel`). The driver is external: what
the code relies on is that a connection is used by one goroutine at a time and that statements belong
to connections.

- `OneOwner`: every open connection has exactly one owner (idle list, answered request, process, Rows,
  Tx, Conn, or whoever is to close it), and its part `NoPanic`: the package panics in no other case than
  the three of `Excused`, each of which some program reaches. They are a hypothesis on what the program
  does, and the code breaks its promises there: an operation on a Conn panics if the Conn is closed
  between the look at `done` and the lock of `closemu` (sql.go:1524-1528), although "Close is safe to call
  concurrently with other operations" (sql.go:1636, and 1500-1501) and "All operations after a Close will
  return with ErrConnDone" (1635); a wait that is cancelled when its open has failed gives a nil
  connection to putConn (981); and a lifetime shortened after DB.Close may be announced on the closed
  `cleanerCh` (767).
- `PoolCounts`: `numOpen` counts the connections open and being opened (`PoolCount`), and the limits hold
  (`WithinLimits`).
- `ConnsClean`: no connection is with anybody but the transaction's owner while a transaction is open at
  the driver, and an idle one has no statement whose Stmt and Rows are closed.
- `StmtClosedQuiet`: a statement is closed at the driver only while nobody uses its connection.
- `AllEnds`: every operation returns, and after DB.Close every connection is closed in the end, unless the
  program dies of one of these panics.

## context

`Context`: a forest given by `Parent`; `Timers` have deadlines, `Foreign` are derived through a Context
of another type and are watched by a goroutine. The first cancel of a context holds its mutex while it
cancels the children one by one, so `st` has a state "cancelling", and `Free` is what others wait for.
`ContextSafe` (`CancelledBelow`: cancellation reaches all that are registered
below, which those of a foreign parent are not; `Forgotten`: a live parent keeps no
cancelled child) is proved in `LibProofs`; that every cancel returns, i.e. that the locks of parents
and children do not deadlock, is checked.

## http.Transport

`HttpTransport`: two requests to one host, each with its goroutine and possibly a dial that goes on
after the request has taken another connection; `readLoop` and `writeLoop` of every persistConn; bodies
that are read to the end, closed early or not at all; `CancelRequest`, `CloseIdleConnections`,
`ResponseHeaderTimeout`, `DisableKeepAlives`. The server answers in order and may hang up a bounded
number of times. A request gets the channel of idle connections in one step and is a receiver on it
from a later one, so a hand-over may miss it. `TransportSafe`: a response is the answer to its request (`OwnResponse`), an idle
connection has no request or body under way (`IdleIsFree`), readLoop and a body never use the
bufio.Reader at once (`OneReader`). Every RoundTrip returns.

`HttpInv` states the inductive invariant of these three, `HttpProofs` proves it and them.

## Network descriptors and the poller

`NetFD`: netFD with its fdMutex, the FD inside it with another, the PollDesc with `rg`, `wg`, `seq` and
deadlines, its reuse through `pollcache`, timers that were taken off the heap before their deadline was
changed (`firing`), and epoll's edges (an edge is reported once, and may be in the hand of a thread
while the descriptor is closed). `FdValid`: whoever is about to use a socket or its PollDesc finds it
open and its own. `PollSafe`: no throw of the poller or panic of fdMutex, and a goroutine that waits on a
ready socket has an event coming. Close ends every call and then closes the socket. A failure of
`netpollopen` (its PollDesc is lost to the cache, and accept closes the listener, fd_unix.go:421-423) is
not modelled.

`NetInv` states the inductive invariant for the proofs, and the hypothesis `RawAlone` about programs.

`MCLib` composes the three packages side by side with `scen`, as `MCPrims` does: it extends
`Context`, `HttpTransport` and `NetFD`. They share nothing, and one run asks all of them. `AllEnd` is their liveness: cancels, RoundTrips and closed calls return.

## Runs

| run | instance | properties | states |
|---|---|---|---|
| `chan_plain` | 3 goroutines (2, 2, 1 operations), an unbuffered channel, a buffer of 2, nil | `NoLostWakeup` `Refines` | 218k |
| `chan_select` | 3 goroutines (2, 1, 1), channels with capacity 1 and 0; selects with both directions, duplicates, nil, default, none | `NoThrow` `IInv` `QueuedInScope` `SelNotFreedEarly` `NoMissedRendezvous` `Refines` `ComesToRest` | 80k |
| `chan_stranded` | 4 goroutines, two channels of capacity 1 | `NoLostWakeup` is violated | |
| `sched` | five programs: core operations on 2 Ps; system calls, locked threads and scavenger on 1 P; the poller with 1 and 2 Ps; collections and GOMAXPROCS | `ChecksHold` `InPlace` `SpinCount` `WorkConserving` `OneUser` `StallFree` | 755k |
| `sched_ends` | 2 goroutines, 2 Ps, a collection against system calls | `WorldStopped` `Ends` | 286k |
| `sched_busy` | 2 goroutines, 1 P, poller in use | `Preempts` is violated | |
| `sync` | `MCPrims`: eight programs of package sync, two of sync.Map, and the seven primitives | `SemaSafe` `LocksSafe` `OneWakeup` `ReturnInTime` `MapSafe` `FutexSafe` `SignalSafe` `EveryNodeOnce` `ParForSafe` `TimersSafe` `PoolSafe` `LoadsWhole` `AllArrive` | 392k |
| `sync_wait` | the schedule of WaitGroup's comment | `NoEarlyWait` is violated | |
| `sql` | thirteen programs of 3 goroutines, up to 4 connections | `OneOwner` `PoolCounts` `ConnsClean` `StmtClosedQuiet` `AllEnds` | 314k |
| `sql_commit` | begin and commit, context cancelled | `CancelledTxEnds` is violated | |
| `lib` | a tree of 5 contexts; 2 requests over 7 set-ups of a Transport; 6 programs of network calls | `ContextSafe` `TransportSafe` `FdValid` `PollSafe` `AllEnd` | 269k |
| `lib_raw` | raw calls against Close | `FdValid` is violated | |

Why the bounds are enough to be interesting.

- Channels: a buffer of 2 wraps with three sends; three goroutines are the smallest number with a
  claimed waiter, its claimer and a competitor; two operations of one goroutine let a SudoG of the
  first be met by the second (stale `selgen`).
- Scheduler: with 2 Ps there are a running, an idle and a spinning party; 4 threads are the monitor,
  one per P and one blocked in a call, in the poller or locked; a third goroutine is needed only where
  one must be stolen while two others run. With 1 P everything competes for the same processor. The
  poller's programs have 3 threads: with 2 Ps a branch that would start a fourth ends in "thread
  exhaustion".
- sync: three goroutines are a holder, a woken waiter and a newcomer; the Locks program takes the
  mutex four times. `MaxReaders` is 8, more than the goroutines there are, as 2^30 is. All
  semaphores share one root. sync.Map: three keys, with entries deleted, expunged, promoted and ranged
  over, by programs that begin after two calls of goroutine 1.
- Primitives: three threads on a Lock, four takes; two signals, two channels, two arrivals and three
  calls of Notify and Stop; two nodes on two stacks, two pushes; three threads and four iterations, with
  and without waiting; three timers and three calls with a clock to 2, or a heap of ten timers and one
  call; two goroutines on at most two Ps and one change of GOMAXPROCS; three values of two types
  in three calls.
- sql: one connection and two who wait for it, one of whom gives up; every fault bounded by
  `faults` (up to 3 calls, 2 opens); `maxBadConnRetries` is 2 as in the code.
- lib: a deadline in the middle of the tree and a foreign child; two requests are the smallest number
  that can be handed each other's connection; two netFDs, the second of which takes over the first's
  PollDesc; at most two transfers.

Deadlock checking is off where goroutines may rightly wait for ever or programs come to an end
(channels, the poller, sync, sql, lib); there liveness properties say what must not hang. In `sched` and
`sched_ends` it is on: every state without a successor would be a hang of the runtime.

Related invariants of a component are conjunctions of named parts (`ChecksHold` is `TypeOK`, `NoThrow`
and `DeadlockIsReal`; `InPlace` is `OnePlace` and `LockedTogether`; `StallFree` is `NoStall` and
`MonitorAwake`; the others are named with their modules above). Every property of a passing run has a
mutant of the code (`X_Suffix` beside `X`) that violates it.

## Fairness

- `Chan!FairSpec`: weak fairness per goroutine, including the M that unlocks for it: the scheduler
  runs every runnable goroutine, and futex locks are eventually given to a waiter here because a
  section holds a lock for a bounded time and the programs are finite.
- `Sched!FairSpec` (`Progress`): every thread goes on when it can (the kernel schedules threads);
  the timers of stoptheworld (100us) and sysmon go off; system calls return; goroutines call
  functions, so that they see a request to yield. Goroutines that never call a function are the
  known limit of this runtime's preemption and are outside `Ends`.
- `Sched!BusySpec`: only the runtime and its timers are fair; goroutines may compute for ever.
- `MCPrims!PrimSpec` (and `MCSync!SyncSpec`): weak fairness per goroutine of package sync; for signals,
  of the goroutines and handlers under way (`Progress`), not of new signals or calls.
- `Sql!FairSpec`: every process with something to do goes on, driver calls return; faults and
  cancellations need not happen.
- `MCLib!FairSpec`: something goes on as long as anything can. The programs are finite, so this is
  enough. It excludes what need not happen: a cancel, a deadline, a hang-up, data from the network. For
  `http.Transport` it assumes that the server answers a request it has received or hangs up.

`Ends` covers the termination of stoptheworld as well: a program whose collector waits for ever does
not end.

## Proofs

All for arbitrary values of the constants: any set of goroutines (finite in `Sync`), channels with any
capacities, any menus; any forest of contexts; any number of connections and any calls on
them; any set of threads; any programs over any Mutexes, RWMutexes, WaitGroups,
Conds and Onces, those that misuse them included; any numbers of threads and processors, and any programs
of goroutines that create, ready, park, make system calls, lock threads, collect and change GOMAXPROCS.
Assumptions: in `Chan`, channels are addresses, i.e. naturals other than nil, `Cap` gives a natural
for each, `Menu` contains well-formed operations, `MaxOps` naturals; in `Context`, `Parent` maps contexts
to contexts or `None`; in `Sema`, every semaphore has a root (`RootAssumption`); in `Sync`, the semaphores
are those of the objects, the WaitGroup's are its own, the programs consist of calls of the package's
functions, and there are fewer goroutines than `MaxReaders`, which is 2^30 (`SyncConstants`). In `Sched`, processors are numbered from 0, threads,
goroutines and processors are finitely many, m0 and the monitor are two threads, a program's limits on
threads and processors lie within the sets of them, and a goroutine has a menu and a number of operations
(`SchedConstants`). `Futex` needs none. In `NetFD`, goroutines are
finitely many and numbered, netFD 1 exists, nil is neither an index nor pdReady, the programs consist of calls
of the modelled functions, and the network sends a natural number of times (`NetConstants`). In `HttpTransport`,
requests and connections are numbered, nil is neither, and the set-ups say which answers have a body and which
end the connection, whether there is a time-out, and which requests are cancelled (`HttpConstants`). The other primitives:
nil and the busy mark are neither values nor types (`ValueConstants`); an arrival is that of a signal, and
finitely many channels are in use (`SigConstants`); a parallel for has at least one thread
(`ParConstants`, as parforsetup throws otherwise); a nil pointer is no item, and GOMAXPROCS has a limit
(`PoolConstants`).

| theorem | statement |
|---|---|
| `ChanProofs!TypeCorrect` | `Spec => []TypeOK`: ring indices and counts stay within the buffer |
| `ChanProofs!SelNotFreedEarlyAlways` | the M that unlocks for a parked select never touches a freed `sel` |
| `ChanProofs!IInvAlways` | the inductive invariant |
| `ChanProofs!NoThrowAlways` | none of the runtime's checks in chan.c and select.c fails |
| `ChanProofs!NoRendezvousIsMissed` | `NoMissedRendezvous`: no sender and receiver that could be paired wait on an unbuffered channel at once |
| `ChanProofs!QueuesStayInScope` | `QueuedInScope`: every SudoG in a queue, stale ones included, lies in the frame of an operation that has not returned |
| `ChanProofs!ChannelsRefine` | `Refines`: `Chan` implements `ChanAbs` |
| `SyncProofs!SemaIsSafe` | `SemaSafe`: no lost wakeup of a semaphore, and `nwait` counts right |
| `SyncProofs!OneWakeupAlways` | `OneWakeup`: mutexWoken stands for one goroutine under way |
| `LockProofs!LocksAreSafe` | in `Disciplined` programs, `LocksSafe`: Mutex and RWMutex exclude whom they should, and a writer waits for exactly the readers it found |
| `SchedProofs!SchedInvariant` | the inductive invariant `SchedIInv` of the scheduler |
| `SchedProofs!SpinningIsCounted` | `SpinCount`: `sched.nmspinning` is the number of threads that spin or are being started to |
| `SchedProofs!ProcessorsHaveOneUser` | `OneUser`: a processor that runs or is idle is in one place, every other in none |
| `SchedProofs!WorldIsStopped` | until the program ends, `WorldStopped`: while one thread collects or resizes, all processors are stopped and nobody else runs |
| `LibProofs!CancellationReachesAll` | `CancelledBelow`: what is registered with a context whose cancel has returned is cancelled |
| `LibProofs!CancelledAreForgotten` | `Forgotten`: a live parent keeps no child whose cancel has returned |
| `LibProofs!ContextIsSafe` | `ContextSafe`, both together |
| `LibProofs!NetInvariant` | `RawAlone => (NetSpec => []NetIInv)`: the inductive invariant of netFDs and the poller |
| `LibProofs!FdIsValid` | under `RawAlone`, `FdValid`: no socket or PollDesc is closed or reused under a call's feet |
| `LibProofs!PollIsSafe` | under `RawAlone`, `PollSafe`: no throw of the poller, and no edge is lost |
| `HttpProofs!TransportInvariant` | `HttpSpec => []TransportInv`: the inductive invariant of http.Transport |
| `HttpProofs!TransportIsSafe` | `TransportSafe`: own responses, one request per connection, one reader |
| `PrimProofs!LocksExclude` | `LockExcludes` |
| `PrimProofs!SleepersAreRemembered` | `LockRemembersSleepers` |
| `PrimProofs!NotesAreNotMissed` | `NoteNotMissed` |
| `PrimProofs!FutexIsSafe` | `FutexSafe`, the three together |
| `PrimProofs!SignalsAreSafe` | `SignalSafe`: the queue of signals, its three-state word, and os/signal's counts |
| `PrimProofs!ParForIsSafe` | `ParForSafe`: each iteration once, and all before a thread that waits leaves |
| `PrimProofs!PoolIsSafe` | `PoolSafe`: an item of a sync.Pool has one owner, and arrays are indexed within bounds |
| `PrimProofs!LoadsAreWhole` | `LoadsWhole`: a Load of atomic.Value is never torn |

### Channels

`TypeOK` alone is not inductive: that a select's case index is in range depends on the place in the
code (`OpShape`), and that depends on who holds which locks (`LockInv`). These three form `LockIInv`,
proved first; `SelNotFreedEarly` follows from it.

`NoThrow` needs to know why `ready` only meets parked goroutines. The argument of `IInv`:

1. `GenInv`: generations only grow and those of selects are even, so a SudoG of an earlier select is
   never live again and none is mistaken for `NOSELGEN`.
2. `WaitInv`, `PlainOnce`: a live SudoG's goroutine is parked in that queue's case, or is in pass 2
   holding that channel's lock. So whoever dequeues it under the lock meets a parked goroutine.
3. `HandInv`: once dequeued it is in one hand, and no live SudoG of it is left anywhere; this is the
   compare-and-swap of `selgen`. So nobody readies it twice.
4. `ParamInv`: a goroutine woken with `param == nil` on an unbuffered channel finds it closed, and a
   select told about a case finds it unbuffered, which are the two remaining throws.

The proof has a lemma per conjunct (`TypeStep`, `ShapeStep`, `LockStep`, `LiveStep`, `HandStep`,
`ParamStep`, `ThrowStep`), with lemmas on what a step does to the queues (`QueueStep`: it parks,
enqueues or only unlinks), to others (`Frame`, `StatusStep`) and to hands (`HandCases`).

`QueueInv`, for `NoMissedRendezvous` and `QueuedInScope`, adds what a select has learnt and has left behind:

- `PolledInv`: the cases a select has polled in pass 1 have no partner as long as it holds its locks
  (nobody else can enqueue there), so that pass 2 cannot put a sender beside a waiting receiver;
- `CaseOnce`, `EnqueuedOf`: `pollorder` is a permutation, hence each case is enqueued once, under its own
  queue;
- `GoneInv`, `DequeuingOf`: after a wake-up the SudoG of the case that was taken is already out of its
  queue, and the others are at most as many, queue by queue, as the cases that pass 3 has yet to dequeue.
  When pass 3 is through none is left, and the frame may go. This is where counting per queue is
  needed: a select may name a channel twice in one direction, and `dequeueg` takes the first match.

`RefInv`, for the refinement, adds `ProgressInv` (what is written down at each place of an operation),
`RingInv` (`sendx` is the slot behind the last element, so that the ring is the abstract FIFO), `SeenInv`
(cases polled are not ready while the locks are held, so that "all blocked" is true at the moment of the
abstract give-up) and `ClosingInv` (a sender that waits on a closed channel is behind the closer's
lock). `StepRefines` then takes every step to one of `ChanAbs` or a stutter:

| step of `Chan` | step of `ChanAbs` |
|---|---|
| call | the call |
| buffered send or receive, or the claim of a waiting partner | the communication (of both parties) |
| `closed = true` under the lock | close; those who wait on it learn of it as they are woken (closed) |
| default, or a non-blocking operation that finds nothing | give-up |
| locking, polling, enqueuing, parking, delivering `hand`, pass 3, unlocking | stutter |

The lemma about the queues that a communication rests on, `CommPartner`, says that the first live SudoG
of the opposite queue is a goroutine that waits, in the abstract state too, with a case for this channel.

### Semaphores and sync

`SemaNoLostWakeup` counts goroutines under way, `OneWakeup` wakeups: both are sums over goroutines and
neither is inductive. `SyncIInv` adds what makes every step change the sums on both sides alike:

- `PlaceInv` (`Wf`): at each place a goroutine's return stack and locals are those of a call that leads
  there. So a goroutine that returns from Semacquire into Lock is one that has been counted as a waiter
  (`awoke`), and a goroutine in Semrelease got there by Unlock, by a writer's unlock, or as the last reader;
- `OwnInv`: one goroutine at most is within the sections of WaitGroup and Once. This cannot be said of a
  Mutex the program uses itself, which another goroutine may unlock; WaitGroup and Once keep theirs private;
- `WgInv`: while the WaitGroup has no semaphore nobody sleeps on it;
- `RootsOf`: a SemaRoot's Lock is held by the goroutine that has announced itself and looks again, and
  its queue holds goroutines that are parked, each once. So `semrelease`, when it dequeues, wakes one that
  sleeps;
- `PairInv`: the same for `SyncSema`.

So far programs are arbitrary: they may unlock what they have not locked, and then nothing excludes
anybody. `LocksAreSafe` is about those that are `Disciplined`: the calls of each goroutine lock and unlock m,
and the RWMutex in each of its two ways, in turn, and Wait of the Cond is called with m locked. Two
things are allowed that a program would rather not do: to hold a lock when it ends, and to ask for a write
lock while it has a read lock (it then never gets it). Two things the package allows are outside: that one
goroutine unlocks for another (mutex.go:140), where `Exclusion`, which speaks of the goroutine that called Lock, has
no meaning; and that a goroutine has several read locks at once. All
programs of the run but `Misuse` are disciplined. `LockInv` has three parts:

- `CallInv` ties the program to the code: from its place, its stack and the address it sleeps on one sees in
  which call of its program a goroutine is. Hence a goroutine that is past a Lock and not in its Unlock
  (`Between`, which counts calls) is one that returned from the code of Lock;
- `HasInv`: whoever has a Mutex, `Has`, finds its locked bit set, and nobody else has it. `Has` reaches beyond
  what a program sees: from the compare-and-swap that sets the bit, through Cond's Wait up to the unlock and
  from the relock on, and for the Mutex inside RWMutex from the writer's Lock until it has let in the readers and
  is about to clear the bit. A waiter that is woken does not own the Mutex: it sets the bit itself;
- `RwInv`, the account of RWMutex. `ReadersCounted`: `readerCount` is the readers within and those that sleep,
  less `MaxReaders` while a writer has announced itself. `WriterAt`: what `readerWait` and the two semaphores hold,
  for each place of the writer. Between its announcement and its addition to `readerWait` departing readers may
  drive that below zero; from then on it is the number of readers that are still within, leaving, or have been
  let in by the writer before and have yet to take their unit of `readerSem`; when it reaches zero there is exactly one
  unit in, or on its way to, `writerSem`. A writer that lets readers in has as many releases left as there
  are sleepers without a unit. `NoWriter`: between writers nobody is owed anything.

That the readers let in by one writer may still be asleep when the next announces itself is the hard case:
they are part of `readerCount` and therefore of what the new writer waits for, and `ReadersCounted` with
`NoWriter` makes the two numbers agree.

### Scheduler

None of `SpinCount`, `OneUser` and `WorldStopped` is inductive, and they need each other: that a thread may
lower `nmspinning` depends on where it is, that a processor has one user on who is allowed to take it, which
in turn depends on whether the world is being stopped. `SchedInv` states their common strengthening
`SchedIInv`, which holds as long as `thrown = "none"`:

- `SchedTypes`, and `PlaceInv` (`Wf`): for each place of the code, the possible return addresses (`ReturnsOf`),
  what the locals hold (`LocalsOf`) and that no processor is in a thread's hands twice (`OnceInHands`).
  `Cont(r)` is the place where a thread will be back after startm, wakep, handoffp, newm or injectglist: the
  other parts are stated in terms of it, so that those subroutines preserve them by not moving it;
- `CreatedInv`: a thread on `sched.midle`, one a goroutine is locked to, or one that is about to be handed a
  processor has been created. So what newm creates (`Fresh`) is nobody's, and nothing anybody remembers of a
  thread changes;
- `RunInv`: a thread in `WithP` and its processor know each other; such a processor is `Prunning`, or
  `Pgcstop` when it belongs to the stopper. A thread in `Stale` remembers a processor that it does not have:
  this is what exitsyscall may take back with its compare-and-swap, and only with that;
- `IdleInv`: the `Pidle` processors are exactly those on `sched.pidle` and in hands (`nextp`, the one that
  startm or handoffp looks for a user for, those that starttheworld has yet to hand out), each once;
- `StopInv`: one stopper at a time, `stopwait` is the number of processors that do not yet stand, and
  `stopnote` is set only when it has reached 0. So once the stopper is past its wait, `StillRunning` is
  empty, with `IdleInv` nothing is idle, and with `RunInv` nobody else runs.

`SchedMoves` and `SchedProofs` have a lemma for each of the 82 actions. Most cite a lemma on the kind of
move: a thread moves and nobody notices (`QuietMove`), it changes how many spin (`SpinMove`), gains a processor
(`AcquireStep`), gives it up (`ReleaseStep`), passes it on (`PassStep`, `HandOver`), or a processor stops
(`StopStep`, `StopMove`). The eleven actions that may report a fault of the runtime (a thread's `nextp` in
use, a second `notewakeup`, too many threads) preserve the invariant when they do not: that the first two
never happen is `ChecksHold`, which TLC checks. TLC checked `SchedIInv` on the instances of `sched` and
`sched_ends` before it was proved.

### Contexts

`CancelledBelow` is not inductive: at the step at which a cancel returns, nothing says that the
contexts below are cancelled. `ContextInv` follows a context k that has registered with c through the
life of c (`PassedOn`): c live, then k is among its children or cancelled; c cancelling, then k is still
to be cancelled (`todo`) or is cancelled; c cancelled, then k is. `Forgotten` rests on `WillRemove`: a
child in a live parent's map whose cancel has begun will remove itself, for it was not the parent that
cancelled it. `OwnChildren`, `OnlyForeign` and `ErrTold` say what may be concluded from the maps, the
goroutines that watch foreign parents, and `err`.

### Network descriptors

`FdValid` says that a call finds its socket open and its PollDesc its own; `PollSafe` that fdMutex and the
poller never throw and that no edge is lost. Each needs an account of who may change what, `NetIInv`:

- `NetTypes` with `throw = "none"`, and `InCall`: what a goroutine is doing fits the call it has made, and
  the connection has been opened;
- `Counted`: `ref` of a fdMutex is the number of goroutines between its increment and its decrement. So it
  does not reach 0 while one of them is inside, and decref never panics. `Locked`: the bit of a mode is set
  while somebody reads or writes in that mode, and there is one such goroutine: this makes "two goroutines
  wait on one side of a PollDesc" impossible;
- `Life`, `Closing`, `Evicting`, `Destroying`: from Close to the closed socket. One Close gets past
  increfAndClose, evicts, and drops the reference it holds; whoever drops the last one destroys, alone, and
  by then the PollDesc has been evicted, so that `pollClose` does not throw;
- `Owned`, `Cached`: a PollDesc belongs to one netFD, or is in `pollcache` once. So that a later connection
  that takes one over takes nobody else's;
- `Waiting`: `rg` or `wg` holds a goroutine exactly if it is parked there, for the same mode. So what
  takes it out readies a goroutine that sleeps, and pollClose finds nobody;
- `TimersFit`: a timer that is set carries the present sequence number and stands for deadlines that are
  positive; one that has been taken off the heap is stale by its sequence number or is the one that is
  set. This is what `deadlineimpl` throws about, and it has to survive Close, reuse and changes of a deadline
  while the timer's function is under way;
- `EdgesKept`, `EventsFit`: who has seen EAGAIN, and is on the way to wait or waits, while the socket is
  ready, has an edge in epoll's list, an event in a thread's hand, or READY in its PollDesc. Events and
  deadlines that concern an earlier owner of the PollDesc can only add to this.

`RawAlone` is a hypothesis about the programs, not about the code: on a connection on which raw calls are
made nobody calls Close, and no Read goes along with a raw read nor a Write with a raw write. It is true of
the programs of `lib`, of which one makes raw calls of all three kinds. Without it the theorems are false:
raw calls are counted in another fdMutex, which is finding 5, and two goroutines that read, one of them raw,
meet on one side of the PollDesc and the runtime throws "double wait". The proof has a lemma per action and
part, and lemmas on the operations they share (`pollUnblock`, `evict`, `decref`, the setting of timers).

### http.Transport

None of the three parts of `TransportSafe` is inductive. A response goes to its own request because the
connection carries no other; that depends on who may write to it, which is decided by `putIdleConn`; and this is
called by readLoop, by the reader of a body at its end and by a dial nobody waits for any more, at moments
that only their agreement over `waitForBodyRead` keeps apart. `TransportInv`:

- `UserOK`: what a request holds at each place of roundTrip and of its body. The function that readLoop hung to
  the end of a body (`fn`) has not run while the body is open and neither ended nor failed;
- `OneClaim`: there is at most one *claim* to a connection. A claim is a place in the idle list, the dial
  that made it, a putIdleConn under way, a request whose response has not been read, or a request whose body
  is being read. An action that touches the idle list, a hand-over, or the end of a body moves the claim and
  makes none. A connection in the list twice (log.Fatalf) would be two claims;
- `Unclaimed`: a connection that has not been dialed has no claim and nothing on it, so that a dial makes the
  first;
- `WireOK`: on `writech`, the wire in both directions and in the server there is together at most one
  request, and one on `reqch`: the one with the claim. Hence the two sends of roundTrip, one after the other,
  cannot be matched wrongly by readLoop, and after a Peek without error there is its answer to read;
- `LoopOK`: while a body is read, or its end is about to be signalled, readLoop is in `body`, or about to be,
  with that request and no signal yet. Once it has been told that the connection is not to be used again
  it is `Doomed`: it looks at it no more, and puts it back nowhere.

`HttpProofs` first has the lemmas on what a step does to the records of a connection and of a request and to
its claims, then one per action. TLC checked `TransportInv` on the seven set-ups of `lib` before. That the
server answers in the order of the requests is an assumption about it, in `ServerAnswers`.

### Futex

`FutexInv` is the three properties with `FutexTypeOK`, `WaitOK`, `HeldIsLocked` (the word is not UNLOCKED
while a thread holds the Lock) and `WantedIsClear`. `WaitOK` is what a thread will set the word to when
it gets the Lock: one that has slept, or is about to, will write SLEEPING. A newcomer's exchange may turn
SLEEPING into LOCKED; it then knows what it found there, and with `WaitOK` every such step leaves a thread
behind that will wake a sleeper or turn the word back.

### Signals, parallel for, sync.Pool, atomic.Value

- `SigInv`: by `OneWaiter`, while the receiver sleeps exactly one of these says so: the word is HASWAITER, one
  handler has taken it from HASWAITER and is about to wake, or the Note is set; while it is awake none does.
  Hence no "inconsistent state" and no double wakeup. By `SignalIsTold`, when the receiver gets to the word
  with signals in the mask, the word is HASSIGNAL or a handler has yet to kick, so it does not go to
  sleep over them. `ChanSide`: the reference counts are cardinalities over the handlers, so the last
  Stop, and only the last, disables a signal.
- `ParInv`: `OneHand`, the sum of the runs of an iteration, the threads whose range has it and the thieves
  who hold it between the swap and their own store, is 1. At the start this is about the code's division:
  `SplitsEvenly` shows that the ranges `cnt * t / nthr` to `cnt * (t + 1) / nthr` are a partition.
  `ThreadOK` says where a thread's own range is empty, which a steal relies on; `done` counts the threads
  that are idle or have left, so that when it reaches `nthr` nobody holds anything.
- `PoolInv`: `Sizes`, the published size is at most the length of the array that was made last (`Longest`), which only
  grows, since pinSlow makes a new one when its P is beyond the old; so a goroutine that loads the size and
  then the array finds one at least that long (`RangeOK`), and `GOMAXPROCS` changes neither while somebody is
  pinned. `Pins`: a P has one pinned goroutine, hence the private item that a Get or Put has read is unchanged
  when it is overwritten (`ArgOK`). `InOnePlace` says of every item that it is with one goroutine, in the
  argument of one Put, or in one slot. While a Get is between the read and the write of `private` the item is
  still in the slot, which is why `PoolSafe` counts it as the goroutine's and not the pool's.
- `ValueInv`: the type word goes from nil through `Busy`, which one goroutine owns (`OneFirst`), to a type that
  stays; from then on the data word has that type (`WordsAgree`), also between the two loads of a Load.

### Only model-checked

- Liveness (`ComesToRest`, `Ends`, `AllArrive`, `AllEnds`, `AllEnd`): out of the prover's reach.
- `NoLostWakeup` and `NoEarlyWait` are no theorems: findings 1 and 3 are programs that violate them. TLC
  checks them for the programs that should satisfy them.
- `OnceDone`, and `LocksSafe` for programs that are not disciplined.
- The other properties of `Sched`: `ChecksHold`, `InPlace`, `StallFree`, `WorkConserving`. `ChecksHold` and
  `InPlace` need an account of every goroutine and of every note, beside the one of processors above.
- `FdValid` and `PollSafe` for programs that mix raw calls with others, where they do not hold (finding 5).
- The properties of `SyncMap`, `SqlPool`, `Sql` and of `LFStack` and `Timers`. Among them,
  `Timers` contains RECURSIVE operators (siftup, siftdown), which the prover cannot handle; `LFStack!Below`
  and `Sql!Sweep` are recursive functions, about which facts would need induction over data.

## Findings

1. `chan_stranded`: a send to a buffered channel wakes one waiter and hands it nothing
   (chan.c:236). If that waiter is a select that meanwhile takes an element of another channel
   (select.c:546), the next receiver is not woken and stays parked beside an element. The language
   says of a receive (`src/docs.ori/go_spec.html:3385`): "The expression blocks until a value is
   available."
2. `sched_busy`: sysmon sleeps when all Ps are idle; the thread that returns from the blocking
   `netpoll(true)` takes an idle P without waking it (proc_g.c:186-193), unlike the system call paths
   and starttheworld. A goroutine it runs is then never preempted although another is queued, against
   proc_sysmon_preempt.c:56 and :207.
3. `sync_wait`: Add brings the WaitGroup's counter to zero and locks `m` only later; it then releases
   whoever waits, those of a round that began meanwhile included (`../sync/waitgroup.go:66`). Wait
   returns with a counter that has not been zero since the call, against waitgroup.go:83 and the
   comment at :24-34.
4. `sql_commit`: Commit sets `done` and then returns the context's error (sql.go:1772-1775); the rollback
   of `awaitDone` finds `done` set. The transaction is neither committed nor rolled back, and its
   connection is lost to the pool, against sql.go:1393-1394.
5. `lib_raw`: raw calls count their references in the fdMutex of the back-ported FD, Close in that of
   netFD: the socket is closed, and its PollDesc reused, while the function of a raw call runs, against
   `src/src/pkg/syscall/net.go:14-15`.

Met while modelling, not stated as runs. Line numbers of `sql.go` are in
`src/compatible/src/database/sql`.

- exitsyscall0's debug print dereferences a nil `m->p` (proc_syscall.c:336).
- `deadlineimpl` compares a uint32 copy of a uintptr sequence number (netpoll.goc:326).
- timerproc uses the time it read before it ran a timer's function to compute how long to sleep: it
  may sleep that much too long.
- `runtime_procPin` of `sync/atomic` (sync_compatible.goc:23) is empty, unlike that of `sync`. Go 1.2
  preempts only at function prologues, and there is none between the two stores of a first
  `Value.Store`.
- `clearpools` is empty, so `poolCleanup` is never called and pools are never emptied.
- sql.go: the three panics of `Excused`, which run `sql` reaches (1524, 981, 767; see `OneOwner` above).
  Commit calls the driver without having waited for the readers of `closemu` (1781), which the model does
  too. `SetMaxIdleConns` closes, after unlocking, a part of a slice that others append to (728), and
  `Tx.StmtContext` prepares without the connection's lock (1905): these two are not in the model.
- transport.go: a readLoop whose response nobody takes any more stays for ever (827); CancelRequest of a
  request that is over may find the connection serving another (361).
- map_compatible.go:77 says of an entry whose pointer is nil that `m.dirty == nil`; an entry deleted
  while there is a dirty map has a nil pointer too.

## Not modelled

- collector's marking and sweeping, allocator, hash maps: raw memory; only the collector's use of the
  scheduler is modelled;
- panics, defer, stack growth, cgo: bound to stack frames and machine code;
- schedtrace, profiling, race detector: no influence on the modelled state;
- freezetheworld: best effort of a dying program;
- in `database/sql`: statements prepared on a Tx or Conn, column conversion (`convert.go`), and the
  driver; in `net/http`: proxies, TLS, more than one host, compressed bodies; in `net`: listening, name
  resolution, and the variants of read and write that follow the same protocol;
- compilers, linkers, build tools, the rest of the standard library.

The tree has some 226,000 lines of Go. Almost all of it is sequential: parsers and printers (`go/*`,
`encoding/*`, `html`, `text`), tables (`unicode`), cryptography, the go tool, yacc, and the HTTP/2 bundle
of 6,700 lines. Its correctness is a matter of inputs and outputs over large data, which tests reach and
a model checker does not; a model of it would be a transliteration. The models therefore cover a small
share of the Go lines, beside the runtime, which is in C and `.goc` files: what is covered is the part
in which goroutines, threads, timers and failures meet.

Hazards known and not in the list of `PROJECT.json`, as the properties there cover them with others or
the data is abstracted: the 2^17 push count of the lock-free stack wrapping, the ring and growth of local
run queues, the packing of ranges in parfor beyond 32 bits, the exit count `nmidlelocked` of a background
goroutine.

## Plan

1. Scheduler: `ChecksHold` (no fault is reported) and `InPlace`; a module for the ring of a local run queue.
2. Package sync: `MapSafe`, for any number of goroutines.
3. database/sql: `OneOwner` and `PoolCount` for any number of goroutines.
4. Statements prepared on a Tx or a Conn; HTTP/2's flow control, if it is to be kept.

Related questions share a run (a module that composes independent components), so that the whole check
stays within minutes.
