------------------------------ MODULE SqlPool ------------------------------
(***************************************************************************)
(* The connection pool of database/sql (compatible/src/database/sql/       *)
(* sql.go): DB.conn with its requests and their cancellation, putConn, the *)
(* goroutines connectionOpener and connectionCleaner, the closing of       *)
(* connections, DB.Close and the changes of the limits.                    *)
(*                                                                         *)
(* Processes are the goroutines of the program and those the package       *)
(* starts.  What is done under db.mu is one step, and so is a call of the  *)
(* driver, which may fail.  A process has a place (pc), the places it      *)
(* returns to (k) and local variables: the connection c, the error err it  *)
(* will return, putConn's argument perr, the strategy and the number of    *)
(* tries, and the connections it still has to close (todo).                *)
(***************************************************************************)
EXTENDS Integers, Sequences, FiniteSets, SequencesExt

CONSTANTS
    Users,              \* the goroutines of the program, numbered
    Conns,              \* bound: the driver connections opened, numbered
    Programs,           \* what may be run, see Init
    maxBadConnRetries,  \* the constant of sql.go
    Nil

User(u) == <<"user", u>>
RowsWait(u) == <<"rows", u>>
Opener == <<"opener", 0>>
Cleaner == <<"cleaner", 0>>
TxWait == <<"tx", 0>>
Procs == {User(u) : u \in Users} \cup {RowsWait(u) : u \in Users} \cup {Opener, Cleaner, TxWait}

ASSUME PoolConstants ==
    /\ Users \subseteq Nat /\ Conns \subseteq Nat /\ Nil \notin Conns
    /\ maxBadConnRetries \in Nat

VARIABLES
    pr,         \* the processes
    db,         \* the fields of DB under db.mu
    dc,         \* dc[c]: the driverConn with number c
    req,        \* req[p]: the connRequest channel of p
    ctx,        \* ctx[u]: the context of goroutine u is done
    faults,     \* bound: how many opens, and how many other calls of the driver, may fail
    panicked    \* why the program has panicked, or "no"

poolvars == <<db, dc, req, ctx, faults, panicked>>

NoConn == [made |-> FALSE, inUse |-> FALSE, closed |-> FALSE, finalClosed |-> FALSE,
           dep |-> FALSE, dbmuClosed |-> FALSE, old |-> FALSE, intx |-> FALSE,
           stmt |-> "none", openStmt |-> FALSE, onPut |-> FALSE]

NoRequest == [st |-> "none", c |-> Nil, err |-> "nil"]

At(p, l) == pr[p].pc = l
To(p, l) == [pr EXCEPT ![p].pc = l]

(* r calls the function at l and goes on at ret, or calls it as its last   *)
(* act; r returns what it has in c and err.                                *)
Call(r, l, ret) == [r EXCEPT !.pc = l, !.k = <<ret>> \o @]
Return(r) == [r EXCEPT !.pc = Head(r.k), !.k = Tail(@), !.perr = "nil"]
Fail(r, e) == Return([r EXCEPT !.c = Nil, !.err = e])

Panic(p, why) ==
    /\ panicked' = why
    /\ UNCHANGED <<pr, db, dc, req, ctx, faults>>

(* The results a call of the driver may have: it succeeds, or fails while  *)
(* there are faults left.                                                  *)
Results(errs) == {"nil"} \cup IF faults.call > 0 THEN errs ELSE {}
Spend(e) == faults' = IF e \in {"nil", "ctx"} THEN faults ELSE [faults EXCEPT !.call = @ - 1]

(***************************************************************************)
(* Under db.mu: d is the DB's state so far.                                *)
(***************************************************************************)
maxIdleConns(d) == CASE d.maxIdle = 0 -> 2 [] d.maxIdle < 0 -> 0 [] OTHER -> d.maxIdle

(* How many connections maybeOpenNewConnections asks the opener for.       *)
Wanted(d) ==
    IF d.maxOpen > 0 THEN Min({Cardinality(d.requests), d.maxOpen - d.numOpen})
                     ELSE Cardinality(d.requests)

(* Mutant: a freed place is not offered to those who wait.                 *)
maybeOpenNewConnections_Not(d) == d

(* On a closed DB it counts the first one and leaves.                      *)
maybeOpenNewConnections(d) ==
    IF Wanted(d) <= 0 THEN d
    ELSE IF d.closed THEN [d EXCEPT !.numOpen = @ + 1]
    ELSE [d EXCEPT !.numOpen = @ + Wanted(d), !.openerCh = @ + Wanted(d)]

startCleaner(d) ==
    IF d.lifetime > 0 /\ d.numOpen > 0 /\ d.cleanerCh = "nil"
    THEN [d EXCEPT !.cleanerCh = "empty"] ELSE d

(* putConnDBLocked(c, e): c is offered to a waiting request, any of them,  *)
(* or to the idle list.                                                    *)
Refused(d) == d.closed \/ (d.maxOpen > 0 /\ d.numOpen > d.maxOpen)

ToRequest(d) == ~Refused(d) /\ d.requests # {}

ToIdle(d, e) ==
    ~Refused(d) /\ d.requests = {} /\ e = "nil" /\ maxIdleConns(d) > Len(d.freeConn)

Idle(d, c) == startCleaner([d EXCEPT !.freeConn = Append(@, c)])

Answer(c, e) == [st |-> "sent", c |-> c, err |-> e]

(***************************************************************************)
(* DB.conn                                                                 *)
(***************************************************************************)
Expired(c, lifetime) == lifetime > 0 /\ dc[c].old

(* Take c; if it is too old close it and report ErrBadConn.                *)
Got(r, c, lifetime) ==
    IF Expired(c, lifetime) THEN [r EXCEPT !.pc = "dclose", !.c = c, !.err = "bad"]
                  ELSE Return([r EXCEPT !.c = c, !.err = "nil"])

AtLimit(d) == d.maxOpen > 0 /\ d.numOpen >= d.maxOpen

Cached(p) == pr[p].strat = "cached" /\ db.freeConn # << >>

(* ctx is the context of the goroutine.                                    *)
conn(p) ==
    /\ At(p, "conn")
    /\ CASE db.closed -> pr' = [pr EXCEPT ![p] = Fail(@, "closed")] /\ UNCHANGED <<db, dc, req>>
         [] ~db.closed /\ ctx[p[2]] ->
              pr' = [pr EXCEPT ![p] = Fail(@, "ctx")] /\ UNCHANGED <<db, dc, req>>
         [] ~db.closed /\ ~ctx[p[2]] /\ Cached(p) ->
              /\ db' = [db EXCEPT !.freeConn = Tail(@)]
              /\ dc' = [dc EXCEPT ![Head(db.freeConn)].inUse = TRUE]
              /\ pr' = [pr EXCEPT ![p] = Got(@, Head(db.freeConn), db.lifetime)]
              /\ UNCHANGED req
         [] ~db.closed /\ ~ctx[p[2]] /\ ~Cached(p) /\ AtLimit(db) ->
              /\ req' = [req EXCEPT ![p].st = "empty"]
              /\ db' = [db EXCEPT !.requests = @ \cup {p}]
              /\ pr' = [pr EXCEPT ![p].pc = "cwait", ![p].n = db.lifetime]
              /\ UNCHANGED dc
         [] OTHER ->
              /\ db' = [db EXCEPT !.numOpen = @ + 1]
              /\ pr' = To(p, "copen")
              /\ UNCHANGED <<dc, req>>
    /\ UNCHANGED <<ctx, faults, panicked>>

(* The request is answered, or the DB closed; the lifetime is the one read *)
(* at first.                                                               *)
connAnswered(p) ==
    /\ At(p, "cwait") /\ req[p].st \in {"sent", "closed"}
    /\ pr' = [pr EXCEPT ![p] = IF req[p].st = "closed" THEN Fail(@, "closed")
                               ELSE IF req[p].err = "nil" THEN Got(@, req[p].c, @.n)
                               ELSE Fail(@, req[p].err)]
    /\ req' = [req EXCEPT ![p] = NoRequest]
    /\ UNCHANGED <<db, dc, ctx, faults, panicked>>

(* The context is done first: take the request back.                       *)
connCancel(p) ==
    /\ At(p, "cwait") /\ ctx[p[2]]
    /\ db' = [db EXCEPT !.requests = @ \ {p}]
    /\ pr' = To(p, "ccheck")
    /\ UNCHANGED <<dc, req, ctx, faults, panicked>>

(* Mutant: what was sent meanwhile is dropped.                             *)
Late_Dropped(p) == Fail(pr[p], "ctx")

(* What was sent meanwhile is put back, be it a connection or an error.    *)
Late(p) ==
    IF req[p].st = "sent"
    THEN [pr[p] EXCEPT !.pc = "put", !.c = req[p].c, !.err = "ctx", !.perr = req[p].err]
    ELSE Fail(pr[p], "ctx")

connTakeBack(p) ==
    /\ At(p, "ccheck")
    /\ pr' = [pr EXCEPT ![p] = Late(p)]
    /\ req' = [req EXCEPT ![p] = NoRequest]
    /\ UNCHANGED <<db, dc, ctx, faults, panicked>>

Unmade == {c \in Conns : ~dc[c].made}

(* driver.Open, which fails too when all of Conns have been used.          *)
OpenResults == (IF Unmade = {} THEN {} ELSE {"nil"}) \cup
               IF faults.open > 0 \/ Unmade = {} THEN {"err"} ELSE {}
SpendOpen(e) ==
    faults' = IF e = "nil" \/ faults.open = 0 THEN faults ELSE [faults EXCEPT !.open = @ - 1]

connOpen(p) ==
    /\ At(p, "copen")
    /\ \E e \in OpenResults :
         /\ pr' = IF e = "nil" THEN [pr EXCEPT ![p].pc = "cnew", ![p].c = Min(Unmade)]
                               ELSE To(p, "cfail")
         /\ dc' = IF e = "nil" THEN [dc EXCEPT ![Min(Unmade)].made = TRUE] ELSE dc
         /\ SpendOpen(e)
    /\ UNCHANGED <<db, req, ctx, panicked>>

connNew(p) ==
    /\ At(p, "cnew")
    /\ dc' = [dc EXCEPT ![pr[p].c].inUse = TRUE, ![pr[p].c].dep = TRUE]
    /\ pr' = [pr EXCEPT ![p] = Return([@ EXCEPT !.err = "nil"])]
    /\ UNCHANGED <<db, req, ctx, faults, panicked>>

connFail(p) ==
    /\ At(p, "cfail")
    /\ db' = maybeOpenNewConnections([db EXCEPT !.numOpen = @ - 1])
    /\ pr' = [pr EXCEPT ![p] = Fail(@, "err")]
    /\ UNCHANGED <<dc, req, ctx, faults, panicked>>

(***************************************************************************)
(* putConn: the connection c comes back, perr is the error it gave.        *)
(***************************************************************************)
Dismiss(r) == [r EXCEPT !.pc = "dclose", !.perr = "nil"]
Done(r) == Return([r EXCEPT !.c = Nil])

(* What happens to dc under the lock: onPut closes the statement.          *)
PutBack(c) ==
    [dc EXCEPT ![c].inUse = FALSE, ![c].onPut = FALSE,
               ![c].stmt = IF dc[c].onPut /\ @ = "open" THEN "closed" ELSE @]

putConn(p) ==
    LET c == pr[p].c IN
    /\ At(p, "put")
    /\ CASE c = Nil -> Panic(p, "put of nil")
         [] c # Nil /\ ~dc[c].inUse -> Panic(p, "connection returned that was never out")
         [] OTHER ->
              /\ \/ /\ pr[p].perr = "bad"
                    /\ dc' = PutBack(c)
                    /\ db' = maybeOpenNewConnections(db)
                    /\ pr' = [pr EXCEPT ![p] = Dismiss(@)]
                    /\ UNCHANGED req
                 \/ /\ pr[p].perr # "bad" /\ ToRequest(db)
                    /\ \E q \in db.requests :
                         /\ req' = [req EXCEPT ![q] = Answer(c, "nil")]
                         /\ db' = [db EXCEPT !.requests = @ \ {q}]
                    /\ dc' = [PutBack(c) EXCEPT ![c].inUse = TRUE]
                    /\ pr' = [pr EXCEPT ![p] = Done(@)]
                 \/ /\ pr[p].perr # "bad" /\ ToIdle(db, "nil")
                    /\ dc' = PutBack(c)
                    /\ db' = Idle(db, c)
                    /\ pr' = [pr EXCEPT ![p] = Done(@)]
                    /\ UNCHANGED req
                 \/ /\ pr[p].perr # "bad" /\ ~ToRequest(db) /\ ~ToIdle(db, "nil")
                    /\ dc' = PutBack(c)
                    /\ pr' = [pr EXCEPT ![p] = Dismiss(@)]
                    /\ UNCHANGED <<db, req>>
              /\ UNCHANGED <<ctx, faults, panicked>>

(***************************************************************************)
(* driverConn.Close and finalClose                                         *)
(***************************************************************************)
dcClose(p) ==
    LET c == pr[p].c IN
    /\ At(p, "dclose")
    /\ IF dc[c].closed
       THEN pr' = [pr EXCEPT ![p] = Done(@)] /\ UNCHANGED dc
       ELSE pr' = To(p, "dremove") /\ dc' = [dc EXCEPT ![c].closed = TRUE]
    /\ UNCHANGED <<db, req, ctx, faults, panicked>>

(* removeDepLocked(dc, dc): it was the only one.                           *)
dcRemove(p) ==
    LET c == pr[p].c IN
    /\ At(p, "dremove")
    /\ IF dc[c].dep
       THEN /\ pr' = To(p, "final")
            /\ dc' = [dc EXCEPT ![c].dep = FALSE, ![c].dbmuClosed = TRUE]
            /\ UNCHANGED <<db, req, ctx, faults, panicked>>
       ELSE Panic(p, "unpaired removeDep")

(* Close the statements that are still open on it, and ci.                 *)
finalClose(p) ==
    LET c == pr[p].c IN
    /\ At(p, "final")
    /\ dc' = [dc EXCEPT ![c].finalClosed = TRUE, ![c].openStmt = FALSE, ![c].intx = FALSE,
                        ![c].stmt = IF dc[c].openStmt /\ @ = "open" THEN "closed" ELSE @]
    /\ pr' = To(p, "final2")
    /\ UNCHANGED <<db, req, ctx, faults, panicked>>

(* Mutant: the place of the connection is not given back.                  *)
finalCount_Kept(p) ==
    /\ At(p, "final2")
    /\ db' = maybeOpenNewConnections([db EXCEPT !.numClosed = @ + 1])
    /\ pr' = [pr EXCEPT ![p] = Done(@)]
    /\ UNCHANGED <<dc, req, ctx, faults, panicked>>

(* numClosed is counted with it, though not under db.mu.                   *)
finalCount(p) ==
    /\ At(p, "final2")
    /\ db' = maybeOpenNewConnections([db EXCEPT !.numOpen = @ - 1, !.numClosed = @ + 1])
    /\ pr' = [pr EXCEPT ![p] = Done(@)]
    /\ UNCHANGED <<dc, req, ctx, faults, panicked>>

(* for _, c := range closing { c.Close() }                                 *)
CloseEach(p) ==
    LET r == pr[p] IN
    /\ r.pc \in {"closing", "finals"}
    /\ pr' = [pr EXCEPT ![p] =
                IF r.todo = << >> THEN Return(r)
                ELSE Call([r EXCEPT !.c = Head(r.todo), !.todo = Tail(r.todo)],
                          IF r.pc = "closing" THEN "dclose" ELSE "final", r.pc)]
    /\ UNCHANGED poolvars

(***************************************************************************)
(* DB.Close and the limits.                                                *)
(***************************************************************************)
(* closeDBLocked of each idle connection, unless it is closed already; the *)
(* finalClose of these follows without db.mu.                              *)
DBClose(p) ==
    /\ At(p, "dbclose")
    /\ IF db.closed
       THEN pr' = [pr EXCEPT ![p] = Return(@)] /\ UNCHANGED <<db, dc, req>>
       ELSE /\ pr' = [pr EXCEPT ![p].pc = "finals",
                                ![p].todo = SelectSeq(db.freeConn, LAMBDA c : ~dc[c].closed)]
            /\ dc' = [c \in Conns |-> IF Contains(db.freeConn, c) /\ ~dc[c].closed
                                      THEN [dc[c] EXCEPT !.closed = TRUE, !.dep = FALSE] ELSE dc[c]]
            /\ db' = [db EXCEPT !.freeConn = << >>, !.closed = TRUE,
                                !.cleanerCh = IF @ = "nil" THEN @ ELSE "closed"]
            /\ req' = [q \in Procs |-> IF q \in db.requests THEN [req[q] EXCEPT !.st = "closed"]
                                       ELSE req[q]]
    /\ UNCHANGED <<ctx, faults, panicked>>

(* SetMaxIdleConns(n) on d; SetMaxOpenConns lowers the idle limit with it. *)
IdleLimit(d, n) ==
    LET m == IF n > 0 THEN n ELSE -1
        e == [d EXCEPT !.maxIdle = m]
    IN  IF d.maxOpen > 0 /\ maxIdleConns(e) > d.maxOpen THEN [d EXCEPT !.maxIdle = d.maxOpen] ELSE e

SetMaxIdleConns(p) ==
    LET d == IdleLimit(db, pr[p].n)
        keep == Min({maxIdleConns(d), Len(db.freeConn)})
    IN  /\ At(p, "maxidle")
        /\ db' = [d EXCEPT !.freeConn = SubSeq(@, 1, keep)]
        /\ pr' = [pr EXCEPT ![p].pc = "closing",
                            ![p].todo = SubSeq(db.freeConn, keep + 1, Len(db.freeConn))]
        /\ UNCHANGED <<dc, req, ctx, faults, panicked>>

SetMaxOpenConns(p) ==
    LET d == [db EXCEPT !.maxOpen = Max({pr[p].n, 0})] IN
    /\ At(p, "maxopen")
    /\ db' = d
    /\ pr' = [pr EXCEPT ![p] = IF d.maxOpen > 0 /\ maxIdleConns(d) > d.maxOpen
                               THEN [@ EXCEPT !.pc = "maxidle"] ELSE Return(@)]
    /\ UNCHANGED <<dc, req, ctx, faults, panicked>>

(* SetConnMaxLifetime(n): a shorter lifetime wakes the cleaner, unless it  *)
(* has been told already.                                                  *)
SetConnMaxLifetime(p) ==
    LET shorter == 0 < pr[p].n /\ pr[p].n < db.lifetime /\ db.cleanerCh # "nil" IN
    /\ At(p, "lifetime")
    /\ IF shorter /\ db.cleanerCh = "closed"
       THEN Panic(p, "send on closed channel")
       ELSE /\ db' = startCleaner([db EXCEPT !.lifetime = pr[p].n,
                                             !.cleanerCh = IF shorter THEN "told" ELSE @])
            /\ pr' = [pr EXCEPT ![p] = Return(@)]
            /\ UNCHANGED <<dc, req, ctx, faults, panicked>>

(***************************************************************************)
(* connectionCleaner: wakes up by its timer or by cleanerCh, and closes    *)
(* what is idle and too old.  The last of the list takes the place of one  *)
(* that leaves it.                                                         *)
(***************************************************************************)
Sweep ==
    FoldLeft(LAMBDA s, x :
               IF dc[s.free[s.i]].old
               THEN [free |-> SubSeq([s.free EXCEPT ![s.i] = Last(s.free)], 1, Len(s.free) - 1),
                     closing |-> Append(s.closing, s.free[s.i]), i |-> s.i]
               ELSE [s EXCEPT !.i = @ + 1],
             [free |-> db.freeConn, closing |-> << >>, i |-> 1], db.freeConn)

ConnectionCleaner ==
    LET p == Cleaner IN
    /\ At(p, "cleaner") /\ db.cleanerCh # "nil"
    /\ IF db.closed \/ db.numOpen = 0 \/ db.lifetime = 0
       THEN db' = [db EXCEPT !.cleanerCh = "nil"] /\ UNCHANGED pr
       ELSE /\ db.cleanerCh = "told" \/ Sweep.closing # << >>
            /\ db' = [db EXCEPT !.freeConn = Sweep.free, !.cleanerCh = "empty"]
            /\ pr' = [pr EXCEPT ![p] = [Call(@, "closing", "cleaner") EXCEPT !.todo = Sweep.closing]]
    /\ UNCHANGED <<dc, req, ctx, faults, panicked>>

(* A connection grows older than the lifetime.                             *)
Age(c) ==
    /\ db.lifetime > 0 /\ dc[c].made /\ ~dc[c].finalClosed /\ ~dc[c].old
    /\ dc' = [dc EXCEPT ![c].old = TRUE]
    /\ UNCHANGED <<pr, db, req, ctx, faults, panicked>>

(***************************************************************************)
(* connectionOpener and openNewConnection.  A closed openerCh still gives  *)
(* what was sent before.                                                   *)
(***************************************************************************)
OpenerOpen ==
    LET p == Opener IN
    /\ At(p, "opener") /\ db.openerCh > 0
    /\ db' = [db EXCEPT !.openerCh = @ - 1]
    /\ \E e \in OpenResults :
         /\ pr' = IF e = "nil" THEN [pr EXCEPT ![p].pc = "opened", ![p].c = Min(Unmade)]
                               ELSE [pr EXCEPT ![p].pc = "opened", ![p].err = e]
         /\ dc' = IF e = "nil" THEN [dc EXCEPT ![Min(Unmade)].made = TRUE] ELSE dc
         /\ SpendOpen(e)
    /\ UNCHANGED <<req, ctx, panicked>>

(* ci.Close of a connection that never got into the pool.                  *)
Discard(c) == [dc EXCEPT ![c].closed = TRUE, ![c].finalClosed = TRUE]

OpenedClosed(p) ==
    /\ db.closed
    /\ db' = [db EXCEPT !.numOpen = @ - 1]
    /\ dc' = IF pr[p].c = Nil THEN dc ELSE Discard(pr[p].c)
    /\ UNCHANGED req

(* The error goes to a request, if there is one.                           *)
OpenedFailed(p) ==
    LET d == [db EXCEPT !.numOpen = @ - 1] IN
    /\ ~db.closed /\ pr[p].err # "nil"
    /\ IF ToRequest(d)
       THEN \E q \in d.requests :
              /\ req' = [req EXCEPT ![q] = Answer(Nil, pr[p].err)]
              /\ db' = maybeOpenNewConnections([d EXCEPT !.requests = @ \ {q}])
       ELSE db' = maybeOpenNewConnections(d) /\ UNCHANGED req
    /\ UNCHANGED dc

OpenedAdd(p) ==
    LET c == pr[p].c IN
    /\ ~db.closed /\ pr[p].err = "nil"
    /\ \/ /\ ToRequest(db)
          /\ \E q \in db.requests :
               /\ req' = [req EXCEPT ![q] = Answer(c, "nil")]
               /\ db' = [db EXCEPT !.requests = @ \ {q}]
          /\ dc' = [dc EXCEPT ![c].inUse = TRUE, ![c].dep = TRUE]
       \/ /\ ToIdle(db, "nil")
          /\ db' = Idle(db, c)
          /\ dc' = [dc EXCEPT ![c].dep = TRUE]
          /\ UNCHANGED req
       \/ /\ ~ToRequest(db) /\ ~ToIdle(db, "nil")
          /\ db' = [db EXCEPT !.numOpen = @ - 1]
          /\ dc' = Discard(c)
          /\ UNCHANGED req

OpenerDone ==
    /\ At(Opener, "opened")
    /\ OpenedClosed(Opener) \/ OpenedFailed(Opener) \/ OpenedAdd(Opener)
    /\ pr' = [pr EXCEPT ![Opener] = [@ EXCEPT !.pc = "opener", !.c = Nil, !.err = "nil"]]
    /\ UNCHANGED <<ctx, faults, panicked>>

PoolStep(p) ==
    \/ conn(p) \/ connAnswered(p) \/ connCancel(p) \/ connTakeBack(p)
    \/ connOpen(p) \/ connNew(p) \/ connFail(p)
    \/ putConn(p) \/ dcClose(p) \/ dcRemove(p) \/ finalClose(p) \/ finalCount(p)
    \/ CloseEach(p) \/ DBClose(p)
    \/ SetMaxIdleConns(p) \/ SetMaxOpenConns(p) \/ SetConnMaxLifetime(p)
=============================================================================
