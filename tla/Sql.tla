-------------------------------- MODULE Sql --------------------------------
(***************************************************************************)
(* database/sql on top of the pool: the operations of DB, Tx, Conn, Stmt   *)
(* and Rows, the goroutines awaitDone that close a transaction or a result *)
(* when its context is done, and the retries after driver.ErrBadConn.      *)
(*                                                                         *)
(* The goroutines of a program share one transaction, one Conn and one     *)
(* Stmt and have a Rows of their own.  An operation has an op, what it     *)
(* does at the driver, and an rel, where it takes its connection from and  *)
(* gives it back to: the pool ("put"), the transaction or the Conn.        *)
(*                                                                         *)
(* A closemu is held for reading by operations and by open Rows, and       *)
(* exclusively by what closes its object; a waiting writer holds up new    *)
(* readers.                                                                *)
(***************************************************************************)
EXTENDS SqlPool

VARIABLES
    prog,       \* the program that is run
    tx,         \* the transaction
    cn,         \* the Conn
    st,         \* the Stmt
    rows,       \* rows[u]: the Rows of goroutine u
    closemu     \* closemu[x], x in Tx, Conn, Stmt: who reads, who closes or wants to

objvars == <<tx, cn, st, rows, closemu>>
vars == <<pr, poolvars, prog, objvars>>

Proc(pc) == [pc |-> pc, k |-> << >>, c |-> Nil, err |-> "nil", perr |-> "nil", strat |-> "cached",
             try |-> 0, todo |-> << >>, n |-> 0, op |-> "none", rel |-> "none", ip |-> 1]

Init ==
    /\ prog \in Programs
    /\ pr = [p \in Procs |-> CASE p[1] = "user" -> Proc("next")
                               [] p = Opener -> Proc("opener")
                               [] p = Cleaner -> Proc("cleaner")
                               [] OTHER -> Proc("gone")]
    /\ db = [closed |-> FALSE, freeConn |-> << >>, requests |-> {}, numOpen |-> 0, openerCh |-> 0,
             maxIdle |-> prog.maxIdle, maxOpen |-> prog.maxOpen, lifetime |-> 0,
             cleanerCh |-> "nil", numClosed |-> 0]
    /\ dc = [c \in Conns |-> NoConn]
    /\ req = [p \in Procs |-> NoRequest]
    /\ ctx = [u \in Users |-> FALSE]
    /\ faults = prog.faults /\ panicked = "no"
    /\ tx = [st |-> "none", c |-> Nil, rel |-> "none", done |-> FALSE, cancelled |-> FALSE, u |-> 0]
    /\ cn = [st |-> "none", c |-> Nil, done |-> FALSE]
    /\ st = [st |-> "none", css |-> {}, deps |-> {}, lastNumClosed |-> 0]
    /\ rows = [u \in Users |-> [st |-> "none", c |-> Nil, rel |-> "none", cancelled |-> FALSE,
                                lock |-> {}, dep |-> FALSE]]
    /\ closemu = [x \in {"Tx", "Conn", "Stmt"} |-> [readers |-> {}, writer |-> {}]]

(* The Stmt as one of its own dependencies.                                *)
StmtItself == <<"stmt", 0>>

TxDone == tx.cancelled \/ (tx.st # "none" /\ ctx[tx.u])

(***************************************************************************)
(* closemu                                                                 *)
(***************************************************************************)
MayRead(x) == closemu[x].writer = {}
Reading(x, o) == [closemu EXCEPT ![x].readers = @ \cup {o}]
RUnlocked(x, o) == [closemu EXCEPT ![x].readers = @ \ {o}]
WLocked(x, p) == [closemu EXCEPT ![x].writer = {p}]
WUnlocked(x) == [closemu EXCEPT ![x].writer = {}]

(* Ask for x's closemu exclusively, go on at l once the readers have left. *)
Ask(p, from, x, l) ==
    /\ At(p, from) /\ closemu[x].writer = {}
    /\ closemu' = WLocked(x, p)
    /\ pr' = To(p, l)
    /\ UNCHANGED <<poolvars, prog, tx, cn, st, rows>>

Exclusive(p, l, x) == At(p, l) /\ closemu[x].readers = {}

(***************************************************************************)
(* Giving a connection back with error e: r owned it through rel, and      *)
(* holds a closemu for reading as o; then it goes on at ret.               *)
(***************************************************************************)
Released(r, rel, e, ret) ==
    CASE rel = "put" -> Call([r EXCEPT !.err = e, !.perr = e], "put", ret)
      [] rel = "conn" /\ e = "bad" -> Call([r EXCEPT !.c = Nil, !.err = e, !.perr = e], "cnclose", ret)
      [] OTHER -> [r EXCEPT !.c = Nil, !.err = e, !.pc = ret]

ReleasedMu(rel, o) ==
    CASE rel = "tx" -> RUnlocked("Tx", o) [] rel = "conn" -> RUnlocked("Conn", o) [] OTHER -> closemu

(***************************************************************************)
(* The driver's part of an operation: exec, query, begin, prepare, or the  *)
(* making of a Conn, which asks nothing of it.  The driver is one without  *)
(* contexts of its own: the package looks at ctx, after the calls of begin *)
(* and prepare and before the others.                                      *)
(***************************************************************************)
(* The driver is called; if it succeeds and the context is done, what it   *)
(* did is taken back: rolled back, or the new statement closed.            *)
CallThenLook(p) ==
    LET all == Results({"bad", "err"}) IN
    IF ctx[p[2]] THEN (all \ {"nil"}) \cup {"ctx"} ELSE all

DriverResults(p) ==
    CASE pr[p].op = "conn" -> {"nil"}
      [] pr[p].op \in {"begin", "prepare"} -> CallThenLook(p)
      [] pr[p].op \in {"exec", "query"} ->
           IF ctx[p[2]] THEN {"ctx"} ELSE Results({"bad", "err"})

AfterRelease(r) == IF r.rel = "put" THEN "retry" ELSE "next"

(* Mutant: a transaction that began too late is not rolled back.           *)
BegunTooLate_Kept(c) == [dc EXCEPT ![c].intx = TRUE]

(* ctxDriverBegin: the driver has begun, the context is done: roll back.   *)
BegunTooLate(c) == dc

DriveFails(p, e) ==
    LET r == pr[p] IN
    /\ pr' = [pr EXCEPT ![p] = Released(r, r.rel, e, AfterRelease(r))]
    /\ closemu' = ReleasedMu(r.rel, p)
    /\ dc' = IF r.op = "begin" /\ e = "ctx" THEN BegunTooLate(r.c) ELSE dc
    /\ UNCHANGED <<tx, cn, st, rows>>

DriveExec(p) ==
    LET r == pr[p] IN
    /\ r.op = "exec"
    /\ pr' = [pr EXCEPT ![p] = Released(r, r.rel, "nil", AfterRelease(r))]
    /\ closemu' = ReleasedMu(r.rel, p)
    /\ UNCHANGED <<dc, tx, cn, st, rows>>

(* The Rows keeps the connection, and the closemu, and awaitDone starts.   *)
DriveQuery(p) ==
    LET r == pr[p]  u == p[2]
        fromStmt == p \in closemu["Stmt"].readers
        mu == IF r.rel = "put" THEN closemu
              ELSE LET x == IF r.rel = "tx" THEN "Tx" ELSE "Conn" IN
                   [closemu EXCEPT ![x].readers = (@ \ {p}) \cup {RowsWait(u)}]
    IN  /\ r.op = "query"
        /\ rows' = [rows EXCEPT ![u] = [st |-> "open", c |-> r.c, rel |-> r.rel, cancelled |-> FALSE,
                                        lock |-> {}, dep |-> fromStmt]]
        /\ st' = IF fromStmt THEN [st EXCEPT !.deps = @ \cup {RowsWait(u)}] ELSE st
        /\ pr' = [pr EXCEPT ![p].c = Nil, ![p].pc = AfterRelease(r), ![RowsWait(u)] = Proc("rawait")]
        /\ closemu' = mu
        /\ UNCHANGED <<dc, tx, cn>>

(* On a Conn the transaction holds its closemu until it ends.              *)
DriveBegin(p) ==
    LET r == pr[p] IN
    /\ r.op = "begin"
    /\ tx' = [st |-> "open", c |-> r.c, rel |-> r.rel, done |-> FALSE, cancelled |-> FALSE, u |-> p[2]]
    /\ dc' = [dc EXCEPT ![r.c].intx = TRUE]
    /\ pr' = [pr EXCEPT ![p].c = Nil, ![p].pc = "next", ![TxWait] = Proc("twait")]
    /\ closemu' = IF r.rel = "conn"
                  THEN [closemu EXCEPT !["Conn"].readers = (@ \ {p}) \cup {TxWait}] ELSE closemu
    /\ UNCHANGED <<cn, st, rows>>

(* prepareDC: the Stmt exists before the connection goes back.             *)
DrivePrepare(p) ==
    LET r == pr[p] IN
    /\ r.op = "prepare"
    /\ dc' = [dc EXCEPT ![r.c].stmt = "open", ![r.c].openStmt = TRUE]
    /\ st' = [st |-> "open", css |-> {r.c}, deps |-> {StmtItself}, lastNumClosed |-> db.numClosed]
    /\ pr' = [pr EXCEPT ![p] = Released(r, "put", "nil", "next")]
    /\ UNCHANGED <<tx, cn, rows, closemu>>

DriveConn(p) ==
    /\ pr[p].op = "conn"
    /\ cn' = [st |-> "open", c |-> pr[p].c, done |-> FALSE]
    /\ pr' = [pr EXCEPT ![p].c = Nil, ![p].pc = "next"]
    /\ UNCHANGED <<dc, tx, st, rows, closemu>>

Drive(p) ==
    /\ At(p, "drive")
    /\ IF pr[p].err # "nil"
       THEN pr' = To(p, "retry") /\ UNCHANGED <<dc, faults, objvars>>
       ELSE \E e \in DriverResults(p) :
              /\ Spend(e)
              /\ IF e # "nil" THEN DriveFails(p, e)
                 ELSE DriveExec(p) \/ DriveQuery(p) \/ DriveBegin(p) \/ DrivePrepare(p) \/ DriveConn(p)
    /\ UNCHANGED <<db, req, ctx, panicked, prog>>

(* The next try; the last one, except of Conn, is with a new connection.   *)
Again(r) == [r EXCEPT !.try = @ + 1, !.err = "nil",
                      !.strat = IF r.try + 1 = maxBadConnRetries /\ r.op # "conn" THEN "new" ELSE @]

(* After ErrBadConn try again, maxBadConnRetries times.                    *)
Retry(p) ==
    LET r == pr[p]
        again == r.err = "bad" /\ r.try < maxBadConnRetries
        fromStmt == p \in closemu["Stmt"].readers
    IN  /\ At(p, "retry")
        /\ pr' = [pr EXCEPT ![p] =
                    CASE again /\ fromStmt -> [Again(r) EXCEPT !.pc = "sconn"]
                      [] again /\ ~fromStmt -> Call(Again(r), "conn", "drive")
                      [] OTHER -> [r EXCEPT !.pc = "next"]]
        /\ closemu' = IF fromStmt /\ ~again THEN RUnlocked("Stmt", p) ELSE closemu
        /\ UNCHANGED <<poolvars, prog, tx, cn, st, rows>>

(***************************************************************************)
(* Tx                                                                      *)
(***************************************************************************)
TxGrabConn(p) ==
    /\ At(p, "tgrab")
    /\ IF ctx[p[2]] THEN pr' = To(p, "next") /\ UNCHANGED closemu
       ELSE /\ MayRead("Tx")
            /\ IF tx.done THEN pr' = To(p, "next") /\ UNCHANGED closemu
               ELSE /\ pr' = [pr EXCEPT ![p].pc = "drive", ![p].c = tx.c, ![p].err = "nil"]
                    /\ closemu' = Reading("Tx", p)
    /\ UNCHANGED <<poolvars, prog, tx, cn, st, rows>>

TxAwaitDone ==
    /\ At(TxWait, "twait") /\ TxDone
    /\ pr' = [pr EXCEPT ![TxWait] = Call([@ EXCEPT !.rel = "discard"], "rollback", "gone")]
    /\ UNCHANGED <<poolvars, prog, objvars>>

(* done goes from 0 to 1 exactly once.                                     *)
TxEnd(p) ==
    /\ pr[p].pc \in {"commit", "rollback"}
    /\ IF tx.done THEN pr' = [pr EXCEPT ![p] = Return(@)] /\ UNCHANGED tx
       ELSE /\ tx' = [tx EXCEPT !.done = TRUE]
            /\ pr' = To(p, IF At(p, "commit") THEN "commit2" ELSE "txend")
    /\ UNCHANGED <<poolvars, prog, cn, st, rows, closemu>>

(* Commit does nothing more if the context is done.                        *)
CommitCheck(p) ==
    /\ At(p, "commit2")
    /\ pr' = IF TxDone THEN [pr EXCEPT ![p] = Return(@)] ELSE To(p, "txend")
    /\ UNCHANGED <<poolvars, prog, objvars>>

(* The driver commits or rolls back; awaitDone discards the connection.    *)
TxDriver(p) ==
    /\ At(p, "txend")
    /\ \E e \in Results({"bad", "err"}) :
         /\ pr' = [pr EXCEPT ![p].pc = "tcancel",
                             ![p].perr = IF pr[p].rel = "discard" THEN "bad" ELSE e]
         /\ Spend(e)
    /\ dc' = [dc EXCEPT ![tx.c].intx = FALSE]
    /\ UNCHANGED <<db, req, ctx, panicked, prog, objvars>>

TxCancel(p) ==
    /\ At(p, "tcancel")
    /\ tx' = [tx EXCEPT !.cancelled = TRUE]
    /\ pr' = To(p, "tlock")
    /\ UNCHANGED <<poolvars, prog, cn, st, rows, closemu>>

TxRelease(p) ==
    LET e == pr[p].perr IN
    /\ Exclusive(p, "trelease", "Tx")
    /\ tx' = [tx EXCEPT !.st = "releasing"]
    /\ pr' = [pr EXCEPT ![p] = Released([@ EXCEPT !.c = tx.c], tx.rel, e, "tunlock")]
    /\ closemu' = ReleasedMu(tx.rel, TxWait)
    /\ UNCHANGED <<poolvars, prog, cn, st, rows>>

TxUnlock(p) ==
    /\ At(p, "tunlock")
    /\ tx' = [tx EXCEPT !.c = Nil, !.st = "released"]
    /\ closemu' = WUnlocked("Tx")
    /\ pr' = [pr EXCEPT ![p] = Return(@)]
    /\ UNCHANGED <<poolvars, prog, cn, st, rows>>

TxStep(p) ==
    \/ TxGrabConn(p) \/ TxEnd(p) \/ CommitCheck(p) \/ TxDriver(p) \/ TxCancel(p)
    \/ Ask(p, "tlock", "Tx", "trelease") \/ TxRelease(p) \/ TxUnlock(p)

(***************************************************************************)
(* Conn                                                                    *)
(***************************************************************************)
ConnGrab(p) ==
    /\ At(p, "cgrab")
    /\ pr' = To(p, IF cn.done THEN "next" ELSE "crlock")
    /\ UNCHANGED <<poolvars, prog, objvars>>

(* done was looked at before closemu was taken: c.dc may be nil by now.    *)
ConnRLock(p) ==
    /\ At(p, "crlock") /\ MayRead("Conn")
    /\ IF cn.c = Nil
       THEN Panic(p, "nil Conn") /\ UNCHANGED closemu
       ELSE /\ pr' = [pr EXCEPT ![p].pc = "drive", ![p].c = cn.c, ![p].err = "nil"]
            /\ closemu' = Reading("Conn", p)
            /\ UNCHANGED poolvars
    /\ UNCHANGED <<prog, tx, cn, st, rows>>

ConnClose(p) ==
    /\ At(p, "cnclose")
    /\ IF cn.done THEN pr' = [pr EXCEPT ![p] = Return(@)] /\ UNCHANGED cn
       ELSE pr' = To(p, "cnlock") /\ cn' = [cn EXCEPT !.done = TRUE]
    /\ UNCHANGED <<poolvars, prog, tx, st, rows, closemu>>

ConnRelease(p) ==
    /\ Exclusive(p, "cnrelease", "Conn")
    /\ cn' = [cn EXCEPT !.st = "releasing"]
    /\ pr' = [pr EXCEPT ![p] = Released([@ EXCEPT !.c = cn.c], "put", pr[p].perr, "cnunlock")]
    /\ UNCHANGED <<poolvars, prog, tx, st, rows, closemu>>

ConnUnlock(p) ==
    /\ At(p, "cnunlock")
    /\ cn' = [cn EXCEPT !.c = Nil, !.st = "released"]
    /\ closemu' = WUnlocked("Conn")
    /\ pr' = [pr EXCEPT ![p] = Return(@)]
    /\ UNCHANGED <<poolvars, prog, tx, st, rows>>

ConnStep(p) ==
    \/ ConnGrab(p) \/ ConnRLock(p) \/ ConnClose(p)
    \/ Ask(p, "cnlock", "Conn", "cnrelease") \/ ConnRelease(p) \/ ConnUnlock(p)

(***************************************************************************)
(* Stmt, prepared on the DB: it has a driver statement on every connection *)
(* it was used on.                                                         *)
(***************************************************************************)
StmtRLock(p) ==
    /\ At(p, "sgrab") /\ MayRead("Stmt")
    /\ closemu' = Reading("Stmt", p)
    /\ pr' = To(p, "sconn")
    /\ UNCHANGED <<poolvars, prog, tx, cn, st, rows>>

(* removeClosedStmtLocked, once enough connections have been closed.       *)
Pruned ==
    IF db.numClosed - st.lastNumClosed < Min({Cardinality(st.css) \div 2 + 1, 10}) THEN st
    ELSE [st EXCEPT !.css = {c \in @ : ~dc[c].dbmuClosed}, !.lastNumClosed = db.numClosed]

StmtConn(p) ==
    /\ At(p, "sconn")
    /\ IF st.st = "closed"
       THEN /\ pr' = To(p, "next") /\ closemu' = RUnlocked("Stmt", p) /\ UNCHANGED st
       ELSE /\ st' = Pruned
            /\ pr' = [pr EXCEPT ![p] = Call(@, "conn", "sprep")]
            /\ UNCHANGED closemu
    /\ UNCHANGED <<poolvars, prog, tx, cn, rows>>

(* Prepare the statement on a connection that does not have it yet.        *)
StmtPrepare(p) ==
    LET r == pr[p] IN
    /\ At(p, "sprep")
    /\ IF r.err # "nil" \/ r.c \in st.css
       THEN /\ pr' = To(p, IF r.err # "nil" THEN "retry" ELSE "drive")
            /\ UNCHANGED <<dc, st, faults>>
       ELSE \E e \in CallThenLook(p) :
              /\ Spend(e)
              /\ IF e = "nil"
                 THEN /\ st' = [st EXCEPT !.css = @ \cup {r.c}]
                      /\ dc' = [dc EXCEPT ![r.c].stmt = "open", ![r.c].openStmt = TRUE]
                      /\ pr' = To(p, "drive")
                 ELSE /\ pr' = [pr EXCEPT ![p] = Released(r, "put", e, "retry")]
                      /\ UNCHANGED <<dc, st>>
    /\ UNCHANGED <<db, req, ctx, panicked, prog, tx, cn, rows, closemu>>

StmtClose(p) ==
    /\ Exclusive(p, "sclose2", "Stmt")
    /\ IF st.st = "closed"
       THEN pr' = To(p, "sunlock") /\ UNCHANGED st
       ELSE pr' = [pr EXCEPT ![p] = Call(@, "sremove", "sunlock")] /\ st' = [st EXCEPT !.st = "closed"]
    /\ UNCHANGED <<poolvars, prog, tx, cn, rows, closemu>>

(* removeDep: the last of the Stmt itself and its Rows runs finalClose.    *)
StmtRemoveDep(p) ==
    LET x == IF p \in closemu["Stmt"].writer THEN StmtItself ELSE RowsWait(p[2]) IN
    /\ At(p, "sremove")
    /\ IF x \notin st.deps THEN Panic(p, "unpaired removeDep") /\ UNCHANGED st
       ELSE /\ st' = [st EXCEPT !.deps = @ \ {x}]
            /\ pr' = IF st'.deps = {} THEN To(p, "sfinal") ELSE [pr EXCEPT ![p] = Return(@)]
            /\ UNCHANGED poolvars
    /\ UNCHANGED <<prog, tx, cn, rows, closemu>>

(* Mutant: the statement is closed at once, whoever uses the connection.   *)
UnusedStatement_Now(c) ==
    IF dc[c].stmt = "open" /\ ~dc[c].finalClosed THEN [dc EXCEPT ![c].stmt = "closed"] ELSE dc

(* noteUnusedDriverStatement: now, or when the connection is given back.   *)
UnusedStatement(c) ==
    IF dc[c].inUse THEN [dc EXCEPT ![c].onPut = TRUE]
    ELSE IF dc[c].stmt = "open" /\ ~dc[c].finalClosed THEN [dc EXCEPT ![c].stmt = "closed"]
    ELSE dc

StmtFinal(p) ==
    /\ At(p, "sfinal")
    /\ IF st.css = {} THEN pr' = [pr EXCEPT ![p] = Return(@)] /\ UNCHANGED <<dc, st>>
       ELSE \E c \in st.css :
              /\ dc' = UnusedStatement(c)
              /\ st' = [st EXCEPT !.css = @ \ {c}]
              /\ pr' = [pr EXCEPT ![p].pc = "sopen", ![p].c = c]
    /\ UNCHANGED <<db, req, ctx, faults, panicked, prog, tx, cn, rows, closemu>>

(* removeOpenStmt                                                          *)
StmtForget(p) ==
    /\ At(p, "sopen")
    /\ dc' = [dc EXCEPT ![pr[p].c].openStmt = FALSE]
    /\ pr' = [pr EXCEPT ![p].pc = "sfinal", ![p].c = Nil]
    /\ UNCHANGED <<db, req, ctx, faults, panicked, prog, objvars>>

StmtUnlock(p) ==
    /\ At(p, "sunlock")
    /\ closemu' = WUnlocked("Stmt")
    /\ pr' = To(p, "next")
    /\ UNCHANGED <<poolvars, prog, tx, cn, st, rows>>

StmtStep(p) ==
    \/ StmtRLock(p) \/ StmtConn(p) \/ StmtPrepare(p)
    \/ Ask(p, "sclose", "Stmt", "sclose2") \/ StmtClose(p) \/ StmtRemoveDep(p)
    \/ StmtFinal(p) \/ StmtForget(p) \/ StmtUnlock(p)

(***************************************************************************)
(* Rows                                                                    *)
(***************************************************************************)
RowsDone(u) == rows[u].cancelled \/ ctx[u] \/ (rows[u].rel = "tx" /\ TxDone)

RowsAwaitDone(u) ==
    /\ At(RowsWait(u), "rawait") /\ RowsDone(u)
    /\ pr' = [pr EXCEPT ![RowsWait(u)] = Call(@, "rclose", "gone")]
    /\ UNCHANGED <<poolvars, prog, objvars>>

(* Next: a row, or the end of the result, which closes it.                 *)
RowsNext(p) ==
    LET w == rows[p[2]] IN
    /\ At(p, "rnext") /\ w.lock = {}
    /\ \/ pr' = To(p, "next")
       \/ w.st = "open" /\ pr' = [pr EXCEPT ![p] = Call(@, "rclose", "next")]
    /\ UNCHANGED <<poolvars, prog, objvars>>

AlreadyClosed(w) == w.st = "closed"

(* Under the lock: close it at the driver, stop awaitDone, release.        *)
RowsClose(p) ==
    LET u == p[2]  w == rows[u] IN
    /\ At(p, "rclose") /\ w.lock = {}
    /\ IF AlreadyClosed(w)
       THEN pr' = [pr EXCEPT ![p] = Return(@)] /\ UNCHANGED <<rows, closemu, faults>>
       ELSE \E e \in Results({"bad"}) :
              /\ Spend(e)
              /\ rows' = [rows EXCEPT ![u].st = "closed", ![u].lock = {p}, ![u].cancelled = TRUE]
              /\ pr' = [pr EXCEPT ![p] = Released([@ EXCEPT !.c = w.c], w.rel, e, "rdep")]
              /\ closemu' = ReleasedMu(w.rel, RowsWait(u))
    /\ UNCHANGED <<db, dc, req, ctx, panicked, prog, tx, cn, st>>

(* A Rows of a Stmt is one of its dependencies.                            *)
RowsDep(p) ==
    /\ At(p, "rdep")
    /\ pr' = IF rows[p[2]].dep THEN [pr EXCEPT ![p] = Call(@, "sremove", "runlock")]
                               ELSE To(p, "runlock")
    /\ UNCHANGED <<poolvars, prog, objvars>>

RowsUnlock(p) ==
    /\ At(p, "runlock")
    /\ rows' = [rows EXCEPT ![p[2]].lock = {}]
    /\ pr' = [pr EXCEPT ![p] = Return(@)]
    /\ UNCHANGED <<poolvars, prog, tx, cn, st, closemu>>

RowsStep(p) == RowsNext(p) \/ RowsClose(p) \/ RowsDep(p) \/ RowsUnlock(p)

(***************************************************************************)
(* Programs: a call is a record with the function f, op, rel and n.        *)
(***************************************************************************)
Calls(u) == prog.calls[u]

(* Is there an object to call?                                             *)
Possible(u, f) ==
    CASE f \in {"tgrab", "commit", "rollback"} -> tx.st # "none"
      [] f \in {"cgrab", "cnclose"} -> cn.st # "none"
      [] f \in {"sgrab", "sclose"} -> st.st # "none"
      [] f \in {"rnext", "rclose"} -> rows[u].st # "none"
      [] OTHER -> TRUE

Begin(u) ==
    LET p == User(u)
        call == Calls(u)[pr[p].ip]
        fresh == [Proc("next") EXCEPT !.op = call.op, !.rel = call.rel, !.n = call.n,
                                      !.ip = pr[p].ip + 1]
    IN  /\ At(p, "next") /\ pr[p].ip <= Len(Calls(u))
        /\ pr' = [pr EXCEPT ![p] =
                    IF ~Possible(u, call.f) THEN fresh
                    ELSE IF call.f \in {"tgrab", "cgrab", "sgrab", "sclose", "rnext"}
                    THEN [fresh EXCEPT !.pc = call.f]
                    ELSE Call(fresh, call.f, IF call.f = "conn" THEN "drive" ELSE "next")]
        /\ UNCHANGED <<poolvars, prog, objvars>>

Cancel(u) ==
    /\ u \in prog.cancel /\ ~ctx[u]
    /\ ctx' = [ctx EXCEPT ![u] = TRUE]
    /\ UNCHANGED <<pr, db, dc, req, faults, panicked, prog, objvars>>

(* Where no process is in the middle of an operation.                      *)
Waiting == {"next", "gone", "opener", "opened", "cleaner", "twait", "rawait"}

Step(p) ==
    \/ PoolStep(p) /\ UNCHANGED <<prog, objvars>>
    \/ Drive(p) \/ Retry(p) \/ TxStep(p) \/ ConnStep(p) \/ StmtStep(p) \/ RowsStep(p)

(* A step of the program or of the package.                                *)
Progress ==
    \/ \E u \in Users : Begin(u) \/ RowsAwaitDone(u)
    \/ (OpenerOpen \/ OpenerDone \/ ConnectionCleaner) /\ UNCHANGED <<prog, objvars>>
    \/ TxAwaitDone
    \/ \E p \in {q \in Procs : pr[q].pc \notin Waiting} : Step(p)

Next ==
    /\ panicked = "no"
    /\ \/ Progress
       \/ \E u \in Users : Cancel(u)
       \/ \E c \in Conns : Age(c) /\ UNCHANGED <<prog, objvars>>

Spec == Init /\ [][Next]_vars

(* The scheduler does not stop while some goroutine can go on.  No more is *)
(* needed: a program of Programs makes finitely many steps.                *)
FairSpec == Spec /\ WF_vars(panicked = "no" /\ Progress)

(***************************************************************************)
(* Properties                                                              *)
(***************************************************************************)
Live(c) == dc[c].made /\ ~dc[c].finalClosed

(* The panics that the code does not rule out, each with its hypothesis.   *)
(* A wait that was cancelled is told that its open has failed, and gives   *)
(* the nil it got back to the pool (sql.go:981).  An operation looked at   *)
(* the Conn's done and finds the Conn closed when it has closemu, by its   *)
(* Close or by another operation's ErrBadConn (sql.go:1524), although      *)
(* Close is said to be safe to call concurrently with other operations     *)
(* (sql.go:1636).  A lifetime is shortened after DB.Close (sql.go:767).    *)
Excused ==
    \/ /\ panicked = "put of nil"
       /\ \E u \in Users : LET r == pr[User(u)] IN
             r.pc = "put" /\ r.c = Nil /\ r.err = "ctx" /\ r.perr = "err" /\ ctx[u]
    \/ panicked = "nil Conn" /\ cn.done /\ \E u \in Users : At(User(u), "crlock")
    \/ panicked = "send on closed channel" /\ db.closed /\ \E u \in Users : At(User(u), "lifetime")

(* putConn and removeDep panic when a connection is given back that was    *)
(* not out, or is closed twice.  No order of operations, cancellations and *)
(* closes makes them do so, and a connection that is gone, or the closed   *)
(* channel of the cleaner, is used only in the three cases of Excused.     *)
NoPanic == panicked = "no" \/ Excused

(* Who owns c: the idle list, an answered request, a process between       *)
(* taking and giving back, a Rows, the transaction or the Conn.            *)
Owners(c) ==
    {<<"idle", i>> : i \in {i \in DOMAIN db.freeConn : db.freeConn[i] = c}}
    \cup {<<"request", p>> : p \in {p \in Procs : req[p].st = "sent" /\ req[p].c = c}}
    \cup {<<"process", p>> : p \in {p \in Procs : pr[p].c = c /\ pr[p].pc # "sopen" /\
                                                  ~(At(p, "drive") /\ pr[p].rel # "put" /\ pr[p].rel # "none")}}
    \cup {<<"closing", p>> : p \in {p \in Procs : Contains(pr[p].todo, c)}}
    \cup {<<"rows", u>> : u \in {u \in Users : rows[u].st = "open" /\ rows[u].rel = "put"
                                               /\ rows[u].c = c}}
    \cup (IF tx.st = "open" /\ tx.rel = "put" /\ tx.c = c THEN {<<"tx", 0>>} ELSE {})
    \cup (IF cn.st = "open" /\ cn.c = c THEN {<<"conn", 0>>} ELSE {})

(* Every open connection has exactly one owner, also when a request is     *)
(* cancelled while a connection is sent to it: none is lost from the pool  *)
(* and none is used by two, or given back twice.  The operations panic in  *)
(* no other case than those of Excused.                                    *)
OneOwner == NoPanic /\ \A c \in Conns : Live(c) => Cardinality(Owners(c)) = 1

(* numOpen counts the open connections and those about to be opened, so    *)
(* that the limit is neither exceeded nor used up by connections that are  *)
(* gone.                                                                   *)
PoolCount ==
    ~db.closed =>
    db.numOpen = db.openerCh + Cardinality({c \in Conns : Live(c)})
                 + Cardinality({p \in Procs : pr[p].pc \in {"copen", "cfail", "final2"}})
                 + (IF At(Opener, "opened") /\ pr[Opener].c = Nil THEN 1 ELSE 0)

FixedLimit ==
    \A u \in Users : \A i \in DOMAIN Calls(u) : Calls(u)[i].f # "maxopen"

(* At the driver there are never more than maxOpen connections, unless the *)
(* program changes maxOpen, and never more idle than maxIdle.              *)
WithinLimits ==
    /\ FixedLimit /\ db.maxOpen > 0 => Cardinality({c \in Conns : Live(c)}) <= db.maxOpen
    /\ Len(db.freeConn) <= maxIdleConns(db)

(* A transaction that is open at the driver is one that the program has,   *)
(* on the connection that it holds: no connection goes back to the pool,   *)
(* or to somebody else, in the middle of a transaction.                    *)
NoDanglingTx == \A c \in Conns : dc[c].intx => tx.st = "open" /\ tx.c = c

(* The driver's statement is closed while nobody uses its connection: not  *)
(* between the rows of a result that somebody else reads.                  *)
StmtClosedQuiet ==
    [][\A c \in Conns : dc[c].stmt = "open" /\ dc'[c].stmt = "closed" =>
         /\ \A p \in Procs : ~(At(p, "drive") /\ pr[p].c = c)
         /\ \A u \in Users : ~(rows[u].st = "open" /\ rows[u].c = c)]_vars

(* Once a Stmt and its Rows are closed, no connection that lies idle still *)
(* has the statement at the driver.                                        *)
StmtNoLeak ==
    st.st = "closed" /\ st.deps = {} /\ (\A p \in Procs : pr[p].pc \notin {"sfinal", "sopen"}) =>
    \A c \in Range(db.freeConn) : dc[c].stmt # "open"

Returned(u) == At(User(u), "next") /\ pr[User(u)].ip > Len(Calls(u))

(* Every operation returns: nobody waits forever for a connection while    *)
(* the others give theirs back, whatever fails or is cancelled, unless the *)
(* program dies of one of the panics that NoPanic allows.                  *)
AllReturn == <>(panicked # "no" \/ \A u \in Users : Returned(u))

(* After DB.Close every connection is closed at the driver in the end, in  *)
(* a program that does not panic.                                          *)
CloseCloses == [](db.closed => <>(panicked # "no" \/ \A c \in Conns : ~Live(c)))

(* A transaction whose context is cancelled is rolled back, and its        *)
(* connection is released.                                                 *)
CancelledTxEnds == tx.st = "open" /\ TxDone ~> tx.st = "released"

(* What numOpen says, and the limits it is for.                            *)
PoolCounts == PoolCount /\ WithinLimits

(* A connection carries nothing from one user to the next: no transaction, *)
(* and no statement that was closed.                                       *)
ConnsClean == NoDanglingTx /\ StmtNoLeak

(* Every operation returns, and a closed DB has no connections left.       *)
AllEnds == AllReturn /\ CloseCloses
=============================================================================
