------------------------------- MODULE MCSql -------------------------------
(***************************************************************************)
(* Programs for database/sql.                                              *)
(***************************************************************************)
EXTENDS Sql

F(f) == [f |-> f, op |-> "none", rel |-> "none", n |-> 0]
Set(f, n) == [F(f) EXCEPT !.n = n]
OnDB(op) == [F("conn") EXCEPT !.op = op, !.rel = "put"]
OnTx(op) == [F("tgrab") EXCEPT !.op = op, !.rel = "tx"]
OnConn(op) == [F("cgrab") EXCEPT !.op = op, !.rel = "conn"]
OnStmt(op) == [F("sgrab") EXCEPT !.op = op, !.rel = "put"]

Prog(c1, c2, c3, maxOpen, cancel, call, open) ==
    [calls |-> <<c1, c2, c3>>, maxOpen |-> maxOpen, maxIdle |-> 0, cancel |-> cancel,
     faults |-> [call |-> call, open |-> open]]

(* One connection, a reader of rows and two that wait, one of which gives  *)
(* up; the connection may turn out bad.                                    *)
Contention ==
    Prog(<<OnDB("query"), F("rclose")>>, <<OnDB("exec")>>, <<OnDB("exec")>>, 1, {2}, 1, 0)

(* The driver refuses connections, also to one who gives up.               *)
Refusing == Prog(<<OnDB("exec")>>, <<OnDB("exec")>>, <<OnDB("exec")>>, 1, {2}, 1, 2)

(* Nothing stays idle, and what is opened for one who gives up is closed.  *)
Dropped == [Prog(<<OnDB("exec")>>, <<OnDB("exec")>>, << >>, 1, {2}, 1, 0) EXCEPT !.maxIdle = -1]

(* Everything turns out bad: the last try is with a new connection.        *)
Bad == Prog(<<OnDB("exec")>>, <<OnDB("exec")>>, << >>, 2, {}, 3, 0)

(* A transaction and its rows, rolled back or cancelled.                   *)
RolledBack ==
    Prog(<<OnDB("begin"), OnTx("query"), F("rnext"), F("rollback")>>,
         <<OnDB("exec")>>, << >>, 1, {1}, 1, 0)

Committed ==
    Prog(<<OnDB("begin"), OnTx("exec"), F("commit")>>, <<OnTx("exec"), F("rollback")>>, <<OnDB("exec")>>,
         1, {}, 1, 0)

(* A Conn with a transaction, and the DB closed meanwhile.                 *)
Session ==
    Prog(<<OnDB("conn"), OnConn("begin"), OnTx("exec"), F("commit"), F("cnclose")>>,
         <<OnDB("exec")>>, <<F("dbclose")>>, 2, {}, 1, 0)

(* A Conn that is closed, by the program or because it turned out bad,     *)
(* while two others use it.                                                *)
Shared ==
    Prog(<<OnDB("conn"), F("cnclose")>>, <<OnConn("exec")>>, <<OnConn("query"), F("rclose")>>,
         1, {}, 1, 0)

(* A Stmt closed while its rows are read and somebody waits for the        *)
(* connection.                                                             *)
Prepared ==
    Prog(<<OnDB("prepare"), OnStmt("query"), F("sclose"), F("rclose")>>, <<OnDB("exec")>>, <<OnDB("exec")>>,
         1, {}, 0, 0)

(* A Stmt used by two, on connections that turn out bad.                   *)
Reprepared ==
    Prog(<<OnDB("prepare"), OnStmt("query"), F("rclose"), F("sclose"), F("sclose")>>, <<OnStmt("exec")>>, << >>,
         2, {}, 2, 0)

(* Contexts that are done while a statement is prepared.                   *)
Hurried ==
    Prog(<<OnDB("prepare"), OnStmt("exec"), F("sclose")>>, <<OnStmt("exec")>>, << >>, 2, {1, 2}, 1, 0)

(* The limits change under use.                                            *)
Limits ==
    Prog(<<OnDB("query"), F("rclose")>>, <<OnDB("exec")>>,
         <<Set("maxopen", 1), Set("maxidle", 0), F("dbclose"), F("dbclose")>>, 2, {}, 0, 0)

(* Connections grow too old; the lifetime changes under use, or after the  *)
(* DB was closed.                                                          *)
Ageing ==
    Prog(<<OnDB("query"), F("rclose")>>, <<OnDB("exec"), Set("lifetime", 1)>>,
         <<Set("lifetime", 2), F("dbclose")>>, 0, {}, 0, 0)

Mixed == {Contention, Refusing, Dropped, Bad, RolledBack, Committed, Session, Shared, Prepared,
          Reprepared, Hurried, Limits, Ageing}

(* A transaction that is committed while its context is cancelled.         *)
Commits == {Prog(<<OnDB("begin"), F("commit")>>, <<OnDB("exec")>>, << >>, 1, {1}, 0, 0)}
=============================================================================
