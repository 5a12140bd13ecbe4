--------------------------- MODULE HttpTransport ---------------------------
(***************************************************************************)
(* http.Transport (src/pkg/net/http/transport.go): persistent connections  *)
(* to one host, the goroutines that dial, read and write, the hand-over of *)
(* a connection to a request that is still dialing, response bodies, and   *)
(* the cancelling of requests.                                             *)
(*                                                                         *)
(* Each request is made by a goroutine of its own.  What is done under one *)
(* of the locks idleMu, reqMu and lk is one step, and so is a send or a    *)
(* receive.  The server answers the requests of a connection in order and  *)
(* may hang up at any time.                                                *)
(***************************************************************************)
EXTENDS Integers, Sequences, FiniteSets, SequencesExt

CONSTANTS
    Reqs,       \* the requests, numbered
    Pcs,        \* bound: the connections dialed, numbered
    Options,    \* a sequence: how the Transport is set up and what may happen, see Opt
    nil

ASSUME HttpConstants ==
    /\ Reqs \subseteq Nat /\ Pcs \subseteq Nat /\ nil \notin Reqs \cup Pcs
    /\ \A i \in DOMAIN Options :
         /\ Options[i].bodies \subseteq BOOLEAN /\ Options[i].closes \subseteq BOOLEAN
         /\ Options[i].headerTimeout \in BOOLEAN /\ Options[i].cancel \subseteq Reqs

VARIABLES
    opt,        \* which of the Options is run
    t,          \* the Transport: idleConn and idleConnCh of the host, reqConn
    u,          \* u[r]: the goroutine that runs RoundTrip of request r
    d,          \* d[r]: the goroutine that dials for r
    pc,         \* pc[c]: the persistConn with number c, its two loops and its wire
    body,       \* body[r]: the bodyEOFSignal of r's response
    closer,     \* the goroutine that calls CloseIdleConnections
    hangs,      \* bound: how often the server may still hang up or a dial may fail
    fatal       \* log.Fatalf was called

hvars == <<opt, t, u, d, pc, body, closer, hangs, fatal>>

Opt == Options[opt]

Unused == [made |-> FALSE, conn |-> "open", closed |-> FALSE, broken |-> FALSE, expected |-> 0,
           reqch |-> << >>, writech |-> << >>, closech |-> FALSE,
           rl |-> "none", rc |-> nil, err |-> FALSE, alive |-> TRUE, hasBody |-> FALSE, wait |-> << >>,
           wl |-> "none", wr |-> nil, sent |-> << >>, answers |-> << >>, eof |-> FALSE,
           put |-> "none", late |-> FALSE]

HttpInit ==
    /\ opt \in DOMAIN Options
    /\ t = [idle |-> << >>, ch |-> nil, reqConn |-> [r \in Reqs |-> nil]]
    /\ u = [r \in Reqs |-> [st |-> "start", pc |-> nil, ch |-> nil, werr |-> "none", res |-> "none",
                            of |-> nil, dead |-> FALSE, timer |-> FALSE, err |-> FALSE]]
    /\ d = [r \in Reqs |-> [st |-> "none", pc |-> nil, late |-> FALSE]]
    /\ pc = [c \in Pcs |-> Unused]
    /\ body = [r \in Reqs |-> [st |-> "none", rerr |-> "none", fn |-> FALSE]]
    /\ closer = [st |-> "idle", todo |-> << >>, cancel |-> nil, left |-> Opt.cancel]
    /\ hangs = Opt.hangs /\ fatal = FALSE

UserTo(r, l) == u' = [u EXCEPT ![r].st = l]

(***************************************************************************)
(* persistConn.close and markBroken                                        *)
(***************************************************************************)
Closed(p) == [p EXCEPT !.broken = TRUE, !.closed = TRUE, !.conn = "closed"]

(***************************************************************************)
(* putIdleConn(c), called by setting put to "check": the look at broken,   *)
(* and the part under idleMu, in which c goes to a request that waits, or  *)
(* to the list.  The caller finds the result in put, if it wants it.       *)
(***************************************************************************)
Put(p, result) == [p EXCEPT !.put = IF p.late THEN "none" ELSE result]

putIdleCheck(c) ==
    /\ pc[c].put = "check"
    /\ pc' = [pc EXCEPT ![c] = IF ~Opt.keepAlives THEN Put(Closed(@), "refused")
                               ELSE IF @.broken THEN Put(@, "refused")
                               ELSE [@ EXCEPT !.put = "lock"]]
    /\ UNCHANGED <<opt, t, u, d, body, closer, hangs, fatal>>

(* Those in the select, not those who have the channel and are on the way. *)
Receivers == {r \in Reqs : u[r].st = "select" /\ t.ch # nil /\ u[r].ch = t.ch}

(* Mutant: the hand-over falls through to the idle list.                   *)
AfterHandOver_Kept(c) == [t EXCEPT !.idle = Append(@, c)]

AfterHandOver(c) == t

(* A request that is dialing gets c; its own dial is given away later.     *)
HandOver(c) ==
    \E r \in Receivers :
      /\ u' = [u EXCEPT ![r].st = "setreq", ![r].pc = c]
      /\ d' = [d EXCEPT ![r].late = TRUE]
      /\ t' = AfterHandOver(c)
      /\ pc' = [pc EXCEPT ![c] = Put(@, "kept")]
      /\ UNCHANGED fatal

(* Nobody receives: the channel, if there is one, is dropped.              *)
Keep(c) ==
    /\ Receivers = {} /\ Len(t.idle) < Opt.maxIdle
    /\ t' = [t EXCEPT !.ch = nil, !.idle = Append(@, c)]
    /\ fatal' = Contains(t.idle, c)
    /\ pc' = [pc EXCEPT ![c] = Put(@, "kept")]
    /\ UNCHANGED <<u, d>>

Full(c) ==
    /\ Receivers = {} /\ Len(t.idle) >= Opt.maxIdle
    /\ t' = [t EXCEPT !.ch = nil]
    /\ pc' = [pc EXCEPT ![c] = Put(Closed(@), "refused")]
    /\ UNCHANGED <<u, d, fatal>>

putIdleConn(c) ==
    /\ pc[c].put = "lock"
    /\ HandOver(c) \/ Keep(c) \/ Full(c)
    /\ UNCHANGED <<opt, body, closer, hangs>>

(***************************************************************************)
(* getConn                                                                 *)
(***************************************************************************)
(* The program makes the requests one after the other: the next when the   *)
(* one before has begun, or has returned.                                  *)
Begun(r) ==
    \A q \in Reqs : q < r =>
      IF Opt.sequential THEN u[q].st \in {"body", "eof", "alive", "notalive", "brokenalive", "done", "failed"}
                        ELSE u[q].st # "start"

Usable == {i \in DOMAIN t.idle : ~pc[t.idle[i]].broken}

(* The last one that is not broken; those behind it are dropped.           *)
getIdleConn(r) ==
    /\ u[r].st = "start" /\ Begun(r) /\ Usable # {}
    /\ t' = [t EXCEPT !.idle = SubSeq(@, 1, Max(Usable) - 1)]
    /\ u' = [u EXCEPT ![r].st = "setreq", ![r].pc = t.idle[Max(Usable)]]
    /\ UNCHANGED <<opt, d, pc, body, closer, hangs, fatal>>

getConn(r) ==
    /\ u[r].st = "start" /\ Begun(r) /\ Usable = {}
    /\ t' = [t EXCEPT !.idle = << >>]
    /\ d' = [d EXCEPT ![r].st = "dialing"]
    /\ UserTo(r, "getch")
    /\ UNCHANGED <<opt, pc, body, closer, hangs, fatal>>

getIdleConnCh(r) ==
    LET ch == IF t.ch = nil THEN r ELSE t.ch IN
    /\ u[r].st = "getch"
    /\ t' = [t EXCEPT !.ch = IF Opt.keepAlives THEN ch ELSE @]
    /\ u' = [u EXCEPT ![r].st = "gotch", ![r].ch = IF Opt.keepAlives THEN ch ELSE nil]
    /\ UNCHANGED <<opt, d, pc, body, closer, hangs, fatal>>

(* r waits in the select: from here on it is a receiver.                   *)
AwaitConn(r) ==
    /\ u[r].st = "gotch"
    /\ UserTo(r, "select")
    /\ UNCHANGED <<opt, t, d, pc, body, closer, hangs, fatal>>

(* dialConn, which starts the two loops, or fails.                         *)
dialConn(r) ==
    LET new == {c \in Pcs : ~pc[c].made} IN
    /\ d[r].st = "dialing"
    /\ \/ /\ hangs > 0 /\ hangs' = hangs - 1
          /\ d' = [d EXCEPT ![r].st = "offer"]
          /\ UNCHANGED pc
       \/ /\ new # {}
          /\ d' = [d EXCEPT ![r].st = "offer", ![r].pc = Min(new)]
          /\ pc' = [pc EXCEPT ![Min(new)] = [@ EXCEPT !.made = TRUE, !.rl = "peek", !.wl = "select"]]
          /\ UNCHANGED hangs
    /\ UNCHANGED <<opt, t, u, body, closer, fatal>>

(* case v := <-dialc                                                       *)
Dialed(r) ==
    /\ u[r].st = "select" /\ d[r].st = "offer" /\ ~d[r].late
    /\ u' = [u EXCEPT ![r].st = IF d[r].pc = nil THEN "failed" ELSE "setreq", ![r].pc = d[r].pc]
    /\ d' = [d EXCEPT ![r].st = "gone", ![r].pc = nil]
    /\ UNCHANGED <<opt, t, pc, body, closer, hangs, fatal>>

(* A dial that was not needed: give its connection away.                   *)
LateDial(r) ==
    /\ d[r].st = "offer" /\ d[r].late
    /\ d' = [d EXCEPT ![r].st = "gone", ![r].pc = nil]
    /\ pc' = IF d[r].pc = nil THEN pc
             ELSE [pc EXCEPT ![d[r].pc] = [@ EXCEPT !.put = "check", !.late = TRUE]]
    /\ UNCHANGED <<opt, t, u, body, closer, hangs, fatal>>

(***************************************************************************)
(* roundTrip                                                               *)
(***************************************************************************)
setReqConn(r) ==
    /\ u[r].st = "setreq"
    /\ t' = [t EXCEPT !.reqConn[r] = u[r].pc]
    /\ UserTo(r, "expect")
    /\ UNCHANGED <<opt, d, pc, body, closer, hangs, fatal>>

Expect(r) ==
    /\ u[r].st = "expect"
    /\ pc' = [pc EXCEPT ![u[r].pc].expected = @ + 1]
    /\ UserTo(r, "send")
    /\ UNCHANGED <<opt, t, d, body, closer, hangs, fatal>>

(* pc.writech <- and pc.reqch <-, which have room for 50 requests each.    *)
SendWrite(r) ==
    /\ u[r].st = "send"
    /\ pc' = [pc EXCEPT ![u[r].pc].writech = Append(@, r)]
    /\ UserTo(r, "sendreq")
    /\ UNCHANGED <<opt, t, d, body, closer, hangs, fatal>>

SendReq(r) ==
    /\ u[r].st = "sendreq"
    /\ pc' = [pc EXCEPT ![u[r].pc].reqch = Append(@, r)]
    /\ UserTo(r, "wait")
    /\ UNCHANGED <<opt, t, d, body, closer, hangs, fatal>>

GiveUp(r) == [u EXCEPT ![r].st = "unexpect", ![r].err = TRUE]

(* case err := <-writeErrCh                                                *)
Written(r) ==
    /\ u[r].st = "wait" /\ u[r].werr \in {"nil", "err"}
    /\ IF u[r].werr = "err"
       THEN u' = GiveUp(r) /\ pc' = [pc EXCEPT ![u[r].pc] = Closed(@)]
       ELSE u' = [u EXCEPT ![r].werr = "seen", ![r].timer = Opt.headerTimeout] /\ UNCHANGED pc
    /\ UNCHANGED <<opt, t, d, body, closer, hangs, fatal>>

(* Mutant: a connection that dies under a request is not noticed.          *)
Dead_Never(r) ==
    /\ FALSE
    /\ UNCHANGED hvars

(* case <-pconnDeadCh: give a response that may be on its way some time.   *)
Dead(r) ==
    /\ u[r].st = "wait" /\ ~u[r].dead /\ pc[u[r].pc].closech
    /\ u' = [u EXCEPT ![r].dead = TRUE]
    /\ UNCHANGED <<opt, t, d, pc, body, closer, hangs, fatal>>

FailTicker(r) ==
    /\ u[r].st = "wait" /\ u[r].dead
    /\ u' = GiveUp(r)
    /\ UNCHANGED <<opt, t, d, pc, body, closer, hangs, fatal>>

HeaderTimeout(r) ==
    /\ u[r].st = "wait" /\ u[r].timer
    /\ u' = GiveUp(r)
    /\ pc' = [pc EXCEPT ![u[r].pc] = Closed(@)]
    /\ UNCHANGED <<opt, t, d, body, closer, hangs, fatal>>

(* case re = <-resc                                                        *)
Response(r) ==
    /\ u[r].st = "wait" /\ u[r].res # "none"
    /\ u' = [u EXCEPT ![r].st = "unexpect", ![r].err = (u[r].res = "err")]
    /\ UNCHANGED <<opt, t, d, pc, body, closer, hangs, fatal>>

Unexpect(r) ==
    /\ u[r].st = "unexpect"
    /\ pc' = [pc EXCEPT ![u[r].pc].expected = @ - 1]
    /\ UserTo(r, IF u[r].err THEN "forget" ELSE "body")
    /\ UNCHANGED <<opt, t, d, body, closer, hangs, fatal>>

Forget(r) ==
    /\ u[r].st = "forget"
    /\ t' = [t EXCEPT !.reqConn[r] = nil]
    /\ UserTo(r, "failed")
    /\ UNCHANGED <<opt, d, pc, body, closer, hangs, fatal>>

roundTrip(r) ==
    \/ setReqConn(r) \/ Expect(r) \/ SendWrite(r) \/ SendReq(r)
    \/ Written(r) \/ Dead(r) \/ FailTicker(r) \/ Response(r) \/ Unexpect(r) \/ Forget(r)

(***************************************************************************)
(* readLoop                                                                *)
(***************************************************************************)
Loop(c, p) == pc' = [pc EXCEPT ![c] = p]

Exit(p) == [p EXCEPT !.rl = "gone", !.closech = TRUE]

(* Peek(1): something to read, or an error.  What was buffered before the  *)
(* connection was closed on this side may still be read.                   *)
Peek(c) ==
    LET p == pc[c] IN
    /\ p.rl = "peek"
    /\ \/ p.answers # << >> /\ Loop(c, [p EXCEPT !.rl = "check", !.err = FALSE])
       \/ p.conn = "closed" /\ Loop(c, [p EXCEPT !.rl = "check", !.err = TRUE])
       \/ p.conn = "open" /\ p.eof /\ p.answers = << >> /\ Loop(c, [p EXCEPT !.rl = "check", !.err = TRUE])
    /\ UNCHANGED <<opt, t, u, d, body, closer, hangs, fatal>>

Check(c) ==
    LET p == pc[c] IN
    /\ p.rl = "check"
    /\ Loop(c, IF p.expected = 0 THEN Exit(Closed(p)) ELSE [p EXCEPT !.rl = "recv"])
    /\ UNCHANGED <<opt, t, u, d, body, closer, hangs, fatal>>

(* rc := <-pc.reqch and ReadResponse.                                      *)
Recv(c) ==
    LET p == pc[c]  r == Head(p.reqch)
        q == [p EXCEPT !.rc = r, !.reqch = Tail(@)]
    IN  /\ p.rl = "recv" /\ p.reqch # << >>
        /\ IF p.err
           THEN /\ Loop(c, [Closed(q) EXCEPT !.rl = "deliver", !.alive = FALSE, !.hasBody = FALSE])
                /\ UNCHANGED <<body, u>>
           ELSE LET a == Head(p.answers)  alive == ~a.close IN
                /\ Loop(c, [q EXCEPT !.answers = Tail(@), !.alive = alive, !.hasBody = a.body,
                                     !.rl = IF alive /\ ~a.body THEN "put" ELSE "deliver",
                                     !.put = IF alive /\ ~a.body THEN "check" ELSE "none",
                                     !.late = FALSE])
                /\ body' = [body EXCEPT ![r] = [st |-> IF a.body THEN "open" ELSE "none",
                                                rerr |-> "none", fn |-> a.body]]
                /\ u' = [u EXCEPT ![r].of = a.r]
        /\ UNCHANGED <<opt, t, d, closer, hangs, fatal>>

(* putIdleConn has returned.                                               *)
PutBack(c) ==
    LET p == pc[c] IN
    /\ p.rl = "put" /\ p.put \in {"kept", "refused"}
    /\ Loop(c, [p EXCEPT !.rl = "deliver", !.put = "none", !.alive = (p.put = "kept")])
    /\ UNCHANGED <<opt, t, u, d, body, closer, hangs, fatal>>

AfterDeliver(p) == IF p.hasBody THEN "body" ELSE "unset"

Deliver(c) ==
    LET p == pc[c] IN
    /\ p.rl = "deliver"
    /\ u' = [u EXCEPT ![p.rc].res = IF p.err THEN "err" ELSE "ok"]
    /\ Loop(c, [p EXCEPT !.rl = AfterDeliver(p)])
    /\ UNCHANGED <<opt, t, d, body, closer, hangs, fatal>>

(* alive = <-waitForBodyRead                                               *)
BodyRead(c) ==
    LET p == pc[c] IN
    /\ p.rl = "body" /\ p.wait # << >>
    /\ Loop(c, [p EXCEPT !.rl = "unset", !.alive = Head(p.wait), !.wait = << >>])
    /\ UNCHANGED <<opt, t, u, d, body, closer, hangs, fatal>>

Unset(c) ==
    LET p == pc[c] IN
    /\ p.rl = "unset"
    /\ t' = [t EXCEPT !.reqConn[p.rc] = nil]
    /\ Loop(c, [p EXCEPT !.rl = IF p.alive THEN "peek" ELSE "exit", !.rc = nil])
    /\ UNCHANGED <<opt, u, d, body, closer, hangs, fatal>>

ReadExit(c) ==
    /\ pc[c].rl = "exit"
    /\ Loop(c, Exit(Closed(pc[c])))
    /\ UNCHANGED <<opt, t, u, d, body, closer, hangs, fatal>>

readLoop(c) ==
    \/ Peek(c) \/ Check(c) \/ Recv(c) \/ PutBack(c) \/ Deliver(c) \/ BodyRead(c) \/ Unset(c) \/ ReadExit(c)

(***************************************************************************)
(* writeLoop: the request is on the wire, and may be answered, before the  *)
(* write has returned.                                                     *)
(***************************************************************************)
WriteBegin(c) ==
    LET p == pc[c]  r == Head(p.writech)
        q == [p EXCEPT !.writech = Tail(@)]
    IN  /\ p.wl = "select" /\ p.writech # << >>
        /\ IF p.broken
           THEN Loop(c, q) /\ u' = [u EXCEPT ![r].werr = "err"]
           ELSE /\ Loop(c, [q EXCEPT !.wl = "writing", !.wr = r,
                                     !.sent = IF p.conn = "closed" \/ p.eof THEN @ ELSE Append(@, r)])
                /\ UNCHANGED u
        /\ UNCHANGED <<opt, t, d, body, closer, hangs, fatal>>

(* A write fails, or not, when the server has hung up.                     *)
WriteEnd(c) ==
    LET p == pc[c] IN
    /\ p.wl = "writing"
    /\ \E ok \in BOOLEAN :
         /\ ok => p.conn = "open"
         /\ ~ok => p.conn = "closed" \/ p.eof
         /\ u' = [u EXCEPT ![p.wr].werr = IF ok THEN "nil" ELSE "err"]
         /\ Loop(c, [p EXCEPT !.wl = "select", !.wr = nil, !.broken = @ \/ ~ok])
    /\ UNCHANGED <<opt, t, d, body, closer, hangs, fatal>>

WriteExit(c) ==
    /\ pc[c].wl = "select" /\ pc[c].closech
    /\ Loop(c, [pc[c] EXCEPT !.wl = "gone"])
    /\ UNCHANGED <<opt, t, u, d, body, closer, hangs, fatal>>

writeLoop(c) == WriteBegin(c) \/ WriteEnd(c) \/ WriteExit(c)

(***************************************************************************)
(* bodyEOFSignal: the program reads the body to its end, which puts the    *)
(* connection back, or closes it early.                                    *)
(***************************************************************************)
NoBody(r) ==
    /\ u[r].st = "body" /\ body[r].st = "none"
    /\ UserTo(r, "done")
    /\ UNCHANGED <<opt, t, d, pc, body, closer, hangs, fatal>>

(* Read returns io.EOF: fn(nil), with alive as readLoop left it.           *)
ReadEOF(r) ==
    LET c == u[r].pc IN
    /\ u[r].st = "body" /\ body[r].st = "open" /\ body[r].fn
    /\ body' = [body EXCEPT ![r] = [@ EXCEPT !.rerr = "EOF", !.fn = FALSE]]
    /\ pc' = IF pc[c].alive THEN [pc EXCEPT ![c] = [@ EXCEPT !.put = "check", !.late = FALSE]] ELSE pc
    /\ UserTo(r, IF pc[c].alive THEN "eof" ELSE "notalive")
    /\ UNCHANGED <<opt, t, d, closer, hangs, fatal>>

(* Read fails: fn(err) closes the connection.                              *)
ReadError(r) ==
    /\ u[r].st = "body" /\ body[r].st = "open" /\ body[r].fn /\ pc[u[r].pc].conn = "closed"
    /\ body' = [body EXCEPT ![r] = [@ EXCEPT !.rerr = "err", !.fn = FALSE]]
    /\ UserTo(r, "notalive")
    /\ UNCHANGED <<opt, t, d, pc, closer, hangs, fatal>>

EOFPut(r) ==
    LET c == u[r].pc IN
    /\ u[r].st = "eof" /\ pc[c].put \in {"kept", "refused"}
    /\ pc' = [pc EXCEPT ![c].put = "none"]
    /\ UserTo(r, IF pc[c].put = "refused" THEN "notalive"
                 ELSE IF pc[c].broken THEN "brokenalive" ELSE "alive")
    /\ UNCHANGED <<opt, t, d, body, closer, hangs, fatal>>

(* if !alive1 || pc.isBroken() { pc.close() }; waitForBodyRead <- alive1   *)
EOFSend(r) ==
    LET c == u[r].pc
        p == IF u[r].st = "alive" THEN pc[c] ELSE Closed(pc[c])
    IN  /\ u[r].st \in {"alive", "brokenalive", "notalive"}
        /\ Loop(c, [p EXCEPT !.wait = Append(@, u[r].st # "notalive")])
        /\ UserTo(r, "body")
        /\ UNCHANGED <<opt, t, d, body, closer, hangs, fatal>>

(* Close, early or after the end; an early one tells readLoop to stop.     *)
BodyClose(r) ==
    LET early == body[r].rerr # "EOF" IN
    /\ u[r].st = "body" /\ body[r].st = "open"
    /\ body' = [body EXCEPT ![r].st = "closed"]
    /\ pc' = IF early THEN [pc EXCEPT ![u[r].pc].wait = Append(@, FALSE)] ELSE pc
    /\ UserTo(r, "done")
    /\ UNCHANGED <<opt, t, d, closer, hangs, fatal>>

Body(r) == NoBody(r) \/ ReadEOF(r) \/ ReadError(r) \/ EOFPut(r) \/ EOFSend(r) \/ BodyClose(r)

(***************************************************************************)
(* CloseIdleConnections, CancelRequest, and the server.                    *)
(***************************************************************************)
CloseIdleConnections ==
    /\ Opt.closeIdle /\ closer.st = "idle"
    /\ closer' = [closer EXCEPT !.st = "closing", !.todo = t.idle]
    /\ t' = [t EXCEPT !.idle = << >>, !.ch = nil]
    /\ UNCHANGED <<opt, u, d, pc, body, hangs, fatal>>

CloseNext ==
    /\ closer.st = "closing" /\ closer.todo # << >>
    /\ pc' = [pc EXCEPT ![Head(closer.todo)] = Closed(@)]
    /\ closer' = [closer EXCEPT !.todo = Tail(@)]
    /\ UNCHANGED <<opt, t, u, d, body, hangs, fatal>>

CancelRequest(r) ==
    /\ r \in closer.left /\ closer.cancel = nil /\ t.reqConn[r] # nil
    /\ closer' = [closer EXCEPT !.cancel = t.reqConn[r], !.left = @ \ {r}]
    /\ UNCHANGED <<opt, t, u, d, pc, body, hangs, fatal>>

CancelClose ==
    /\ closer.cancel \in Pcs
    /\ pc' = [pc EXCEPT ![closer.cancel].conn = "closed"]
    /\ closer' = [closer EXCEPT !.cancel = nil]
    /\ UNCHANGED <<opt, t, u, d, body, hangs, fatal>>

ServerAnswers(c) ==
    LET p == pc[c] IN
    /\ p.sent # << >> /\ ~p.eof
    /\ \E b \in Opt.bodies, cl \in Opt.closes :
         Loop(c, [p EXCEPT !.sent = Tail(@),
                           !.answers = Append(@, [r |-> Head(p.sent), body |-> b, close |-> cl])])
    /\ UNCHANGED <<opt, t, u, d, body, closer, hangs, fatal>>

ServerHangsUp(c) ==
    /\ pc[c].made /\ ~pc[c].eof /\ hangs > 0
    /\ pc' = [pc EXCEPT ![c].eof = TRUE]
    /\ hangs' = hangs - 1
    /\ UNCHANGED <<opt, t, u, d, body, closer, fatal>>

(* The program, the Transport and a server that is up go on.               *)
HttpProgress ==
    \/ \E r \in Reqs : getIdleConn(r) \/ getConn(r) \/ getIdleConnCh(r) \/ AwaitConn(r)
                       \/ dialConn(r) \/ Dialed(r) \/ LateDial(r) \/ roundTrip(r) \/ Body(r)
    \/ \E c \in Pcs : putIdleCheck(c) \/ putIdleConn(c) \/ readLoop(c) \/ writeLoop(c) \/ ServerAnswers(c)
    \/ CloseNext \/ CancelClose

HttpNext ==
    /\ ~fatal
    /\ \/ HttpProgress
       \/ \E r \in Reqs : HeaderTimeout(r) \/ CancelRequest(r)
       \/ \E c \in Pcs : ServerHangsUp(c)
       \/ CloseIdleConnections

HttpSpec == HttpInit /\ [][HttpNext]_hvars

(* Every run is finite: it is enough that something goes on.               *)
FairHttpSpec == HttpSpec /\ WF_hvars(HttpProgress)

(***************************************************************************)
(* Properties                                                              *)
(***************************************************************************)

(* A response is the answer to the request it is returned for, however     *)
(* connections are handed over, reused, broken and closed.                 *)
OwnResponse == \A r \in Reqs : u[r].of \in {nil, r}

(* The requests that have c and whose response has not been read.          *)
Using(c) == {r \in Reqs : u[r].pc = c /\ u[r].of = nil /\
                          u[r].st \in {"setreq", "expect", "send", "sendreq", "wait"}}
Reading(c) == {r \in Reqs : u[r].pc = c /\ u[r].of = r /\ body[r].st = "open" /\ body[r].fn}

(* A connection serves one request at a time: an idle one is in the list   *)
(* once, and nobody waits for a response or reads a body on it.            *)
IdleIsFree ==
    /\ ~fatal
    /\ \A c \in Pcs : Cardinality(Using(c)) <= 1
    /\ \A c \in Range(t.idle) : Using(c) = {} /\ Reading(c) = {}
    /\ Cardinality(Range(t.idle)) = Len(t.idle)

(* readLoop does not look at the connection while a body is read from it.  *)
OneReader == \A c \in Pcs : Reading(c) # {} => pc[c].rl \in {"deliver", "body"}

(* RoundTrip returns, and the program comes to an end, although servers    *)
(* hang up, dials fail, and requests are cancelled or time out.            *)
AllReturn == <>(\A r \in Reqs : u[r].st \in {"done", "failed"})

(* A response of http.Transport is the answer to the request it is         *)
(* returned for, a persistent connection serves one request at a time, an  *)
(* idle one none, and readLoop does not look at a connection while a body  *)
(* is read from it.                                                        *)
TransportSafe == OwnResponse /\ IdleIsFree /\ OneReader
=============================================================================
