------------------------------ MODULE HttpInv -------------------------------
(***************************************************************************)
(* The inductive invariant of HttpTransport: who has a claim to a          *)
(* connection, which request is under way on it, and how the loop that     *)
(* reads it and the request whose body is read keep out of each other's    *)
(* way.                                                                    *)
(***************************************************************************)
EXTENDS HttpTransport

(***************************************************************************)
(* Types                                                                   *)
(***************************************************************************)
Sending == {"setreq", "expect", "send"}
Signalling == {"eof", "alive", "brokenalive", "notalive"}
Early == {"start", "getch", "gotch", "select"}
Places == Early \cup Sending \cup Signalling \cup
          {"sendreq", "wait", "unexpect", "forget", "body", "done", "failed"}

ReqOrNil == Reqs \cup {nil}
PcOrNil == Pcs \cup {nil}

TRec == [idle : Seq(Pcs), ch : ReqOrNil, reqConn : [Reqs -> PcOrNil]]
URec == [st : Places, pc : PcOrNil, ch : ReqOrNil, werr : {"none", "nil", "err", "seen"},
         res : {"none", "ok", "err"}, of : ReqOrNil, dead : BOOLEAN, timer : BOOLEAN, err : BOOLEAN]
DRec == [st : {"none", "dialing", "offer", "gone"}, pc : PcOrNil, late : BOOLEAN]
ARec == [r : Reqs, body : BOOLEAN, close : BOOLEAN]
PcRec ==
    [made : BOOLEAN, conn : {"open", "closed"}, closed : BOOLEAN, broken : BOOLEAN, expected : Int,
     reqch : Seq(Reqs), writech : Seq(Reqs), closech : BOOLEAN,
     rl : {"none", "peek", "check", "recv", "put", "deliver", "body", "unset", "exit", "gone"},
     rc : ReqOrNil, err : BOOLEAN, alive : BOOLEAN, hasBody : BOOLEAN, wait : Seq(BOOLEAN),
     wl : {"none", "select", "writing", "gone"}, wr : ReqOrNil, sent : Seq(Reqs), answers : Seq(ARec),
     eof : BOOLEAN, put : {"none", "check", "lock", "kept", "refused"}, late : BOOLEAN]
BodyRec == [st : {"none", "open", "closed"}, rerr : {"none", "EOF", "err"}, fn : BOOLEAN]
CloserRec == [st : {"idle", "closing"}, todo : Seq(Pcs), cancel : PcOrNil, left : SUBSET Reqs]

HttpTypeOK ==
    /\ opt \in DOMAIN Options
    /\ t \in TRec
    /\ u \in [Reqs -> URec]
    /\ d \in [Reqs -> DRec]
    /\ pc \in [Pcs -> PcRec]
    /\ body \in [Reqs -> BodyRec]
    /\ closer \in CloserRec
    /\ fatal \in BOOLEAN

(***************************************************************************)
(* Requests                                                                *)
(***************************************************************************)
UserOK(r) ==
    /\ u[r].of \in {nil, r}
    /\ u[r].st \in Early => u[r].pc = nil /\ u[r].of = nil
    /\ u[r].st \in Sending \cup {"sendreq"} => u[r].of = nil
    /\ u[r].st \notin Early \cup {"failed"} => u[r].pc # nil
    /\ body[r].fn => u[r].of = r
    /\ body[r].st = "open" /\ body[r].rerr = "none" => body[r].fn
    /\ body[r].rerr # "none" => u[r].st \in Signalling \cup {"body", "done"} /\ ~body[r].fn
    /\ u[r].st \in Signalling => body[r].rerr # "none"
    /\ u[r].st \in Signalling \ {"notalive"} => body[r].rerr = "EOF"

(***************************************************************************)
(* A claim to connection c: a place in the idle list, the dial it came     *)
(* from, a putIdleConn under way, a request whose response has not been    *)
(* read, or one whose body is read.  There is never more than one.         *)
(***************************************************************************)
User(r, c) == u[r].pc = c /\ u[r].of = nil
Reader(r, c) == u[r].pc = c /\ u[r].of = r /\ body[r].st = "open" /\ body[r].fn

Putting(p) == p.put \in {"check", "lock"}

Claim(k, x, c) ==
    \/ k = "idle" /\ x \in DOMAIN t.idle /\ t.idle[x] = c
    \/ k = "dial" /\ x \in Reqs /\ d[x].pc = c
    \/ k = "put" /\ x = nil /\ Putting(pc[c])
    \/ k = "user" /\ x \in Reqs /\ User(x, c)
    \/ k = "reader" /\ x \in Reqs /\ Reader(x, c)

Kinds == {"idle", "dial", "put", "user", "reader"}
Claimants == Nat \cup {nil}

OneClaim ==
    \A c \in Pcs : \A k, l \in Kinds, x, y \in Claimants :
      Claim(k, x, c) /\ Claim(l, y, c) => k = l /\ x = y

(* A connection that has not been dialed is nobody's.                      *)
Fresh(p) ==
    /\ p.rl = "none" /\ p.reqch = << >> /\ p.wait = << >>
    /\ p.writech = << >> /\ p.sent = << >> /\ p.answers = << >>

Unclaimed(c) ==
    ~pc[c].made =>
      /\ Fresh(pc[c])
      /\ \A k \in Kinds, x \in Claimants : ~Claim(k, x, c)

(***************************************************************************)
(* What is under way on c: at most the one request that has the claim.     *)
(***************************************************************************)
NoneOnWire(p) == p.writech = << >> /\ p.sent = << >> /\ p.answers = << >>

OnWire(p, r) ==
    \/ p.writech = <<r>> /\ p.sent = << >> /\ p.answers = << >>
    \/ p.writech = << >> /\ p.sent = <<r>> /\ p.answers = << >>
    \/ p.writech = << >> /\ p.sent = << >> /\ \E a \in ARec : a.r = r /\ p.answers = <<a>>

(* After a Peek without an error there is something to read.               *)
ToRead(p) == p.rl \in {"check", "recv"} /\ ~p.err => p.answers # << >>

WireOK(c) ==
    /\ NoneOnWire(pc[c]) \/ \E r \in Reqs : User(r, c) /\ u[r].st \notin Sending /\ OnWire(pc[c], r)
    /\ \/ pc[c].reqch = << >>
       \/ \E r \in Reqs : User(r, c) /\ u[r].st \notin Sending \cup {"sendreq"} /\ pc[c].reqch = <<r>>
    /\ ToRead(pc[c])

(***************************************************************************)
(* readLoop waits for the body of its request, or is about to.  When it    *)
(* has been told that the connection is not to be used again, it looks at  *)
(* it no more.                                                             *)
(***************************************************************************)
InBody(p) == p.rl = "body" \/ (p.rl = "deliver" /\ p.hasBody)

Doomed(p) ==
    \/ p.rl \in {"exit", "gone"}
    \/ p.rl = "unset" /\ ~p.alive
    \/ InBody(p) /\ p.wait # << >> /\ ~Head(p.wait)

(* The read of r's body has failed, and readLoop has been told.            *)
Errored(r) == u[r].st = "body" /\ body[r].st = "open" /\ body[r].rerr = "err"

LoopOK(c) ==
    /\ pc[c].wait # << >> => InBody(pc[c]) \/ Doomed(pc[c])
    /\ \A r \in Reqs : u[r].pc = c =>
         /\ Reader(r, c) \/ u[r].st \in Signalling =>
              pc[c].rc = r /\ InBody(pc[c]) /\ pc[c].wait = << >>
         /\ Errored(r) => Doomed(pc[c])

TransportInv ==
    /\ HttpTypeOK /\ ~fatal
    /\ \A r \in Reqs : UserOK(r)
    /\ OneClaim
    /\ \A c \in Pcs : Unclaimed(c) /\ WireOK(c) /\ LoopOK(c)
=============================================================================
