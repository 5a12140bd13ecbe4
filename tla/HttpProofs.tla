----------------------------- MODULE HttpProofs -----------------------------
(***************************************************************************)
(* TransportSafe for any number of requests and connections, whatever the  *)
(* options, and whenever servers hang up, requests time out and idle       *)
(* connections are closed.                                                 *)
(***************************************************************************)
EXTENDS HttpInv, FiniteSetTheorems, WellFoundedInduction, TLAPS

(***************************************************************************)
(* Lemmas about numbers and claims.                                        *)
(***************************************************************************)

(* Every non-empty set of naturals has a least element.                    *)
LEMMA LeastPc ==
    ASSUME NEW S, S \subseteq Nat, S # {}
    PROVE  Min(S) \in S /\ \A j \in S : Min(S) <= j
<1> DEFINE R == OpToRel(<, Nat)
<1>1. \E x \in S : \A y \in S : ~(<<y, x>> \in R)
  <2>1. IsWellFoundedOn(R, Nat)
    BY NatLessThanWellFounded
  <2> HIDE DEF R
  <2> QED BY <2>1, WFMin
<1>2. \A x, y \in Nat : ~(<<y, x>> \in R) => x <= y
  BY DEF OpToRel
<1>3. \E x \in S : \A y \in S : x <= y
  BY <1>1, <1>2
<1> QED BY <1>3 DEF Min

(* A non-empty set of indices has a greatest element.                      *)
LEMMA GreatestIndex ==
    ASSUME NEW n \in Nat, NEW S, S \subseteq 1 .. n, S # {}
    PROVE  Max(S) \in S
<1> DEFINE R == {n - i : i \in S}
<1>1. R \subseteq Nat
  OBVIOUS
<1>6. R # {}
  OBVIOUS
<1>2. PICK m \in R : \A j \in R : m <= j
  BY <1>1, <1>6, LeastPc
<1>3. PICK x \in S : m = n - x
  OBVIOUS
<1>4. \A y \in S : n - x <= n - y
  BY <1>2, <1>3
<1>5. \A y \in S : x >= y
  BY <1>4
<1> QED BY <1>3, <1>5 DEF Max

(* No claim is new.                                                        *)
LEMMA ClaimsKept ==
    ASSUME OneClaim,
           \A c \in Pcs, k \in Kinds, x \in Claimants : Claim(k, x, c)' => Claim(k, x, c)
    PROVE  OneClaim'
BY DEF Claimants, OneClaim

(* One claim to c0 has taken the place of another.                         *)
LEMMA ClaimMoves ==
    ASSUME OneClaim, NEW c0 \in Pcs, NEW ko \in Kinds, NEW xo \in Claimants, NEW kn, NEW xn,
           Claim(ko, xo, c0), ~Claim(ko, xo, c0)',
           \A c \in Pcs, k \in Kinds, x \in Claimants :
             Claim(k, x, c)' => Claim(k, x, c) \/ (c = c0 /\ k = kn /\ x = xn)
    PROVE  OneClaim'
<1>1. Claimants' = Claimants
  BY DEF Claimants
<1> SUFFICES ASSUME NEW c \in Pcs, NEW k \in Kinds, NEW l \in Kinds, NEW x \in Claimants,
                    NEW y \in Claimants, Claim(k, x, c)', Claim(l, y, c)'
             PROVE  k = l /\ x = y
  BY <1>1, Zenon DEF OneClaim
<1>2. CASE c # c0
  BY <1>2 DEF OneClaim
<1>3. CASE c = c0
  <2>1. ASSUME NEW m \in Kinds, NEW z \in Claimants, Claim(m, z, c0)'
        PROVE  m = kn /\ z = xn
    <3>1. Claim(m, z, c0) \/ (m = kn /\ z = xn)
      BY <2>1
    <3>2. ASSUME Claim(m, z, c0) PROVE FALSE
      BY <3>2, <2>1 DEF OneClaim
    <3> QED BY <3>1, <3>2
  <2> QED BY <2>1, <1>3
<1> QED BY <1>2, <1>3

(* The first claim to c0.                                                  *)
LEMMA ClaimBegins ==
    ASSUME OneClaim, NEW c0 \in Pcs, NEW kn, NEW xn,
           \A k \in Kinds, x \in Claimants : ~Claim(k, x, c0),
           \A c \in Pcs, k \in Kinds, x \in Claimants :
             Claim(k, x, c)' => Claim(k, x, c) \/ (c = c0 /\ k = kn /\ x = xn)
    PROVE  OneClaim'
<1>1. Claimants' = Claimants
  BY DEF Claimants
<1> SUFFICES ASSUME NEW c \in Pcs, NEW k \in Kinds, NEW l \in Kinds, NEW x \in Claimants,
                    NEW y \in Claimants, Claim(k, x, c)', Claim(l, y, c)'
             PROVE  k = l /\ x = y
  BY <1>1, Zenon DEF OneClaim
<1>2. CASE c # c0
  BY <1>2 DEF OneClaim
<1>3. CASE c = c0
  BY <1>3
<1> QED BY <1>2, <1>3

(***************************************************************************)
(* What a step leaves alone.                                               *)
(***************************************************************************)
SameWire(p, q) ==
    q.writech = p.writech /\ q.sent = p.sent /\ q.answers = p.answers /\ q.reqch = p.reqch

SameLoop(p, q) ==
    /\ q.rl = p.rl /\ q.rc = p.rc /\ q.alive = p.alive /\ q.hasBody = p.hasBody
    /\ q.wait = p.wait

(* A request goes on without a connection or a body changing hands.        *)
Benign(a, b) ==
    \/ a = b
    \/ a = "start" /\ b = "getch"
    \/ a = "getch" /\ b = "gotch"
    \/ a = "gotch" /\ b = "select"
    \/ a = "select" /\ b = "failed"
    \/ a = "setreq" /\ b = "expect"
    \/ a = "expect" /\ b = "send"
    \/ a = "wait" /\ b = "unexpect"
    \/ a = "unexpect" /\ b \in {"forget", "body"}
    \/ a = "forget" /\ b = "failed"
    \/ a = "body" /\ b = "done"
    \/ a = "eof" /\ b \in {"alive", "brokenalive", "notalive"}

LEMMA WireKept ==
    ASSUME NEW c \in Pcs, WireOK(c), SameWire(pc[c], pc'[c]), ToRead(pc'[c]),
           \A r \in Reqs : User(r, c) =>
             /\ User(r, c)'
             /\ u[r].st \notin Sending => u'[r].st \notin Sending
             /\ u[r].st \notin Sending \cup {"sendreq"} => u'[r].st \notin Sending \cup {"sendreq"}
    PROVE  WireOK(c)'
BY DEF SameWire, NoneOnWire, OnWire, WireOK

LEMMA LoopKept ==
    ASSUME NEW c \in Pcs, LoopOK(c), SameLoop(pc[c], pc'[c]),
           \A r \in Reqs : u'[r].pc = c =>
             /\ u[r].pc = c
             /\ Reader(r, c)' => Reader(r, c)
             /\ u'[r].st \in Signalling => u[r].st \in Signalling
             /\ Errored(r)' => Errored(r)
    PROVE  LoopOK(c)'
BY DEF SameLoop, InBody, Doomed, LoopOK

(* A step that gives nobody a connection.                                  *)
LEMMA QuietStep ==
    ASSUME TransportInv, HttpTypeOK', ~fatal', body' = body,
           \A r \in Reqs : /\ u'[r].pc = u[r].pc /\ u'[r].of = u[r].of
                           /\ Benign(u[r].st, u'[r].st) /\ d'[r].pc = d[r].pc,
           \A x \in DOMAIN t'.idle : x \in DOMAIN t.idle /\ t'.idle[x] = t.idle[x],
           \A c \in Pcs : /\ pc'[c].made = pc[c].made /\ (Putting(pc'[c]) => Putting(pc[c]))
                          /\ (~pc[c].made => Fresh(pc'[c])) /\ WireOK(c)' /\ LoopOK(c)'
    PROVE  TransportInv'
<1>1. \A r \in Reqs : UserOK(r)'
  BY DEF TransportInv, UserOK, Benign, Early, Signalling, Sending
<1>2. \A c \in Pcs, k \in Kinds, x \in Claimants : Claim(k, x, c)' => Claim(k, x, c)
  BY DEF Claim, User, Reader
<1>3. OneClaim'
  BY <1>2, ClaimsKept DEF TransportInv
<1>4. \A c \in Pcs : Unclaimed(c)'
  BY <1>2 DEF Unclaimed, TransportInv, Claimants
<1> QED BY <1>1, <1>3, <1>4, Zenon DEF TransportInv

(* A connection whose loop and wire are as they were.                      *)
SameConn(p, q) ==
    /\ q.made = p.made /\ q.err = p.err /\ SameWire(p, q) /\ SameLoop(p, q)
    /\ Putting(q) => Putting(p)

LEMMA QuietUsers ==
    ASSUME TransportInv, HttpTypeOK', ~fatal', body' = body,
           \A r \in Reqs : /\ u'[r].pc = u[r].pc /\ u'[r].of = u[r].of
                           /\ Benign(u[r].st, u'[r].st) /\ d'[r].pc = d[r].pc,
           \A x \in DOMAIN t'.idle : x \in DOMAIN t.idle /\ t'.idle[x] = t.idle[x],
           \A c \in Pcs : SameConn(pc[c], pc'[c])
    PROVE  TransportInv'
<1>1. ASSUME NEW c \in Pcs
      PROVE  WireOK(c)'
  BY WireKept DEF TransportInv, WireOK, ToRead, SameConn, SameWire, SameLoop, User, Benign, Sending
<1>2. ASSUME NEW c \in Pcs
      PROVE  LoopOK(c)'
  <2>1. ASSUME NEW r \in Reqs, u'[r].pc = c
        PROVE  /\ u[r].pc = c
               /\ Reader(r, c)' => Reader(r, c)
               /\ u'[r].st \in Signalling => u[r].st \in Signalling
               /\ Errored(r)' => Errored(r)
    BY <2>1 DEF TransportInv, Reader, Benign, Signalling, Errored, UserOK
  <2>2. LoopOK(c) /\ SameLoop(pc[c], pc'[c])
    BY DEF TransportInv, SameConn
  <2> QED BY <2>1, <2>2, LoopKept
<1>3. ASSUME NEW c \in Pcs
      PROVE  /\ pc'[c].made = pc[c].made /\ (Putting(pc'[c]) => Putting(pc[c]))
             /\ (~pc[c].made => Fresh(pc'[c])) /\ WireOK(c)' /\ LoopOK(c)'
  BY <1>1, <1>2 DEF TransportInv, Unclaimed, Fresh, SameConn, SameWire, SameLoop
<1> QED BY <1>3, QuietStep

LEMMA EmptySeq == \A S : << >> \in Seq(S) /\ DOMAIN << >> = {}
OBVIOUS

(* Nothing but the place of r changes, and who dials or cancels.           *)
LEMMA UserMoves ==
    ASSUME TransportInv, NEW r \in Reqs, NEW w \in URec, u' = [u EXCEPT ![r] = w],
           w.pc = u[r].pc, w.of = u[r].of, Benign(u[r].st, w.st),
           UNCHANGED <<opt, body, fatal>>,
           t' \in TRec, t'.idle = t.idle \/ t'.idle = << >>,
           d' \in [Reqs -> DRec], \A q \in Reqs : d'[q].pc = d[q].pc,
           pc' \in [Pcs -> PcRec], \A c \in Pcs : SameConn(pc[c], pc'[c]),
           closer' \in CloserRec
    PROVE  TransportInv'
<1>1. HttpTypeOK /\ ~fatal
  BY DEF TransportInv
<1>2. u \in [Reqs -> URec] /\ u' \in [Reqs -> URec]
  BY <1>1 DEF HttpTypeOK
<1>3. HttpTypeOK' /\ ~fatal'
  BY <1>1, <1>2 DEF HttpTypeOK
<1>4. \A q \in Reqs : u'[q].pc = u[q].pc /\ u'[q].of = u[q].of /\ Benign(u[q].st, u'[q].st)
  BY <1>2 DEF Benign
<1>5. \A x \in DOMAIN t'.idle : x \in DOMAIN t.idle /\ t'.idle[x] = t.idle[x]
  BY EmptySeq
<1> QED BY <1>3, <1>4, <1>5, QuietUsers

LEMMA SameConnSelf == \A p : SameConn(p, p)
BY DEF SameConn, SameWire, SameLoop

LEMMA ConnKept ==
    ASSUME TransportInv, NEW c \in Pcs, NEW q \in PcRec, SameConn(pc[c], q),
           pc' = [pc EXCEPT ![c] = q]
    PROVE  pc' \in [Pcs -> PcRec] /\ \A x \in Pcs : SameConn(pc[x], pc'[x])
BY SameConnSelf DEF TransportInv, HttpTypeOK

LEMMA AllConnsKept ==
    ASSUME TransportInv, pc' = pc
    PROVE  pc' \in [Pcs -> PcRec] /\ \A x \in Pcs : SameConn(pc[x], pc'[x])
BY SameConnSelf DEF TransportInv, HttpTypeOK

LEMMA ClosedConn ==
    ASSUME NEW p \in PcRec
    PROVE  Closed(p) \in PcRec /\ SameConn(p, Closed(p))
BY DEF Closed, PcRec, SameConn, SameWire, SameLoop, Putting

LEMMA CountConn ==
    ASSUME NEW p \in PcRec
    PROVE  LET q == [p EXCEPT !.expected = @ + 1]
               s == [p EXCEPT !.expected = @ - 1]
           IN  q \in PcRec /\ SameConn(p, q) /\ s \in PcRec /\ SameConn(p, s)
<1> DEFINE q == [p EXCEPT !.expected = @ + 1]
           s == [p EXCEPT !.expected = @ - 1]
<1>0. p.expected + 1 \in Int /\ p.expected - 1 \in Int
  BY DEF PcRec
<1>1. q \in PcRec /\ s \in PcRec
  BY <1>0 DEF PcRec
<1>2. SameConn(p, q)
  BY DEF PcRec, SameConn, SameWire, SameLoop, Putting
<1>3. SameConn(p, s)
  BY DEF PcRec, SameConn, SameWire, SameLoop, Putting
<1> QED BY <1>1, <1>2, <1>3

(* The types of the variables one by one.                                  *)
LEMMA Types ==
    ASSUME TransportInv
    PROVE  /\ t \in TRec /\ t.idle \in Seq(Pcs) /\ t.ch \in ReqOrNil
           /\ u \in [Reqs -> URec] /\ d \in [Reqs -> DRec]
           /\ pc \in [Pcs -> PcRec] /\ body \in [Reqs -> BodyRec] /\ closer \in CloserRec
           /\ fatal = FALSE /\ opt \in DOMAIN Options
BY DEF TransportInv, HttpTypeOK, TRec

(* A request that has come this far has a connection.                      *)
LEMMA HasConn ==
    ASSUME TransportInv, NEW r \in Reqs, u[r].st \notin Early \cup {"failed"}
    PROVE  u[r].pc \in Pcs
BY DEF TransportInv, HttpTypeOK, URec, UserOK, PcOrNil

(***************************************************************************)
(* getConn and roundTrip: steps in which nothing changes hands.            *)
(***************************************************************************)
LEMMA UserTypes ==
    ASSUME NEW v \in URec, NEW l \in Places
    PROVE  LET w == [v EXCEPT !.st = l] IN
           w \in URec /\ w.pc = v.pc /\ w.of = v.of /\ w.st = l
BY DEF URec

LEMMA getConnInv ==
    ASSUME TransportInv, NEW r \in Reqs, getConn(r)
    PROVE  TransportInv'
<1> DEFINE w == [u[r] EXCEPT !.st = "getch"]
<1>1. w \in URec /\ w.pc = u[r].pc /\ w.of = u[r].of /\ w.st = "getch"
  BY Types, UserTypes DEF Places, Early
<1>2. u' = [u EXCEPT ![r] = w]
  BY DEF getConn, UserTo
<1>3. Benign(u[r].st, w.st)
  BY <1>1 DEF Benign, getConn
<1>4. t' \in TRec /\ t'.idle = << >>
  BY EmptySeq, Types DEF getConn, TRec
<1>5. d' \in [Reqs -> DRec] /\ \A q \in Reqs : d'[q].pc = d[q].pc
  BY Types DEF getConn, DRec
<1>6. UNCHANGED <<opt, body, fatal>> /\ closer' \in CloserRec /\ pc' = pc
  BY Types DEF getConn
<1> HIDE DEF w
<1> QED BY <1>1, <1>2, <1>3, <1>4, <1>5, <1>6, AllConnsKept, UserMoves

LEMMA getIdleConnChInv ==
    ASSUME TransportInv, NEW r \in Reqs, getIdleConnCh(r)
    PROVE  TransportInv'
<1> DEFINE ch == IF t.ch = nil THEN r ELSE t.ch
           w == [u[r] EXCEPT !.st = "gotch", !.ch = IF Opt.keepAlives THEN ch ELSE nil]
<1>0. ch \in ReqOrNil
  BY Types DEF ReqOrNil
<1>1. w \in URec /\ w.pc = u[r].pc /\ w.of = u[r].of /\ w.st = "gotch"
  <2>1. (IF Opt.keepAlives THEN ch ELSE nil) \in ReqOrNil
    BY <1>0 DEF ReqOrNil
  <2> HIDE DEF ch
  <2> QED BY <2>1, Types DEF URec, Places, Early
<1>2. u' = [u EXCEPT ![r] = w]
  BY DEF getIdleConnCh
<1>3. Benign(u[r].st, w.st)
  BY <1>1 DEF Benign, getIdleConnCh
<1>4. t' \in TRec /\ t'.idle = t.idle
  <2>1. t' = [t EXCEPT !.ch = IF Opt.keepAlives THEN ch ELSE t.ch]
    BY DEF getIdleConnCh
  <2>2. (IF Opt.keepAlives THEN ch ELSE t.ch) \in ReqOrNil
    BY <1>0, Types
  <2> HIDE DEF ch
  <2> QED BY <2>1, <2>2, Types DEF TRec
<1>5. UNCHANGED <<opt, body, fatal, d>> /\ closer' \in CloserRec /\ pc' = pc
  BY Types DEF getIdleConnCh
<1>6. d' \in [Reqs -> DRec]
  BY <1>5, Types
<1> HIDE DEF w
<1> QED BY <1>1, <1>2, <1>3, <1>4, <1>5, <1>6, AllConnsKept, UserMoves

LEMMA AwaitConnInv ==
    ASSUME TransportInv, NEW r \in Reqs, AwaitConn(r)
    PROVE  TransportInv'
<1> DEFINE w == [u[r] EXCEPT !.st = "select"]
<1>1. w \in URec /\ w.pc = u[r].pc /\ w.of = u[r].of /\ w.st = "select"
  BY Types, UserTypes DEF Places, Early
<1>2. u' = [u EXCEPT ![r] = w]
  BY DEF AwaitConn, UserTo
<1>3. Benign(u[r].st, w.st)
  BY <1>1 DEF Benign, AwaitConn
<1>4. UNCHANGED <<opt, t, d, pc, body, closer, fatal>>
  BY DEF AwaitConn
<1>5. t' \in TRec /\ d' \in [Reqs -> DRec] /\ closer' \in CloserRec
  BY <1>4, Types
<1> HIDE DEF w
<1> QED BY <1>1, <1>2, <1>3, <1>4, <1>5, AllConnsKept, UserMoves

LEMMA setReqConnInv ==
    ASSUME TransportInv, NEW r \in Reqs, setReqConn(r)
    PROVE  TransportInv'
<1> DEFINE w == [u[r] EXCEPT !.st = "expect"]
<1>1. w \in URec /\ w.pc = u[r].pc /\ w.of = u[r].of /\ w.st = "expect"
  BY Types, UserTypes DEF Places, Sending
<1>2. u' = [u EXCEPT ![r] = w]
  BY DEF setReqConn, UserTo
<1>3. Benign(u[r].st, w.st)
  BY <1>1 DEF Benign, setReqConn
<1>4. t' \in TRec /\ t'.idle = t.idle
  <2>1. u[r].pc \in PcOrNil
    BY Types DEF URec
  <2> QED BY <2>1, Types DEF setReqConn, TRec
<1>5. UNCHANGED <<opt, body, fatal, d>> /\ closer' \in CloserRec /\ pc' = pc
  BY Types DEF setReqConn
<1>6. d' \in [Reqs -> DRec]
  BY <1>5, Types
<1> HIDE DEF w
<1> QED BY <1>1, <1>2, <1>3, <1>4, <1>5, <1>6, AllConnsKept, UserMoves

(* Steps of r that leave the Transport and its dials alone.                *)
LEMMA UserAndConn ==
    ASSUME TransportInv, NEW r \in Reqs, NEW w \in URec, u' = [u EXCEPT ![r] = w],
           w.pc = u[r].pc, w.of = u[r].of, Benign(u[r].st, w.st),
           UNCHANGED <<opt, t, d, body, closer, fatal>>,
           \/ pc' = pc
           \/ \E c \in Pcs, q \in PcRec : pc' = [pc EXCEPT ![c] = q] /\ SameConn(pc[c], q)
    PROVE  TransportInv'
BY AllConnsKept, ConnKept, Types, UserMoves

LEMMA ExpectInv ==
    ASSUME TransportInv, NEW r \in Reqs, Expect(r)
    PROVE  TransportInv'
<1> DEFINE w == [u[r] EXCEPT !.st = "send"]
           c == u[r].pc
           q == [pc[c] EXCEPT !.expected = @ + 1]
<1>1. w \in URec /\ w.pc = u[r].pc /\ w.of = u[r].of /\ w.st = "send"
  BY Types, UserTypes DEF Places, Sending
<1>2. u' = [u EXCEPT ![r] = w]
  BY DEF Expect, UserTo
<1>3. Benign(u[r].st, w.st)
  BY <1>1 DEF Benign, Expect
<1>4. c \in Pcs
  BY HasConn DEF Expect, Early
<1>5. pc' = [pc EXCEPT ![c] = q]
  BY DEF Expect
<1>6. q \in PcRec /\ SameConn(pc[c], q)
  <2>1. pc[c] \in PcRec
    BY <1>4, Types
  <2> QED BY <2>1, CountConn
<1>7. UNCHANGED <<opt, t, d, body, closer, fatal>>
  BY DEF Expect
<1> HIDE DEF w, c, q
<1> QED BY <1>1, <1>2, <1>3, <1>4, <1>5, <1>6, <1>7, UserAndConn

LEMMA UnexpectInv ==
    ASSUME TransportInv, NEW r \in Reqs, Unexpect(r)
    PROVE  TransportInv'
<1> DEFINE l == IF u[r].err THEN "forget" ELSE "body"
           w == [u[r] EXCEPT !.st = l]
           c == u[r].pc
           q == [pc[c] EXCEPT !.expected = @ - 1]
<1>0. l \in {"forget", "body"}
  OBVIOUS
<1>1. w \in URec /\ w.pc = u[r].pc /\ w.of = u[r].of /\ w.st = l
  <2> HIDE DEF l
  <2>1. u[r] \in URec /\ l \in Places
    BY <1>0, Types DEF Places
  <2> QED BY <2>1, UserTypes
<1>2. u' = [u EXCEPT ![r] = w]
  <2>1. UserTo(r, l)
    BY Zenon DEF Unexpect
  <2> HIDE DEF l
  <2> QED BY <2>1 DEF UserTo
<1>3. Benign(u[r].st, w.st)
  BY <1>0, <1>1 DEF Benign, Unexpect
<1>4. c \in Pcs
  BY HasConn DEF Unexpect, Early
<1>5. pc' = [pc EXCEPT ![c] = q]
  BY DEF Unexpect
<1>6. q \in PcRec /\ SameConn(pc[c], q)
  <2>1. pc[c] \in PcRec
    BY <1>4, Types
  <2> QED BY <2>1, CountConn
<1>7. UNCHANGED <<opt, t, d, body, closer, fatal>>
  BY DEF Unexpect
<1> HIDE DEF w, c, q, l
<1> QED BY <1>1, <1>2, <1>3, <1>4, <1>5, <1>6, <1>7, UserAndConn

(* What r does when it gives up, whatever becomes of its connection.       *)
LEMMA GivesUp ==
    ASSUME TransportInv, NEW r \in Reqs, u[r].st = "wait", u' = GiveUp(r),
           UNCHANGED <<opt, t, d, body, closer, fatal>>,
           pc' = pc \/ pc' = [pc EXCEPT ![u[r].pc] = Closed(@)]
    PROVE  TransportInv'
<1> DEFINE w == [u[r] EXCEPT !.st = "unexpect", !.err = TRUE]
           c == u[r].pc
           q == Closed(pc[c])
<1>1. w \in URec /\ w.pc = u[r].pc /\ w.of = u[r].of /\ w.st = "unexpect"
  BY Types DEF URec, Places
<1>2. u' = [u EXCEPT ![r] = w]
  BY DEF GiveUp
<1>3. Benign(u[r].st, w.st)
  BY <1>1 DEF Benign
<1>4. c \in Pcs
  BY HasConn DEF Early
<1>5. pc' = pc \/ pc' = [pc EXCEPT ![c] = q]
  OBVIOUS
<1>6. q \in PcRec /\ SameConn(pc[c], q)
  BY <1>4, Types, ClosedConn
<1> HIDE DEF w, c, q
<1> QED BY <1>1, <1>2, <1>3, <1>4, <1>5, <1>6, UserAndConn

LEMMA WrittenInv ==
    ASSUME TransportInv, NEW r \in Reqs, Written(r)
    PROVE  TransportInv'
<1>0. u[r].st = "wait" /\ UNCHANGED <<opt, t, d, body, closer, fatal>>
  BY DEF Written
<1>1. CASE u[r].werr = "err"
  BY <1>0, <1>1, GivesUp DEF Written
<1>2. CASE u[r].werr # "err"
  <2> DEFINE w == [u[r] EXCEPT !.werr = "seen", !.timer = Opt.headerTimeout]
  <2>1. Opt.headerTimeout \in BOOLEAN
    BY Types, HttpConstants DEF Opt
  <2>2. w \in URec /\ w.pc = u[r].pc /\ w.of = u[r].of /\ w.st = u[r].st
    BY <2>1, Types DEF URec
  <2>3. u' = [u EXCEPT ![r] = w] /\ pc' = pc
    BY <1>2 DEF Written
  <2>4. Benign(u[r].st, w.st)
    BY <2>2 DEF Benign
  <2> HIDE DEF w
  <2> QED BY <1>0, <2>2, <2>3, <2>4, UserAndConn
<1> QED BY <1>1, <1>2

LEMMA DeadInv ==
    ASSUME TransportInv, NEW r \in Reqs, Dead(r)
    PROVE  TransportInv'
<1> DEFINE w == [u[r] EXCEPT !.dead = TRUE]
<1>1. w \in URec /\ w.pc = u[r].pc /\ w.of = u[r].of /\ w.st = u[r].st
  BY Types DEF URec
<1>2. u' = [u EXCEPT ![r] = w] /\ pc' = pc /\ UNCHANGED <<opt, t, d, body, closer, fatal>>
  BY DEF Dead
<1>3. Benign(u[r].st, w.st)
  BY <1>1 DEF Benign
<1> HIDE DEF w
<1> QED BY <1>1, <1>2, <1>3, UserAndConn

LEMMA TimeoutInv ==
    ASSUME TransportInv, NEW r \in Reqs, FailTicker(r) \/ HeaderTimeout(r)
    PROVE  TransportInv'
BY GivesUp DEF FailTicker, HeaderTimeout

LEMMA ResponseInv ==
    ASSUME TransportInv, NEW r \in Reqs, Response(r)
    PROVE  TransportInv'
<1> DEFINE e == (u[r].res = "err")
           w == [u[r] EXCEPT !.st = "unexpect", !.err = e]
<1>0. e \in BOOLEAN
  OBVIOUS
<1>2. u' = [u EXCEPT ![r] = w] /\ pc' = pc /\ UNCHANGED <<opt, t, d, body, closer, fatal>>
  BY DEF Response
<1> HIDE DEF e
<1>1. w \in URec /\ w.pc = u[r].pc /\ w.of = u[r].of /\ w.st = "unexpect"
  BY <1>0, Types DEF URec, Places
<1>3. Benign(u[r].st, w.st)
  BY <1>1 DEF Benign, Response
<1> HIDE DEF w
<1> QED BY <1>1, <1>2, <1>3, UserAndConn

LEMMA ForgetInv ==
    ASSUME TransportInv, NEW r \in Reqs, Forget(r)
    PROVE  TransportInv'
<1> DEFINE w == [u[r] EXCEPT !.st = "failed"]
<1>1. w \in URec /\ w.pc = u[r].pc /\ w.of = u[r].of /\ w.st = "failed"
  BY Types, UserTypes DEF Places
<1>2. u' = [u EXCEPT ![r] = w]
  BY DEF Forget, UserTo
<1>3. Benign(u[r].st, w.st)
  BY <1>1 DEF Benign, Forget
<1>4. t' \in TRec /\ t'.idle = t.idle
  <2>1. nil \in PcOrNil
    BY DEF PcOrNil
  <2> QED BY <2>1, Types DEF Forget, TRec
<1>5. UNCHANGED <<opt, body, fatal, d>> /\ closer' \in CloserRec /\ pc' = pc
  BY Types DEF Forget
<1>6. d' \in [Reqs -> DRec]
  BY <1>5, Types
<1> HIDE DEF w
<1> QED BY <1>1, <1>2, <1>3, <1>4, <1>5, <1>6, AllConnsKept, UserMoves

LEMMA NoBodyInv ==
    ASSUME TransportInv, NEW r \in Reqs, NoBody(r)
    PROVE  TransportInv'
<1> DEFINE w == [u[r] EXCEPT !.st = "done"]
<1>1. w \in URec /\ w.pc = u[r].pc /\ w.of = u[r].of /\ w.st = "done"
  BY Types, UserTypes DEF Places
<1>2. u' = [u EXCEPT ![r] = w]
  BY DEF NoBody, UserTo
<1>3. Benign(u[r].st, w.st)
  BY <1>1 DEF Benign, NoBody
<1>4. pc' = pc /\ UNCHANGED <<opt, t, d, body, closer, fatal>>
  BY DEF NoBody
<1> HIDE DEF w
<1> QED BY <1>1, <1>2, <1>3, <1>4, UserAndConn

LEMMA EOFPutInv ==
    ASSUME TransportInv, NEW r \in Reqs, EOFPut(r)
    PROVE  TransportInv'
<1> DEFINE c == u[r].pc
           l == IF pc[c].put = "refused" THEN "notalive"
                ELSE IF pc[c].broken THEN "brokenalive" ELSE "alive"
           w == [u[r] EXCEPT !.st = l]
           q == [pc[c] EXCEPT !.put = "none"]
<1>0. l \in {"alive", "brokenalive", "notalive"}
  OBVIOUS
<1>1. w \in URec /\ w.pc = u[r].pc /\ w.of = u[r].of /\ w.st = l
  <2> HIDE DEF l
  <2>1. u[r] \in URec /\ l \in Places
    BY <1>0, Types DEF Places, Signalling
  <2> QED BY <2>1, UserTypes
<1>2. u' = [u EXCEPT ![r] = w]
  <2>1. UserTo(r, l)
    BY Zenon DEF EOFPut
  <2> HIDE DEF l
  <2> QED BY <2>1 DEF UserTo
<1>3. Benign(u[r].st, w.st)
  BY <1>0, <1>1 DEF Benign, EOFPut
<1>4. c \in Pcs
  BY HasConn DEF EOFPut, Early
<1>5. pc' = [pc EXCEPT ![c] = q]
  BY DEF EOFPut
<1>6. q \in PcRec /\ SameConn(pc[c], q)
  <2>1. pc[c] \in PcRec
    BY <1>4, Types
  <2> HIDE DEF c
  <2>2. PICK p \in PcRec : p = pc[c]
    BY <2>1
  <2>3. [p EXCEPT !.put = "none"] \in PcRec /\ SameConn(p, [p EXCEPT !.put = "none"])
    BY DEF PcRec, SameConn, SameWire, SameLoop, Putting
  <2> QED BY <2>2, <2>3
<1>7. UNCHANGED <<opt, t, d, body, closer, fatal>>
  BY DEF EOFPut
<1> HIDE DEF w, c, q, l
<1> QED BY <1>1, <1>2, <1>3, <1>4, <1>5, <1>6, <1>7, UserAndConn

(***************************************************************************)
(* The server, the closer and writeLoop's end: connections only.           *)
(***************************************************************************)
LEMMA OnlyConn ==
    ASSUME TransportInv, UNCHANGED <<opt, body, fatal>>,
           u' \in [Reqs -> URec],
           \A r \in Reqs : u'[r].pc = u[r].pc /\ u'[r].of = u[r].of /\ u'[r].st = u[r].st,
           d' \in [Reqs -> DRec], \A r \in Reqs : d'[r].pc = d[r].pc,
           t' \in TRec, t'.idle = t.idle \/ t'.idle = << >>, closer' \in CloserRec,
           \/ pc' = pc
           \/ \E c \in Pcs, q \in PcRec : pc' = [pc EXCEPT ![c] = q] /\ SameConn(pc[c], q)
    PROVE  TransportInv'
<1>1. pc' \in [Pcs -> PcRec] /\ \A x \in Pcs : SameConn(pc[x], pc'[x])
  BY AllConnsKept, ConnKept
<1>2. HttpTypeOK' /\ ~fatal'
  BY <1>1, Types DEF HttpTypeOK
<1>3. \A r \in Reqs : Benign(u[r].st, u'[r].st)
  BY DEF Benign
<1>5. \A x \in DOMAIN t'.idle : x \in DOMAIN t.idle /\ t'.idle[x] = t.idle[x]
  BY EmptySeq
<1> QED BY <1>1, <1>2, <1>3, <1>5, QuietUsers

LEMMA putIdleCheckInv ==
    ASSUME TransportInv, NEW c \in Pcs, putIdleCheck(c)
    PROVE  TransportInv'
<1>0. PICK p \in PcRec : p = pc[c]
  BY Types
<1> DEFINE q == IF ~Opt.keepAlives THEN Put(Closed(p), "refused")
                ELSE IF p.broken THEN Put(p, "refused")
                ELSE [p EXCEPT !.put = "lock"]
<1>1. pc' = [pc EXCEPT ![c] = q]
  BY <1>0 DEF putIdleCheck
<1>2. p.put = "check"
  BY <1>0 DEF putIdleCheck
<1>3. ASSUME NEW v \in PcRec, NEW x \in {"none", "refused", "lock"}, SameConn(p, v)
      PROVE  [v EXCEPT !.put = x] \in PcRec /\ SameConn(p, [v EXCEPT !.put = x])
  BY <1>3, <1>2 DEF PcRec, SameConn, SameWire, SameLoop, Putting
<1>4. Closed(p) \in PcRec /\ SameConn(p, Closed(p)) /\ SameConn(p, p)
  BY ClosedConn, SameConnSelf
<1>5. Put(Closed(p), "refused") \in PcRec /\ SameConn(p, Put(Closed(p), "refused"))
  BY <1>3, <1>4 DEF Put
<1>6. Put(p, "refused") \in PcRec /\ SameConn(p, Put(p, "refused"))
  BY <1>3, <1>4 DEF Put
<1>7. q \in PcRec /\ SameConn(pc[c], q)
  BY <1>0, <1>3, <1>4, <1>5, <1>6
<1>8. UNCHANGED <<opt, t, u, d, body, closer, fatal>>
  BY DEF putIdleCheck
<1> HIDE DEF q
<1> QED BY <1>1, <1>7, <1>8, OnlyConn, Types

LEMMA WriteEndInv ==
    ASSUME TransportInv, NEW c \in Pcs, WriteEnd(c)
    PROVE  TransportInv'
<1>0. PICK p \in PcRec : p = pc[c]
  BY Types
<1>1. PICK ok \in BOOLEAN :
        /\ u' = [u EXCEPT ![p.wr].werr = IF ok THEN "nil" ELSE "err"]
        /\ pc' = [pc EXCEPT ![c] = [p EXCEPT !.wl = "select", !.wr = nil, !.broken = @ \/ ~ok]]
  BY <1>0 DEF WriteEnd, Loop
<1> DEFINE b == p.broken \/ ~ok
           q == [p EXCEPT !.wl = "select", !.wr = nil, !.broken = b]
<1>2. b \in BOOLEAN /\ pc' = [pc EXCEPT ![c] = q]
  BY <1>1
<1> HIDE DEF b
<1>3. q \in PcRec
  BY <1>2 DEF PcRec, ReqOrNil
<1>4. SameConn(p, q)
  BY DEF PcRec, SameConn, SameWire, SameLoop, Putting
<1>5. UNCHANGED <<opt, t, d, body, closer, fatal>>
  BY DEF WriteEnd
<1>6. u' \in [Reqs -> URec]
      /\ \A r \in Reqs : u'[r].pc = u[r].pc /\ u'[r].of = u[r].of /\ u'[r].st = u[r].st
  <2> DEFINE e == IF ok THEN "nil" ELSE "err"
  <2>1. e \in {"nil", "err"} /\ u' = [u EXCEPT ![p.wr].werr = e]
    BY <1>1
  <2> HIDE DEF e
  <2>2. \A v \in URec : LET w == [v EXCEPT !.werr = e] IN
          w \in URec /\ w.pc = v.pc /\ w.of = v.of /\ w.st = v.st
    BY <2>1 DEF URec
  <2>3. u \in [Reqs -> URec]
    BY Types
  <2>4. ASSUME NEW r \in Reqs
        PROVE  u'[r] = u[r] \/ u'[r] = [u[r] EXCEPT !.werr = e]
    BY <2>1, <2>3
  <2>5. DOMAIN u' = Reqs /\ u' = [r \in Reqs |-> u'[r]]
    BY <2>1, <2>3
  <2>6. ASSUME NEW r \in Reqs
        PROVE  u'[r] \in URec /\ u'[r].pc = u[r].pc /\ u'[r].of = u[r].of /\ u'[r].st = u[r].st
    <3>1. PICK v \in URec : v = u[r]
      BY <2>3
    <3>2. CASE u'[r] = v
      BY <3>1, <3>2
    <3>3. CASE u'[r] = [v EXCEPT !.werr = e]
      BY <2>2, <3>1, <3>3
    <3> QED BY <2>4, <3>1, <3>2, <3>3
  <2> QED BY <2>5, <2>6
<1> HIDE DEF q
<1> QED BY <1>0, <1>2, <1>3, <1>4, <1>5, <1>6, OnlyConn, Types

LEMMA WriteExitInv ==
    ASSUME TransportInv, NEW c \in Pcs, WriteExit(c)
    PROVE  TransportInv'
<1>0. PICK p \in PcRec : p = pc[c]
  BY Types
<1> DEFINE q == [p EXCEPT !.wl = "gone"]
<1>2. pc' = [pc EXCEPT ![c] = q]
  BY <1>0 DEF WriteExit, Loop
<1>3. q \in PcRec
  BY DEF PcRec
<1>4. SameConn(p, q)
  BY DEF PcRec, SameConn, SameWire, SameLoop, Putting
<1>5. UNCHANGED <<opt, t, u, d, body, closer, fatal>>
  BY DEF WriteExit
<1> HIDE DEF q
<1> QED BY <1>0, <1>2, <1>3, <1>4, <1>5, OnlyConn, Types

LEMMA ServerHangsUpInv ==
    ASSUME TransportInv, NEW c \in Pcs, ServerHangsUp(c)
    PROVE  TransportInv'
<1>0. PICK p \in PcRec : p = pc[c]
  BY Types
<1> DEFINE q == [p EXCEPT !.eof = TRUE]
<1>2. pc' = [pc EXCEPT ![c] = q]
  BY <1>0 DEF ServerHangsUp
<1>3. q \in PcRec
  BY DEF PcRec
<1>4. SameConn(p, q)
  BY DEF PcRec, SameConn, SameWire, SameLoop, Putting
<1>5. UNCHANGED <<opt, t, u, d, body, closer, fatal>>
  BY DEF ServerHangsUp
<1> HIDE DEF q
<1> QED BY <1>0, <1>2, <1>3, <1>4, <1>5, OnlyConn, Types

LEMMA CloseIdleInv ==
    ASSUME TransportInv, CloseIdleConnections
    PROVE  TransportInv'
<1>1. t' \in TRec /\ t'.idle = << >>
  BY EmptySeq, Types DEF CloseIdleConnections, ReqOrNil, TRec
<1>2. closer' \in CloserRec
  BY Types DEF CloseIdleConnections, CloserRec
<1>3. UNCHANGED <<opt, u, d, pc, body, fatal>>
  BY DEF CloseIdleConnections
<1> QED BY <1>1, <1>2, <1>3, OnlyConn, Types

LEMMA CloseNextInv ==
    ASSUME TransportInv, CloseNext
    PROVE  TransportInv'
<1> DEFINE c == Head(closer.todo)
<1>1. c \in Pcs /\ closer' \in CloserRec
  <2>1. closer.todo \in Seq(Pcs) /\ closer.todo # << >>
    BY Types DEF CloserRec, CloseNext
  <2>2. c \in Pcs /\ Tail(closer.todo) \in Seq(Pcs)
    BY <2>1
  <2>3. closer' = [closer EXCEPT !.todo = Tail(@)]
    BY DEF CloseNext
  <2> QED BY <2>2, <2>3, Types DEF CloserRec
<1>2. pc' = [pc EXCEPT ![c] = Closed(pc[c])]
  BY DEF CloseNext
<1> HIDE DEF c
<1>3. Closed(pc[c]) \in PcRec /\ SameConn(pc[c], Closed(pc[c]))
  BY <1>1, Types, ClosedConn
<1>4. UNCHANGED <<opt, t, u, d, body, fatal>>
  BY DEF CloseNext
<1> QED BY <1>1, <1>2, <1>3, <1>4, OnlyConn, Types

LEMMA CancelRequestInv ==
    ASSUME TransportInv, NEW r \in Reqs, CancelRequest(r)
    PROVE  TransportInv'
<1>1. closer' \in CloserRec
  BY Types DEF TRec, CancelRequest, CloserRec
<1>2. UNCHANGED <<opt, t, u, d, pc, body, fatal>>
  BY DEF CancelRequest
<1> QED BY <1>1, <1>2, OnlyConn, Types

LEMMA CancelCloseInv ==
    ASSUME TransportInv, CancelClose
    PROVE  TransportInv'
<1> DEFINE c == closer.cancel
<1>0. c \in Pcs
  BY DEF CancelClose
<1>1. PICK p \in PcRec : p = pc[c]
  BY <1>0, Types
<1> DEFINE q == [p EXCEPT !.conn = "closed"]
<1>2. pc' = [pc EXCEPT ![c] = q]
  BY <1>1 DEF CancelClose
<1>3. q \in PcRec
  BY DEF PcRec
<1>4. SameConn(p, q)
  BY DEF PcRec, SameConn, SameWire, SameLoop, Putting
<1>5. UNCHANGED <<opt, t, u, d, body, fatal>>
  BY DEF CancelClose
<1>6. closer' \in CloserRec
  BY Types DEF CancelClose, PcOrNil, CloserRec
<1> HIDE DEF q, c
<1> QED BY <1>0, <1>1, <1>2, <1>3, <1>4, <1>5, <1>6, OnlyConn, Types

(***************************************************************************)
(* Steps of one connection: readLoop, writeLoop and the server.            *)
(***************************************************************************)
SameUsers ==
    /\ u' \in [Reqs -> URec]
    /\ \A r \in Reqs : u'[r].pc = u[r].pc /\ u'[r].of = u[r].of /\ u'[r].st = u[r].st

LEMMA ConnStep ==
    ASSUME TransportInv, NEW c \in Pcs, NEW q \in PcRec, pc' = [pc EXCEPT ![c] = q],
           SameUsers, UNCHANGED <<opt, d, body, closer, fatal>>,
           t' \in TRec, t'.idle = t.idle,
           q.made = pc[c].made, Putting(q) => Putting(pc[c]), ~pc[c].made => Fresh(q),
           WireOK(c)', LoopOK(c)'
    PROVE  TransportInv'
<1>1. \A x \in Pcs : pc'[x] = IF x = c THEN q ELSE pc[x]
  BY Types
<1>2. HttpTypeOK' /\ ~fatal'
  <2>1. pc' \in [Pcs -> PcRec]
    BY Types
  <2> QED BY <2>1, Types DEF HttpTypeOK, SameUsers
<1>3. ASSUME NEW x \in Pcs
      PROVE  /\ pc'[x].made = pc[x].made /\ (Putting(pc'[x]) => Putting(pc[x]))
             /\ (~pc[x].made => Fresh(pc'[x])) /\ WireOK(x)' /\ LoopOK(x)'
  <2>1. CASE x = c
    BY <1>1, <2>1
  <2>2. CASE x # c
    BY <1>1, <2>2, WireKept, LoopKept DEF TransportInv, SameWire, SameLoop, WireOK, SameUsers,
        User, Reader, Errored, Unclaimed
  <2> QED BY <2>1, <2>2
<1>4. \A r \in Reqs : /\ u'[r].pc = u[r].pc /\ u'[r].of = u[r].of
                      /\ Benign(u[r].st, u'[r].st) /\ d'[r].pc = d[r].pc
  BY DEF SameUsers, Benign
<1>5. \A x \in DOMAIN t'.idle : x \in DOMAIN t.idle /\ t'.idle[x] = t.idle[x]
  BY Zenon
<1> QED BY <1>2, <1>3, <1>4, <1>5, QuietStep

LEMMA LoopIs ==
    ASSUME NEW c \in Pcs, NEW q, pc'[c] = q, SameUsers, body' = body,
           q.wait # << >> => InBody(q) \/ Doomed(q),
           \A r \in Reqs : u[r].pc = c =>
             /\ Reader(r, c) \/ u[r].st \in Signalling => q.rc = r /\ InBody(q) /\ q.wait = << >>
             /\ Errored(r) => Doomed(q)
    PROVE  LoopOK(c)'
<1>1. ASSUME NEW r \in Reqs, u'[r].pc = c
      PROVE  /\ Reader(r, c)' \/ u'[r].st \in Signalling => q.rc = r /\ InBody(q) /\ q.wait = << >>
             /\ Errored(r)' => Doomed(q)
  BY <1>1 DEF SameUsers, Reader, Errored
<1> QED BY <1>1, Zenon DEF LoopOK

(* readLoop is busy with no body: nobody reads from the connection.        *)
LEMMA LoopFree ==
    ASSUME TransportInv, NEW c \in Pcs, ~InBody(pc[c]), ~Doomed(pc[c])
    PROVE  /\ pc[c].wait = << >>
           /\ \A r \in Reqs : u[r].pc = c =>
                ~Reader(r, c) /\ u[r].st \notin Signalling /\ ~Errored(r)
<1>1. LoopOK(c)
  BY DEF TransportInv
<1> QED BY <1>1, Zenon DEF LoopOK

(* A step of readLoop that leaves the wire alone.                          *)
LEMMA LoopStep ==
    ASSUME TransportInv, NEW c \in Pcs, NEW q \in PcRec, pc' = [pc EXCEPT ![c] = q],
           SameUsers, UNCHANGED <<opt, d, body, closer, fatal>>,
           t' \in TRec, t'.idle = t.idle,
           pc[c].rl # "none", q.made = pc[c].made, Putting(q) => Putting(pc[c]),
           SameWire(pc[c], q), ToRead(q),
           q.wait # << >> => InBody(q) \/ Doomed(q),
           \A r \in Reqs : u[r].pc = c =>
             /\ Reader(r, c) \/ u[r].st \in Signalling => q.rc = r /\ InBody(q) /\ q.wait = << >>
             /\ Errored(r) => Doomed(q)
    PROVE  TransportInv'
<1>1. pc'[c] = q
  BY Types
<1>2. LoopOK(c)'
  BY <1>1, LoopIs
<1>3. WireOK(c)'
  BY <1>1, WireKept DEF TransportInv, SameUsers, User
<1>4. pc[c].made
  BY DEF TransportInv, Unclaimed, Fresh
<1> QED BY <1>2, <1>3, <1>4, ConnStep

(* The same while nobody reads a body.                                     *)
LEMMA FreeStep ==
    ASSUME TransportInv, NEW c \in Pcs, NEW q \in PcRec, pc' = [pc EXCEPT ![c] = q],
           SameUsers, UNCHANGED <<opt, d, body, closer, fatal>>,
           t' \in TRec, t'.idle = t.idle,
           pc[c].rl # "none", q.made = pc[c].made, Putting(q) => Putting(pc[c]),
           SameWire(pc[c], q), ToRead(q),
           ~InBody(pc[c]), ~Doomed(pc[c]), q.wait = pc[c].wait
    PROVE  TransportInv'
BY LoopFree, LoopStep

LEMMA SameTransport ==
    ASSUME TransportInv, UNCHANGED <<t, u>>
    PROVE  SameUsers /\ t' \in TRec /\ t'.idle = t.idle
BY Types DEF SameUsers

LEMMA PeekInv ==
    ASSUME TransportInv, NEW c \in Pcs, Peek(c)
    PROVE  TransportInv'
<1>0. PICK p \in PcRec : p = pc[c]
  BY Types
<1>1. p.rl = "peek"
  BY <1>0 DEF Peek
<1>2. PICK e \in BOOLEAN : /\ pc' = [pc EXCEPT ![c] = [p EXCEPT !.rl = "check", !.err = e]]
                           /\ ~e => p.answers # << >>
  BY <1>0 DEF Peek, Loop
<1> DEFINE q == [p EXCEPT !.rl = "check", !.err = e]
<1>3. q \in PcRec /\ q.made = p.made /\ q.wait = p.wait
  BY DEF PcRec
<1>4. (Putting(q) => Putting(p)) /\ SameWire(p, q)
  BY DEF PcRec, Putting, SameWire
<1>5. ToRead(q)
  BY <1>2 DEF PcRec, ToRead
<1>6. ~InBody(p) /\ ~Doomed(p)
  BY <1>1 DEF InBody, Doomed
<1>7. UNCHANGED <<opt, t, u, d, body, closer, fatal>>
  BY DEF Peek
<1> HIDE DEF q
<1>8. pc' = [pc EXCEPT ![c] = q] /\ p.rl # "none"
  BY <1>1, <1>2 DEF q
<1> QED BY <1>0, <1>3, <1>4, <1>5, <1>6, <1>7, <1>8, SameTransport, FreeStep

LEMMA ExitConn ==
    ASSUME NEW v \in PcRec
    PROVE  /\ Exit(v) \in PcRec /\ SameWire(v, Exit(v)) /\ Exit(v).rl = "gone"
           /\ Exit(v).made = v.made /\ Exit(v).wait = v.wait /\ Exit(v).put = v.put
BY DEF Exit, PcRec, SameWire

LEMMA CheckInv ==
    ASSUME TransportInv, NEW c \in Pcs, Check(c)
    PROVE  TransportInv'
<1>0. PICK p \in PcRec : p = pc[c]
  BY Types
<1>1. p.rl = "check" /\ ToRead(p)
  BY <1>0 DEF Check, TransportInv, WireOK
<1>2. PICK q : pc' = [pc EXCEPT ![c] = q] /\ (q = Exit(Closed(p)) \/ q = [p EXCEPT !.rl = "recv"])
  BY <1>0 DEF Check, Loop
<1>3. ASSUME q = Exit(Closed(p))
      PROVE  /\ q \in PcRec /\ q.made = p.made /\ q.wait = p.wait
             /\ (Putting(q) => Putting(p)) /\ SameWire(p, q) /\ ToRead(q)
  BY ClosedConn, <1>3, ExitConn DEF SameConn, SameLoop, Putting, SameWire, ToRead
<1>4. ASSUME q = [p EXCEPT !.rl = "recv"]
      PROVE  /\ q \in PcRec /\ q.made = p.made /\ q.wait = p.wait
             /\ (Putting(q) => Putting(p)) /\ SameWire(p, q) /\ ToRead(q)
  BY <1>4, <1>1 DEF PcRec, Putting, SameWire, ToRead
<1>5. /\ q \in PcRec /\ q.made = p.made /\ q.wait = p.wait
      /\ (Putting(q) => Putting(p)) /\ SameWire(p, q) /\ ToRead(q)
  BY <1>2, <1>3, <1>4
<1>6. ~InBody(p) /\ ~Doomed(p) /\ p.rl # "none"
  BY <1>1 DEF InBody, Doomed
<1>7. UNCHANGED <<opt, t, u, d, body, closer, fatal>>
  BY DEF Check
<1> QED BY <1>0, <1>2, <1>5, <1>6, <1>7, SameTransport, FreeStep

LEMMA PutBackInv ==
    ASSUME TransportInv, NEW c \in Pcs, PutBack(c)
    PROVE  TransportInv'
<1>0. PICK p \in PcRec : p = pc[c]
  BY Types
<1>1. p.rl = "put"
  BY <1>0 DEF PutBack
<1>2. PICK a \in BOOLEAN : pc' = [pc EXCEPT ![c] = [p EXCEPT !.rl = "deliver", !.put = "none", !.alive = a]]
  BY <1>0 DEF PutBack, Loop
<1> DEFINE q == [p EXCEPT !.rl = "deliver", !.put = "none", !.alive = a]
<1>3. q \in PcRec /\ q.made = p.made /\ q.wait = p.wait
  BY DEF PcRec
<1>4. (Putting(q) => Putting(p)) /\ SameWire(p, q) /\ ToRead(q)
  BY DEF PcRec, Putting, SameWire, ToRead
<1>6. ~InBody(p) /\ ~Doomed(p) /\ p.rl # "none"
  BY <1>1 DEF InBody, Doomed
<1>7. UNCHANGED <<opt, t, u, d, body, closer, fatal>>
  BY DEF PutBack
<1> HIDE DEF q
<1>8. pc' = [pc EXCEPT ![c] = q]
  BY <1>2 DEF q
<1> QED BY <1>0, <1>3, <1>4, <1>6, <1>7, <1>8, SameTransport, FreeStep

LEMMA DeliverInv ==
    ASSUME TransportInv, NEW c \in Pcs, Deliver(c)
    PROVE  TransportInv'
<1>0. PICK p \in PcRec : p = pc[c]
  BY Types
<1>1. p.rl = "deliver"
  BY <1>0 DEF Deliver
<1> DEFINE l == AfterDeliver(p)
           q == [p EXCEPT !.rl = l]
<1>2. pc' = [pc EXCEPT ![c] = q]
  BY <1>0 DEF Deliver, Loop
<1>3. l = (IF p.hasBody THEN "body" ELSE "unset") /\ l \in {"body", "unset"}
  BY DEF AfterDeliver
<1> HIDE DEF l
<1>4. q \in PcRec /\ q.made = p.made /\ q.wait = p.wait /\ q.rl = l /\ q.rc = p.rc
  BY <1>3 DEF PcRec
<1>5. (Putting(q) => Putting(p)) /\ SameWire(p, q) /\ ToRead(q)
  BY <1>3 DEF PcRec, Putting, SameWire, ToRead
<1>6. SameUsers
  <2> DEFINE e == IF p.err THEN "err" ELSE "ok"
  <2>1. e \in {"ok", "err"} /\ u' = [u EXCEPT ![p.rc].res = e]
    BY <1>0 DEF Deliver
  <2> HIDE DEF e
  <2> QED BY <2>1, Types DEF URec, SameUsers
<1>7. UNCHANGED <<opt, t, d, body, closer, fatal>> /\ t' \in TRec
  BY Types DEF Deliver
<1>8. CASE p.hasBody
  <2>1. InBody(p) /\ InBody(q) /\ (Doomed(p) => Doomed(q))
    BY <1>1, <1>3, <1>4, <1>8 DEF InBody, Doomed
  <2>2. LoopOK(c)
    BY DEF TransportInv
  <2>3. \A r \in Reqs : u[r].pc = c =>
        /\ Reader(r, c) \/ u[r].st \in Signalling => q.rc = r /\ InBody(q) /\ q.wait = << >>
        /\ Errored(r) => Doomed(q)
    BY <1>0, <1>4, <2>1, <2>2, Zenon DEF LoopOK
  <2> HIDE DEF q
  <2> QED BY <1>0, <1>1, <1>2, <1>4, <1>5, <1>6, <1>7, <2>1, <2>3, LoopStep
<1>9. CASE ~p.hasBody
  <2>1. ~InBody(p) /\ ~Doomed(p) /\ p.rl # "none"
    BY <1>1, <1>9 DEF InBody, Doomed
  <2> HIDE DEF q
  <2> QED BY <1>0, <1>2, <1>4, <1>5, <1>6, <1>7, <2>1, FreeStep
<1> QED BY <1>8, <1>9

LEMMA BodyReadInv ==
    ASSUME TransportInv, NEW c \in Pcs, BodyRead(c)
    PROVE  TransportInv'
<1>0. PICK p \in PcRec : p = pc[c]
  BY Types
<1>1. p.rl = "body" /\ p.wait # << >> /\ p.wait \in Seq(BOOLEAN)
  BY <1>0 DEF BodyRead, PcRec
<1> DEFINE a == Head(p.wait)
           q == [p EXCEPT !.rl = "unset", !.alive = a, !.wait = << >>]
<1>2. pc' = [pc EXCEPT ![c] = q]
  BY <1>0 DEF BodyRead, Loop
<1>3. a \in BOOLEAN /\ << >> \in Seq(BOOLEAN)
  BY <1>1, EmptySeq
<1>5. Doomed(p) => ~a
  BY <1>1 DEF Doomed
<1> HIDE DEF a
<1>4. q \in PcRec /\ q.made = p.made /\ q.wait = << >> /\ q.rl = "unset" /\ q.alive = a
  BY <1>3 DEF PcRec
<1>6. (Putting(q) => Putting(p)) /\ SameWire(p, q) /\ ToRead(q)
  BY DEF PcRec, Putting, SameWire, ToRead
<1>7. UNCHANGED <<opt, t, u, d, body, closer, fatal>> /\ p.rl # "none"
  BY <1>1 DEF BodyRead
<1>8. Doomed(p) => Doomed(q)
  BY <1>4, <1>5 DEF Doomed
<1>9. \A r \in Reqs : u[r].pc = c =>
        /\ Reader(r, c) \/ u[r].st \in Signalling => q.rc = r /\ InBody(q) /\ q.wait = << >>
        /\ Errored(r) => Doomed(q)
  <2>1. LoopOK(c)
    BY DEF TransportInv
  <2> HIDE DEF q
  <2> QED BY <1>0, <1>1, <1>8, <2>1, Zenon DEF LoopOK
<1> HIDE DEF q
<1> QED BY <1>0, <1>2, <1>4, <1>6, <1>7, <1>9, SameTransport, LoopStep

LEMMA UnsetInv ==
    ASSUME TransportInv, NEW c \in Pcs, Unset(c)
    PROVE  TransportInv'
<1>0. PICK p \in PcRec : p = pc[c]
  BY Types
<1>1. p.rl = "unset"
  BY <1>0 DEF Unset
<1> DEFINE l == IF p.alive THEN "peek" ELSE "exit"
           q == [p EXCEPT !.rl = l, !.rc = nil]
<1>2. pc' = [pc EXCEPT ![c] = q]
  BY <1>0, Zenon DEF Unset, Loop
<1>3. l \in {"peek", "exit"} /\ (~p.alive => l = "exit")
  OBVIOUS
<1> HIDE DEF l
<1>4. q \in PcRec /\ q.made = p.made /\ q.wait = p.wait /\ q.rl = l
  BY <1>3 DEF PcRec, ReqOrNil
<1>5. (Putting(q) => Putting(p)) /\ SameWire(p, q) /\ ToRead(q)
  BY <1>3 DEF PcRec, Putting, SameWire, ToRead
<1>6. SameUsers /\ UNCHANGED <<opt, d, body, closer, fatal>> /\ p.rl # "none"
  BY <1>1, Types DEF Unset, SameUsers
<1>7. t' \in TRec /\ t'.idle = t.idle
  BY <1>0, Types DEF Unset, PcOrNil, TRec
<1>8. CASE p.alive
  <2>1. ~InBody(p) /\ ~Doomed(p)
    BY <1>1, <1>8 DEF InBody, Doomed
  <2> HIDE DEF q
  <2> QED BY <1>0, <1>2, <1>4, <1>5, <1>6, <1>7, <2>1, FreeStep
<1>9. CASE ~p.alive
  <2>1. ~InBody(p) /\ Doomed(q)
    BY <1>1, <1>3, <1>4, <1>9 DEF InBody, Doomed
  <2>2. LoopOK(c)
    BY DEF TransportInv
  <2> HIDE DEF q
  <2>3. \A r \in Reqs : u[r].pc = c =>
        /\ Reader(r, c) \/ u[r].st \in Signalling => q.rc = r /\ InBody(q) /\ q.wait = << >>
        /\ Errored(r) => Doomed(q)
    BY <1>0, <2>1, <2>2, Zenon DEF LoopOK
  <2> QED BY <1>0, <1>2, <1>4, <1>5, <1>6, <1>7, <2>1, <2>3, LoopStep
<1> QED BY <1>8, <1>9

LEMMA ReadExitInv ==
    ASSUME TransportInv, NEW c \in Pcs, ReadExit(c)
    PROVE  TransportInv'
<1>0. PICK p \in PcRec : p = pc[c]
  BY Types
<1>1. p.rl = "exit"
  BY <1>0 DEF ReadExit
<1>2. PICK v \in PcRec : v = Closed(p) /\ SameConn(p, v)
  BY ClosedConn
<1> DEFINE q == Exit(v)
<1>3. pc' = [pc EXCEPT ![c] = q]
  BY <1>0, <1>2 DEF ReadExit, Loop
<1>4. /\ q \in PcRec /\ SameWire(v, q) /\ q.rl = "gone"
      /\ q.made = v.made /\ q.wait = v.wait /\ q.put = v.put
  BY ExitConn
<1>5. q.made = p.made /\ (Putting(q) => Putting(p)) /\ SameWire(p, q) /\ ToRead(q)
  <2> HIDE DEF q
  <2> QED BY <1>2, <1>4 DEF SameConn, SameWire, Putting, ToRead
<1>6. UNCHANGED <<opt, t, u, d, body, closer, fatal>> /\ p.rl # "none"
  BY <1>1 DEF ReadExit
<1>7. ~InBody(p) /\ Doomed(q)
  BY <1>1, <1>4 DEF InBody, Doomed
<1>8. LoopOK(c)
  BY DEF TransportInv
<1> HIDE DEF q
<1>9. \A r \in Reqs : u[r].pc = c =>
        /\ Reader(r, c) \/ u[r].st \in Signalling => q.rc = r /\ InBody(q) /\ q.wait = << >>
        /\ Errored(r) => Doomed(q)
  BY <1>0, <1>7, <1>8, Zenon DEF LoopOK
<1> QED BY <1>0, <1>3, <1>4, <1>5, <1>6, <1>7, <1>9, SameTransport, LoopStep

(***************************************************************************)
(* Steps in which a claim moves.                                           *)
(***************************************************************************)

(* The claims after a step: those before it, and perhaps one that is new.  *)
NewClaim(kn, xn, c0) ==
    /\ \A x \in DOMAIN t'.idle :
         \/ x \in DOMAIN t.idle /\ t'.idle[x] = t.idle[x]
         \/ kn = "idle" /\ xn = x /\ t'.idle[x] = c0
    /\ \A r \in Reqs :
         d'[r].pc = d[r].pc \/ d'[r].pc = nil \/ (kn = "dial" /\ xn = r /\ d'[r].pc = c0)
    /\ \A c \in Pcs : Putting(pc'[c]) => Putting(pc[c]) \/ (kn = "put" /\ xn = nil /\ c = c0)
    /\ \A r \in Reqs, c \in Pcs :
         /\ User(r, c)' => User(r, c) \/ (kn = "user" /\ xn = r /\ c = c0)
         /\ Reader(r, c)' => Reader(r, c) \/ (kn = "reader" /\ xn = r /\ c = c0)

LEMMA ClaimsOf ==
    ASSUME NEW c0, NEW kn, NEW xn, NewClaim(kn, xn, c0)
    PROVE  \A c \in Pcs, k \in Kinds, x \in Claimants :
             Claim(k, x, c)' => Claim(k, x, c) \/ (c = c0 /\ k = kn /\ x = xn)
<1> SUFFICES ASSUME NEW c \in Pcs, NEW k \in Kinds, NEW x \in Claimants, Claim(k, x, c)'
             PROVE  Claim(k, x, c) \/ (c = c0 /\ k = kn /\ x = xn)
  OBVIOUS
<1>1. CASE k = "idle"
  BY <1>1 DEF Claim, NewClaim
<1>2. CASE k = "dial"
  BY <1>2, HttpConstants DEF Claim, NewClaim
<1>3. CASE k = "put"
  BY <1>3 DEF Claim, NewClaim
<1>4. CASE k = "user"
  BY <1>4 DEF Claim, NewClaim
<1>5. CASE k = "reader"
  BY <1>5 DEF Claim, NewClaim
<1> QED BY <1>1, <1>2, <1>3, <1>4, <1>5 DEF Kinds

LEMMA LoopCarried ==
    ASSUME NEW c \in Pcs, LoopOK(c), SameLoop(pc[c], pc'[c]),
           \A r \in Reqs : u'[r].pc = c =>
             /\ Reader(r, c)' => Reader(r, c)
             /\ u'[r].st \in Signalling => u[r].pc = c /\ u[r].st \in Signalling
             /\ Errored(r)' => u[r].pc = c /\ Errored(r)
    PROVE  LoopOK(c)'
<1>1. (InBody(pc'[c]) <=> InBody(pc[c])) /\ (Doomed(pc'[c]) <=> Doomed(pc[c]))
      /\ pc'[c].wait = pc[c].wait /\ pc'[c].rc = pc[c].rc
  BY DEF SameLoop, InBody, Doomed
<1>2. pc'[c].wait # << >> => InBody(pc'[c]) \/ Doomed(pc'[c])
  BY <1>1, Zenon DEF LoopOK
<1>3. ASSUME NEW r \in Reqs, u'[r].pc = c
      PROVE  /\ Reader(r, c)' \/ u'[r].st \in Signalling =>
                  pc'[c].rc = r /\ InBody(pc'[c]) /\ pc'[c].wait = << >>
             /\ Errored(r)' => Doomed(pc'[c])
  BY <1>1, <1>3 DEF Reader, LoopOK
<1> QED BY <1>2, <1>3, Zenon DEF LoopOK

(* A step of one request and one connection.                               *)
LEMMA OneStep ==
    ASSUME TransportInv, HttpTypeOK', ~fatal', NEW r0, NEW c0 \in Pcs,
           \A r \in Reqs \ {r0} : /\ u'[r].pc = u[r].pc /\ u'[r].of = u[r].of
                                  /\ u'[r].st = u[r].st /\ body'[r] = body[r],
           r0 \in Reqs => u[r0].pc \in {nil, c0} /\ u'[r0].pc \in {nil, c0} /\ UserOK(r0)',
           \A c \in Pcs \ {c0} : pc'[c] = pc[c],
           NEW kn, NEW xn, NewClaim(kn, xn, c0),
           OneClaim', Unclaimed(c0)', WireOK(c0)', LoopOK(c0)'
    PROVE  TransportInv'
<1>1. ASSUME NEW r \in Reqs PROVE UserOK(r)'
  <2>1. CASE r = r0
    BY <2>1
  <2>2. CASE r # r0
    <3>1. UserOK(r)
      BY DEF TransportInv
    <3> QED BY <2>2, <3>1 DEF UserOK
  <2> QED BY <2>1, <2>2
<1>2. ASSUME NEW c \in Pcs, c # c0
      PROVE  Unclaimed(c)' /\ WireOK(c)' /\ LoopOK(c)'
  <2>1. pc'[c] = pc[c] /\ Unclaimed(c) /\ WireOK(c) /\ LoopOK(c)
    BY <1>2 DEF TransportInv
  <2>2. Unclaimed(c)'
    BY <1>2, ClaimsOf, <2>1 DEF Claimants, Unclaimed
  <2>3. r0 \in Reqs => u[r0].pc # c /\ u'[r0].pc # c
    BY <1>2, HttpConstants
  <2>4. SameWire(pc[c], pc'[c]) /\ SameLoop(pc[c], pc'[c]) /\ ToRead(pc'[c])
    BY <2>1 DEF SameWire, SameLoop, WireOK
  <2>5. \A r \in Reqs : User(r, c) =>
             /\ User(r, c)'
             /\ u[r].st \notin Sending => u'[r].st \notin Sending
             /\ u[r].st \notin Sending \cup {"sendreq"} => u'[r].st \notin Sending \cup {"sendreq"}
    BY <2>3 DEF User
  <2>6. \A r \in Reqs : u'[r].pc = c =>
             /\ Reader(r, c)' => Reader(r, c)
             /\ u'[r].st \in Signalling => u[r].pc = c /\ u[r].st \in Signalling
             /\ Errored(r)' => u[r].pc = c /\ Errored(r)
    BY <2>3 DEF Reader, Errored
  <2>7. WireOK(c)'
    BY <2>1, <2>4, <2>5, WireKept
  <2>8. LoopOK(c)'
    BY <2>1, <2>4, <2>6, LoopCarried
  <2> QED BY <2>2, <2>7, <2>8
<1>4. \A c \in Pcs : Unclaimed(c)' /\ WireOK(c)' /\ LoopOK(c)'
  BY <1>2
<1> QED BY <1>1, <1>4, Zenon DEF TransportInv

(* Nothing is under way on a connection that no request uses.              *)
LEMMA QuietWire ==
    ASSUME TransportInv, NEW c \in Pcs, NEW k \in Kinds \ {"user"}, NEW x \in Claimants, Claim(k, x, c)
    PROVE  NoneOnWire(pc[c]) /\ pc[c].reqch = << >> /\ \A r \in Reqs : ~User(r, c)
<1>1. ASSUME NEW r \in Reqs, User(r, c) PROVE FALSE
  BY <1>1, HttpConstants DEF Claim, Kinds, Claimants, TransportInv, OneClaim
<1>2. WireOK(c)
  BY DEF TransportInv
<1> QED BY <1>1, <1>2, Zenon DEF WireOK

(* A claim to c gives way to that of request r, which has waited for it.   *)
LEMMA GivenTo ==
    ASSUME TransportInv, NEW r \in Reqs, NEW c \in Pcs, u[r].st \in Early,
           NEW k \in {"idle", "dial", "put"}, NEW x \in Claimants, Claim(k, x, c), ~Claim(k, x, c)',
           u' = [u EXCEPT ![r] = [@ EXCEPT !.st = "setreq", !.pc = c]],
           UNCHANGED <<opt, body, closer, fatal>>, t' \in TRec, d' \in [Reqs -> DRec],
           \A y \in DOMAIN t'.idle : y \in DOMAIN t.idle /\ t'.idle[y] = t.idle[y],
           \A q \in Reqs : d'[q].pc = d[q].pc \/ d'[q].pc = nil,
           NEW s \in PcRec, pc' = [pc EXCEPT ![c] = s], SameConn(pc[c], s)
    PROVE  TransportInv'
<1>1. UserOK(r) /\ u[r].pc = nil /\ u[r].of = nil /\ WireOK(c) /\ LoopOK(c) /\ Unclaimed(c)
  BY DEF TransportInv, UserOK
<1>2. u' \in [Reqs -> URec] /\ u'[r].st = "setreq" /\ u'[r].pc = c /\ u'[r].of = nil
      /\ \A q \in Reqs \ {r} : u'[q] = u[q]
  <2>1. PICK v \in URec : v = u[r]
    BY Types
  <2>2. [v EXCEPT !.st = "setreq", !.pc = c] \in URec
    BY DEF URec, Places, Sending, PcOrNil
  <2>3. u' = [u EXCEPT ![r] = [v EXCEPT !.st = "setreq", !.pc = c]]
    BY <2>1
  <2> QED BY <1>1, <2>1, <2>2, <2>3, Types DEF URec
<1>3. pc' \in [Pcs -> PcRec] /\ pc'[c] = s /\ \A y \in Pcs \ {c} : pc'[y] = pc[y]
  BY Types
<1>4. HttpTypeOK' /\ ~fatal'
  BY <1>2, <1>3, Types DEF HttpTypeOK
<1>5. UserOK(r)'
  BY <1>1, <1>2, HttpConstants DEF UserOK, Early, Sending, Signalling
<1>6. k \in Kinds \ {"user"}
  BY DEF Kinds
<1>7. NewClaim("user", r, c)
  BY <1>3, <1>2, HttpConstants DEF SameConn, User, Reader, NewClaim
<1>8. OneClaim'
  <2>1. OneClaim
    BY DEF TransportInv
  <2> QED BY <1>6, <1>7, <2>1, ClaimsOf, ClaimMoves
<1>9. Unclaimed(c)'
  BY <1>1, <1>6, <1>3 DEF Unclaimed, SameConn
<1>10. WireOK(c)'
  BY <1>6, QuietWire, <1>1, <1>3 DEF WireOK, NoneOnWire, SameConn, SameWire, SameLoop, ToRead
<1>11. LoopOK(c)'
  BY <1>3, <1>2, HttpConstants, <1>1, LoopCarried DEF SameConn, Reader, Errored, Signalling
<1>12. u[r].pc \in {nil, c} /\ u'[r].pc \in {nil, c}
       /\ \A q \in Reqs \ {r} : /\ u'[q].pc = u[q].pc /\ u'[q].of = u[q].of
                                /\ u'[q].st = u[q].st /\ body'[q] = body[q]
  BY <1>1, <1>2
<1> QED BY <1>3, <1>4, <1>5, <1>7, <1>8, <1>9, <1>10, <1>11, <1>12, OneStep

LEMMA PutConn ==
    ASSUME NEW p \in PcRec, NEW x \in {"kept", "refused"}
    PROVE  Put(p, x) \in PcRec /\ SameConn(p, Put(p, x)) /\ ~Putting(Put(p, x))
BY DEF Put, PcRec, SameConn, SameWire, SameLoop, Putting

LEMMA HandOverInv ==
    ASSUME TransportInv, NEW c \in Pcs, pc[c].put = "lock", HandOver(c),
           UNCHANGED <<opt, body, closer, hangs>>
    PROVE  TransportInv'
<1>0. PICK p \in PcRec : p = pc[c]
  BY Types
<1>1. PICK r \in Receivers :
        /\ u' = [u EXCEPT ![r].st = "setreq", ![r].pc = c]
        /\ d' = [d EXCEPT ![r].late = TRUE]
        /\ t' = t /\ pc' = [pc EXCEPT ![c] = Put(p, "kept")] /\ fatal' = fatal
  BY <1>0 DEF HandOver, AfterHandOver
<1>2. r \in Reqs /\ u[r].st \in Early
  BY DEF Receivers, Early
<1>3. u' = [u EXCEPT ![r] = [@ EXCEPT !.st = "setreq", !.pc = c]]
  BY <1>1, <1>2, Types DEF URec
<1>4. PICK s \in PcRec : s = Put(p, "kept") /\ SameConn(p, s) /\ ~Putting(s)
  BY PutConn
<1>5. pc'[c] = s
  BY <1>1, <1>4, Types
<1>6. Claim("put", nil, c) /\ ~Claim("put", nil, c)' /\ nil \in Claimants
  BY <1>4, <1>5 DEF Claim, Putting, Claimants
<1>7. d' \in [Reqs -> DRec] /\ \A q \in Reqs : d'[q].pc = d[q].pc
  BY <1>1, Types DEF DRec
<1>8. \A y \in DOMAIN t'.idle : y \in DOMAIN t.idle /\ t'.idle[y] = t.idle[y]
  BY <1>1, Zenon
<1>9. t' \in TRec /\ UNCHANGED <<opt, body, closer, fatal>> /\ pc' = [pc EXCEPT ![c] = s]
  BY <1>1, <1>4, Types
<1> QED BY <1>0, <1>2, <1>3, <1>4, <1>6, <1>7, <1>8, <1>9, GivenTo

LEMMA getIdleConnInv ==
    ASSUME TransportInv, NEW r \in Reqs, getIdleConn(r)
    PROVE  TransportInv'
<1>1. PICK m \in 1 .. Len(t.idle) : m = Max(Usable)
  <2>1. Usable \subseteq 1 .. Len(t.idle) /\ Usable # {} /\ Len(t.idle) \in Nat
    BY Types DEF Usable, getIdleConn
  <2> QED BY <2>1, GreatestIndex
<1>2. PICK c \in Pcs : c = t.idle[m]
  BY Types
<1>3. PICK s : s = SubSeq(t.idle, 1, m - 1)
  OBVIOUS
<1>4. t' = [t EXCEPT !.idle = s] /\ u' = [u EXCEPT ![r].st = "setreq", ![r].pc = c]
      /\ UNCHANGED <<opt, d, pc, body, closer, fatal>> /\ u[r].st = "start"
  BY <1>1, <1>2, <1>3 DEF getIdleConn
<1>5. s \in Seq(Pcs) /\ DOMAIN s = 1 .. m - 1 /\ \A y \in 1 .. m - 1 : s[y] = t.idle[y]
  BY <1>3, Types
<1>6. 1 .. m - 1 \subseteq DOMAIN t.idle /\ m \notin 1 .. m - 1 /\ m \in DOMAIN t.idle
  BY Types
<1>7. t' \in TRec /\ t'.idle = s
  BY <1>4, <1>5, Types DEF TRec
<1>8. \A y \in DOMAIN t'.idle : y \in DOMAIN t.idle /\ t'.idle[y] = t.idle[y]
  BY <1>5, <1>6, <1>7
<1>9. Claim("idle", m, c) /\ ~Claim("idle", m, c)' /\ m \in Claimants
  BY <1>5, <1>6, <1>7, <1>2 DEF Claim, Claimants
<1>10. u' = [u EXCEPT ![r] = [@ EXCEPT !.st = "setreq", !.pc = c]]
  BY <1>4, Types DEF URec
<1>11. PICK p \in PcRec : pc' = [pc EXCEPT ![c] = p] /\ SameConn(pc[c], p)
  BY <1>4, Types, SameConnSelf
<1>12. d' \in [Reqs -> DRec] /\ \A q \in Reqs : d'[q].pc = d[q].pc \/ d'[q].pc = nil
  BY <1>4, Types
<1>13. u[r].st \in Early /\ UNCHANGED <<opt, body, closer, fatal>>
  BY <1>4 DEF Early
<1> QED BY <1>7, <1>8, <1>9, <1>10, <1>11, <1>12, <1>13, GivenTo

LEMMA DialedInv ==
    ASSUME TransportInv, NEW r \in Reqs, Dialed(r)
    PROVE  TransportInv'
<1>0. PICK c \in PcOrNil : c = d[r].pc
  BY Types DEF DRec
<1>1. u[r].st = "select" /\ UNCHANGED <<opt, t, pc, body, closer, fatal>>
      /\ u' = [u EXCEPT ![r].st = IF c = nil THEN "failed" ELSE "setreq", ![r].pc = c]
      /\ d' = [d EXCEPT ![r].st = "gone", ![r].pc = nil]
  BY <1>0 DEF Dialed
<1>2. d' \in [Reqs -> DRec] /\ d'[r].pc = nil /\ (\A q \in Reqs : d'[q].pc = d[q].pc \/ d'[q].pc = nil)
  BY <1>1, Types DEF DRec, PcOrNil
<1>3. CASE c # nil
  <2>1. c \in Pcs
    BY <1>3 DEF PcOrNil
  <2>2. u' = [u EXCEPT ![r] = [@ EXCEPT !.st = "setreq", !.pc = c]]
    BY <1>1, <1>3, Types DEF URec
  <2>3. Claim("dial", r, c) /\ ~Claim("dial", r, c)' /\ r \in Claimants
    BY <1>0, <1>2, <1>3, HttpConstants DEF Claim, Claimants
  <2>4. PICK p \in PcRec : pc' = [pc EXCEPT ![c] = p] /\ SameConn(pc[c], p)
    BY <1>1, <2>1, Types, SameConnSelf
  <2>5. \A y \in DOMAIN t'.idle : y \in DOMAIN t.idle /\ t'.idle[y] = t.idle[y]
    BY <1>1, Zenon
  <2>6. t' \in TRec /\ u[r].st \in Early /\ UNCHANGED <<opt, body, closer, fatal>>
    BY <1>1, Types DEF Early
  <2> QED BY <1>2, <2>1, <2>2, <2>3, <2>4, <2>5, <2>6, GivenTo
<1>4. CASE c = nil
  <2> DEFINE w == [u[r] EXCEPT !.st = "failed"]
  <2>1. UserOK(r) /\ u[r].pc = nil
    BY <1>1 DEF TransportInv, UserOK, Early
  <2>2. w \in URec /\ w.pc = u[r].pc /\ w.of = u[r].of /\ w.st = "failed"
    BY Types, UserTypes DEF Places
  <2>3. u' = [u EXCEPT ![r] = w]
    BY <1>1, <1>4, <2>1, Types DEF URec
  <2>4. \A q \in Reqs : d'[q].pc = d[q].pc
    BY <1>0, <1>1, <1>4, Types DEF DRec
  <2>5. t' \in TRec /\ closer' \in CloserRec
    BY <1>1, Types
  <2>6. Benign(u[r].st, w.st)
    BY <1>1, <2>2 DEF Benign
  <2> HIDE DEF w
  <2> QED BY <1>1, <1>2, <2>2, <2>3, <2>4, <2>5, <2>6, AllConnsKept, UserMoves
<1> QED BY <1>3, <1>4

(* A step of one connection that leaves the requests alone.                *)
LEMMA ConnMoves ==
    ASSUME TransportInv, NEW c \in Pcs, NEW s \in PcRec, pc' = [pc EXCEPT ![c] = s],
           UNCHANGED <<opt, u, body, closer, fatal>>, t' \in TRec, d' \in [Reqs -> DRec],
           NEW kn, NEW xn, NewClaim(kn, xn, c), OneClaim', s.made, WireOK(c)', LoopOK(c)'
    PROVE  TransportInv'
BY Types, HttpConstants, OneStep DEF HttpTypeOK, Unclaimed

(* The wire and the loop of c when the requests are left alone.            *)
LEMMA ConnRests ==
    ASSUME TransportInv, NEW c \in Pcs, UNCHANGED <<u, body>>,
           SameWire(pc[c], pc'[c]), SameLoop(pc[c], pc'[c]), pc'[c].err = pc[c].err
    PROVE  WireOK(c)' /\ LoopOK(c)'
<1>1. WireOK(c) /\ LoopOK(c)
  BY DEF TransportInv
<1>2. ToRead(pc'[c])
  <2>1. ToRead(pc[c])
    BY <1>1, Zenon DEF WireOK
  <2> QED BY <2>1 DEF SameWire, SameLoop, ToRead
<1>3. \A r \in Reqs : User(r, c) =>
         /\ User(r, c)'
         /\ u[r].st \notin Sending => u'[r].st \notin Sending
         /\ u[r].st \notin Sending \cup {"sendreq"} => u'[r].st \notin Sending \cup {"sendreq"}
  BY DEF User
<1>4. \A r \in Reqs : u'[r].pc = c =>
         /\ Reader(r, c)' => Reader(r, c)
         /\ u'[r].st \in Signalling => u[r].pc = c /\ u[r].st \in Signalling
         /\ Errored(r)' => u[r].pc = c /\ Errored(r)
  BY DEF Reader, Errored
<1>5. WireOK(c)'
  BY <1>1, <1>2, <1>3, WireKept
<1>6. LoopOK(c)'
  BY <1>1, <1>4, LoopCarried
<1> QED BY <1>5, <1>6

(* Who has a claim has a connection that was dialed.                       *)
LEMMA ClaimedIsMade ==
    ASSUME TransportInv, NEW c \in Pcs, NEW k \in Kinds, NEW x \in Claimants, Claim(k, x, c)
    PROVE  pc[c].made
<1>1. Unclaimed(c)
  BY DEF TransportInv
<1> QED BY <1>1, Zenon DEF Unclaimed

LEMMA KeepInv ==
    ASSUME TransportInv, NEW c \in Pcs, pc[c].put = "lock", Keep(c),
           UNCHANGED <<opt, body, closer, hangs>>
    PROVE  TransportInv'
<1>0. PICK p \in PcRec : p = pc[c]
  BY Types
<1>1. PICK s \in PcRec : s = Put(p, "kept") /\ SameConn(p, s) /\ ~Putting(s)
  BY PutConn
<1>2. /\ t' = [t EXCEPT !.ch = nil, !.idle = Append(@, c)]
      /\ fatal' = Contains(t.idle, c)
      /\ pc' = [pc EXCEPT ![c] = s] /\ UNCHANGED <<u, d>>
  BY <1>0, <1>1 DEF Keep
<1>3. pc'[c] = s /\ \A x \in Pcs \ {c} : pc'[x] = pc[x]
  BY <1>2, Types
<1>4. Claim("put", nil, c) /\ ~Claim("put", nil, c)' /\ nil \in Claimants /\ "put" \in Kinds
  BY <1>1, <1>3 DEF Claim, Putting, Claimants, Kinds
<1>5. PICK n : n = Len(t.idle) + 1
  OBVIOUS
<1>6. PICK s2 : s2 = Append(t.idle, c)
  OBVIOUS
<1>7. s2 \in Seq(Pcs) /\ \A x \in DOMAIN s2 : (x \in DOMAIN t.idle /\ s2[x] = t.idle[x]) \/ (n = x /\ s2[x] = c)
  BY <1>5, <1>6, Types
<1>8. t' \in TRec /\ t'.idle = s2
  BY <1>2, <1>6, <1>7, Types DEF TRec, ReqOrNil
<1>9. \A x \in DOMAIN t.idle : t.idle[x] # c
  <2> SUFFICES ASSUME NEW x \in DOMAIN t.idle, t.idle[x] = c PROVE FALSE
    OBVIOUS
  <2>1. x \in Claimants /\ "idle" \in Kinds
    BY Types DEF Claimants, Kinds
  <2>2. Claim("idle", x, c)
    BY Zenon DEF Claim
  <2>3. "idle" = "put"
    BY <1>4, <2>1, <2>2, Zenon DEF TransportInv, OneClaim
  <2> QED BY <2>3
<1>10. fatal' = fatal
  BY <1>2, <1>9, Types DEF Contains
<1>11. NewClaim("idle", n, c)
  BY <1>1, <1>3, <1>2, <1>7, <1>8 DEF User, Reader, NewClaim
<1>12. OneClaim'
  BY <1>4, <1>11, ClaimsOf, ClaimMoves DEF TransportInv
<1>13. s.made
  BY <1>0, <1>1, <1>4, ClaimedIsMade DEF SameConn
<1>14. WireOK(c)' /\ LoopOK(c)'
  BY <1>0, <1>1, <1>2, <1>3, ConnRests DEF SameConn
<1>15. d' \in [Reqs -> DRec]
  BY <1>2, Types
<1> QED BY <1>2, <1>8, <1>10, <1>11, <1>12, <1>13, <1>14, <1>15, ConnMoves

LEMMA FullInv ==
    ASSUME TransportInv, NEW c \in Pcs, Full(c), UNCHANGED <<opt, body, closer, hangs>>
    PROVE  TransportInv'
<1>0. PICK p \in PcRec : p = pc[c]
  BY Types
<1>1. PICK v \in PcRec : v = Closed(p) /\ SameConn(p, v)
  BY ClosedConn
<1>2. PICK s \in PcRec : s = Put(v, "refused") /\ SameConn(v, s)
  BY PutConn
<1>3. SameConn(p, s)
  BY <1>1, <1>2 DEF SameConn, SameWire, SameLoop
<1>4. pc' = [pc EXCEPT ![c] = s] /\ UNCHANGED <<u, d, fatal>> /\ t' = [t EXCEPT !.ch = nil]
  BY <1>0, <1>1, <1>2 DEF Full
<1>5. t' \in TRec /\ t'.idle = t.idle
  BY <1>4, Types DEF TRec, ReqOrNil
<1> QED BY <1>0, <1>3, <1>4, <1>5, OnlyConn, Types

LEMMA LateDialInv ==
    ASSUME TransportInv, NEW r \in Reqs, LateDial(r)
    PROVE  TransportInv'
<1>0. PICK c \in PcOrNil : c = d[r].pc
  BY Types DEF DRec
<1>1. d' = [d EXCEPT ![r].st = "gone", ![r].pc = nil] /\ UNCHANGED <<opt, t, u, body, closer, fatal>>
  BY DEF LateDial
<1>2. d' \in [Reqs -> DRec] /\ d'[r].pc = nil /\ (\A q \in Reqs : d'[q].pc = d[q].pc \/ d'[q].pc = nil)
  BY <1>1, Types DEF DRec, PcOrNil
<1>3. CASE c = nil
  BY <1>0, <1>3, <1>1, Types, <1>2, OnlyConn DEF LateDial, DRec
<1>4. CASE c # nil
  <2>0. c \in Pcs
    BY <1>4 DEF PcOrNil
  <2>1. PICK p \in PcRec : p = pc[c]
    BY <2>0, Types
  <2>2. PICK s : s = [p EXCEPT !.put = "check", !.late = TRUE]
    OBVIOUS
  <2>3. s \in PcRec /\ s.made = p.made /\ s.err = p.err
    BY <2>2 DEF PcRec
  <2>4. SameWire(p, s) /\ SameLoop(p, s)
    BY <2>2 DEF PcRec, SameWire, SameLoop
  <2>5. pc' = [pc EXCEPT ![c] = s]
    BY <1>0, <1>4, <2>1, <2>2 DEF LateDial
  <2>6. pc'[c] = s /\ \A x \in Pcs \ {c} : pc'[x] = pc[x]
    BY <2>0, <2>5, Types
  <2>7. Claim("dial", r, c) /\ ~Claim("dial", r, c)' /\ r \in Claimants /\ "dial" \in Kinds
    BY <1>0, <1>2, <1>4, HttpConstants DEF Claim, Claimants, Kinds
  <2>8. NewClaim("put", nil, c)
    BY <2>6, <1>1, <1>2 DEF User, Reader, NewClaim
  <2>9. OneClaim'
    BY <2>0, <2>7, <2>8, ClaimsOf, ClaimMoves DEF TransportInv
  <2>10. s.made
    BY <2>0, <2>1, <2>3, <2>7, ClaimedIsMade
  <2>11. WireOK(c)' /\ LoopOK(c)'
    BY <1>1, <2>0, <2>1, <2>3, <2>4, <2>6, ConnRests
  <2>12. t' \in TRec
    BY <1>1, Types
  <2> QED BY <1>1, <1>2, <2>0, <2>3, <2>5, <2>8, <2>9, <2>10, <2>11, <2>12, ConnMoves
<1> QED BY <1>3, <1>4

LEMMA dialConnInv ==
    ASSUME TransportInv, NEW r \in Reqs, dialConn(r)
    PROVE  TransportInv'
<1> DEFINE new == {x \in Pcs : ~pc[x].made}
<1>0. UNCHANGED <<opt, t, u, body, closer, fatal>>
  BY DEF dialConn
<1>1. CASE d' = [d EXCEPT ![r].st = "offer"] /\ pc' = pc
  BY <1>1, Types, <1>0, OnlyConn DEF DRec
<1>2. CASE /\ new # {}
           /\ d' = [d EXCEPT ![r].st = "offer", ![r].pc = Min(new)]
           /\ pc' = [pc EXCEPT ![Min(new)] = [@ EXCEPT !.made = TRUE, !.rl = "peek", !.wl = "select"]]
  <2>1. PICK c \in Pcs : c = Min(new) /\ ~pc[c].made
    BY HttpConstants, <1>2, LeastPc
  <2>2. PICK p \in PcRec : p = pc[c]
    BY Types
  <2>3. PICK s : s = [p EXCEPT !.made = TRUE, !.rl = "peek", !.wl = "select"]
    OBVIOUS
  <2>4. pc' = [pc EXCEPT ![c] = s] /\ d' = [d EXCEPT ![r].st = "offer", ![r].pc = c]
    BY <1>2, <2>1, <2>2, <2>3
  <2>5. s \in PcRec /\ s.made /\ s.rl = "peek" /\ s.put = p.put /\ s.wait = p.wait
    BY <2>3 DEF PcRec
  <2>6. SameWire(p, s)
    BY <2>3 DEF PcRec, SameWire
  <2>7. pc'[c] = s /\ \A x \in Pcs \ {c} : pc'[x] = pc[x]
    BY <2>4, Types
  <2>8. d' \in [Reqs -> DRec] /\ d'[r].pc = c /\ \A q \in Reqs \ {r} : d'[q].pc = d[q].pc
    BY <2>4, Types DEF DRec, PcOrNil
  <2>9. Fresh(p) /\ \A k \in Kinds, x \in Claimants : ~Claim(k, x, c)
    BY <2>1, <2>2, Zenon DEF TransportInv, Unclaimed
  <2>10. NewClaim("dial", r, c)
    BY <2>2, <2>5, <2>7, <1>0, <2>8 DEF Putting, User, Reader, NewClaim
  <2>11. OneClaim'
    BY <2>9, <2>10, ClaimsOf, ClaimBegins DEF TransportInv
  <2>12. WireOK(c)'
    BY <2>5, <2>6, <2>9, <2>7 DEF Fresh, NoneOnWire, SameWire, ToRead, WireOK
  <2>13. LoopOK(c)'
    BY <1>0, Types, <2>5, <2>9, <2>2, LoopFree, <2>7, LoopIs DEF SameUsers, Fresh, InBody, Doomed
  <2>14. t' \in TRec
    BY <1>0, Types
  <2> QED BY <1>0, <2>4, <2>5, <2>8, <2>10, <2>11, <2>12, <2>13, <2>14, ConnMoves
<1> QED BY <1>1, <1>2 DEF dialConn

(***************************************************************************)
(* Steps of a request on its connection.                                   *)
(***************************************************************************)
LEMMA NoNewClaim ==
    ASSUME TransportInv, NEW c \in Pcs, NewClaim("none", nil, c)
    PROVE  OneClaim'
BY ClaimsOf, ClaimsKept DEF Kinds, TransportInv

LEMMA UserStep ==
    ASSUME TransportInv, NEW r \in Reqs, NEW c \in Pcs, u[r].pc = c,
           NEW w \in URec, u' = [u EXCEPT ![r] = w], w.pc = c,
           NEW b \in BodyRec, body' = [body EXCEPT ![r] = b],
           NEW s \in PcRec, pc' = [pc EXCEPT ![c] = s], s.made,
           UNCHANGED <<opt, t, d, closer, fatal>>,
           NEW kn, NEW xn, NewClaim(kn, xn, c), OneClaim',
           UserOK(r)', WireOK(c)', LoopOK(c)'
    PROVE  TransportInv'
BY Types, OneStep DEF HttpTypeOK, Unclaimed

(* The request that waits for a response is alone on its connection.       *)
LEMMA SoleUser ==
    ASSUME TransportInv, NEW c \in Pcs, NEW r \in Reqs, User(r, c)
    PROVE  /\ \A q \in Reqs : User(q, c) => q = r
           /\ ~Putting(pc[c]) /\ pc[c].made
           /\ NoneOnWire(pc[c]) \/ (u[r].st \notin Sending /\ OnWire(pc[c], r))
           /\ pc[c].reqch = << >> \/ (u[r].st \notin Sending \cup {"sendreq"} /\ pc[c].reqch = <<r>>)
<1>0. "user" \in Kinds /\ "put" \in Kinds /\ nil \in Claimants /\ \A q \in Reqs : q \in Claimants
  BY HttpConstants DEF Kinds, Claimants
<1>1. \A q \in Reqs : User(q, c) => Claim("user", q, c)
  BY DEF Claim
<1>2. Putting(pc[c]) => Claim("put", nil, c)
  BY DEF Claim
<1>3. \A q \in Reqs : User(q, c) => q = r
  BY <1>0, <1>1, Zenon DEF TransportInv, OneClaim
<1>4. ~Putting(pc[c])
  <2>1. "put" # "user"
    OBVIOUS
  <2> QED BY <1>0, <1>1, <1>2, <2>1, Zenon DEF TransportInv, OneClaim
<1>5. pc[c].made
  BY <1>0, <1>1, ClaimedIsMade
<1>6. WireOK(c)
  BY DEF TransportInv
<1> QED BY <1>3, <1>4, <1>5, <1>6, Zenon DEF WireOK

(* r goes on sending: only its place and the wire of its connection change. *)
LEMMA Sends ==
    ASSUME TransportInv, NEW r \in Reqs, NEW c \in Pcs, User(r, c),
           u[r].st \in {"send", "sendreq"}, NEW l \in {"sendreq", "wait"},
           u[r].st = "send" => l = "sendreq", u[r].st = "sendreq" => l = "wait", UserTo(r, l),
           NEW s \in PcRec, pc' = [pc EXCEPT ![c] = s], UNCHANGED <<opt, t, d, body, closer, fatal>>,
           SameLoop(pc[c], s), s.put = pc[c].put, s.made = pc[c].made, ToRead(s),
           NoneOnWire(s) \/ OnWire(s, r),
           s.reqch = << >> \/ (s.reqch = <<r>> /\ l = "wait")
    PROVE  TransportInv'
<1> DEFINE w == [u[r] EXCEPT !.st = l]
<1>0. u[r].pc = c /\ u[r].of = nil
  BY DEF User
<1>1. w \in URec /\ w.pc = u[r].pc /\ w.of = u[r].of /\ w.st = l
  <2>1. u[r] \in URec /\ l \in Places
    BY Types DEF Places
  <2> QED BY <2>1, UserTypes
<1>2. u' = [u EXCEPT ![r] = w]
  BY DEF UserTo
<1> HIDE DEF w
<1>3. u'[r] = w /\ \A q \in Reqs \ {r} : u'[q] = u[q]
  BY <1>2, Types
<1>4. pc'[c] = s /\ \A x \in Pcs \ {c} : pc'[x] = pc[x]
  BY Types
<1>5. NewClaim("none", nil, c)
  BY <1>4, <1>1, <1>3 DEF Putting, User, Reader, NewClaim
<1>6. OneClaim'
  BY <1>5, NoNewClaim
<1>7. s.made
  BY SoleUser
<1>8. UserOK(r)'
  BY <1>0, <1>1, <1>3 DEF TransportInv, UserOK, Early, Sending, Signalling
<1>9. WireOK(c)'
  BY <1>0, <1>1, <1>3, <1>4 DEF User, Sending, WireOK
<1>10. LoopOK(c)'
  BY <1>4, <1>0, <1>1, <1>3, LoopCarried DEF TransportInv, Reader, Errored, Signalling
<1>11. PICK b \in BodyRec : body' = [body EXCEPT ![r] = b]
  BY Types
<1> QED BY <1>0, <1>1, <1>2, <1>5, <1>6, <1>7, <1>8, <1>9, <1>10, <1>11, UserStep

LEMMA SendingUser ==
    ASSUME TransportInv, NEW r \in Reqs, u[r].st \in {"send", "sendreq"}
    PROVE  u[r].pc \in Pcs /\ User(r, u[r].pc)
BY HasConn DEF TransportInv, Early, UserOK, User, Sending

LEMMA SendWriteInv ==
    ASSUME TransportInv, NEW r \in Reqs, SendWrite(r)
    PROVE  TransportInv'
<1>1. u[r].st = "send" /\ UserTo(r, "sendreq") /\ UNCHANGED <<opt, t, d, body, closer, fatal>>
  BY DEF SendWrite
<1>2. PICK c \in Pcs : u[r].pc = c /\ User(r, c)
  BY <1>1, SendingUser
<1>3. PICK p \in PcRec : p = pc[c]
  BY Types
<1>4. NoneOnWire(p) /\ p.reqch = << >> /\ ToRead(p)
  BY <1>1, <1>2, <1>3, SoleUser DEF TransportInv, Sending, WireOK
<1>5. PICK s : s = [p EXCEPT !.writech = Append(@, r)]
  OBVIOUS
<1>6. pc' = [pc EXCEPT ![c] = s]
  BY <1>2, <1>3, <1>5 DEF SendWrite
<1>7. Append(p.writech, r) = <<r>> /\ <<r>> \in Seq(Reqs)
  BY <1>4 DEF NoneOnWire
<1>8. s = [p EXCEPT !.writech = <<r>>]
  BY <1>5, <1>7
<1>9. s \in PcRec /\ s.put = p.put /\ s.made = p.made /\ s.reqch = p.reqch /\ SameLoop(p, s)
  BY <1>7, <1>8 DEF PcRec, SameLoop
<1>10. OnWire(s, r) /\ ToRead(s)
  BY <1>4, <1>8 DEF PcRec, OnWire, NoneOnWire, ToRead
<1> QED BY <1>1, <1>2, <1>3, <1>4, <1>6, <1>9, <1>10, Sends

LEMMA SendReqInv ==
    ASSUME TransportInv, NEW r \in Reqs, SendReq(r)
    PROVE  TransportInv'
<1>1. u[r].st = "sendreq" /\ UserTo(r, "wait") /\ UNCHANGED <<opt, t, d, body, closer, fatal>>
  BY DEF SendReq
<1>2. PICK c \in Pcs : u[r].pc = c /\ User(r, c)
  BY <1>1, SendingUser
<1>3. PICK p \in PcRec : p = pc[c]
  BY Types
<1>4. (NoneOnWire(p) \/ OnWire(p, r)) /\ p.reqch = << >> /\ ToRead(p)
  <2>1. WireOK(c)
    BY DEF TransportInv
  <2> QED BY <1>1, <1>2, <1>3, <2>1, SoleUser DEF WireOK
<1>5. PICK s : s = [p EXCEPT !.reqch = Append(@, r)]
  OBVIOUS
<1>6. pc' = [pc EXCEPT ![c] = s]
  BY <1>2, <1>3, <1>5 DEF SendReq
<1>7. Append(p.reqch, r) = <<r>> /\ <<r>> \in Seq(Reqs)
  BY <1>4
<1>8. s = [p EXCEPT !.reqch = <<r>>]
  BY <1>5, <1>7
<1>9. s \in PcRec /\ s.put = p.put /\ s.made = p.made /\ s.reqch = <<r>> /\ SameLoop(p, s)
  BY <1>7, <1>8 DEF PcRec, SameLoop
<1>10. s.writech = p.writech /\ s.sent = p.sent /\ s.answers = p.answers /\ s.rl = p.rl /\ s.err = p.err
  BY <1>8 DEF PcRec
<1>11. (NoneOnWire(s) \/ OnWire(s, r)) /\ ToRead(s)
  BY <1>4, <1>10 DEF OnWire, NoneOnWire, ToRead
<1> QED BY <1>1, <1>2, <1>3, <1>6, <1>9, <1>11, Sends

(***************************************************************************)
(* The wire: the write, the server's answer and its reading.               *)
(***************************************************************************)

(* What is on the wire is from the one request that uses the connection.   *)
LEMMA WireUser ==
    ASSUME TransportInv, NEW c \in Pcs, ~NoneOnWire(pc[c]) \/ pc[c].reqch # << >>
    PROVE  \E r \in Reqs :
             /\ User(r, c) /\ u[r].st \notin Sending /\ pc[c].made
             /\ NoneOnWire(pc[c]) \/ OnWire(pc[c], r)
             /\ pc[c].reqch = << >> \/ (u[r].st # "sendreq" /\ pc[c].reqch = <<r>>)
BY SoleUser DEF TransportInv, WireOK

(* A step of the wire: the requests and the loop are left alone.           *)
LEMMA WireStep ==
    ASSUME TransportInv, NEW c \in Pcs, NEW r \in Reqs, User(r, c), u[r].st \notin Sending,
           NEW s \in PcRec, pc' = [pc EXCEPT ![c] = s],
           SameUsers, UNCHANGED <<opt, t, d, body, closer, fatal>>,
           SameLoop(pc[c], s), s.made = pc[c].made, s.put = pc[c].put, s.reqch = pc[c].reqch,
           NoneOnWire(s) \/ OnWire(s, r), ToRead(s)
    PROVE  TransportInv'
<1>1. pc'[c] = s
  BY Types
<1>2. WireOK(c) /\ LoopOK(c)
  BY DEF TransportInv
<1>3. WireOK(c)'
  BY <1>1, <1>2 DEF SameUsers, User, WireOK
<1>4. LoopOK(c)'
  BY <1>1, <1>2, LoopCarried DEF SameUsers, Reader, Errored
<1>5. pc[c].made
  BY SoleUser
<1>6. Putting(s) => Putting(pc[c])
  BY DEF Putting
<1>7. t' \in TRec /\ t'.idle = t.idle
  BY Types
<1> QED BY <1>3, <1>4, <1>5, <1>6, <1>7, ConnStep

LEMMA WriteBeginInv ==
    ASSUME TransportInv, NEW c \in Pcs, WriteBegin(c)
    PROVE  TransportInv'
<1>0. PICK p \in PcRec : p = pc[c]
  BY Types
<1>1. p.writech # << >> /\ UNCHANGED <<opt, t, d, body, closer, fatal>>
  BY <1>0 DEF WriteBegin
<1>2. ~NoneOnWire(p)
  BY <1>1 DEF NoneOnWire
<1>3. PICK r \in Reqs : User(r, c) /\ u[r].st \notin Sending /\ OnWire(p, r)
  BY <1>0, <1>2, WireUser
<1>4. p.writech = <<r>> /\ p.sent = << >> /\ p.answers = << >>
  BY <1>1, <1>3 DEF OnWire
<1>5. Head(p.writech) = r /\ Tail(p.writech) = << >> /\ Append(p.sent, r) = <<r>>
      /\ <<r>> \in Seq(Reqs) /\ << >> \in Seq(Reqs)
  BY <1>4, EmptySeq
<1>6. ToRead(p)
  BY <1>0 DEF TransportInv, WireOK
<1>7. SameUsers
  <2>1. CASE UNCHANGED u
    BY <2>1, Types DEF SameUsers
  <2>2. CASE u' = [u EXCEPT ![r].werr = "err"]
    BY <2>2, Types DEF URec, SameUsers
  <2> QED BY <1>0, <1>5, <2>1, <2>2 DEF WriteBegin
<1>8. PICK s : /\ pc' = [pc EXCEPT ![c] = s]
               /\ \/ s = [p EXCEPT !.writech = << >>]
                  \/ s = [p EXCEPT !.writech = << >>, !.wl = "writing", !.wr = r]
                  \/ s = [p EXCEPT !.writech = << >>, !.wl = "writing", !.wr = r, !.sent = <<r>>]
  <2> DEFINE q == [p EXCEPT !.writech = Tail(@)]
             f == [q EXCEPT !.wl = "writing", !.wr = r,
                            !.sent = IF p.conn = "closed" \/ p.eof THEN @ ELSE Append(@, r)]
  <2>1. pc' = [pc EXCEPT ![c] = q] \/ pc' = [pc EXCEPT ![c] = f]
    BY <1>0, <1>5 DEF WriteBegin, Loop
  <2>2. q = [p EXCEPT !.writech = << >>]
    BY <1>5
  <2>3. \/ f = [p EXCEPT !.writech = << >>, !.wl = "writing", !.wr = r]
        \/ f = [p EXCEPT !.writech = << >>, !.wl = "writing", !.wr = r, !.sent = <<r>>]
    BY <1>5 DEF PcRec
  <2> HIDE DEF q, f
  <2> QED BY <2>1, <2>2, <2>3
<1>9. s \in PcRec
  <2>1. r \in ReqOrNil
    BY DEF ReqOrNil
  <2>2. CASE s = [p EXCEPT !.writech = << >>]
    BY <1>5, <2>2 DEF PcRec
  <2>3. CASE s = [p EXCEPT !.writech = << >>, !.wl = "writing", !.wr = r]
    BY <1>5, <2>1, <2>3 DEF PcRec
  <2>4. CASE s = [p EXCEPT !.writech = << >>, !.wl = "writing", !.wr = r, !.sent = <<r>>]
    BY <1>5, <2>1, <2>4 DEF PcRec
  <2> QED BY <1>8, <2>2, <2>3, <2>4
<1>10. /\ s.made = p.made /\ s.put = p.put /\ s.reqch = p.reqch /\ s.rl = p.rl /\ s.err = p.err
       /\ SameLoop(p, s)
  BY <1>8 DEF PcRec, SameLoop
<1>11. s.writech = << >> /\ s.answers = << >> /\ (s.sent = << >> \/ s.sent = <<r>>)
  BY <1>4, <1>8 DEF PcRec
<1>12. NoneOnWire(s) \/ OnWire(s, r)
  BY <1>11 DEF NoneOnWire, OnWire
<1>13. ToRead(s)
  BY <1>4, <1>6, <1>10, <1>11 DEF ToRead
<1> QED BY <1>0, <1>1, <1>3, <1>7, <1>8, <1>9, <1>10, <1>12, <1>13, WireStep

LEMMA ServerAnswersInv ==
    ASSUME TransportInv, NEW c \in Pcs, ServerAnswers(c)
    PROVE  TransportInv'
<1>0. PICK p \in PcRec : p = pc[c]
  BY Types
<1>1. p.sent # << >> /\ UNCHANGED <<opt, t, u, d, body, closer, fatal>>
  BY <1>0 DEF ServerAnswers
<1>2. ~NoneOnWire(p)
  BY <1>1 DEF NoneOnWire
<1>3. PICK r \in Reqs : User(r, c) /\ u[r].st \notin Sending /\ OnWire(p, r)
  BY <1>0, <1>2, WireUser
<1>4. p.writech = << >> /\ p.sent = <<r>> /\ p.answers = << >>
  BY <1>1, <1>3, Zenon DEF OnWire
<1>5. PICK b \in Opt.bodies, cl \in Opt.closes :
         pc' = [pc EXCEPT ![c] = [p EXCEPT !.sent = Tail(@),
                  !.answers = Append(@, [r |-> Head(p.sent), body |-> b, close |-> cl])]]
  BY <1>0 DEF ServerAnswers, Loop
<1>6. b \in BOOLEAN /\ cl \in BOOLEAN
  BY Types, HttpConstants DEF Opt
<1>7. PICK a \in ARec : a = [r |-> r, body |-> b, close |-> cl] /\ a.r = r
  <2>1. [r |-> r, body |-> b, close |-> cl] \in ARec
    BY <1>6, Zenon DEF ARec
  <2>2. [r |-> r, body |-> b, close |-> cl].r = r
    OBVIOUS
  <2> QED BY <2>1, <2>2
<1>8. Head(p.sent) = r /\ Tail(p.sent) = << >> /\ Append(p.answers, a) = <<a>>
      /\ <<a>> \in Seq(ARec) /\ << >> \in Seq(Reqs) /\ <<a>> # << >>
  BY <1>4, EmptySeq
<1>9. PICK s : s = [p EXCEPT !.sent = << >>, !.answers = <<a>>]
  OBVIOUS
<1>10. pc' = [pc EXCEPT ![c] = s]
  BY <1>7, <1>8, <1>9, <1>5
<1>11. s \in PcRec /\ s.made = p.made /\ s.put = p.put /\ s.reqch = p.reqch
       /\ s.writech = p.writech /\ s.sent = << >> /\ s.answers = <<a>>
  BY <1>8, <1>9 DEF PcRec
<1>12. SameLoop(p, s)
  BY <1>9 DEF PcRec, SameLoop
<1>13. OnWire(s, r) /\ ToRead(s)
  BY <1>4, <1>7, <1>8, <1>11 DEF OnWire, ToRead
<1> QED BY <1>0, <1>1, <1>3, <1>10, <1>11, <1>12, <1>13, SameTransport, WireStep

(***************************************************************************)
(* readLoop takes the response.                                            *)
(***************************************************************************)
LEMMA LoopNow ==
    ASSUME NEW c \in Pcs, NEW s, pc'[c] = s, s.wait # << >> => InBody(s) \/ Doomed(s),
           \A q \in Reqs : u'[q].pc = c =>
             /\ Reader(q, c)' \/ u'[q].st \in Signalling => s.rc = q /\ InBody(s) /\ s.wait = << >>
             /\ Errored(q)' => Doomed(s)
    PROVE  LoopOK(c)'
BY Zenon DEF LoopOK

LEMMA RecvStart ==
    ASSUME TransportInv, NEW c \in Pcs, NEW p \in PcRec, p = pc[c], p.rl = "recv", p.reqch # << >>
    PROVE  \E r \in Reqs :
             /\ User(r, c) /\ u[r].st \notin Sending \cup {"sendreq"} /\ p.made
             /\ p.reqch = <<r>> /\ Head(p.reqch) = r /\ Tail(p.reqch) = << >>
             /\ NoneOnWire(p) \/ OnWire(p, r)
             /\ p.wait = << >> /\ ~Putting(p)
             /\ \A q \in Reqs : u[q].pc = c =>
                  ~Reader(q, c) /\ u[q].st \notin Signalling /\ ~Errored(q)
<1>1. PICK r \in Reqs :
             /\ User(r, c) /\ u[r].st \notin Sending /\ p.made
             /\ NoneOnWire(p) \/ OnWire(p, r)
             /\ u[r].st # "sendreq" /\ p.reqch = <<r>>
  BY WireUser
<1>2. ~Putting(p)
  BY <1>1, SoleUser
<1>3. ~InBody(p) /\ ~Doomed(p)
  BY DEF InBody, Doomed
<1>4. p.wait = << >> /\ \A q \in Reqs : u[q].pc = c =>
                  ~Reader(q, c) /\ u[q].st \notin Signalling /\ ~Errored(q)
  BY <1>3, LoopFree
<1>5. Head(p.reqch) = r /\ Tail(p.reqch) = << >>
  BY <1>1
<1> QED BY <1>1, <1>2, <1>4, <1>5

LEMMA RecvErrorInv ==
    ASSUME TransportInv, NEW c \in Pcs, Recv(c), pc[c].err
    PROVE  TransportInv'
<1>0. PICK p \in PcRec : p = pc[c]
  BY Types
<1>1. p.rl = "recv" /\ p.reqch # << >> /\ UNCHANGED <<opt, t, u, d, body, closer, fatal>>
  BY <1>0 DEF Recv
<1>2. PICK r \in Reqs :
             /\ User(r, c) /\ u[r].st \notin Sending \cup {"sendreq"} /\ p.made
             /\ p.reqch = <<r>> /\ Head(p.reqch) = r /\ Tail(p.reqch) = << >>
             /\ NoneOnWire(p) \/ OnWire(p, r)
             /\ p.wait = << >> /\ ~Putting(p)
             /\ \A q \in Reqs : u[q].pc = c =>
                  ~Reader(q, c) /\ u[q].st \notin Signalling /\ ~Errored(q)
  BY <1>0, <1>1, RecvStart
<1>3. PICK v : v = [p EXCEPT !.rc = r, !.reqch = << >>]
  OBVIOUS
<1>4. v \in PcRec /\ v.made = p.made /\ v.put = p.put /\ v.wait = p.wait /\ v.reqch = << >>
      /\ v.writech = p.writech /\ v.sent = p.sent /\ v.answers = p.answers
  BY <1>3, EmptySeq DEF PcRec, ReqOrNil
<1>5. PICK x \in PcRec : x = Closed(v) /\ SameConn(v, x)
  BY <1>4, ClosedConn
<1>6. PICK s : s = [x EXCEPT !.rl = "deliver", !.alive = FALSE, !.hasBody = FALSE]
  OBVIOUS
<1>7. s \in PcRec /\ s.made = x.made /\ s.put = x.put /\ s.wait = x.wait /\ s.rl = "deliver"
      /\ SameWire(x, s)
  BY <1>6 DEF PcRec, SameWire
<1>8. s.made /\ s.wait = << >> /\ s.reqch = << >> /\ (NoneOnWire(s) \/ OnWire(s, r))
      /\ ToRead(s)
  BY <1>2, <1>4, <1>5, <1>7 DEF SameConn, SameLoop, SameWire, NoneOnWire, OnWire, ToRead
<1>9. Putting(s) => Putting(p)
  BY <1>4, <1>5, <1>7 DEF SameConn, Putting
<1>10. pc' = [pc EXCEPT ![c] = s]
  BY <1>2, <1>3, <1>0, <1>5, <1>6 DEF Recv, Loop
<1>11. pc'[c] = s
  BY <1>10, Types
<1>12. WireOK(c)'
  BY <1>1, <1>2, <1>8, <1>11 DEF User, WireOK
<1>13. LoopOK(c)'
  <2>1. SameUsers /\ body' = body
    BY <1>1, SameTransport
  <2> QED BY <1>2, <1>8, <1>11, <2>1, LoopIs
<1> QED BY <1>0, <1>1, <1>2, <1>7, <1>8, <1>9, <1>10, <1>12, <1>13, SameTransport, ConnStep

LEMMA RecvAnswerInv ==
    ASSUME TransportInv, NEW c \in Pcs, Recv(c), ~pc[c].err
    PROVE  TransportInv'
<1>0. PICK p \in PcRec : p = pc[c]
  BY Types
<1>1. p.rl = "recv" /\ p.reqch # << >> /\ UNCHANGED <<opt, t, d, closer, fatal>>
  BY <1>0 DEF Recv
<1>2. PICK r \in Reqs :
             /\ User(r, c) /\ u[r].st \notin Sending \cup {"sendreq"} /\ p.made
             /\ p.reqch = <<r>> /\ Head(p.reqch) = r /\ Tail(p.reqch) = << >>
             /\ NoneOnWire(p) \/ OnWire(p, r)
             /\ p.wait = << >> /\ ~Putting(p)
             /\ \A q \in Reqs : u[q].pc = c =>
                  ~Reader(q, c) /\ u[q].st \notin Signalling /\ ~Errored(q)
  BY <1>0, <1>1, RecvStart
<1>3. u[r].pc = c /\ u[r].of = nil /\ UserOK(r)
  BY <1>2 DEF User, TransportInv
<1>4. p.answers # << >>
  <2>1. ToRead(p)
    BY <1>0 DEF TransportInv, WireOK
  <2> QED BY <1>0, <1>1, <2>1 DEF ToRead
<1>5. PICK a \in ARec : a.r = r /\ p.answers = <<a>> /\ p.writech = << >> /\ p.sent = << >>
  BY <1>2, <1>4, Zenon DEF NoneOnWire, OnWire
<1>6. Head(p.answers) = a /\ Tail(p.answers) = << >> /\ a.body \in BOOLEAN /\ a.close \in BOOLEAN
  BY <1>5 DEF ARec
<1>7. PICK alive \in BOOLEAN : alive = ~a.close
  BY <1>6
<1>8. PICK keep \in BOOLEAN : keep = (alive /\ ~a.body)
  BY <1>6
<1>9. PICK rl \in {"put", "deliver"}, put \in {"check", "none"} :
        rl = (IF keep THEN "put" ELSE "deliver") /\ put = (IF keep THEN "check" ELSE "none")
  OBVIOUS
<1>10. PICK s : s = [p EXCEPT !.rc = r, !.reqch = << >>, !.answers = << >>, !.alive = alive,
                              !.hasBody = a.body, !.rl = rl, !.put = put, !.late = FALSE]
  OBVIOUS
<1>11. s \in PcRec
  <2>1. r \in ReqOrNil /\ << >> \in Seq(Reqs) /\ << >> \in Seq(ARec)
    BY EmptySeq DEF ReqOrNil
  <2>2. PICK hb \in BOOLEAN : hb = a.body
    BY <1>6
  <2>3. s = [p EXCEPT !.rc = r, !.reqch = << >>, !.answers = << >>, !.alive = alive,
                      !.hasBody = hb, !.rl = rl, !.put = put, !.late = FALSE]
    BY <1>10, <2>2
  <2>4. PICK v : v = [p EXCEPT !.rc = r, !.reqch = << >>, !.answers = << >>]
    OBVIOUS
  <2>5. v \in PcRec
    BY <2>1, <2>4 DEF PcRec
  <2>6. [v EXCEPT !.alive = alive, !.hasBody = hb, !.rl = rl, !.put = put, !.late = FALSE] \in PcRec
    <3>1. PICK x : x = [v EXCEPT !.rl = rl, !.put = put]
      OBVIOUS
    <3>2. x \in PcRec
      BY <2>5, <3>1 DEF PcRec
    <3>3. [x EXCEPT !.alive = alive, !.hasBody = hb, !.late = FALSE] \in PcRec
      BY <3>2 DEF PcRec
    <3>4. [v EXCEPT !.alive = alive, !.hasBody = hb, !.rl = rl, !.put = put, !.late = FALSE]
          = [x EXCEPT !.alive = alive, !.hasBody = hb, !.late = FALSE]
      BY <3>1
    <3> QED BY <3>3, <3>4
  <2>7. s = [v EXCEPT !.alive = alive, !.hasBody = hb, !.rl = rl, !.put = put, !.late = FALSE]
    BY <2>3, <2>4
  <2> QED BY <2>6, <2>7
<1>12. s.made /\ s.rc = r /\ s.reqch = << >> /\ s.answers = << >> /\ s.writech = << >> /\ s.sent = << >>
       /\ s.hasBody = a.body /\ s.rl = rl /\ s.put = put /\ s.wait = << >>
  BY <1>2, <1>5, <1>10 DEF PcRec
<1>13. PICK b : b = [st |-> IF a.body THEN "open" ELSE "none", rerr |-> "none", fn |-> a.body]
  OBVIOUS
<1>14. b \in BodyRec /\ b.rerr = "none" /\ b.fn = a.body /\ (b.st = "open" <=> a.body)
  BY <1>6, <1>13 DEF BodyRec
<1>15. PICK w : w = [u[r] EXCEPT !.of = r]
  OBVIOUS
<1>16. w \in URec /\ w.pc = c /\ w.of = r /\ w.st = u[r].st
  BY <1>3, <1>15, Types DEF URec, ReqOrNil
<1>17. /\ pc' = [pc EXCEPT ![c] = s]
       /\ body' = [body EXCEPT ![r] = b]
       /\ u' = [u EXCEPT ![r] = w]
  <2> DEFINE q == [p EXCEPT !.rc = r, !.reqch = Tail(@)]
             f == [q EXCEPT !.answers = Tail(@), !.alive = alive, !.hasBody = a.body,
                            !.rl = IF alive /\ ~a.body THEN "put" ELSE "deliver",
                            !.put = IF alive /\ ~a.body THEN "check" ELSE "none",
                            !.late = FALSE]
  <2>1. q = [p EXCEPT !.rc = r, !.reqch = << >>]
    BY <1>2
  <2>2. f = s
    BY <2>1, <1>6, <1>8, <1>9, <1>10 DEF PcRec
  <2>3. pc' = [pc EXCEPT ![c] = f]
    BY <1>0, <1>2, <1>6, <1>7 DEF Recv, Loop
  <2>4. body' = [body EXCEPT ![r] = b] /\ u' = [u EXCEPT ![r].of = r]
    BY <1>0, <1>2, <1>5, <1>6, <1>13 DEF Recv
  <2> HIDE DEF q, f
  <2> QED BY <1>15, <2>2, <2>3, <2>4
<1>18. pc'[c] = s /\ (\A x \in Pcs \ {c} : pc'[x] = pc[x])
       /\ u'[r] = w /\ (\A q \in Reqs \ {r} : u'[q] = u[q])
       /\ body'[r] = b /\ (\A q \in Reqs \ {r} : body'[q] = body[q])
  BY <1>17, Types
<1>19. UserOK(r)'
  BY <1>2, <1>3, <1>16, <1>18, HttpConstants, <1>14 DEF UserOK
<1>20. WireOK(c)'
  BY <1>12, <1>18 DEF NoneOnWire, ToRead, WireOK
<1>21. \A q \in Reqs \ {r} : (Reader(q, c)' => Reader(q, c)) /\ (Errored(q)' => Errored(q))
  BY <1>18 DEF Reader, Errored
<1>22. LoopOK(c)'
  <2>1. a.body => InBody(s)
    BY <1>8, <1>9, <1>12 DEF InBody
  <2>2. (Reader(r, c)' => a.body) /\ ~Errored(r)' /\ u'[r].st \notin Signalling
    BY <1>2, <1>3, <1>14, <1>16, <1>18 DEF Reader, Errored
  <2>3. ASSUME NEW q \in Reqs, u'[q].pc = c
        PROVE  /\ Reader(q, c)' \/ u'[q].st \in Signalling => s.rc = q /\ InBody(s) /\ s.wait = << >>
               /\ Errored(q)' => Doomed(s)
    <3>1. CASE q = r
      BY <1>12, <2>1, <2>2, <3>1
    <3>2. CASE q # r
      BY <1>18, <2>3, <3>2, <1>2, <1>21
    <3> QED BY <3>1, <3>2
  <2> QED BY <1>12, <1>18, <2>3, LoopNow
<1>23. Claim("user", r, c) /\ ~Claim("user", r, c)' /\ r \in Claimants /\ "user" \in Kinds
  BY <1>2, <1>16, <1>18, HttpConstants DEF Claim, User, Claimants, Kinds
<1>24. PICK kn, xn : NewClaim(kn, xn, c)
  <2>1. \A x \in Pcs : Putting(pc'[x]) => Putting(pc[x]) \/ (keep /\ x = c)
    BY <1>9, <1>12, <1>18 DEF Putting
  <2>2. \A q \in Reqs, x \in Pcs : User(q, x)' => User(q, x)
    BY <1>3, <1>16, <1>18, HttpConstants DEF User
  <2>3. \A q \in Reqs, x \in Pcs : Reader(q, x)' => Reader(q, x) \/ (a.body /\ q = r /\ x = c)
    BY <1>14, <1>16, <1>18 DEF Reader
  <2>4. CASE keep
    <3>1. NewClaim("put", nil, c)
      BY <1>1, <1>8, <2>1, <2>2, <2>3, <2>4 DEF NewClaim
    <3> QED BY <3>1
  <2>5. CASE ~keep
    <3>1. NewClaim("reader", r, c)
      BY <1>1, <2>1, <2>2, <2>3, <2>5 DEF NewClaim
    <3> QED BY <3>1
  <2> QED BY <2>4, <2>5
<1>25. OneClaim'
  BY <1>23, <1>24, ClaimsOf, ClaimMoves DEF TransportInv
<1> QED BY <1>1, <1>3, <1>11, <1>12, <1>14, <1>16, <1>17, <1>19, <1>20, <1>22, <1>24, <1>25, UserStep

LEMMA RecvInv ==
    ASSUME TransportInv, NEW c \in Pcs, Recv(c)
    PROVE  TransportInv'
BY RecvErrorInv, RecvAnswerInv

(***************************************************************************)
(* The program reads the body or closes it.                                *)
(***************************************************************************)

(* While r reads its body, or tells readLoop that it has, readLoop waits   *)
(* for r and for nobody else.                                              *)
LEMMA LoopWaits ==
    ASSUME TransportInv, NEW r \in Reqs, NEW c \in Pcs, u[r].pc = c,
           Reader(r, c) \/ u[r].st \in Signalling
    PROVE  /\ pc[c].rc = r /\ InBody(pc[c]) /\ pc[c].wait = << >> /\ ~Doomed(pc[c]) /\ pc[c].made
           /\ \A q \in Reqs \ {r} : u[q].pc = c =>
                ~Reader(q, c) /\ u[q].st \notin Signalling /\ ~Errored(q)
<1>1. LoopOK(c) /\ Unclaimed(c)
  BY DEF TransportInv
<1>2. pc[c].rc = r /\ InBody(pc[c]) /\ pc[c].wait = << >>
  BY <1>1, Zenon DEF LoopOK
<1>3. ~Doomed(pc[c])
  BY <1>2 DEF InBody, Doomed
<1>4. pc[c].made
  BY <1>1, <1>2 DEF Unclaimed, Fresh, InBody
<1>5. \A q \in Reqs \ {r} : u[q].pc = c =>
        ~Reader(q, c) /\ u[q].st \notin Signalling /\ ~Errored(q)
  BY <1>1, <1>2, <1>3, Zenon DEF LoopOK
<1> QED BY <1>2, <1>3, <1>4, <1>5

(* A step of a request that has its response, and of its connection: the   *)
(* request goes to l, its body to b and the connection to s.               *)
BodyMove(r, c, l, b, s, kn) ==
    /\ u[r].st \in Signalling \cup {"body"} /\ UserTo(r, l)
    /\ body' = [body EXCEPT ![r] = b] /\ pc' = [pc EXCEPT ![c] = s]
    /\ UNCHANGED <<opt, t, d, closer, fatal>>
    /\ pc[c].made /\ s.made = pc[c].made /\ SameWire(pc[c], s) /\ s.rl = pc[c].rl /\ s.err = pc[c].err

BodyMayBe(r, c, l, b, s, kn) ==
    /\ b.fn => u[r].of = r
    /\ b.st = "open" /\ b.rerr = "none" => b.fn
    /\ b.rerr # "none" => ~b.fn
    /\ l \in Signalling => b.rerr # "none"
    /\ l \in Signalling \ {"notalive"} => b.rerr = "EOF"
    /\ b.st = "open" /\ b.fn => body[r].st = "open" /\ body[r].fn
    /\ Putting(s) => Putting(pc[c]) \/ kn = "put"
    /\ kn = "put" => Reader(r, c) /\ ~(b.st = "open" /\ b.fn)

LoopMayBe(r, c, l, b, s) ==
    /\ s.wait # << >> => InBody(s) \/ Doomed(s)
    /\ (b.st = "open" /\ b.fn) \/ l \in Signalling => s.rc = r /\ InBody(s) /\ s.wait = << >>
    /\ l = "body" /\ b.st = "open" /\ b.rerr = "err" => Doomed(s)
    /\ \A q \in Reqs \ {r} : u[q].pc = c =>
         /\ Reader(q, c) \/ u[q].st \in Signalling => s.rc = q /\ InBody(s) /\ s.wait = << >>
         /\ Errored(q) => Doomed(s)

LEMMA BodyEnds ==
    ASSUME NEW y \in BodyRec, NEW e \in {"EOF", "err"}
    PROVE  \E b \in BodyRec : b = [y EXCEPT !.rerr = e, !.fn = FALSE] /\ b.rerr = e /\ ~b.fn
<1>1. [y EXCEPT !.rerr = e, !.fn = FALSE] \in BodyRec
  BY DEF BodyRec
<1> WITNESS [y EXCEPT !.rerr = e, !.fn = FALSE] \in BodyRec
<1> QED BY DEF BodyRec

LEMMA BodyCloses ==
    ASSUME NEW y \in BodyRec
    PROVE  \E b \in BodyRec :
             b = [y EXCEPT !.st = "closed"] /\ b.st = "closed" /\ b.rerr = y.rerr /\ b.fn = y.fn
<1>1. [y EXCEPT !.st = "closed"] \in BodyRec
  BY DEF BodyRec
<1> WITNESS [y EXCEPT !.st = "closed"] \in BodyRec
<1> QED BY DEF BodyRec

LEMMA AppendHead ==
    ASSUME NEW S, NEW w \in Seq(S), NEW f \in S
    PROVE  /\ Append(w, f) \in Seq(S) /\ Append(w, f) # << >>
           /\ w = << >> => Head(Append(w, f)) = f
           /\ w # << >> => Head(Append(w, f)) = Head(w)
<1>1. Append(w, f) \in Seq(S) /\ Append(w, f) # << >>
  <2>1. Append(w, f) \in Seq(S) /\ Len(Append(w, f)) = Len(w) + 1 /\ Len(w) \in Nat
    OBVIOUS
  <2>2. Len(<< >>) = 0
    OBVIOUS
  <2> QED BY <2>1, <2>2
<1>2. w = << >> => Head(Append(w, f)) = f
  OBVIOUS
<1>3. w # << >> => Head(Append(w, f)) = Head(w)
  OBVIOUS
<1> QED BY <1>1, <1>2, <1>3

LEMMA BodyStep ==
    ASSUME TransportInv, NEW r \in Reqs, NEW c \in Pcs, u[r].pc = c,
           NEW l \in Signalling \cup {"body", "done"}, NEW b \in BodyRec, NEW s \in PcRec, NEW kn,
           BodyMove(r, c, l, b, s, kn), BodyMayBe(r, c, l, b, s, kn), LoopMayBe(r, c, l, b, s)
    PROVE  TransportInv'
<1>m. /\ u[r].st \in Signalling \cup {"body"} /\ UserTo(r, l)
      /\ body' = [body EXCEPT ![r] = b] /\ pc' = [pc EXCEPT ![c] = s]
      /\ UNCHANGED <<opt, t, d, closer, fatal>>
      /\ pc[c].made /\ s.made = pc[c].made /\ SameWire(pc[c], s) /\ s.rl = pc[c].rl /\ s.err = pc[c].err
  BY DEF BodyMove
<1>0. UserOK(r) /\ WireOK(c)
  BY DEF TransportInv
<1> DEFINE w == [u[r] EXCEPT !.st = l]
<1>1. w \in URec /\ w.pc = c /\ w.of = u[r].of /\ w.st = l
  <2>1. u[r] \in URec /\ l \in Places
    BY Types DEF Places
  <2> QED BY <2>1, UserTypes
<1>2. u' = [u EXCEPT ![r] = w]
  BY <1>m DEF UserTo
<1> HIDE DEF w
<1>3. pc'[c] = s /\ (\A x \in Pcs \ {c} : pc'[x] = pc[x])
      /\ u'[r] = w /\ (\A q \in Reqs \ {r} : u'[q] = u[q])
      /\ body'[r] = b /\ (\A q \in Reqs \ {r} : body'[q] = body[q])
  BY <1>m, <1>2, Types
<1>4. UserOK(r)'
  BY <1>1, <1>3, HttpConstants, <1>0 DEF UserOK, Early, Sending, Signalling, BodyMayBe
<1>5. WireOK(c)'
  BY <1>m, <1>0, <1>1, <1>3, WireKept DEF WireOK, ToRead, SameWire, User, Sending, Signalling
<1>6. LoopOK(c)'
  <2>1. ASSUME NEW q \in Reqs, u'[q].pc = c
        PROVE  /\ Reader(q, c)' \/ u'[q].st \in Signalling => s.rc = q /\ InBody(s) /\ s.wait = << >>
               /\ Errored(q)' => Doomed(s)
    <3>1. CASE q = r
      BY <1>1, <1>3, <3>1 DEF Reader, Errored, LoopMayBe
    <3>2. CASE q # r
      BY <1>3, <2>1, <3>2 DEF Reader, Errored, LoopMayBe
    <3> QED BY <3>1, <3>2
  <2>2. s.wait # << >> => InBody(s) \/ Doomed(s)
    BY DEF LoopMayBe
  <2> QED BY <1>3, <2>1, <2>2, LoopNow
<1>7. NewClaim(kn, nil, c)
  BY <1>3, <1>1, <1>m DEF BodyMayBe, User, Reader, NewClaim
<1>8. OneClaim'
  <2>1. CASE kn = "put"
    <3>1. Claim("reader", r, c) /\ r \in Claimants /\ "reader" \in Kinds
      BY <2>1, HttpConstants DEF Claim, Claimants, Kinds, BodyMayBe
    <3>2. ~Reader(r, c)'
      BY <1>3, <2>1 DEF Reader, BodyMayBe
    <3>3. ~Claim("reader", r, c)'
      BY <3>2 DEF Claim
    <3> QED BY <1>7, <3>1, <3>3, ClaimsOf, ClaimMoves DEF TransportInv
  <2>2. CASE kn # "put"
    BY <1>3, <2>2, <1>1, <1>m, NoNewClaim DEF BodyMayBe, User, Reader, NewClaim
  <2> QED BY <2>1, <2>2
<1>9. s.made
  BY <1>m
<1> QED BY <1>m, <1>1, <1>2, <1>4, <1>5, <1>6, <1>7, <1>8, <1>9, UserStep

LEMMA ReadEOFInv ==
    ASSUME TransportInv, NEW r \in Reqs, ReadEOF(r)
    PROVE  TransportInv'
<1>1. u[r].st = "body" /\ body[r].st = "open" /\ body[r].fn /\ UNCHANGED <<opt, t, d, closer, fatal>>
  BY DEF ReadEOF
<1>2. PICK c \in Pcs : u[r].pc = c
  BY <1>1, HasConn DEF Early
<1>3. UserOK(r) /\ Reader(r, c)
  BY <1>1, <1>2 DEF TransportInv, UserOK, Reader
<1>4. PICK p \in PcRec : p = pc[c]
  BY Types
<1>5. /\ p.rc = r /\ InBody(p) /\ p.wait = << >> /\ p.made
      /\ \A q \in Reqs \ {r} : u[q].pc = c =>
           ~Reader(q, c) /\ u[q].st \notin Signalling /\ ~Errored(q)
  BY <1>2, <1>3, <1>4, LoopWaits
<1>6. PICK b \in BodyRec : b = [body[r] EXCEPT !.rerr = "EOF", !.fn = FALSE] /\ b.rerr = "EOF" /\ ~b.fn
  <2>1. body[r] \in BodyRec
    BY Types
  <2> QED BY <2>1, BodyEnds, Zenon
<1>7. body' = [body EXCEPT ![r] = b]
  BY <1>6 DEF ReadEOF
<1>8. CASE p.alive
  <2>1. PICK s : s = [p EXCEPT !.put = "check", !.late = FALSE]
    OBVIOUS
  <2>2. s \in PcRec /\ s.made = p.made /\ s.rl = p.rl /\ s.err = p.err /\ SameLoop(p, s)
    BY <2>1 DEF PcRec, SameLoop
  <2>3. SameWire(p, s)
    BY <2>1 DEF PcRec, SameWire
  <2>4. pc' = [pc EXCEPT ![c] = s] /\ UserTo(r, "eof")
    BY <1>2, <1>4, <1>8, <2>1 DEF ReadEOF
  <2>5. InBody(s) /\ s.rc = r /\ s.wait = << >>
    BY <1>5, <2>2 DEF InBody, SameLoop
  <2>6. "eof" \in Signalling
    BY DEF Signalling
  <2>7. BodyMove(r, c, "eof", b, s, "put")
    BY <1>1, <1>4, <1>5, <1>7, <2>2, <2>3, <2>4 DEF BodyMove
  <2>8. BodyMayBe(r, c, "eof", b, s, "put")
    BY <1>3, <1>6 DEF BodyMayBe
  <2>9. LoopMayBe(r, c, "eof", b, s)
    BY <1>5, <2>5 DEF LoopMayBe
  <2> QED BY <1>2, <2>2, <2>6, <2>7, <2>8, <2>9, BodyStep
<1>9. CASE ~p.alive
  <2>1. pc' = [pc EXCEPT ![c] = p] /\ UserTo(r, "notalive")
    BY <1>2, <1>4, <1>9, Types DEF ReadEOF
  <2>2. "notalive" \in Signalling /\ SameWire(p, p)
    BY DEF Signalling, SameWire
  <2>3. BodyMove(r, c, "notalive", b, p, "none")
    BY <1>1, <1>4, <1>5, <1>7, <2>1, <2>2 DEF BodyMove
  <2>4. BodyMayBe(r, c, "notalive", b, p, "none")
    BY <1>4, <1>6 DEF BodyMayBe
  <2>5. LoopMayBe(r, c, "notalive", b, p)
    BY <1>5 DEF LoopMayBe
  <2> QED BY <1>2, <2>2, <2>3, <2>4, <2>5, BodyStep
<1> QED BY <1>8, <1>9

LEMMA ReadErrorInv ==
    ASSUME TransportInv, NEW r \in Reqs, ReadError(r)
    PROVE  TransportInv'
<1>1. u[r].st = "body" /\ body[r].st = "open" /\ body[r].fn /\ UNCHANGED <<opt, t, d, pc, closer, fatal>>
      /\ UserTo(r, "notalive")
  BY DEF ReadError
<1>2. PICK c \in Pcs : u[r].pc = c
  BY <1>1, HasConn DEF Early
<1>3. UserOK(r) /\ Reader(r, c)
  BY <1>1, <1>2 DEF TransportInv, UserOK, Reader
<1>4. PICK p \in PcRec : p = pc[c] /\ pc' = [pc EXCEPT ![c] = p]
  BY <1>1, Types
<1>5. /\ p.rc = r /\ InBody(p) /\ p.wait = << >> /\ p.made
      /\ \A q \in Reqs \ {r} : u[q].pc = c =>
           ~Reader(q, c) /\ u[q].st \notin Signalling /\ ~Errored(q)
  BY <1>2, <1>3, <1>4, LoopWaits
<1>6. PICK b \in BodyRec : b = [body[r] EXCEPT !.rerr = "err", !.fn = FALSE] /\ b.rerr = "err" /\ ~b.fn
  <2>1. body[r] \in BodyRec
    BY Types
  <2> QED BY <2>1, BodyEnds, Zenon
<1>7. body' = [body EXCEPT ![r] = b]
  BY <1>6 DEF ReadError
<1>8. "notalive" \in Signalling /\ SameWire(p, p)
  BY DEF Signalling, SameWire
<1>9. BodyMove(r, c, "notalive", b, p, "none")
  BY <1>1, <1>4, <1>5, <1>7, <1>8 DEF BodyMove
<1>10. BodyMayBe(r, c, "notalive", b, p, "none")
  BY <1>4, <1>6 DEF BodyMayBe
<1>11. LoopMayBe(r, c, "notalive", b, p)
  BY <1>5 DEF LoopMayBe
<1> QED BY <1>2, <1>8, <1>9, <1>10, <1>11, BodyStep

LEMMA EOFSendInv ==
    ASSUME TransportInv, NEW r \in Reqs, EOFSend(r)
    PROVE  TransportInv'
<1>1. u[r].st \in Signalling \ {"eof"} /\ UNCHANGED <<opt, t, d, body, closer, fatal>> /\ UserTo(r, "body")
  BY DEF EOFSend, Signalling
<1>2. PICK c \in Pcs : u[r].pc = c
  BY <1>1, HasConn DEF Early, Signalling
<1>3. UserOK(r)
  BY DEF TransportInv
<1>4. PICK p \in PcRec : p = pc[c]
  BY Types
<1>5. /\ p.rc = r /\ InBody(p) /\ p.wait = << >> /\ p.made
      /\ \A q \in Reqs \ {r} : u[q].pc = c =>
           ~Reader(q, c) /\ u[q].st \notin Signalling /\ ~Errored(q)
  BY <1>1, <1>2, <1>4, LoopWaits
<1>6. PICK v \in PcRec : v = (IF u[r].st = "alive" THEN p ELSE Closed(p)) /\ SameConn(p, v)
  BY ClosedConn, SameConnSelf
<1>7. PICK f \in BOOLEAN : f = (u[r].st # "notalive")
  OBVIOUS
<1>8. v.wait = << >> /\ Append(v.wait, f) = <<f>> /\ <<f>> \in Seq(BOOLEAN) /\ Head(<<f>>) = f /\ <<f>> # << >>
  <2>1. v.wait = << >>
    BY <1>5, <1>6 DEF SameConn, SameLoop
  <2>2. Append(<< >>, f) = <<f>> /\ <<f>> \in Seq(BOOLEAN) /\ Head(<<f>>) = f /\ <<f>> # << >>
    OBVIOUS
  <2> QED BY <2>1, <2>2
<1>9. PICK s : s = [v EXCEPT !.wait = <<f>>]
  OBVIOUS
<1>10. s \in PcRec /\ s.made = v.made /\ s.rl = v.rl /\ s.err = v.err /\ s.hasBody = v.hasBody
       /\ s.put = v.put /\ s.wait = <<f>>
  BY <1>8, <1>9 DEF PcRec
<1>11. SameWire(v, s)
  BY <1>9 DEF PcRec, SameWire
<1>12. SameWire(p, s) /\ s.made = p.made /\ s.rl = p.rl /\ s.err = p.err /\ s.hasBody = p.hasBody
       /\ (Putting(s) => Putting(p))
  BY <1>6, <1>10, <1>11 DEF SameConn, SameWire, SameLoop, Putting
<1>13. InBody(s) /\ (~f => Doomed(s))
  BY <1>5, <1>8, <1>10, <1>12 DEF InBody, Doomed
<1>14. pc' = [pc EXCEPT ![c] = s]
  BY <1>8, <1>9, <1>2, <1>4, <1>6, <1>7 DEF EOFSend, Loop
<1>15. PICK b \in BodyRec : b = body[r] /\ body' = [body EXCEPT ![r] = b]
  BY <1>1, Types
<1>16. b.rerr # "none" /\ ~b.fn /\ (f => b.rerr = "EOF")
  BY <1>1, <1>3, <1>7, <1>15 DEF UserOK
<1>17. "body" \notin Signalling
  BY DEF Signalling
<1>18. BodyMove(r, c, "body", b, s, "none")
  BY <1>1, <1>4, <1>5, <1>12, <1>14, <1>15 DEF BodyMove
<1>19. BodyMayBe(r, c, "body", b, s, "none")
  BY <1>4, <1>12, <1>16, <1>17 DEF BodyMayBe
<1>20. LoopMayBe(r, c, "body", b, s)
  BY <1>5, <1>13, <1>16, <1>17 DEF LoopMayBe
<1> QED BY <1>2, <1>10, <1>18, <1>19, <1>20, BodyStep

LEMMA BodyCloseInv ==
    ASSUME TransportInv, NEW r \in Reqs, BodyClose(r)
    PROVE  TransportInv'
<1>1. u[r].st = "body" /\ body[r].st = "open" /\ UNCHANGED <<opt, t, d, closer, fatal>> /\ UserTo(r, "done")
  BY DEF BodyClose
<1>2. PICK c \in Pcs : u[r].pc = c
  BY <1>1, HasConn DEF Early
<1>3. UserOK(r) /\ LoopOK(c) /\ Unclaimed(c)
  BY DEF TransportInv
<1>4. PICK p \in PcRec : p = pc[c]
  BY Types
<1>5. PICK b \in BodyRec : b = [body[r] EXCEPT !.st = "closed"]
                           /\ b.st = "closed" /\ b.rerr = body[r].rerr /\ b.fn = body[r].fn
  BY Types, BodyCloses
<1>6. body' = [body EXCEPT ![r] = b]
  BY <1>5 DEF BodyClose
<1>7. "done" \notin Signalling /\ "body" \notin Signalling
  BY DEF Signalling
<1>8. CASE body[r].rerr # "EOF"
  <2>1. PICK s : s = [p EXCEPT !.wait = Append(@, FALSE)]
    OBVIOUS
  <2>2. p.wait \in Seq(BOOLEAN)
    BY DEF PcRec
  <2>3. /\ Append(p.wait, FALSE) \in Seq(BOOLEAN) /\ Append(p.wait, FALSE) # << >>
        /\ p.wait = << >> => Head(Append(p.wait, FALSE)) = FALSE
        /\ p.wait # << >> => Head(Append(p.wait, FALSE)) = Head(p.wait)
    <3>1. FALSE \in BOOLEAN
      OBVIOUS
    <3> QED BY <2>2, <3>1, AppendHead, Zenon
  <2>4. s \in PcRec /\ s.made = p.made /\ s.rl = p.rl /\ s.err = p.err /\ s.hasBody = p.hasBody
        /\ s.put = p.put /\ s.wait = Append(p.wait, FALSE) /\ s.alive = p.alive
    BY <2>1, <2>3 DEF PcRec
  <2>5. SameWire(p, s)
    BY <2>1 DEF PcRec, SameWire
  <2>6. pc' = [pc EXCEPT ![c] = s]
    BY <1>2, <1>4, <1>8, <2>1 DEF BodyClose
  <2>7. (InBody(p) /\ p.wait = << >> => Doomed(s)) /\ (Doomed(p) => Doomed(s))
    BY <2>3, <2>4 DEF InBody, Doomed
  <2>8. /\ p.made /\ Doomed(s)
        /\ \A q \in Reqs \ {r} : u[q].pc = c => ~Reader(q, c) /\ u[q].st \notin Signalling
    <3>1. CASE body[r].rerr = "none"
      <4>1. Reader(r, c)
        BY <1>1, <1>2, <1>3, <3>1 DEF UserOK, Reader
      <4> QED BY <1>2, <1>4, <2>7, <4>1, LoopWaits
    <3>2. CASE body[r].rerr = "err"
      BY <1>1, <3>2, <1>2, <1>3, <1>4, <2>7 DEF Errored, LoopOK, Unclaimed, Fresh, Doomed, InBody
    <3> QED BY <1>8, <3>1, <3>2, Types DEF BodyRec
  <2>9. Putting(s) => Putting(p)
    BY <2>4 DEF Putting
  <2>10. (b.fn => u[r].of = r) /\ (b.rerr # "none" => ~b.fn) /\ b.st # "open"
    BY <1>3, <1>5 DEF UserOK
  <2>11. BodyMove(r, c, "done", b, s, "none")
    BY <1>1, <1>4, <1>6, <2>4, <2>5, <2>6, <2>8 DEF BodyMove
  <2>12. BodyMayBe(r, c, "done", b, s, "none")
    BY <1>4, <1>7, <2>9, <2>10 DEF BodyMayBe
  <2>13. LoopMayBe(r, c, "done", b, s)
    BY <1>7, <2>8, <2>10 DEF LoopMayBe
  <2> QED BY <1>2, <2>4, <2>11, <2>12, <2>13, BodyStep
<1>9. CASE body[r].rerr = "EOF"
  <2>1. pc' = pc
    BY <1>9 DEF BodyClose
  <2> DEFINE w == [u[r] EXCEPT !.st = "done"]
  <2>2. w \in URec /\ w.pc = c /\ w.of = u[r].of /\ w.st = "done"
    BY <1>2, Types, UserTypes DEF Places
  <2>3. u' = [u EXCEPT ![r] = w]
    BY <1>1 DEF UserTo
  <2> HIDE DEF w
  <2>4. /\ u'[r] = w /\ (\A q \in Reqs \ {r} : u'[q] = u[q])
        /\ body'[r] = b /\ (\A q \in Reqs \ {r} : body'[q] = body[q])
    BY <1>6, <2>3, Types
  <2>5. HttpTypeOK' /\ ~fatal'
    BY <1>1, <1>6, <2>1, <2>2, <2>3, Types DEF HttpTypeOK
  <2>6. UserOK(r)'
    BY <1>5, <2>2, <2>4, HttpConstants, <1>3 DEF UserOK, Early, Sending, Signalling
  <2>7. NewClaim("none", nil, c)
    <3>1. \A q \in Reqs, x \in Pcs : (User(q, x)' => User(q, x)) /\ (Reader(q, x)' => Reader(q, x))
      <4>1. u'[r].pc = u[r].pc /\ u'[r].of = u[r].of /\ body'[r].st = "closed"
        BY <1>2, <1>5, <2>2, <2>4
      <4> QED BY <2>4, <4>1 DEF User, Reader
    <3> QED BY <1>1, <2>1, <3>1 DEF NewClaim
  <2>8. OneClaim'
    BY <2>7, NoNewClaim
  <2>9. Unclaimed(c)'
    BY <2>7, ClaimsOf, <1>3, <2>1 DEF Kinds, Claimants, Unclaimed
  <2>10. WireOK(c)'
    BY <2>1, <1>2, <2>2, <2>4, WireKept DEF TransportInv, SameWire, WireOK, User, Sending
  <2>11. LoopOK(c)'
    <3>1. SameLoop(pc[c], pc'[c])
      BY <2>1 DEF SameLoop
    <3>2. \A q \in Reqs : u'[q].pc = c =>
             /\ Reader(q, c)' => Reader(q, c)
             /\ u'[q].st \in Signalling => u[q].pc = c /\ u[q].st \in Signalling
             /\ Errored(q)' => u[q].pc = c /\ Errored(q)
      BY <1>5, <1>7, <2>2, <2>4 DEF Reader, Errored
    <3> QED BY <1>3, <3>1, <3>2, LoopCarried
  <2>12. \A q \in Reqs \ {r} : /\ u'[q].pc = u[q].pc /\ u'[q].of = u[q].of
                               /\ u'[q].st = u[q].st /\ body'[q] = body[q]
    BY <2>4
  <2>13. u[r].pc \in {nil, c} /\ u'[r].pc \in {nil, c} /\ \A x \in Pcs \ {c} : pc'[x] = pc[x]
    BY <1>2, <2>1, <2>2, <2>4
  <2> QED BY <2>5, <2>6, <2>7, <2>8, <2>9, <2>10, <2>11, <2>12, <2>13, OneStep
<1> QED BY <1>8, <1>9

(***************************************************************************)
(* The invariant.                                                          *)
(***************************************************************************)
LEMMA UnusedOK ==
    Unused \in PcRec /\ Fresh(Unused) /\ ~Putting(Unused) /\ ToRead(Unused)
BY EmptySeq DEF ReqOrNil, Unused, PcRec, Fresh, Putting, ToRead

LEMMA InitInv ==
    ASSUME HttpInit
    PROVE  TransportInv
<1>1. /\ opt \in DOMAIN Options /\ fatal = FALSE
      /\ t = [idle |-> << >>, ch |-> nil, reqConn |-> [r \in Reqs |-> nil]]
      /\ u = [r \in Reqs |-> [st |-> "start", pc |-> nil, ch |-> nil, werr |-> "none", res |-> "none",
                              of |-> nil, dead |-> FALSE, timer |-> FALSE, err |-> FALSE]]
      /\ d = [r \in Reqs |-> [st |-> "none", pc |-> nil, late |-> FALSE]]
      /\ pc = [c \in Pcs |-> Unused]
      /\ body = [r \in Reqs |-> [st |-> "none", rerr |-> "none", fn |-> FALSE]]
      /\ closer = [st |-> "idle", todo |-> << >>, cancel |-> nil, left |-> Opt.cancel]
  BY DEF HttpInit
<1>2. /\ \A r \in Reqs : u[r].st = "start" /\ u[r].pc = nil /\ u[r].of = nil /\ d[r].pc = nil
                         /\ body[r].st = "none" /\ body[r].rerr = "none" /\ ~body[r].fn
      /\ \A c \in Pcs : pc[c] = Unused
      /\ DOMAIN t.idle = {}
  BY <1>1, EmptySeq
<1>3. HttpTypeOK
  BY <1>1, EmptySeq, HttpConstants, UnusedOK DEF ReqOrNil, PcOrNil, Opt, TRec, URec, Places, Early,
      DRec, BodyRec, CloserRec, HttpTypeOK
<1>4. \A r \in Reqs : UserOK(r)
  BY <1>2 DEF UserOK, Early, Sending, Signalling
<1>5. \A c \in Pcs, k \in Kinds, x \in Claimants : ~Claim(k, x, c)
  BY <1>2, UnusedOK, HttpConstants DEF Claim, User, Reader
<1>6. OneClaim
  BY <1>5, Zenon DEF OneClaim
<1>7. \A c \in Pcs : Unclaimed(c) /\ WireOK(c) /\ LoopOK(c)
  BY <1>2, UnusedOK, HttpConstants, <1>5 DEF Fresh, NoneOnWire, Unclaimed, WireOK, LoopOK
<1> QED BY <1>1, <1>3, <1>4, <1>6, <1>7 DEF TransportInv

LEMMA StepInv ==
    ASSUME TransportInv, HttpNext
    PROVE  TransportInv'
<1>1. ASSUME NEW r \in Reqs,
             getIdleConn(r) \/ getConn(r) \/ getIdleConnCh(r) \/ AwaitConn(r) \/ dialConn(r)
             \/ Dialed(r) \/ LateDial(r)
      PROVE  TransportInv'
  BY <1>1, getIdleConnInv, getConnInv, getIdleConnChInv, AwaitConnInv, dialConnInv, DialedInv, LateDialInv
<1>2. ASSUME NEW r \in Reqs, roundTrip(r)
      PROVE  TransportInv'
  BY <1>2, setReqConnInv, ExpectInv, SendWriteInv, SendReqInv, WrittenInv, DeadInv, TimeoutInv,
     ResponseInv, UnexpectInv, ForgetInv DEF roundTrip
<1>3. ASSUME NEW r \in Reqs, Body(r)
      PROVE  TransportInv'
  BY <1>3, NoBodyInv, ReadEOFInv, ReadErrorInv, EOFPutInv, EOFSendInv, BodyCloseInv DEF Body
<1>4. ASSUME NEW c \in Pcs, putIdleConn(c)
      PROVE  TransportInv'
  BY <1>4, HandOverInv, KeepInv, FullInv DEF putIdleConn
<1>5. ASSUME NEW c \in Pcs, readLoop(c)
      PROVE  TransportInv'
  BY <1>5, PeekInv, CheckInv, RecvInv, PutBackInv, DeliverInv, BodyReadInv, UnsetInv, ReadExitInv
     DEF readLoop
<1>6. ASSUME NEW c \in Pcs, writeLoop(c)
      PROVE  TransportInv'
  BY <1>6, WriteBeginInv, WriteEndInv, WriteExitInv DEF writeLoop
<1>7. ASSUME NEW c \in Pcs, putIdleCheck(c) \/ ServerAnswers(c) \/ ServerHangsUp(c)
      PROVE  TransportInv'
  BY <1>7, putIdleCheckInv, ServerAnswersInv, ServerHangsUpInv
<1>8. ASSUME NEW r \in Reqs, HeaderTimeout(r) \/ CancelRequest(r)
      PROVE  TransportInv'
  BY <1>8, TimeoutInv, CancelRequestInv
<1>9. ASSUME CloseNext \/ CancelClose \/ CloseIdleConnections
      PROVE  TransportInv'
  BY <1>9, CloseNextInv, CancelCloseInv, CloseIdleInv
<1> QED BY <1>1, <1>2, <1>3, <1>4, <1>5, <1>6, <1>7, <1>8, <1>9, Zenon DEF HttpNext, HttpProgress

(* The inductive invariant: at most one claim to a connection, at most the *)
(* claimant's request on its wire, and a readLoop that waits while a body  *)
(* is read.  log.Fatalf is never called.                                   *)
THEOREM TransportInvariant == HttpSpec => []TransportInv
<1>1. HttpInit => TransportInv
  BY InitInv
<1>2. TransportInv /\ [HttpNext]_hvars => TransportInv'
  <2>1. CASE HttpNext
    BY <2>1, StepInv
  <2>2. ASSUME TransportInv, UNCHANGED hvars PROVE TransportInv'
    BY <2>2, OnlyConn, Types DEF hvars
  <2> QED BY <2>1, <2>2
<1> QED BY <1>1, <1>2, PTL DEF HttpSpec

(***************************************************************************)
(* What the invariant says of responses and of idle connections.           *)
(***************************************************************************)
LEMMA AtMostOne ==
    ASSUME NEW S, \A x, y \in S : x = y
    PROVE  Cardinality(S) <= 1
<1>1. CASE S = {}
  BY <1>1, FS_EmptySet
<1>2. CASE S # {}
  BY <1>2, FS_Singleton
<1> QED BY <1>1, <1>2

(* A sequence without repetition is as long as its range is large.         *)
LEMMA NoRepeat ==
    ASSUME NEW S, NEW s \in Seq(S), \A x, y \in DOMAIN s : s[x] = s[y] => x = y
    PROVE  Cardinality(Range(s)) = Len(s)
<1>1. DOMAIN s = 1 .. Len(s) /\ Len(s) \in Nat
  OBVIOUS
<1>2. s \in [1 .. Len(s) -> Range(s)]
  BY <1>1 DEF Range
<1>3. s \in Surjection(1 .. Len(s), Range(s))
  BY <1>1, <1>2 DEF Surjection, Range
<1>4. s \in Injection(1 .. Len(s), Range(s))
  BY <1>1, <1>2 DEF Injection, IsInjective
<1>5. IsFiniteSet(1 .. Len(s)) /\ Cardinality(1 .. Len(s)) = Len(s)
  BY <1>1, FS_Interval
<1> QED BY <1>3, <1>4, <1>5, FS_Surjection

LEMMA TransportInvIsSafe ==
    ASSUME TransportInv
    PROVE  TransportSafe
<1>1. OwnResponse
  BY DEF TransportInv, UserOK, OwnResponse
<1>2. ASSUME NEW c \in Pcs
      PROVE  Cardinality(Using(c)) <= 1
  BY SoleUser, AtMostOne DEF Using, User
<1>3. ASSUME NEW c \in Range(t.idle)
      PROVE  Using(c) = {} /\ Reading(c) = {}
  <2>1. PICK x \in DOMAIN t.idle : t.idle[x] = c
    BY DEF Range
  <2>2. c \in Pcs /\ x \in Claimants /\ "idle" \in Kinds \ {"user"} /\ "reader" \in Kinds
    BY <2>1, Types DEF Claimants, Kinds
  <2>3. Claim("idle", x, c)
    BY <2>1, Zenon DEF Claim
  <2>4. \A r \in Reqs : ~User(r, c)
    BY <2>2, <2>3, QuietWire
  <2>5. \A r \in Reqs : ~Reader(r, c)
    BY HttpConstants, <2>2, <2>3 DEF Claim, Claimants, TransportInv, OneClaim
  <2> QED BY <2>4, <2>5 DEF Using, Reading, User, Reader
<1>4. Cardinality(Range(t.idle)) = Len(t.idle)
  <2>1. ASSUME NEW x \in DOMAIN t.idle, NEW y \in DOMAIN t.idle, t.idle[x] = t.idle[y]
        PROVE  x = y
    <3>1. t.idle[x] \in Pcs /\ x \in Claimants /\ y \in Claimants /\ "idle" \in Kinds
      BY Types DEF Claimants, Kinds
    <3>2. Claim("idle", x, t.idle[x]) /\ Claim("idle", y, t.idle[x])
      BY <2>1, Zenon DEF Claim
    <3> QED BY <3>1, <3>2, Zenon DEF TransportInv, OneClaim
  <2> QED BY <2>1, NoRepeat, Types
<1>5. IdleIsFree
  BY <1>2, <1>3, <1>4 DEF IdleIsFree, TransportInv
<1>6. OneReader
  BY LoopWaits DEF OneReader, Reading, Reader, InBody
<1> QED BY <1>1, <1>5, <1>6 DEF TransportSafe

(* A response goes to the request it answers, a connection serves one      *)
(* request at a time, putIdleConn never puts one in the list twice, and    *)
(* readLoop keeps off a connection while its body is read.                 *)
THEOREM TransportIsSafe == HttpSpec => []TransportSafe
<1>1. TransportInv => TransportSafe
  BY TransportInvIsSafe
<1> QED BY <1>1, TransportInvariant, PTL
=============================================================================
