------------------------------- MODULE MCLib -------------------------------
(***************************************************************************)
(* Packages that know nothing of each other, checked side by side: package *)
(* context, http.Transport and network descriptors.  A behaviour is one of *)
(* the package that scen names; the others stay as they are.               *)
(***************************************************************************)
EXTENDS Context, HttpTransport, NetFD

VARIABLE scen

all == <<scen, cvars, hvars, nvars>>

(***************************************************************************)
(* The instances                                                           *)
(***************************************************************************)

(* A root; a child with a deadline, which has a child of its own; a child  *)
(* that is derived through another type of Context; one more child.        *)
Tree == [c \in Ctxs |-> CASE c = 1 -> None [] c = 3 -> 2 [] OTHER -> 1]

Plain ==
    [keepAlives |-> TRUE, maxIdle |-> 1, hangs |-> 0, headerTimeout |-> FALSE, closeIdle |-> FALSE,
     cancel |-> {}, bodies |-> {FALSE}, closes |-> {FALSE}, sequential |-> TRUE]
HttpOptions ==
    <<[Plain EXCEPT !.bodies = {TRUE}, !.sequential = FALSE],
     [Plain EXCEPT !.bodies = {TRUE}, !.cancel = {1}],
     [Plain EXCEPT !.bodies = {TRUE}, !.keepAlives = FALSE],
     [Plain EXCEPT !.hangs = 1], [Plain EXCEPT !.headerTimeout = TRUE],
     [Plain EXCEPT !.closeIdle = TRUE], [Plain EXCEPT !.closes = BOOLEAN]>>

NCall(op, f) == [op |-> op, fd |-> f, n |-> 1]
Write2 == [NCall("Write", 1) EXCEPT !.n = 2]
SetDeadline(f, ms, when) == [op |-> "SetDeadline", fd |-> f, modes |-> ms, d |-> when]
NProg(a, b, c, r1, w1, r2) ==
    [calls |-> <<a, b, c>>, arrivals |-> <<[r |-> r1, w |-> w1], [r |-> r2, w |-> 0]>>]
R == {"r"}
RW == {"r", "w"}
Conns ==
    <<NProg(<<NCall("Read", 1), NCall("Read", 1)>>, <<NCall("Read", 1)>>,
           <<SetDeadline(1, R, 1), NCall("Close", 1)>>, 1, 0, 0),
     NProg(<<NCall("Read", 1)>>, <<SetDeadline(1, R, -1), SetDeadline(1, R, 0), NCall("shutdown", 1)>>,
           <<NCall("Close", 1), NCall("Close", 1)>>, 1, 0, 0),
     NProg(<<NCall("Read", 1)>>, <<Write2>>,
           <<SetDeadline(1, RW, 1), SetDeadline(1, R, 2)>>, 0, 1, 0),
     NProg(<<NCall("Close", 1), NCall("Open", 2), NCall("Read", 2)>>, <<NCall("Read", 1)>>,
           <<SetDeadline(1, R, 1), SetDeadline(2, R, 2)>>, 0, 0, 1),
     NProg(<<NCall("Close", 1), NCall("Open", 2), NCall("Read", 2)>>, <<NCall("Read", 1)>>,
           << >>, 1, 0, 1),
     NProg(<<NCall("RawControl", 1), NCall("RawRead", 1)>>, <<NCall("RawWrite", 1)>>, << >>, 1, 1, 0)>>

(* Raw connections and a Close.                                            *)
RawConns ==
    <<NProg(<<NCall("RawControl", 1)>>, <<NCall("RawRead", 1)>>, <<NCall("Close", 1)>>, 1, 0, 0)>>

(***************************************************************************)
(* The specification                                                       *)
(***************************************************************************)
Init ==
    /\ ContextInit /\ HttpInit /\ NetInit
    /\ \/ scen = "context"
       \/ scen = "http"
       \/ scen = "net"
    /\ scen # "http" => opt = 1
    /\ scen # "net" => nprog = 1

OnlyContext == scen = "context" /\ UNCHANGED <<scen, hvars, nvars>>
OnlyHttp == scen = "http" /\ UNCHANGED <<scen, cvars, nvars>>
OnlyNet == scen = "net" /\ UNCHANGED <<scen, cvars, hvars>>

Next ==
    \/ OnlyContext /\ ContextNext
    \/ OnlyHttp /\ HttpNext
    \/ OnlyNet /\ NetNext

Progress ==
    \/ OnlyContext /\ ContextProgress
    \/ OnlyHttp /\ HttpProgress
    \/ OnlyNet /\ NetProgress

Spec == Init /\ [][Next]_all

(* All runs are finite: it is enough that something goes on.               *)
FairSpec == Spec /\ WF_all(Progress)

(***************************************************************************)
(* Properties, besides those of the modules                                *)
(***************************************************************************)

(* What must come to an end does: every cancel of a context returns, every *)
(* RoundTrip too, although servers hang up, dials fail, and requests are   *)
(* cancelled or time out; and Close ends every call on a connection and    *)
(* then closes the socket.                                                 *)
AllEnd == CancelReturns /\ (scen = "http" => AllReturn) /\ CloseEnds
=============================================================================
