------------------------------- MODULE MCChan -------------------------------
(* Small instances of Chan: who may call what, on which channels.          *)
EXTENDS ChanInv

Cas(d, c) == [dir |-> d, ch |-> c]
Snd(c) == [fn |-> "chansend", block |-> TRUE, cases |-> <<Cas("send", c)>>]
Rcv(c) == [fn |-> "chanrecv", block |-> TRUE, cases |-> <<Cas("recv", c)>>]
TrySnd(c) == [Snd(c) EXCEPT !.block = FALSE]
TryRcv(c) == [Rcv(c) EXCEPT !.block = FALSE]
Cls(c) == [fn |-> "closechan", block |-> TRUE, cases |-> <<Cas("send", c)>>]
Sel(cases) == [fn |-> "selectgo", block |-> TRUE, cases |-> cases]
SelDfl(cases) == [Sel(cases) EXCEPT !.block = FALSE]

CONSTANTS g1, g2, g3, g4

Three == {g1, g2, g3}
Ops221 == [g \in Three |-> IF g = g3 THEN 1 ELSE 2]
Ops211 == [g \in Three |-> IF g = g1 THEN 2 ELSE 1]
Cap02 == [c \in {1, 2} |-> IF c = 1 THEN 0 ELSE 2]
Cap11 == [c \in {1, 2} |-> 1]
Cap10 == [c \in {1, 2} |-> IF c = 1 THEN 1 ELSE 0]

(* Plain operations on an unbuffered channel, a buffered one and nil.      *)
PlainMenu == [g \in Three |->
    CASE g = g1 -> UNION {{Snd(c), TrySnd(c), Cls(c)} : c \in {1, 2}} \union {Snd(Nil), TrySnd(Nil)}
      [] g = g2 -> UNION {{Rcv(c), TryRcv(c), Snd(c), Cls(c)} : c \in {1, 2}} \union {Cls(Nil)}
      [] g = g3 -> UNION {{Rcv(c), Snd(c)} : c \in {1, 2}} \union {Rcv(Nil), TryRcv(Nil)}]

(* Selects against selects, plain operations and a close, two channels:    *)
(* both directions, the same channel twice, nil cases, default, no cases.  *)
Both(d, e) == <<Cas(d, 1), Cas(e, 2)>>
SelMenu == [g \in Three |->
    CASE g = g1 -> {Sel(Both("recv", "recv")), SelDfl(Both("send", "recv")),
                    Sel(<<Cas("recv", 2), Cas("send", 2)>>)}
      [] g = g2 -> {Sel(Both("send", "recv")), Snd(1), Rcv(2), Sel(<<>>)}
      [] g = g3 -> {Snd(2), Cls(1), Cls(2), Rcv(1),
                    Sel(<<Cas("send", Nil), Cas("send", 1), Cas("send", 1)>>),
                    SelDfl(<<Cas("send", Nil), Cas("recv", Nil)>>)}]

(* A select and a plain receiver wait on buffered channel 1; one sender    *)
(* each for channels 1 and 2.                                              *)
Four == {g1, g2, g3, g4}
OpsFour == [g \in Four |-> 1]
StrandMenu == [g \in Four |->
    CASE g = g1 -> {Sel(Both("recv", "recv"))}
      [] g = g2 -> {Rcv(1)}
      [] g = g3 -> {Snd(1)}
      [] g = g4 -> {Snd(2)}]
=============================================================================
