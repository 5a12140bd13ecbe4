----------------------------- MODULE LockProofs -----------------------------
(***************************************************************************)
(* Mutex and RWMutex, for any goroutines and any programs that lock and    *)
(* unlock in turn: they exclude whom they should, and a writer waits only  *)
(* for the readers that were there before it.                              *)
(***************************************************************************)
EXTENDS SyncProofs

(***************************************************************************)
(* Programs that unlock what they have locked.                             *)
(***************************************************************************)
LEMMA TimesStep ==
    ASSUME NEW cs, NEW n \in Int, n >= 0, NEW a
    PROVE  /\ Times(cs, n, a) \in Nat
           /\ n + 1 \in DOMAIN cs /\ cs[n + 1] = a => Times(cs, n + 1, a) = Times(cs, n, a) + 1
           /\ ~(n + 1 \in DOMAIN cs /\ cs[n + 1] = a) => Times(cs, n + 1, a) = Times(cs, n, a)
<1> DEFINE S(m) == {i \in 1 .. m : i \in DOMAIN cs /\ cs[i] = a}
<1>1. IsFiniteSet(1 .. n)
  BY FS_Interval
<1>2. IsFiniteSet(S(n)) /\ Cardinality(S(n)) \in Nat
  <2>1. S(n) \subseteq 1 .. n
    OBVIOUS
  <2> QED BY <1>1, <2>1, FS_Subset, FS_CardinalityType
<1>3. CASE n + 1 \in DOMAIN cs /\ cs[n + 1] = a
  <2>1. S(n + 1) = S(n) \cup {n + 1} /\ n + 1 \notin S(n)
    BY <1>3
  <2> HIDE DEF S
  <2>2. Cardinality(S(n + 1)) = Cardinality(S(n)) + 1
    BY <1>2, <2>1, FS_AddElement
  <2> QED BY <1>2, <1>3, <2>2 DEF Times, S
<1>4. CASE ~(n + 1 \in DOMAIN cs /\ cs[n + 1] = a)
  <2>1. S(n + 1) = S(n)
    BY <1>4
  <2> QED BY <1>2, <1>4, <2>1 DEF Times
<1> QED BY <1>3, <1>4

LEMMA TimesNone ==
    ASSUME NEW cs, NEW n \in Int, n <= 0, NEW a
    PROVE  Times(cs, n, a) = 0
<1>1. {i \in 1 .. n : i \in DOMAIN cs /\ cs[i] = a} = {}
  OBVIOUS
<1> QED BY <1>1, FS_EmptySet DEF Times

(* Within a call, at the beginning of one and at its end.                  *)
LEMMA BetweenOn ==
    ASSUME NEW r, NEW s, NEW cs, s.ip = r.ip, r.pc # "next", s.pc # "next"
    PROVE  /\ \A a, b : Between(s, cs, a, b) <=> Between(r, cs, a, b)
           /\ CurrentOf(s, cs) = CurrentOf(r, cs)
BY DEF Between, Past, CurrentOf

Paired(a, b) == <<a, b>> \in {<<"Lock", "Unlock">>, <<"RLock", "RUnlock">>, <<"WLock", "WUnlock">>}

LEMMA PairedAlternate ==
    ASSUME NEW cs, WellPaired(cs), NEW a, NEW b, Paired(a, b), NEW n \in 0 .. Len(cs)
    PROVE  Times(cs, n, a) - Times(cs, n, b) \in {0, 1} /\ a # b /\ a # "none" /\ b # "none"
BY DEF Paired, WellPaired, Alternate

LEMMA BetweenBegin ==
    ASSUME NEW cs \in Seq(Calls), NEW r, NEW s, r.ip \in Nat \ {0}, s.ip = r.ip + 1, r.pc = "next", s.pc # "next"
    PROVE  /\ CurrentOf(r, cs) = "none" /\ CurrentOf(s, cs) = cs[r.ip]
           /\ \A a, b : b # "none" => (Between(s, cs, a, b) <=> Between(r, cs, a, b) /\ cs[r.ip] # b)
           /\ WellPaired(cs) /\ r.ip \in DOMAIN cs =>
                \A a, b : Paired(a, b) /\ cs[r.ip] = b => Between(r, cs, a, b)
<1>1. Past(s) = Past(r) /\ Past(r) = r.ip - 1 /\ CurrentOf(r, cs) = "none" /\ CurrentOf(s, cs) = cs[r.ip]
  BY DEF Past, CurrentOf
<1>2. \A a, b : b # "none" => (Between(s, cs, a, b) <=> Between(r, cs, a, b) /\ cs[r.ip] # b)
  BY <1>1 DEF Between
<1>3. ASSUME WellPaired(cs), r.ip \in DOMAIN cs, NEW a, NEW b, Paired(a, b), cs[r.ip] = b
      PROVE  Between(r, cs, a, b)
  <2>1. PICK n \in Int : n = r.ip - 1
    OBVIOUS
  <2>2. n >= 0 /\ n + 1 = r.ip /\ n \in 0 .. Len(cs) /\ n + 1 \in 0 .. Len(cs)
    BY <1>3, <2>1
  <2>3. a # b /\ a # "none" /\ b # "none"
    BY <1>3, <2>2, PairedAlternate
  <2>4. Times(cs, n, a) \in Nat /\ Times(cs, n, b) \in Nat
    BY <2>2, TimesStep
  <2>5. Times(cs, n + 1, b) = Times(cs, n, b) + 1
    BY <1>3, <2>2, TimesStep
  <2>6. Times(cs, n + 1, a) = Times(cs, n, a)
    BY <1>3, <2>2, <2>3, TimesStep
  <2>7. Times(cs, n + 1, a) - Times(cs, n + 1, b) \in {0, 1}
    BY <1>3, <2>2, PairedAlternate
  <2>8. Times(cs, n, a) > Times(cs, n, b)
    BY <2>4, <2>5, <2>6, <2>7
  <2> QED BY <1>1, <2>1, <2>3, <2>8 DEF Between
<1> QED BY <1>1, <1>2, <1>3

LEMMA BetweenEnd ==
    ASSUME NEW cs \in Seq(Calls), WellPaired(cs), NEW r, NEW s, r.ip \in Nat \ {0}, s.ip = r.ip,
           r.ip - 1 \in DOMAIN cs, r.pc # "next", s.pc = "next", NEW a, NEW b, Paired(a, b)
    PROVE  /\ CurrentOf(s, cs) = "none" /\ CurrentOf(r, cs) = cs[r.ip - 1]
           /\ cs[r.ip - 1] = a => ~Between(r, cs, a, b) /\ Between(s, cs, a, b)
           /\ cs[r.ip - 1] = b => ~Between(r, cs, a, b) /\ ~Between(s, cs, a, b)
           /\ cs[r.ip - 1] \notin {a, b} => (Between(s, cs, a, b) <=> Between(r, cs, a, b))
<1>1. PICK n \in Int : n = r.ip - 2
  OBVIOUS
<1>2. n >= 0 /\ n + 1 = r.ip - 1 /\ n \in 0 .. Len(cs) /\ n + 1 \in 0 .. Len(cs) /\ n + 1 \in DOMAIN cs /\ r.ip # 1
  BY <1>1
<1>3. Past(r) = n /\ Past(s) = n + 1 /\ CurrentOf(s, cs) = "none" /\ CurrentOf(r, cs) = cs[n + 1]
  BY <1>1, <1>2 DEF Past, CurrentOf
<1>4. a # b /\ a # "none" /\ b # "none"
  BY <1>2, PairedAlternate
<1>5. Times(cs, n, a) \in Nat /\ Times(cs, n, b) \in Nat
  BY <1>2, TimesStep
<1>6. Times(cs, n + 1, a) = Times(cs, n, a) + Bit(cs[n + 1] = a)
  BY <1>2, <1>5, TimesStep DEF Bit
<1>7. Times(cs, n + 1, b) = Times(cs, n, b) + Bit(cs[n + 1] = b)
  BY <1>2, <1>5, TimesStep DEF Bit
<1>8. Times(cs, n, a) - Times(cs, n, b) \in {0, 1} /\ Times(cs, n + 1, a) - Times(cs, n + 1, b) \in {0, 1}
  BY <1>2, PairedAlternate
<1>9. Between(r, cs, a, b) <=> Times(cs, n, a) > Times(cs, n, b) /\ cs[n + 1] # b
  BY <1>3 DEF Between
<1>10. Between(s, cs, a, b) <=> Times(cs, n + 1, a) > Times(cs, n + 1, b)
  BY <1>3, <1>4 DEF Between
<1>11. CASE cs[n + 1] = a
  <2>1. Times(cs, n + 1, a) = Times(cs, n, a) + 1 /\ Times(cs, n + 1, b) = Times(cs, n, b)
    BY <1>4, <1>5, <1>6, <1>7, <1>11 DEF Bit
  <2> QED BY <1>2, <1>3, <1>4, <1>5, <1>8, <1>9, <1>10, <1>11, <2>1
<1>12. CASE cs[n + 1] = b
  <2>1. Times(cs, n + 1, a) = Times(cs, n, a) /\ Times(cs, n + 1, b) = Times(cs, n, b) + 1
    BY <1>4, <1>5, <1>6, <1>7, <1>12 DEF Bit
  <2> QED BY <1>2, <1>3, <1>4, <1>5, <1>8, <1>9, <1>10, <1>12, <2>1
<1>13. CASE cs[n + 1] \notin {a, b}
  <2>1. Times(cs, n + 1, a) = Times(cs, n, a) /\ Times(cs, n + 1, b) = Times(cs, n, b)
    BY <1>5, <1>6, <1>7, <1>13 DEF Bit
  <2> QED BY <1>2, <1>3, <1>9, <1>10, <1>13, <2>1
<1> QED BY <1>11, <1>12, <1>13

(***************************************************************************)
(* The part a goroutine has in the accounts of Mutex "m" and RWMutex.      *)
(***************************************************************************)
(* What its record says of it at a place, whatever it has called before.   *)
Bits(r, s) ==
    /\ \A x \in {"m", "w"} : (s.pc = "unlock" /\ s.mu = x) <=> (r.pc = "unlock" /\ r.mu = x)
    /\ \A l \in {"await", "wannounce", "wwait", "wunlock", "runlock", "rdepart"} : s.pc = l <=> r.pc = l
    /\ LetsIn(s) <=> LetsIn(r)
    /\ \A a \in {"readerSem", "writerSem"} : /\ SleepsAt(s, a) <=> SleepsAt(r, a)
                                             /\ ReleasesOne(s, a) <=> ReleasesOne(r, a)
    /\ LetsIn(s) \/ s.pc = "wwait" => s.n = r.n

NoBits(r) ==
    /\ ~(r.pc = "unlock" /\ r.mu \in {"m", "w"})
    /\ r.pc \notin {"await", "wannounce", "wwait", "wunlock", "runlock", "rdepart"}
    /\ ~LetsIn(r)
    /\ \A a \in {"readerSem", "writerSem"} : ~SleepsAt(r, a) /\ ~ReleasesOne(r, a)

(* s has the part that r had: of a writer, of a reader, as a holder.       *)
WriterSame(r, s, cs) ==
    /\ Writes(s, cs) <=> Writes(r, cs)
    /\ s.pc = "wwait" <=> r.pc = "wwait"
    /\ SleepsAt(s, "writerSem") <=> SleepsAt(r, "writerSem")
    /\ LetsIn(s) <=> LetsIn(r)
    /\ LetsIn(s) \/ s.pc = "wwait" => s.n = r.n
ReaderSame(r, s, cs) ==
    /\ Reads(s, cs) <=> Reads(r, cs)
    /\ SleepsAt(s, "readerSem") <=> SleepsAt(r, "readerSem")
    /\ s.pc = "rdepart" <=> r.pc = "rdepart"
    /\ \A a \in {"readerSem", "writerSem"} : ReleasesOne(s, a) <=> ReleasesOne(r, a)
Alike(r, s, cs) ==
    /\ CallOf(s, cs)
    /\ \A x \in {"m", "w"} : Has(s, cs, x) <=> Has(r, cs, x)
    /\ WriterSame(r, s, cs) /\ ReaderSame(r, s, cs)

LEMMA AlikeSelf ==
    ASSUME NEW r, NEW cs, CallOf(r, cs)
    PROVE  Alike(r, r, cs)
BY DEF Alike, WriterSame, ReaderSame

(* In none of the calls that matter.                                       *)
LEMMA OutOfCalls ==
    ASSUME NEW r, r.pc \in {"next", "unborn"} \/ \A c \in LockCalls : ~In(r, c)
    PROVE  NoBits(r)
<1>1. CASE r.pc \in {"next", "unborn"}
  BY <1>1 DEF NoBits, LetsIn, SleepsAt, ReleasesOne, Waking, Releasing
<1>2. CASE \A c \in LockCalls : ~In(r, c)
  <2>1. ~In(r, "Unlock") /\ ~In(r, "Await") /\ ~In(r, "RLock") /\ ~In(r, "RUnlock") /\ ~In(r, "WLock") /\ ~In(r, "WUnlock")
    BY <1>2 DEF LockCalls
  <2>2. ~UnlocksM(r) /\ r.pc # "await"
    BY <2>1 DEF In
  <2>3. r.pc # "rlock" /\ ~(r.pc \in Waking /\ r.sa = "readerSem")
    BY <2>1 DEF In
  <2>4. r.pc \notin {"runlock", "rdepart"} /\ ~(r.pc \in Releasing /\ r.sa = "writerSem")
    BY <2>1 DEF In
  <2>5. r.pc \notin {"wannounce", "wwait"} /\ ~(r.pc \in Waking /\ r.sa = "writerSem")
    BY <2>1 DEF In
  <2>6. r.pc \notin {"wunlock", "wrelease"} /\ ~(r.pc \in Unlocking /\ r.mu = "w") /\ ~(r.pc \in Releasing /\ r.sa = "readerSem")
    BY <2>1 DEF In
  <2>7. "srel" \in Releasing /\ "unlock" \in Unlocking
    BY DEF Releasing, Unlocking
  <2> QED BY <2>2, <2>3, <2>4, <2>5, <2>6, <2>7 DEF NoBits, LetsIn, SleepsAt, ReleasesOne, UnlocksM
<1> QED BY <1>1, <1>2

(* A step within a call.                                                   *)
LEMMA AlikeOn ==
    ASSUME NEW cs, NEW r, NEW s, CallOf(r, cs), s.ip = r.ip, {r.pc, s.pc} \cap {"next", "unborn"} = {},
           Bits(r, s), \A c \in LockCalls : In(s, c) <=> In(r, c)
    PROVE  Alike(r, s, cs)
<1>1. /\ \A a, b : Between(s, cs, a, b) <=> Between(r, cs, a, b)
      /\ CurrentOf(s, cs) = CurrentOf(r, cs)
  BY BetweenOn
<1>2. CallOf(s, cs)
  BY DEF CallOf
<1>3. /\ \A x \in {"m", "w"} : (s.pc = "unlock" /\ s.mu = x) <=> (r.pc = "unlock" /\ r.mu = x)
      /\ s.pc = "await" <=> r.pc = "await"
      /\ s.pc = "wannounce" <=> r.pc = "wannounce"
      /\ s.pc = "wwait" <=> r.pc = "wwait"
      /\ s.pc = "wunlock" <=> r.pc = "wunlock"
      /\ s.pc = "runlock" <=> r.pc = "runlock"
      /\ s.pc = "rdepart" <=> r.pc = "rdepart"
      /\ LetsIn(s) <=> LetsIn(r)
      /\ SleepsAt(s, "readerSem") <=> SleepsAt(r, "readerSem")
      /\ SleepsAt(s, "writerSem") <=> SleepsAt(r, "writerSem")
      /\ LetsIn(s) \/ s.pc = "wwait" => s.n = r.n
  BY Zenon DEF Bits
<1>4. Writes(s, cs) <=> Writes(r, cs)
  BY <1>1, <1>3, Zenon DEF Writes
<1>5. Announced(s, cs) <=> Announced(r, cs)
  BY <1>3, <1>4, Zenon DEF Announced
<1>6. Reads(s, cs) <=> Reads(r, cs)
  BY <1>1, <1>3, Zenon DEF Reads
<1>7. ASSUME NEW x \in {"m", "w"} PROVE Has(s, cs, x) <=> Has(r, cs, x)
  BY <1>1, <1>3, <1>5, Zenon DEF Has
<1> QED BY <1>2, <1>3, <1>4, <1>6, <1>7, Zenon DEF Alike, WriterSame, ReaderSame, Bits

(* Without bits only the calls completed count.                            *)
LEMMA OfNoBits ==
    ASSUME NEW cs, NEW r, NoBits(r)
    PROVE  /\ Has(r, cs, "m") <=> Between(r, cs, "Lock", "Unlock") /\ CurrentOf(r, cs) # "Await"
           /\ Has(r, cs, "w") <=> Between(r, cs, "WLock", "WUnlock")
           /\ Writes(r, cs) <=> Between(r, cs, "WLock", "WUnlock")
           /\ Reads(r, cs) <=> Between(r, cs, "RLock", "RUnlock")
           /\ r.pc \notin {"rdepart", "wwait"} /\ ~LetsIn(r)
           /\ \A a \in {"readerSem", "writerSem"} : ~SleepsAt(r, a) /\ ~ReleasesOne(r, a)
<1>1. /\ ~(r.pc = "unlock" /\ r.mu = "m") /\ ~(r.pc = "unlock" /\ r.mu = "w")
      /\ r.pc # "await" /\ r.pc # "wannounce" /\ r.pc # "wwait" /\ r.pc # "wunlock" /\ r.pc # "runlock"
      /\ r.pc # "rdepart" /\ ~LetsIn(r) /\ ~SleepsAt(r, "writerSem")
  BY DEF NoBits
<1>2. Writes(r, cs) <=> Between(r, cs, "WLock", "WUnlock")
  BY <1>1 DEF Writes
<1>3. Announced(r, cs) <=> Between(r, cs, "WLock", "WUnlock")
  BY <1>1, <1>2 DEF Announced
<1>4. Has(r, cs, "w") <=> Between(r, cs, "WLock", "WUnlock")
  BY <1>1, <1>3 DEF Has
<1>5. Has(r, cs, "m") <=> Between(r, cs, "Lock", "Unlock") /\ CurrentOf(r, cs) # "Await"
  BY <1>1 DEF Has
<1> QED BY <1>1, <1>2, <1>4, <1>5 DEF Reads, NoBits

LEMMA AlikeNoBits ==
    ASSUME NEW cs, NEW r, NEW s, NoBits(r), NoBits(s), CallOf(s, cs),
           /\ Between(s, cs, "WLock", "WUnlock") <=> Between(r, cs, "WLock", "WUnlock")
           /\ Between(s, cs, "RLock", "RUnlock") <=> Between(r, cs, "RLock", "RUnlock")
           /\ Between(s, cs, "Lock", "Unlock") /\ CurrentOf(s, cs) # "Await" <=>
                Between(r, cs, "Lock", "Unlock") /\ CurrentOf(r, cs) # "Await"
    PROVE  Alike(r, s, cs)
<1>1. \A x \in {"m", "w"} : Has(s, cs, x) <=> Has(r, cs, x)
  <2>1. Has(s, cs, "m") <=> Has(r, cs, "m")
    BY OfNoBits
  <2>2. Has(s, cs, "w") <=> Has(r, cs, "w")
    BY OfNoBits
  <2> QED BY <2>1, <2>2
<1>2. (Reads(s, cs) <=> Reads(r, cs)) /\ (Writes(s, cs) <=> Writes(r, cs))
  BY OfNoBits
<1>3. /\ {r.pc, s.pc} \cap {"rdepart", "wwait"} = {} /\ ~LetsIn(r) /\ ~LetsIn(s)
      /\ \A a \in {"readerSem", "writerSem"} : ~SleepsAt(r, a) /\ ~ReleasesOne(r, a) /\ ~SleepsAt(s, a) /\ ~ReleasesOne(s, a)
  BY OfNoBits
<1> QED BY <1>1, <1>2, <1>3 DEF Alike, WriterSame, ReaderSame

(* A call that holds nothing any more, or never did, returns.              *)
LEMMA AlikeBack ==
    ASSUME NEW cs \in Seq(Calls), WellPaired(cs), NEW r, NEW s, CallOf(r, cs), s.ip = r.ip, r.ip \in Nat \ {0},
           r.pc \notin {"next", "unborn"}, s.pc = "next", NoBits(r),
           \A c \in {"Lock", "RLock", "WLock", "Await"} : ~In(r, c)
    PROVE  Alike(r, s, cs)
<1>1. r.ip - 1 \in DOMAIN cs /\ cs[r.ip - 1] \notin {"Lock", "RLock", "WLock", "Await"}
  BY DEF CallOf, LockCalls
<1>2. NoBits(s)
  BY OutOfCalls
<1>3. CallOf(s, cs)
  <2>1. s.ip <= Len(cs) + 1
    BY <1>1
  <2> QED BY <2>1 DEF CallOf
<1>4. ASSUME NEW a, NEW b, Paired(a, b)
      PROVE  /\ CurrentOf(s, cs) = "none" /\ CurrentOf(r, cs) = cs[r.ip - 1]
             /\ Between(s, cs, a, b) <=> Between(r, cs, a, b)
  <2>1. a \in {"Lock", "RLock", "WLock"}
    BY <1>4 DEF Paired
  <2> QED BY <1>1, <1>4, <2>1, BetweenEnd
<1>5. Paired("Lock", "Unlock") /\ Paired("RLock", "RUnlock") /\ Paired("WLock", "WUnlock")
  BY DEF Paired
<1>6. /\ Between(s, cs, "WLock", "WUnlock") <=> Between(r, cs, "WLock", "WUnlock")
      /\ Between(s, cs, "RLock", "RUnlock") <=> Between(r, cs, "RLock", "RUnlock")
      /\ Between(s, cs, "Lock", "Unlock") <=> Between(r, cs, "Lock", "Unlock")
      /\ CurrentOf(s, cs) # "Await" /\ CurrentOf(r, cs) # "Await"
  BY <1>1, <1>4, <1>5
<1> QED BY <1>2, <1>3, <1>6, AlikeNoBits

(* A step of a call that does not matter.                                  *)
LEMMA AlikeOther ==
    ASSUME NEW cs \in Seq(Calls), WellPaired(cs), NEW r, NEW s, CallOf(r, cs), s.ip = r.ip, r.ip \in Nat \ {0},
           r.pc \notin {"next", "unborn"}, s.pc # "unborn", \A c \in LockCalls : ~In(r, c),
           s.pc = "next" \/ \A c \in LockCalls : ~In(s, c)
    PROVE  Alike(r, s, cs)
<1>1. NoBits(r) /\ NoBits(s)
  BY OutOfCalls
<1>2. CASE s.pc = "next"
  BY <1>1, <1>2, AlikeBack DEF LockCalls
<1>3. CASE s.pc # "next"
  <2>1. Bits(r, s)
    BY <1>1 DEF Bits, NoBits
  <2>2. \A c \in LockCalls : In(s, c) <=> In(r, c)
    BY <1>3
  <2>3. {r.pc, s.pc} \cap {"next", "unborn"} = {}
    BY <1>3
  <2> QED BY <2>1, <2>2, <2>3, AlikeOn
<1> QED BY <1>2, <1>3

(***************************************************************************)
(* Who holds, and the accounts of RWMutex, over a step.                    *)
(***************************************************************************)
LEMMA HasKept ==
    ASSUME HasInv, prog' = prog, \A x \in {"m", "w"} : mutex[x].locked => mutex'[x].locked,
           \A h \in G, x \in {"m", "w"} : Has(gr'[h], prog.calls[h], x) => Has(gr[h], prog.calls[h], x)
    PROVE  HasInv'
BY DEF HasInv

(* Who gets a Mutex that was free is its only holder.                      *)
LEMMA HasTaken ==
    ASSUME HasInv, prog' = prog, NEW g \in G, NEW z, ~mutex[z].locked, mutex'[z].locked,
           \A x \in {"m", "w"} : x # z => (mutex[x].locked => mutex'[x].locked),
           \A h \in G, x \in {"m", "w"} :
             Has(gr'[h], prog.calls[h], x) => Has(gr[h], prog.calls[h], x) \/ (h = g /\ x = z)
    PROVE  HasInv'
<1> SUFFICES ASSUME NEW x \in {"m", "w"}
             PROVE  /\ \A h \in G : Has(gr'[h], prog.calls[h], x) => mutex'[x].locked
                    /\ \A h, i \in G : Has(gr'[h], prog.calls[h], x) /\ Has(gr'[i], prog.calls[i], x) => h = i
  BY DEF HasInv
<1>1. /\ \A h \in G : Has(gr[h], prog.calls[h], x) => mutex[x].locked
      /\ \A h, i \in G : Has(gr[h], prog.calls[h], x) /\ Has(gr[i], prog.calls[i], x) => h = i
  BY DEF HasInv
<1>2. CASE x = z
  <2>1. \A h \in G : Has(gr'[h], prog.calls[h], x) => h = g
    BY <1>1, <1>2
  <2> QED BY <1>2, <2>1
<1>3. CASE x # z
  <2>1. \A h \in G : Has(gr'[h], prog.calls[h], x) => Has(gr[h], prog.calls[h], x)
    BY <1>3
  <2> QED BY <1>1, <1>3, <2>1
<1> QED BY <1>2, <1>3

(* The holder gives up a Mutex.                                            *)
LEMMA HasGiven ==
    ASSUME HasInv, prog' = prog, NEW g \in G, NEW z \in {"m", "w"}, Has(gr[g], prog.calls[g], z),
           \A x \in {"m", "w"} : x # z => (mutex[x].locked => mutex'[x].locked),
           \A h \in G, x \in {"m", "w"} :
             Has(gr'[h], prog.calls[h], x) => Has(gr[h], prog.calls[h], x) /\ ~(h = g /\ x = z)
    PROVE  HasInv'
<1> SUFFICES ASSUME NEW x \in {"m", "w"}
             PROVE  /\ \A h \in G : Has(gr'[h], prog.calls[h], x) => mutex'[x].locked
                    /\ \A h, i \in G : Has(gr'[h], prog.calls[h], x) /\ Has(gr'[i], prog.calls[i], x) => h = i
  BY DEF HasInv
<1>1. /\ \A h \in G : Has(gr[h], prog.calls[h], x) => mutex[x].locked
      /\ \A h, i \in G : Has(gr[h], prog.calls[h], x) /\ Has(gr[i], prog.calls[i], x) => h = i
  BY DEF HasInv
<1>2. CASE x = z
  <2>1. \A h \in G : ~Has(gr'[h], prog.calls[h], x)
    BY <1>1, <1>2
  <2> QED BY <2>1
<1>3. CASE x # z
  BY <1>1, <1>3
<1> QED BY <1>2, <1>3

(* The sizes of the sets of readers when only g may change its part.       *)
LEMMA Accounts ==
    ASSUME NEW g \in G, prog' = prog,
           \A h \in G : h # g => ReaderSame(gr[h], gr'[h], prog.calls[h])
    PROVE  /\ Reading \in Nat /\ Coming \in Nat /\ Leaving \in Nat
           /\ Reading' = Reading - Bit(Reads(gr[g], prog.calls[g])) + Bit(Reads(gr'[g], prog.calls[g]))
           /\ Coming' = Coming - Bit(SleepsAt(gr[g], "readerSem")) + Bit(SleepsAt(gr'[g], "readerSem"))
           /\ Leaving' = Leaving - Bit(gr[g].pc = "rdepart") + Bit(gr'[g].pc = "rdepart")
           /\ Reading' \in Nat /\ Coming' \in Nat /\ Leaving' \in Nat
           /\ \A a \in {"readerSem", "writerSem"} :
                /\ Count(a, {"srel"}) \in Nat /\ Count(a, {"srel"})' \in Nat
                /\ Count(a, {"srel"})' = Count(a, {"srel"}) - Bit(ReleasesOne(gr[g], a)) + Bit(ReleasesOne(gr'[g], a))
<1> DEFINE A == {h \in G : Reads(gr[h], prog.calls[h])}
           B == {h \in G : Reads(gr'[h], prog.calls[h])}
           C == {h \in G : SleepsAt(gr[h], "readerSem")}
           D == {h \in G : SleepsAt(gr'[h], "readerSem")}
           E == {h \in G : gr[h].pc = "rdepart"}
           F == {h \in G : gr'[h].pc = "rdepart"}
<1>1. \A h \in G : h # g => /\ Reads(gr'[h], prog.calls[h]) <=> Reads(gr[h], prog.calls[h])
                            /\ SleepsAt(gr'[h], "readerSem") <=> SleepsAt(gr[h], "readerSem")
                            /\ gr'[h].pc = "rdepart" <=> gr[h].pc = "rdepart"
  BY DEF ReaderSame
<1>2. /\ Cardinality(A) \in Nat /\ Cardinality(B) \in Nat
      /\ Cardinality(B) = Cardinality(A) - Bit(Reads(gr[g], prog.calls[g])) + Bit(Reads(gr'[g], prog.calls[g]))
  <2>1. A \subseteq G /\ B \subseteq G /\ \A h \in G : h # g => (h \in A <=> h \in B)
    BY <1>1
  <2>2. (g \in A <=> Reads(gr[g], prog.calls[g])) /\ (g \in B <=> Reads(gr'[g], prog.calls[g]))
    OBVIOUS
  <2> HIDE DEF A, B
  <2> QED BY <2>1, <2>2, CardStep DEF Bit
<1>3. /\ Cardinality(C) \in Nat /\ Cardinality(D) \in Nat
      /\ Cardinality(D) = Cardinality(C) - Bit(SleepsAt(gr[g], "readerSem")) + Bit(SleepsAt(gr'[g], "readerSem"))
  <2>1. C \subseteq G /\ D \subseteq G /\ \A h \in G : h # g => (h \in C <=> h \in D)
    BY <1>1
  <2>2. (g \in C <=> SleepsAt(gr[g], "readerSem")) /\ (g \in D <=> SleepsAt(gr'[g], "readerSem"))
    OBVIOUS
  <2> HIDE DEF C, D
  <2> QED BY <2>1, <2>2, CardStep DEF Bit
<1>4. /\ Cardinality(E) \in Nat /\ Cardinality(F) \in Nat
      /\ Cardinality(F) = Cardinality(E) - Bit(gr[g].pc = "rdepart") + Bit(gr'[g].pc = "rdepart")
  <2>1. E \subseteq G /\ F \subseteq G /\ \A h \in G : h # g => (h \in E <=> h \in F)
    BY <1>1
  <2>2. (g \in E <=> gr[g].pc = "rdepart") /\ (g \in F <=> gr'[g].pc = "rdepart")
    OBVIOUS
  <2> HIDE DEF E, F
  <2> QED BY <2>1, <2>2, CardStep DEF Bit
<1>5. ASSUME NEW a \in {"readerSem", "writerSem"}
      PROVE  /\ Count(a, {"srel"}) \in Nat /\ Count(a, {"srel"})' \in Nat
             /\ Count(a, {"srel"})' = Count(a, {"srel"}) - Bit(ReleasesOne(gr[g], a)) + Bit(ReleasesOne(gr'[g], a))
  <2> DEFINE S == {h \in G : gr[h].sa = a /\ gr[h].pc \in {"srel"}}
             T == {h \in G : gr'[h].sa = a /\ gr'[h].pc \in {"srel"}}
  <2>1. S \subseteq G /\ T \subseteq G /\ \A h \in G : h # g => (h \in S <=> h \in T)
    BY DEF ReaderSame, ReleasesOne
  <2>2. (g \in S <=> ReleasesOne(gr[g], a)) /\ (g \in T <=> ReleasesOne(gr'[g], a))
    BY DEF ReleasesOne
  <2>3. Count(a, {"srel"}) = Cardinality(S) /\ Count(a, {"srel"})' = Cardinality(T)
    BY DEF Count
  <2> HIDE DEF S, T
  <2> QED BY <2>1, <2>2, <2>3, CardStep DEF Bit
<1>6. /\ Reading = Cardinality(A) /\ Reading' = Cardinality(B)
      /\ Coming = Cardinality(C) /\ Coming' = Cardinality(D)
      /\ Leaving = Cardinality(E) /\ Leaving' = Cardinality(F)
  BY DEF Reading, Coming, Leaving
<1> HIDE DEF A, B, C, D, E, F
<1> QED BY <1>2, <1>3, <1>4, <1>5, <1>6

(* In a call that locks or unlocks nothing is held.                        *)
LEMMA InNotBetween ==
    ASSUME NEW cs \in Seq(Calls), WellPaired(cs), NEW r \in Gr, CallOf(r, cs), r.pc \notin {"next", "unborn"},
           NEW a, NEW b, Paired(a, b), In(r, a) \/ In(r, b)
    PROVE  ~Between(r, cs, a, b) /\ CurrentOf(r, cs) = cs[r.ip - 1] /\ cs[r.ip - 1] \in {a, b}
<1>1. a \in LockCalls /\ b \in LockCalls
  BY DEF Paired, LockCalls
<1>2. r.ip - 1 \in DOMAIN cs /\ cs[r.ip - 1] \in {a, b}
  BY <1>1 DEF CallOf
<1>3. PICK s : s = [r EXCEPT !.pc = "next"]
  OBVIOUS
<1>4. s.pc = "next" /\ s.ip = r.ip /\ r.ip \in Nat \ {0}
  BY <1>3 DEF Gr
<1> QED BY <1>2, <1>4, BetweenEnd

(* A writer that lets readers in is no longer announced, and alone.        *)
LEMMA LetsInAlone ==
    ASSUME SyncTypes, Disciplined, CallInv, HasInv, NEW g \in G, LetsIn(gr[g])
    PROVE  ~AnyWriter /\ \A h \in G : LetsIn(gr[h]) => h = g
<1>1. \A h \in G : LetsIn(gr[h]) \/ Announced(gr[h], prog.calls[h]) => Has(gr[h], prog.calls[h], "w")
  BY DEF Has
<1>2. \A h \in G : LetsIn(gr[h]) \/ Announced(gr[h], prog.calls[h]) => h = g
  BY <1>1 DEF HasInv
<1>3. ~Announced(gr[g], prog.calls[g])
  <2>1. prog.calls[g] \in Seq(Calls) /\ WellPaired(prog.calls[g]) /\ gr[g] \in Gr /\ CallOf(gr[g], prog.calls[g])
    BY SyncConstants DEF SyncTypes, Disciplined, CallInv
  <2>2. In(gr[g], "WUnlock") /\ Paired("WLock", "WUnlock")
    BY DEF In, LetsIn, Paired
  <2>3. gr[g].pc \notin {"next", "unborn", "wunlock", "wwait"} \cup Waking
    BY DEF LetsIn, Releasing, Waking
  <2>4. ~Between(gr[g], prog.calls[g], "WLock", "WUnlock")
    BY <2>1, <2>2, <2>3, InNotBetween
  <2> QED BY <2>3, <2>4 DEF Announced, Writes, SleepsAt
<1> QED BY <1>2, <1>3 DEF AnyWriter

LEMMA NoRelease ==
    ASSUME \A g \in G : ~LetsIn(gr[g])
    PROVE  Count("readerSem", {"srel"}) = 0 /\ Units("readerSem") = sem["readerSem"] + 0
<1>1. {g \in G : gr[g].sa = "readerSem" /\ gr[g].pc \in {"srel"}} = {}
  BY DEF LetsIn, Releasing
<1> QED BY <1>1, FS_EmptySet DEF Count, Units

LEMMA WritersKept ==
    ASSUME prog' = prog, \A h \in G : WriterSame(gr[h], gr'[h], prog.calls[h])
    PROVE  /\ AnyWriter' <=> AnyWriter
           /\ (\A h \in G : ~LetsIn(gr'[h])) <=> (\A h \in G : ~LetsIn(gr[h]))
<1>1. \A h \in G : Announced(gr'[h], prog.calls[h]) <=> Announced(gr[h], prog.calls[h])
  BY DEF WriterSame, Announced
<1> QED BY <1>1 DEF AnyWriter, WriterSame

LEMMA RwKept ==
    ASSUME RwInv, NEW g \in G, UNCHANGED <<prog, rw>>,
           sem'["readerSem"] = sem["readerSem"], sem'["writerSem"] = sem["writerSem"],
           \A h \in G : WriterSame(gr[h], gr'[h], prog.calls[h]) /\ ReaderSame(gr[h], gr'[h], prog.calls[h])
    PROVE  RwInv'
<1>1. /\ AnyWriter' <=> AnyWriter
      /\ (\A h \in G : ~LetsIn(gr'[h])) <=> (\A h \in G : ~LetsIn(gr[h]))
  BY WritersKept
<1>2. /\ Reading' = Reading /\ Coming' = Coming /\ Leaving' = Leaving
      /\ \A a \in {"readerSem", "writerSem"} : Units(a)' = Units(a)
  <2>1. \A h \in G : h # g => ReaderSame(gr[h], gr'[h], prog.calls[h])
    OBVIOUS
  <2>2. /\ Reads(gr'[g], prog.calls[g]) <=> Reads(gr[g], prog.calls[g])
        /\ SleepsAt(gr'[g], "readerSem") <=> SleepsAt(gr[g], "readerSem")
        /\ gr'[g].pc = "rdepart" <=> gr[g].pc = "rdepart"
        /\ \A a \in {"readerSem", "writerSem"} : ReleasesOne(gr'[g], a) <=> ReleasesOne(gr[g], a)
    BY DEF ReaderSame
  <2>3. /\ Bit(Reads(gr'[g], prog.calls[g])) = Bit(Reads(gr[g], prog.calls[g]))
        /\ Bit(SleepsAt(gr'[g], "readerSem")) = Bit(SleepsAt(gr[g], "readerSem"))
        /\ Bit(gr'[g].pc = "rdepart") = Bit(gr[g].pc = "rdepart")
        /\ \A a \in {"readerSem", "writerSem"} : Bit(ReleasesOne(gr'[g], a)) = Bit(ReleasesOne(gr[g], a))
    BY <2>2 DEF Bit
  <2>4. \A b : Bit(b) \in Int
    BY DEF Bit
  <2>5. /\ Reading' = Reading /\ Coming' = Coming /\ Leaving' = Leaving
        /\ \A a \in {"readerSem", "writerSem"} : Count(a, {"srel"})' = Count(a, {"srel"})
    BY <2>1, <2>3, <2>4, Accounts
  <2> QED BY <2>5 DEF Units
<1>3. ReadersCounted'
  BY <1>1, <1>2 DEF RwInv, ReadersCounted
<1>4. NoWriter'
  BY <1>1, <1>2 DEF RwInv, NoWriter
<1>5. ASSUME NEW h \in G PROVE WriterAt(h)'
  BY <1>2 DEF RwInv, WriterAt, WriterSame, At
<1> QED BY <1>3, <1>4, <1>5 DEF RwInv

(* A step that leaves every goroutine its part.                            *)
LEMMA AllAlike ==
    ASSUME HasInv, RwInv, NEW g \in G, UNCHANGED <<prog, rw>>,
           sem'["readerSem"] = sem["readerSem"], sem'["writerSem"] = sem["writerSem"],
           \A x \in {"m", "w"} : mutex[x].locked => mutex'[x].locked,
           \A h \in G : Alike(gr[h], gr'[h], prog.calls[h])
    PROVE  CallInv' /\ HasInv' /\ RwInv'
<1>1. CallInv'
  BY DEF CallInv, Alike
<1>2. HasInv'
  BY HasKept DEF Alike
<1>3. RwInv'
  BY RwKept DEF Alike
<1> QED BY <1>1, <1>2, <1>3

(* The invariant before a step, and what it says of a goroutine.           *)
Before == SyncIInv /\ Disciplined /\ CallInv /\ HasInv /\ RwInv
After == CallInv' /\ HasInv' /\ RwInv'

LEMMA CallFacts ==
    ASSUME Before, NEW g \in G
    PROVE  /\ gr[g] \in Gr /\ gr[g].ip \in Nat \ {0} /\ gr[g].pc \in Place /\ Wf(gr[g])
           /\ prog.calls[g] \in Seq(Calls) /\ WellPaired(prog.calls[g]) /\ CallOf(gr[g], prog.calls[g])
           /\ gr \in [G -> Gr]
<1>1. gr \in [G -> Gr] /\ prog \in Programs
  BY DEF Before, SyncIInv, SyncTypes
<1>2. gr[g] \in Gr
  BY <1>1
<1>3. prog.calls[g] \in Seq(Calls)
  BY <1>1, SyncConstants
<1> QED BY <1>1, <1>2, <1>3 DEF Before, SyncIInv, PlaceInv, Disciplined, CallInv, Gr

LEMMA OneAlike ==
    ASSUME Before, NEW g \in G, NEW s, gr' = [gr EXCEPT ![g] = s], Alike(gr[g], s, prog.calls[g]),
           UNCHANGED <<prog, rw>>, sem'["readerSem"] = sem["readerSem"], sem'["writerSem"] = sem["writerSem"],
           \A x \in {"m", "w"} : mutex[x].locked => mutex'[x].locked
    PROVE  After
<1>1. gr'[g] = s /\ \A h \in G : h # g => gr'[h] = gr[h]
  BY CallFacts
<1>2. \A h \in G : Alike(gr[h], gr'[h], prog.calls[h])
  BY <1>1, AlikeSelf, CallFacts
<1> QED BY <1>2, AllAlike DEF Before, After

(* Outside of Mutex and semaphores the place tells the call.               *)
LEMMA InBodyPlaces ==
    ASSUME NEW r, r.pc \in Body \cup {"yrel", "yacq"}
    PROVE  /\ ~In(r, "Lock") /\ ~In(r, "Unlock")
           /\ In(r, "Await") <=> r.pc \in {"await", "csleep", "crelock", "yacq"}
           /\ In(r, "RLock") <=> r.pc = "rlock"
           /\ In(r, "RUnlock") <=> r.pc \in {"runlock", "rdepart"}
           /\ In(r, "WLock") <=> r.pc \in {"wannounce", "wwait"}
           /\ In(r, "WUnlock") <=> r.pc \in {"wunlock", "wrelease"}
<1>1. r.pc \notin Locking \cup Unlocking \cup Waking \cup Releasing \cup {"yparked"}
  BY DEF Body, Locking, Unlocking, Waking, Releasing
<1>2. ~LocksM(r) /\ ~UnlocksM(r)
  BY <1>1 DEF LocksM, UnlocksM
<1> QED BY <1>1, <1>2 DEF In

(* In a Mutex's Lock.                                                      *)
LEMMA InLocking ==
    ASSUME NEW r, r.pc \in Locking
    PROVE  /\ In(r, "Lock") <=> r.mu = "m" /\ r.k \in {Top, <<"lread">> \o Top}
           /\ In(r, "Await") <=> r.mu = "m" /\ r.k \notin {Top, <<"lread">> \o Top}
           /\ In(r, "WLock") <=> r.mu = "w"
           /\ ~In(r, "Unlock") /\ ~In(r, "RLock") /\ ~In(r, "RUnlock") /\ ~In(r, "WUnlock")
<1>1. r.pc \notin Unlocking \cup Waking \cup Releasing \cup Body \cup {"yparked", "yacq"}
  BY DEF Body, Locking, Unlocking, Waking, Releasing
<1>2. (LocksM(r) <=> r.mu = "m") /\ ~UnlocksM(r)
  BY <1>1 DEF LocksM, UnlocksM
<1> QED BY <1>1, <1>2 DEF In, Body

LEMMA InUnlocking ==
    ASSUME NEW r, r.pc \in Unlocking
    PROVE  /\ In(r, "Unlock") <=> r.mu = "m" /\ r.k = Top
           /\ In(r, "Await") <=> r.mu = "m" /\ r.k # Top
           /\ In(r, "WUnlock") <=> r.mu = "w"
           /\ ~In(r, "Lock") /\ ~In(r, "RLock") /\ ~In(r, "RUnlock") /\ ~In(r, "WLock")
<1>1. r.pc \notin Locking \cup Waking \cup Releasing \cup Body \cup {"yparked", "yacq"}
  BY DEF Body, Locking, Unlocking, Waking, Releasing
<1>2. (UnlocksM(r) <=> r.mu = "m") /\ ~LocksM(r)
  BY <1>1 DEF LocksM, UnlocksM
<1> QED BY <1>1, <1>2 DEF In, Body

LEMMA InWaking ==
    ASSUME NEW r, r.pc \in Waking
    PROVE  /\ In(r, "Lock") <=> r.sa = "m" /\ r.k \in {Top, <<"lread">> \o Top}
           /\ In(r, "Await") <=> r.sa = "m" /\ r.k \notin {Top, <<"lread">> \o Top}
           /\ In(r, "WLock") <=> r.sa \in {"w", "writerSem"}
           /\ In(r, "RLock") <=> r.sa = "readerSem"
           /\ ~In(r, "Unlock") /\ ~In(r, "RUnlock") /\ ~In(r, "WUnlock")
<1>1. r.pc \notin Locking \cup Unlocking \cup Releasing \cup Body \cup {"yparked", "yacq"}
  BY DEF Body, Locking, Unlocking, Waking, Releasing
<1>2. (LocksM(r) <=> r.sa = "m") /\ ~UnlocksM(r)
  BY <1>1 DEF LocksM, UnlocksM
<1> QED BY <1>1, <1>2 DEF In, Body

LEMMA InReleasing ==
    ASSUME NEW r, r.pc \in Releasing
    PROVE  /\ In(r, "Unlock") <=> r.sa = "m" /\ r.k = Top
           /\ In(r, "Await") <=> r.sa = "m" /\ r.k # Top
           /\ In(r, "WUnlock") <=> r.sa \in {"w", "readerSem"}
           /\ In(r, "RUnlock") <=> r.sa = "writerSem"
           /\ ~In(r, "Lock") /\ ~In(r, "RLock") /\ ~In(r, "WLock")
<1>1. r.pc \notin Locking \cup Unlocking \cup Waking \cup Body \cup {"yparked", "yacq"}
  BY DEF Body, Locking, Unlocking, Waking, Releasing
<1>2. (UnlocksM(r) <=> r.sa = "m") /\ ~LocksM(r)
  BY <1>1 DEF LocksM, UnlocksM
<1> QED BY <1>1, <1>2 DEF In, Body

LEMMA InPaired ==
    ASSUME NEW r, r.pc = "yparked"
    PROVE  /\ In(r, "Await") <=> r.k # Top
           /\ \A c \in LockCalls \ {"Await"} : ~In(r, c)
<1>1. r.pc \notin Locking \cup Unlocking \cup Waking \cup Releasing \cup Body \cup {"yacq"}
  BY DEF Body, Locking, Unlocking, Waking, Releasing
<1>2. ~LocksM(r) /\ ~UnlocksM(r)
  BY <1>1 DEF LocksM, UnlocksM
<1> QED BY <1>1, <1>2 DEF In, Body, LockCalls

(* What the record has at the first step of a call.                        *)
LEMMA BegunFacts ==
    ASSUME Before, NEW g \in G, At(g, "next"), NEW c \in Calls \ {"Go"}, NEW s, s = Begun(g, c)
    PROVE  /\ s.ip = gr[g].ip + 1
           /\ c = "Lock" => s.pc = "lock" /\ s.mu = "m" /\ s.k = Top
           /\ c = "Unlock" => s.pc = "unlock" /\ s.mu = "m" /\ s.k = Top
           /\ c = "WLock" => s.pc = "lock" /\ s.mu = "w"
           /\ c \notin {"Lock", "Unlock", "WLock"} => s.pc = Entry[c]
<1> DEFINE b == [gr[g] EXCEPT !.ip = @ + 1, !.zero = FALSE]
<1>0. gr[g] \in Gr /\ gr[g].k = << >> /\ gr[g].ip \in Nat \ {0}
  BY CallFacts, NextFacts DEF At
<1>1. b \in Gr /\ b.k = << >> /\ b.ip = gr[g].ip + 1
  <2>1. gr[g].ip + 1 \in Nat \ {0}
    BY <1>0
  <2> QED BY <1>0, <2>1 DEF Gr
<1>2. <<"next">> \o b.k = Top
  <2>1. Top \in Seq(Place)
    BY Stacks
  <2>2. Top \o << >> = Top
    BY <2>1, ConcatEmptySeq
  <2> QED BY <1>1, <2>2 DEF Top
<1>3. ASSUME NEW l
      PROVE  Calling(g, l) = [b EXCEPT !.pc = l, !.k = Top]
  BY <1>2 DEF Calling, CallTo
<1> HIDE DEF b
<1>4. CASE c = "Lock"
  <2>1. s = [[b EXCEPT !.pc = "lock", !.k = Top] EXCEPT !.mu = "m"]
    BY <1>3, <1>4 DEF Begun
  <2> QED BY <1>1, <1>4, <2>1 DEF Gr
<1>5. CASE c = "Unlock"
  <2>1. s = [[b EXCEPT !.pc = "unlock", !.k = Top] EXCEPT !.mu = "m"]
    BY <1>3, <1>5 DEF Begun
  <2> QED BY <1>1, <1>5, <2>1 DEF Gr
<1>6. CASE c = "WLock"
  <2>1. s = CallLock([b EXCEPT !.pc = "wlock", !.k = Top], "w", "wannounce")
    BY <1>3, <1>6 DEF Begun
  <2>2. s = [[[b EXCEPT !.pc = "wlock", !.k = Top] EXCEPT !.mu = "w"] EXCEPT !.pc = "lock", !.k = <<"wannounce">> \o @]
    BY <2>1 DEF CallLock, CallTo
  <2> QED BY <1>1, <1>6, <2>2 DEF Gr
<1>7. CASE c \notin {"Lock", "Unlock", "WLock"}
  <2>1. PICK l : l = Entry[c]
    OBVIOUS
  <2>2. s = [b EXCEPT !.pc = l, !.k = Top]
    BY <1>3, <1>7, <2>1 DEF Begun
  <2>3. s.pc = l /\ s.ip = b.ip
    BY <1>1, <2>2 DEF Gr
  <2> QED BY <1>1, <1>7, <2>1, <2>3
<1> QED BY <1>4, <1>5, <1>6, <1>7

LEMMA AlikeBegun ==
    ASSUME Before, NEW g \in G, At(g, "next"), NEW c \in Calls \ {"Go"}, gr[g].ip \in DOMAIN prog.calls[g],
           prog.calls[g][gr[g].ip] = c, NEW s, s = Begun(g, c)
    PROVE  Alike(gr[g], s, prog.calls[g])
<1>a. PICK r, cs : r = gr[g] /\ cs = prog.calls[g]
  OBVIOUS
<1>0. r.pc = "next" /\ r.ip \in Nat \ {0} /\ cs \in Seq(Calls) /\ WellPaired(cs) /\ CallOf(r, cs)
  BY <1>a, CallFacts DEF At
<1>1. /\ s.ip = r.ip + 1
      /\ c = "Lock" => s.pc = "lock" /\ s.mu = "m" /\ s.k = Top
      /\ c = "Unlock" => s.pc = "unlock" /\ s.mu = "m" /\ s.k = Top
      /\ c = "WLock" => s.pc = "lock" /\ s.mu = "w"
      /\ c \notin {"Lock", "Unlock", "WLock"} => s.pc = Entry[c]
  BY <1>a, BegunFacts
<1>2. c \notin {"Lock", "Unlock", "WLock"} => Entry[c] \in Body
  BY EntryPlaces
<1>3. c \notin {"Lock", "Unlock", "WLock"} =>
        /\ Entry[c] = "await" <=> c = "Await"
        /\ Entry[c] = "rlock" <=> c = "RLock"
        /\ Entry[c] = "runlock" <=> c = "RUnlock"
        /\ Entry[c] = "wunlock" <=> c = "WUnlock"
        /\ Entry[c] \notin {"csleep", "crelock", "yacq", "rdepart", "wannounce", "wwait", "wrelease"}
  BY DEF Entry, Calls
<1>4. \A k \in LockCalls : In(s, k) <=> k = c
  <2>1. CASE c = "Lock"
    <3>1. s.pc \in Locking
      BY <1>1, <2>1 DEF Locking
    <3> QED BY <1>1, <2>1, <3>1, InLocking DEF LockCalls
  <2>2. CASE c = "Unlock"
    <3>1. s.pc \in Unlocking
      BY <1>1, <2>2 DEF Unlocking
    <3> QED BY <1>1, <2>2, <3>1, InUnlocking DEF LockCalls
  <2>3. CASE c = "WLock"
    <3>1. s.pc \in Locking
      BY <1>1, <2>3 DEF Locking
    <3> QED BY <1>1, <2>3, <3>1, InLocking DEF LockCalls
  <2>4. CASE c \notin {"Lock", "Unlock", "WLock"}
    <3>1. PICK l : l = Entry[c]
      OBVIOUS
    <3>2. s.pc = l /\ l \in Body
      BY <1>1, <1>2, <2>4, <3>1
    <3>3. /\ ~In(s, "Lock") /\ ~In(s, "Unlock")
          /\ In(s, "Await") <=> l \in {"await", "csleep", "crelock", "yacq"}
          /\ In(s, "RLock") <=> l = "rlock"
          /\ In(s, "RUnlock") <=> l \in {"runlock", "rdepart"}
          /\ In(s, "WLock") <=> l \in {"wannounce", "wwait"}
          /\ In(s, "WUnlock") <=> l \in {"wunlock", "wrelease"}
      BY <3>2, InBodyPlaces
    <3> QED BY <1>3, <2>4, <3>1, <3>3 DEF LockCalls
  <2> QED BY <2>1, <2>2, <2>3, <2>4
<1>5. s.pc \notin {"next", "unborn"}
  BY <1>1, <1>2 DEF Body
<1>6. CallOf(s, cs)
  <2>1. s.ip - 1 = r.ip /\ r.ip \in DOMAIN cs /\ cs[r.ip] = c
    BY <1>a, <1>0, <1>1
  <2>2. \A k \in LockCalls : cs[s.ip - 1] = k <=> In(s, k)
    BY <1>4, <2>1
  <2> QED BY <1>5, <2>1, <2>2 DEF CallOf
<1>7. /\ CurrentOf(r, cs) = "none" /\ CurrentOf(s, cs) = c
      /\ \A a, b : b # "none" => (Between(s, cs, a, b) <=> Between(r, cs, a, b) /\ c # b)
      /\ \A a, b : Paired(a, b) /\ c = b => Between(r, cs, a, b)
  <2>1. r.ip \in DOMAIN cs /\ cs[r.ip] = c
    BY <1>a
  <2>2. /\ CurrentOf(r, cs) = "none" /\ CurrentOf(s, cs) = cs[r.ip]
        /\ \A a, b : b # "none" => (Between(s, cs, a, b) <=> Between(r, cs, a, b) /\ cs[r.ip] # b)
        /\ \A a, b : Paired(a, b) /\ cs[r.ip] = b => Between(r, cs, a, b)
    <3>1. s.pc # "next" /\ s.ip = r.ip + 1
      BY <1>1, <1>5
    <3>2. CurrentOf(r, cs) = "none" /\ CurrentOf(s, cs) = cs[r.ip]
      BY <1>0, <3>1, BetweenBegin
    <3>3. \A a, b : b # "none" => (Between(s, cs, a, b) <=> Between(r, cs, a, b) /\ cs[r.ip] # b)
      BY <1>0, <3>1, BetweenBegin
    <3>4. \A a, b : Paired(a, b) /\ cs[r.ip] = b => Between(r, cs, a, b)
      BY <1>0, <2>1, <3>1, BetweenBegin
    <3> QED BY <3>2, <3>3, <3>4
  <2> QED BY <2>1, <2>2
<1>8. /\ Between(s, cs, "Lock", "Unlock") <=> Between(r, cs, "Lock", "Unlock") /\ c # "Unlock"
      /\ Between(s, cs, "RLock", "RUnlock") <=> Between(r, cs, "RLock", "RUnlock") /\ c # "RUnlock"
      /\ Between(s, cs, "WLock", "WUnlock") <=> Between(r, cs, "WLock", "WUnlock") /\ c # "WUnlock"
      /\ c = "Unlock" => Between(r, cs, "Lock", "Unlock")
      /\ c = "RUnlock" => Between(r, cs, "RLock", "RUnlock")
      /\ c = "WUnlock" => Between(r, cs, "WLock", "WUnlock")
  BY <1>7 DEF Paired
<1>9. NoBits(r)
  BY <1>0, OutOfCalls
<1>10. /\ Has(r, cs, "m") <=> Between(r, cs, "Lock", "Unlock")
       /\ Has(r, cs, "w") <=> Between(r, cs, "WLock", "WUnlock")
       /\ Writes(r, cs) <=> Between(r, cs, "WLock", "WUnlock")
       /\ Reads(r, cs) <=> Between(r, cs, "RLock", "RUnlock")
       /\ r.pc \notin {"rdepart", "wwait"} /\ ~LetsIn(r)
       /\ \A a \in {"readerSem", "writerSem"} : ~SleepsAt(r, a) /\ ~ReleasesOne(r, a)
  BY <1>7, <1>9, OfNoBits
<1>11. /\ s.pc \notin Waking \cup Releasing \cup {"rdepart", "wwait", "wannounce", "wrelease", "srel"}
       /\ s.pc = "unlock" <=> c = "Unlock"
       /\ s.pc = "await" <=> c = "Await"
       /\ s.pc = "wunlock" <=> c = "WUnlock"
       /\ s.pc = "runlock" <=> c = "RUnlock"
  BY <1>1, <1>2, <1>3 DEF Body, Waking, Releasing
<1>12. ~LetsIn(s) /\ \A a \in {"readerSem", "writerSem"} : ~SleepsAt(s, a) /\ ~ReleasesOne(s, a)
  BY <1>11 DEF LetsIn, SleepsAt, ReleasesOne
<1>13. Writes(s, cs) <=> Writes(r, cs)
  BY <1>8, <1>10, <1>11 DEF Writes
<1>14. Reads(s, cs) <=> Reads(r, cs)
  BY <1>8, <1>10, <1>11 DEF Reads
<1>15. Has(s, cs, "w") <=> Has(r, cs, "w")
  <2>1. Announced(s, cs) <=> Writes(s, cs)
    BY <1>11, <1>12 DEF Announced
  <2>2. Has(s, cs, "w") <=> Writes(s, cs)
    BY <1>1, <1>11, <1>12, <2>1 DEF Has
  <2> QED BY <1>10, <1>13, <2>2
<1>16. Has(s, cs, "m") <=> Has(r, cs, "m")
  BY <1>1, <1>7, <1>8, <1>10, <1>11 DEF Has
<1>17. Alike(r, s, cs)
  BY <1>6, <1>10, <1>11, <1>12, <1>13, <1>14, <1>15, <1>16 DEF Alike, WriterSame, ReaderSame
<1> QED BY <1>a, <1>17

(* A goroutine is born, and one goes on after the go statement.            *)
LEMMA AlikeGo ==
    ASSUME NEW cs \in Seq(Calls), NEW r, NEW s, CallOf(r, cs), r.ip \in Nat \ {0}, r.pc = "next", s.pc = "next",
           s.ip = r.ip + 1, r.ip \in DOMAIN cs, cs[r.ip] = "Go"
    PROVE  Alike(r, s, cs)
<1>1. NoBits(r) /\ NoBits(s) /\ CurrentOf(r, cs) = "none" /\ CurrentOf(s, cs) = "none"
  BY OutOfCalls DEF CurrentOf
<1>2. CallOf(s, cs)
  BY DEF CallOf
<1>3. PICK n \in Int : n = r.ip - 1
  OBVIOUS
<1>4. n >= 0 /\ n + 1 = r.ip /\ Past(r) = n /\ Past(s) = n + 1
  BY <1>3 DEF Past
<1>5. ASSUME NEW a, a # "Go" PROVE Times(cs, n + 1, a) = Times(cs, n, a)
  BY <1>4, <1>5, TimesStep
<1>6. ASSUME NEW a, NEW b, Paired(a, b)
      PROVE  Between(s, cs, a, b) <=> Between(r, cs, a, b)
  <2>1. a # "Go" /\ b # "Go"
    BY <1>6 DEF Paired
  <2> QED BY <1>1, <1>4, <1>5, <2>1 DEF Between
<1>7. Paired("Lock", "Unlock") /\ Paired("RLock", "RUnlock") /\ Paired("WLock", "WUnlock")
  BY DEF Paired
<1> QED BY <1>1, <1>2, <1>6, <1>7, AlikeNoBits

LEMMA AlikeBorn ==
    ASSUME NEW cs \in Seq(Calls), NEW r, NEW s, CallOf(r, cs), r.pc = "unborn", s.pc = "next", s.ip = r.ip
    PROVE  Alike(r, s, cs)
<1>0. r.ip = 1
  BY DEF CallOf
<1>1. NoBits(r) /\ NoBits(s) /\ CurrentOf(r, cs) = "none" /\ CurrentOf(s, cs) = "none"
  BY <1>0, OutOfCalls DEF CurrentOf
<1>2. CallOf(s, cs)
  BY <1>0 DEF CallOf
<1>3. Past(r) \in Int /\ Past(r) <= 0 /\ Past(s) \in Int /\ Past(s) <= 0
  BY <1>0 DEF Past
<1>4. \A a, b : ~Between(s, cs, a, b) /\ ~Between(r, cs, a, b)
  BY <1>3, TimesNone DEF Between
<1> QED BY <1>1, <1>2, <1>4, AlikeNoBits

LEMMA BeginLocks ==
    ASSUME Before, NEW g \in G, Begin(g)
    PROVE  After
<1>0. At(g, "next") /\ UNCHANGED <<semavars, prog, syncvars, panicked>>
  BY DEF Begin
<1>1. /\ gr[g] \in Gr /\ gr[g].ip \in Nat \ {0} /\ prog.calls[g] \in Seq(Calls) /\ CallOf(gr[g], prog.calls[g])
      /\ gr \in [G -> Gr]
  BY CallFacts
<1>2. gr[g].ip \in DOMAIN prog.calls[g]
  BY <1>1 DEF Begin
<1>3. UNCHANGED <<prog, rw, sem, mutex>>
  BY <1>0 DEF semavars, syncvars
<1>4. PICK c : c = prog.calls[g][gr[g].ip]
  OBVIOUS
<1>5. CASE c # "Go"
  <2>1. PICK s : s = Begun(g, c)
    OBVIOUS
  <2>2. gr' = [gr EXCEPT ![g] = s]
    BY <1>4, <1>5, <2>1 DEF Begin
  <2>3. c \in Calls \ {"Go"}
    BY <1>1, <1>2, <1>4, <1>5
  <2>4. Alike(gr[g], s, prog.calls[g])
    BY <1>0, <1>2, <1>4, <2>1, <2>3, AlikeBegun
  <2> QED BY <1>3, <2>2, <2>4, OneAlike
<1>6. CASE c = "Go"
  <2>1. PICK h \in G : At(h, "unborn") /\ gr' = [gr EXCEPT ![g] = Begun(g, "Go"), ![h].pc = "next"]
    BY <1>4, <1>6 DEF Begin
  <2>2. g # h /\ Begun(g, "Go") = [gr[g] EXCEPT !.ip = @ + 1]
    BY <1>0, <2>1 DEF At, Begun
  <2>3. /\ gr'[g] = [gr[g] EXCEPT !.ip = @ + 1] /\ gr'[h] = [gr[h] EXCEPT !.pc = "next"]
        /\ \A i \in G : i # g /\ i # h => gr'[i] = gr[i]
    BY <1>1, <2>1, <2>2
  <2>4. Alike(gr[g], gr'[g], prog.calls[g])
    <3>1. gr'[g].pc = "next" /\ gr'[g].ip = gr[g].ip + 1
      BY <1>0, <1>1, <2>3 DEF Gr, At
    <3> QED BY <1>0, <1>1, <1>2, <1>4, <1>6, <3>1, AlikeGo DEF At
  <2>5. Alike(gr[h], gr'[h], prog.calls[h])
    <3>1. gr[h] \in Gr /\ prog.calls[h] \in Seq(Calls) /\ CallOf(gr[h], prog.calls[h])
      BY CallFacts
    <3>2. gr'[h].pc = "next" /\ gr'[h].ip = gr[h].ip
      BY <2>3, <3>1 DEF Gr
    <3> QED BY <2>1, <3>1, <3>2, AlikeBorn DEF At
  <2>6. \A i \in G : Alike(gr[i], gr'[i], prog.calls[i])
    BY <2>3, <2>4, <2>5, AlikeSelf, CallFacts
  <2> QED BY <1>3, <2>6, AllAlike DEF Before, After
<1> QED BY <1>5, <1>6

(***************************************************************************)
(* Steps of calls that neither lock nor unlock "m" or the RWMutex.         *)
(***************************************************************************)
Elsewhere ==
    {"add1", "add2", "done", "addlook", "addwake", "wait", "waitadd", "waitlook", "waitundo", "waitsleep",
     "set", "signal", "broadcast", "scas", "bcas", "yrel", "do", "dopanic", "dof", "dofpanic", "f", "fpanic", "fdone"}
Outside(r) ==
    \/ r.pc \in Elsewhere
    \/ r.pc \in Locking \cup Unlocking /\ r.mu \in {"wgm", "om"}
    \/ r.pc \in Waking \cup Releasing /\ r.sa \in WgSet \cup {"wgm", "om"}
    \/ r.pc = "yparked" /\ r.k = Top

LEMMA OutsideCalls ==
    ASSUME NEW r, Outside(r)
    PROVE  r.pc \notin {"next", "unborn"} /\ \A c \in LockCalls : ~In(r, c)
<1>0. LockCalls = {"Lock", "Unlock", "Await", "RLock", "RUnlock", "WLock", "WUnlock"}
  BY DEF LockCalls
<1>1. CASE r.pc \in Elsewhere
  <2>1. r.pc \in Body \cup {"yrel", "yacq"} /\ r.pc \notin {"next", "unborn"}
    BY <1>1 DEF Elsewhere, Body
  <2>2. r.pc \notin {"await", "csleep", "crelock", "yacq", "rlock", "runlock", "rdepart", "wannounce", "wwait", "wunlock", "wrelease"}
    BY <1>1 DEF Elsewhere
  <2> QED BY <1>0, <2>1, <2>2, InBodyPlaces
<1>2. CASE r.pc \in Locking /\ r.mu \in {"wgm", "om"}
  <2>1. r.pc \notin {"next", "unborn"}
    BY <1>2 DEF Locking
  <2> QED BY <1>0, <1>2, <2>1, InLocking
<1>3. CASE r.pc \in Unlocking /\ r.mu \in {"wgm", "om"}
  <2>1. r.pc \notin {"next", "unborn"}
    BY <1>3 DEF Unlocking
  <2> QED BY <1>0, <1>3, <2>1, InUnlocking
<1>a. ASSUME r.sa \in WgSet \cup {"wgm", "om"} PROVE r.sa \notin {"m", "w", "readerSem", "writerSem"}
  BY <1>a, SyncConstants DEF WgSet, Mutexes
<1>4. CASE r.pc \in Waking /\ r.sa \in WgSet \cup {"wgm", "om"}
  <2>1. r.pc \notin {"next", "unborn"}
    BY <1>4 DEF Waking
  <2> QED BY <1>0, <1>a, <1>4, <2>1, InWaking
<1>5. CASE r.pc \in Releasing /\ r.sa \in WgSet \cup {"wgm", "om"}
  <2>1. r.pc \notin {"next", "unborn"}
    BY <1>5 DEF Releasing
  <2> QED BY <1>0, <1>a, <1>5, <2>1, InReleasing
<1>6. CASE r.pc = "yparked" /\ r.k = Top
  BY <1>0, <1>6, InPaired
<1> QED BY <1>1, <1>2, <1>3, <1>4, <1>5, <1>6 DEF Outside

LEMMA OutsideAlike ==
    ASSUME Before, NEW g \in G, NEW s, Outside(gr[g]), s.ip = gr[g].ip, s.pc = "next" \/ Outside(s)
    PROVE  Alike(gr[g], s, prog.calls[g])
<1>1. PICK r, cs : r = gr[g] /\ cs = prog.calls[g]
  OBVIOUS
<1>2. r.ip \in Nat \ {0} /\ cs \in Seq(Calls) /\ WellPaired(cs) /\ CallOf(r, cs)
  BY <1>1, CallFacts
<1>3. r.pc \notin {"next", "unborn"} /\ \A c \in LockCalls : ~In(r, c)
  BY <1>1, OutsideCalls
<1>4. s.pc # "unborn" /\ (s.pc = "next" \/ \A c \in LockCalls : ~In(s, c))
  BY OutsideCalls
<1>5. Alike(r, s, cs)
  BY <1>1, <1>2, <1>3, <1>4, AlikeOther
<1> QED BY <1>1, <1>5

LEMMA OutsideStep ==
    ASSUME Before, NEW g \in G, NEW s, gr' = [gr EXCEPT ![g] = s], Outside(gr[g]), s.ip = gr[g].ip,
           s.pc = "next" \/ Outside(s), UNCHANGED <<semavars, prog, mutex, rw>>
    PROVE  After
<1>1. Alike(gr[g], s, prog.calls[g])
  BY OutsideAlike
<1>2. UNCHANGED <<prog, rw, sem, mutex>>
  BY DEF semavars
<1> QED BY <1>1, <1>2, OneAlike

(* What a record is after a call and after a return.                       *)
LEMMA TailUnlockShape ==
    ASSUME NEW r \in Gr, NEW x, NEW s, s = TailUnlock(r, x)
    PROVE  s.pc = "unlock" /\ s.mu = x /\ s.k = r.k /\ s.ip = r.ip
BY DEF TailUnlock, Gr

LEMMA TailAcquireShape ==
    ASSUME NEW r \in Gr, NEW x, NEW s, s = TailAcquire(r, x)
    PROVE  s.pc = "sacq" /\ s.sa = x /\ s.k = r.k /\ s.ip = r.ip
BY DEF TailAcquire, Gr

LEMMA TailReleaseShape ==
    ASSUME NEW r \in Gr, NEW x, NEW s, s = TailRelease(r, x)
    PROVE  s.pc = "srel" /\ s.sa = x /\ s.k = r.k /\ s.ip = r.ip
BY DEF TailRelease, Gr

LEMMA BackTop ==
    ASSUME NEW r \in Gr, r.k = Top
    PROVE  Back(r).pc = "next" /\ Back(r).ip = r.ip
<1>1. "next" \in Place /\ << >> \in Seq(Place) /\ Head(r.k) = "next" /\ Tail(r.k) = << >>
  BY Stacks, Places, EmptySeq
<1> QED BY <1>1, BackFacts

LEMMA BackRet ==
    ASSUME NEW r \in Gr, NEW p \in Place, r.k = Ret(p)
    PROVE  Back(r).pc = p /\ Back(r).k = Top /\ Back(r).ip = r.ip /\ Back(r).n = r.n /\ Back(r).mu = r.mu
<1>1. Top \in Seq(Place) /\ Head(r.k) = p /\ Tail(r.k) = Top
  BY Stacks
<1> QED BY <1>1, BackFacts

LEMMA WgOutside ==
    ASSUME Before, NEW g \in G, WgStep(g), ~AddCount(g)
    PROVE  After
<1> DEFINE r == gr[g]
<1>0. r \in Gr /\ Wf(r)
  BY CallFacts
<1>a. ASSUME r.pc \in Body PROVE r.k = Top
  BY <1>0, <1>a, BodyFacts
<1>b. UNCHANGED <<semavars, prog, mutex, rw>>
  BY WgMoves DEF Before, SyncIInv
<1>c. ASSUME NEW s, r.pc \in Elsewhere, gr' = [gr EXCEPT ![g] = s], s.ip = r.ip, s.pc = "next" \/ Outside(s)
      PROVE  After
  BY <1>b, <1>c, OutsideStep DEF Outside
<1>d. ASSUME NEW s, s.pc \in Elsewhere PROVE Outside(s)
  BY <1>d DEF Outside
<1>e. ASSUME NEW s, s.pc \in {"lock", "unlock"}, s.mu \in {"wgm", "om"} PROVE Outside(s)
  BY <1>e DEF Outside, Locking, Unlocking
<1>f. ASSUME NEW s, s.pc \in {"sacq", "srel"}, s.sa \in WgSet PROVE Outside(s)
  BY <1>f DEF Outside, Waking, Releasing
<1>2. CASE AddLook(g)
  <2>1. r.pc \in Elsewhere /\ r.k = Top
    BY <1>2, <1>a DEF AddLook, At, Elsewhere, Body
  <2>2. PICK s : gr' = [gr EXCEPT ![g] = s] /\ (s = Back(r) \/ s = CallLock(r, "wgm", "addwake"))
    BY <1>2 DEF AddLook
  <2>3. s.ip = r.ip /\ (s.pc = "next" \/ (s.pc = "lock" /\ s.mu = "wgm"))
    <3>1. CASE s = Back(r)
      BY <1>0, <2>1, <3>1, BackTop
    <3>2. CASE s = CallLock(r, "wgm", "addwake")
      BY <1>0, <3>2 DEF CallLock, CallTo, Gr
    <3> QED BY <2>2, <3>1, <3>2
  <2>9. s.pc = "next" \/ Outside(s)
    BY <1>e, <2>1, <2>2, <2>3
  <2> QED BY <1>c, <2>1, <2>2, <2>3, <2>9
<1>3. CASE AddWake(g)
  <2>1. r.pc \in Elsewhere /\ r.k = Top /\ r.n \in Int
    BY <1>0, <1>3, <1>a DEF AddWake, At, Elsewhere, Body, Gr
  <2>2. CASE r.n < wg.waiters
    <3>1. wg.sema \in WgSet
      <4>1. r.n >= 0 /\ wg.waiters \in Int /\ wg.sema \in WgSet \cup {Nil}
        BY <1>0, <1>3, BodyFacts DEF AddWake, At, Body, Before, SyncIInv, SyncTypes, WgInv
      <4>2. wg.waiters > 0
        BY <2>1, <2>2, <4>1
      <4>3. \A h \in G : ~Looking(h)
        <5>1. \A h \in G : Looking(h) => g = h
          BY <1>3, LookerOwns DEF AddWake, At, Before, SyncIInv
        <5> QED BY <1>3, <5>1 DEF AddWake, At, Looking
      <4> QED BY <4>1, <4>2, <4>3 DEF Before, SyncIInv, WgInv
    <3>2. PICK q : q = [r EXCEPT !.n = r.n + 1]
      OBVIOUS
    <3>3. q \in Gr /\ q.ip = r.ip
      <4>1. r.n + 1 \in Int
        BY <2>1
      <4> QED BY <1>0, <3>2, <4>1 DEF Gr
    <3>4. PICK s : s = CallRelease(q, wg.sema, "addwake")
      OBVIOUS
    <3>5. gr' = [gr EXCEPT ![g] = s]
      BY <1>3, <2>2, <3>2, <3>4 DEF AddWake
    <3>6. s.pc = "srel" /\ s.sa = wg.sema /\ s.ip = r.ip
      BY <3>3, <3>4 DEF CallRelease, CallTo, Gr
    <3>9. s.pc = "next" \/ Outside(s)
      BY <1>f, <2>1, <3>1, <3>5, <3>6
    <3> QED BY <1>c, <2>1, <3>1, <3>5, <3>6, <3>9
  <2>3. CASE ~(r.n < wg.waiters)
    <3>1. PICK q : q = [r EXCEPT !.n = 0]
      OBVIOUS
    <3>2. q \in Gr /\ q.ip = r.ip
      BY <1>0, <3>1 DEF Gr
    <3>3. PICK s : s = TailUnlock(q, "wgm")
      OBVIOUS
    <3>4. gr' = [gr EXCEPT ![g] = s]
      BY <1>3, <2>3, <3>1, <3>3 DEF AddWake
    <3>5. s.pc = "unlock" /\ s.mu = "wgm" /\ s.ip = r.ip
      BY <3>2, <3>3, TailUnlockShape
    <3>9. s.pc = "next" \/ Outside(s)
      BY <1>e, <2>1, <3>4, <3>5
    <3> QED BY <1>c, <2>1, <3>4, <3>5, <3>9
  <2> QED BY <2>2, <2>3
<1>4. CASE WaitFast(g)
  <2>1. r.pc \in Elsewhere /\ r.k = Top
    BY <1>4, <1>a DEF WaitFast, At, Elsewhere, Body
  <2>2. PICK q : q = [r EXCEPT !.zero = TRUE]
    OBVIOUS
  <2>3. q \in Gr /\ q.ip = r.ip /\ q.k = r.k
    BY <1>0, <2>2 DEF Gr
  <2>4. PICK s : gr' = [gr EXCEPT ![g] = s] /\ (s = Back(q) \/ s = CallLock(r, "wgm", "waitadd"))
    BY <1>4, <2>2 DEF WaitFast
  <2>5. s.ip = r.ip /\ (s.pc = "next" \/ (s.pc = "lock" /\ s.mu = "wgm"))
    <3>1. CASE s = Back(q)
      BY <2>1, <2>3, <3>1, BackTop
    <3>2. CASE s = CallLock(r, "wgm", "waitadd")
      BY <1>0, <3>2 DEF CallLock, CallTo, Gr
    <3> QED BY <2>4, <3>1, <3>2
  <2>9. s.pc = "next" \/ Outside(s)
    BY <1>e, <2>1, <2>4, <2>5
  <2> QED BY <1>c, <2>1, <2>4, <2>5, <2>9
<1>5. CASE WaitAdd(g) \/ (WaitLook(g) /\ ~StillBusy)
  <2>1. r.pc \in Elsewhere
    BY <1>5 DEF WaitAdd, WaitLook, At, Elsewhere
  <2>2. PICK l \in {"waitlook", "waitundo"} : gr' = [gr EXCEPT ![g].pc = l]
    BY <1>5 DEF WaitAdd, WaitLook, Goto
  <2>3. PICK s : s = [r EXCEPT !.pc = l]
    OBVIOUS
  <2>4. gr' = [gr EXCEPT ![g] = s]
    BY <2>2, <2>3
  <2>5. s.ip = r.ip /\ s.pc \in Elsewhere
    BY <1>0, <2>2, <2>3 DEF Gr, Elsewhere
  <2>9. s.pc = "next" \/ Outside(s)
    BY <1>d, <2>1, <2>4, <2>5
  <2> QED BY <1>c, <2>1, <2>4, <2>5, <2>9
<1>6. CASE WaitLook(g) /\ StillBusy
  <2>1. r.pc \in Elsewhere
    BY <1>6 DEF WaitLook, At, Elsewhere
  <2>2. PICK x : gr' = [gr EXCEPT ![g] = CallUnlock([@ EXCEPT !.ws = x], "wgm", "waitsleep")]
    BY <1>6 DEF WaitLook
  <2>3. PICK q : q = [r EXCEPT !.ws = x]
    OBVIOUS
  <2>4. PICK s : s = CallUnlock(q, "wgm", "waitsleep")
    OBVIOUS
  <2>5. gr' = [gr EXCEPT ![g] = s]
    BY <2>2, <2>3, <2>4
  <2>6. s.ip = r.ip /\ s.pc = "unlock" /\ s.mu = "wgm"
    BY <1>0, <2>3, <2>4 DEF CallUnlock, CallTo, Gr
  <2>9. s.pc = "next" \/ Outside(s)
    BY <1>e, <2>1, <2>5, <2>6
  <2> QED BY <1>c, <2>1, <2>5, <2>6, <2>9
<1>7. CASE WaitUndo(g)
  <2>1. r.pc \in Elsewhere
    BY <1>7 DEF WaitUndo, At, Elsewhere
  <2>2. PICK s : s = TailUnlock(r, "wgm")
    OBVIOUS
  <2>3. gr' = [gr EXCEPT ![g] = s]
    BY <1>7, <2>2 DEF WaitUndo
  <2>4. s.ip = r.ip /\ s.pc = "unlock" /\ s.mu = "wgm"
    BY <1>0, <2>2, TailUnlockShape
  <2>9. s.pc = "next" \/ Outside(s)
    BY <1>e, <2>1, <2>3, <2>4
  <2> QED BY <1>c, <2>1, <2>3, <2>4, <2>9
<1>8. CASE WaitSleep(g)
  <2>1. r.pc \in Elsewhere /\ r.ws \in WgSet
    BY <1>0, <1>8, BodyFacts DEF WaitSleep, At, Elsewhere, Body
  <2>2. PICK q : q = [r EXCEPT !.ws = Nil]
    OBVIOUS
  <2>3. q \in Gr /\ q.ip = r.ip
    BY <1>0, <2>2 DEF Gr
  <2>4. PICK s : s = TailAcquire(q, r.ws)
    OBVIOUS
  <2>5. gr' = [gr EXCEPT ![g] = s]
    BY <1>8, <2>2, <2>4 DEF WaitSleep
  <2>6. s.ip = r.ip /\ s.pc = "sacq" /\ s.sa = r.ws
    BY <2>3, <2>4, TailAcquireShape
  <2>9. s.pc = "next" \/ Outside(s)
    BY <1>f, <2>1, <2>5, <2>6
  <2> QED BY <1>c, <2>1, <2>5, <2>6, <2>9
<1> QED BY <1>2, <1>3, <1>4, <1>5, <1>6, <1>7, <1>8 DEF WgStep

(* Records that differ in history only.                                    *)
LEMMA SameAlike ==
    ASSUME NEW cs, NEW r, NEW s, CallOf(r, cs), Same(r, s), s.ip = r.ip
    PROVE  Alike(r, s, cs)
<1>0. s.pc = r.pc /\ s.k = r.k /\ s.mu = r.mu /\ s.sa = r.sa /\ s.n = r.n
  BY DEF Same
<1>1. CallOf(s, cs)
  <2>1. \A c \in LockCalls : In(s, c) <=> In(r, c)
    BY <1>0 DEF In, LocksM, UnlocksM
  <2> QED BY <1>0, <2>1 DEF CallOf
<1>2. CurrentOf(s, cs) = CurrentOf(r, cs) /\ Past(s) = Past(r)
  BY <1>0 DEF CurrentOf, Past
<1>3. \A a, b : Between(s, cs, a, b) <=> Between(r, cs, a, b)
  BY <1>2 DEF Between
<1>4. /\ LetsIn(s) <=> LetsIn(r)
      /\ \A a : (SleepsAt(s, a) <=> SleepsAt(r, a)) /\ (ReleasesOne(s, a) <=> ReleasesOne(r, a))
  BY <1>0 DEF LetsIn, SleepsAt, ReleasesOne
<1>5. (Writes(s, cs) <=> Writes(r, cs)) /\ (Reads(s, cs) <=> Reads(r, cs))
  BY <1>0, <1>3 DEF Writes, Reads
<1>6. Announced(s, cs) <=> Announced(r, cs)
  BY <1>0, <1>4, <1>5 DEF Announced
<1>7. \A x \in {"m", "w"} : Has(s, cs, x) <=> Has(r, cs, x)
  BY <1>0, <1>2, <1>3, <1>4, <1>6 DEF Has
<1> QED BY <1>0, <1>1, <1>4, <1>5, <1>7 DEF Alike, WriterSame, ReaderSame

LEMMA AddCountOutside ==
    ASSUME Before, NEW g \in G, AddCount(g)
    PROVE  After
<1> DEFINE r == gr[g]
           v == wg.counter + Delta(g)
<1>0. r \in Gr /\ Wf(r) /\ gr \in [G -> Gr] /\ CallOf(r, prog.calls[g])
  BY CallFacts
<1>1. r.pc \in Elsewhere /\ r.k = Top
  BY <1>0, BodyFacts DEF AddCount, Elsewhere, Body
<1>2. UNCHANGED <<semavars, prog, mutex, rw>> /\ UNCHANGED <<prog, rw, sem, mutex>>
  BY DEF AddCount, semavars
<1>3. v \in Int
  <2>1. wg.counter \in Int /\ Delta(g) \in Int
    <3>1. wg.counter \in Int
      BY DEF Before, SyncIInv, SyncTypes
    <3> QED BY <3>1 DEF Delta
  <2> QED BY <2>1
<1>4. (CASE v < 0 -> panicked' = TRUE /\ UNCHANGED gr
         [] v > 0 -> gr' = Return(g) /\ UNCHANGED panicked
         [] OTHER -> gr' = SawZero(Goto(g, "addlook")) /\ UNCHANGED panicked)
  BY DEF AddCount
<1> HIDE DEF v
<1>5. CASE gr' = gr
  <2>1. \A h \in G : Alike(gr[h], gr'[h], prog.calls[h])
    BY <1>5, AlikeSelf, CallFacts
  <2> QED BY <1>2, <2>1, AllAlike DEF Before, After
<1>6. CASE gr' = Return(g)
  <2>1. PICK s : s = Back(r)
    OBVIOUS
  <2>2. gr' = [gr EXCEPT ![g] = s] /\ s.pc = "next" /\ s.ip = r.ip
    BY <1>0, <1>1, <1>6, <2>1, BackTop DEF Return
  <2> QED BY <1>1, <1>2, <2>2, OutsideStep DEF Outside
<1>7. CASE gr' = SawZero(Goto(g, "addlook"))
  <2>1. PICK f : f = Goto(g, "addlook")
    OBVIOUS
  <2>2. PICK q : q = [r EXCEPT !.pc = "addlook"]
    OBVIOUS
  <2>3. q \in Gr /\ q.pc = "addlook" /\ q.ip = r.ip
    <3>1. "addlook" \in Place
      BY DEF Place, Body
    <3> QED BY <1>0, <2>2, <3>1 DEF Gr
  <2>4. f \in [G -> Gr] /\ f[g] = q /\ \A h \in G : h # g => f[h] = gr[h]
    BY <1>0, <2>1, <2>2, <2>3 DEF Goto
  <2>5. ASSUME NEW h \in G PROVE Same(f[h], gr'[h]) /\ gr'[h].ip = f[h].ip
    <3>1. PICK z : z = (f[h].zero \/ (InWait(h) /\ f[h].pc # "next"))
      OBVIOUS
    <3>2. z \in BOOLEAN
      BY <3>1
    <3>3. gr'[h] = [f[h] EXCEPT !.zero = z]
      BY <1>7, <2>1, <3>1 DEF SawZero
    <3> QED BY <2>4, <3>2, <3>3 DEF Same, Gr
  <2>6. Alike(r, q, prog.calls[g])
    <3>1. Outside(r) /\ Outside(q)
      BY <1>1, <2>3 DEF Outside, Elsewhere
    <3> QED BY <2>3, <3>1, OutsideAlike
  <2>7. ASSUME NEW h \in G PROVE Alike(gr[h], f[h], prog.calls[h])
    BY <2>4, <2>6, AlikeSelf, CallFacts
  <2>8. ASSUME NEW h \in G PROVE Alike(gr[h], gr'[h], prog.calls[h])
    <3>1. PICK a, b, c, cs : a = gr[h] /\ b = f[h] /\ c = gr'[h] /\ cs = prog.calls[h]
      OBVIOUS
    <3>2. Alike(a, b, cs) /\ CallOf(b, cs)
      BY <2>7, <3>1 DEF Alike
    <3>3. Alike(b, c, cs)
      BY <2>5, <3>1, <3>2, SameAlike
    <3>4. c.n = b.n /\ c.pc = b.pc
      BY <2>5, <3>1 DEF Same
    <3>5. Alike(a, c, cs)
      BY <3>2, <3>3, <3>4 DEF Alike, WriterSame, ReaderSame
    <3> QED BY <3>1, <3>5
  <2> QED BY <1>2, <2>8, AllAlike DEF Before, After
<1> QED BY <1>3, <1>4, <1>5, <1>6, <1>7

LEMMA WgLocks ==
    ASSUME Before, NEW g \in G, WgStep(g)
    PROVE  After
BY WgOutside, AddCountOutside

LEMMA OnceLocks ==
    ASSUME Before, NEW g \in G, OnceStep(g)
    PROVE  After
<1> DEFINE r == gr[g]
<1>0. r \in Gr /\ Wf(r)
  BY CallFacts
<1>a. r.pc \in Elsewhere /\ r.pc \in Body /\ UNCHANGED <<semavars, prog, mutex, rw>>
  BY DEF OnceStep, DoFast, DoSlow, FReturns, FPanics, DoStore, At, Elsewhere, Body, syncvars
<1>b. r.k = Top
  BY <1>0, <1>a, BodyFacts
<1>1. PICK s : /\ gr' = [gr EXCEPT ![g] = s]
               /\ \/ s = Back(r) \/ s = TailUnlock(r, "om")
                  \/ \E p : s = CallLock(r, "om", p)
                  \/ \E p \in {"f", "fpanic", "fdone"} : s = [r EXCEPT !.pc = p]
  <2>1. CASE DoFast(g)
    BY <2>1 DEF DoFast
  <2>2. CASE DoSlow(g)
    <3>1. gr' = [gr EXCEPT ![g] = TailUnlock(@, "om")] \/ \E p \in {"f", "fpanic"} : gr' = Goto(g, p)
      BY <2>2 DEF DoSlow
    <3> QED BY <3>1 DEF Goto
  <2>3. CASE FReturns(g)
    BY <2>3 DEF FReturns, Goto
  <2>4. CASE FPanics(g) \/ DoStore(g)
    BY <2>4 DEF FPanics, DoStore
  <2> QED BY <2>1, <2>2, <2>3, <2>4 DEF OnceStep
<1>2. s.ip = r.ip /\ (s.pc = "next" \/ Outside(s))
  <2>1. CASE s = Back(r)
    BY <1>0, <1>b, <2>1, BackTop
  <2>2. CASE s = TailUnlock(r, "om")
    BY <1>0, <2>2, TailUnlockShape DEF Outside, Unlocking
  <2>3. ASSUME NEW p, s = CallLock(r, "om", p) PROVE s.ip = r.ip /\ Outside(s)
    <3>1. s.pc = "lock" /\ s.mu = "om" /\ s.ip = r.ip
      BY <1>0, <2>3 DEF CallLock, CallTo, Gr
    <3> QED BY <3>1 DEF Outside, Locking
  <2>4. ASSUME NEW p \in {"f", "fpanic", "fdone"}, s = [r EXCEPT !.pc = p] PROVE s.ip = r.ip /\ Outside(s)
    BY <1>0, <2>4 DEF Outside, Elsewhere, Gr
  <2> QED BY <1>1, <2>1, <2>2, <2>3, <2>4
<1> QED BY <1>a, <1>1, <1>2, OutsideStep DEF Outside

(***************************************************************************)
(* Cond and its paired semaphore: in Wait, until it has the Mutex again.   *)
(***************************************************************************)
LEMMA AlikeQuiet ==
    ASSUME NEW cs, NEW r, NEW s, CallOf(r, cs), s.ip = r.ip, {r.pc, s.pc} \cap {"next", "unborn"} = {},
           NoBits(r), NoBits(s), \A c \in LockCalls : In(s, c) <=> In(r, c)
    PROVE  Alike(r, s, cs)
<1>1. Bits(r, s)
  BY DEF Bits, NoBits
<1> QED BY <1>1, AlikeOn

InAwait(r) == \A c \in LockCalls : In(r, c) <=> c = "Await"
LEMMA Awaiting ==
    ASSUME NEW r,
           \/ r.pc \in {"await", "csleep", "crelock", "yacq"}
           \/ r.pc = "yparked" /\ r.k # Top
           \/ r.pc \in Locking /\ r.mu = "m" /\ r.k = Ret("await")
           \/ r.pc \in Unlocking /\ r.mu = "m" /\ r.k = Ret("csleep")
           \/ r.pc \in Releasing /\ r.sa = "m" /\ r.k = Ret("csleep")
           \/ r.pc \in Waking /\ r.sa = "m" /\ r.k = <<"lread">> \o Ret("await")
    PROVE  /\ InAwait(r) /\ r.pc \notin {"next", "unborn"}
           /\ r.pc \notin {"await", "unlock"} => NoBits(r)
<1>0. LockCalls = {"Lock", "Unlock", "Await", "RLock", "RUnlock", "WLock", "WUnlock"}
  BY DEF LockCalls
<1>a. "await" \in Place /\ "csleep" \in Place /\ "await" # "lread"
  BY DEF Place, Body
<1>1. CASE r.pc \in {"await", "csleep", "crelock", "yacq"}
  <2>1. r.pc \in Body \cup {"yrel", "yacq"}
    BY <1>1 DEF Body
  <2>2. InAwait(r)
    BY <1>0, <1>1, <2>1, InBodyPlaces DEF InAwait
  <2>3. r.pc # "await" => NoBits(r)
    BY <1>1 DEF NoBits, LetsIn, SleepsAt, ReleasesOne, Waking, Releasing
  <2> QED BY <1>1, <2>2, <2>3
<1>2. CASE r.pc = "yparked" /\ r.k # Top
  <2>1. InAwait(r)
    BY <1>0, <1>2, InPaired DEF InAwait
  <2> QED BY <1>2, <2>1 DEF NoBits, LetsIn, SleepsAt, ReleasesOne, Waking, Releasing
<1>3. CASE r.pc \in Locking /\ r.mu = "m" /\ r.k = Ret("await")
  <2>1. r.k \notin {Top, <<"lread">> \o Top}
    BY <1>a, <1>3, Stacks, StacksDiffer
  <2>2. InAwait(r)
    BY <1>0, <1>3, <2>1, InLocking DEF InAwait
  <2> QED BY <1>3, <2>2 DEF NoBits, LetsIn, SleepsAt, ReleasesOne, Waking, Releasing, Locking
<1>4. CASE r.pc \in Unlocking /\ r.mu = "m" /\ r.k = Ret("csleep")
  <2>1. r.k # Top
    BY <1>a, <1>4, Stacks
  <2>2. InAwait(r)
    BY <1>0, <1>4, <2>1, InUnlocking DEF InAwait
  <2> QED BY <1>4, <2>2 DEF NoBits, LetsIn, SleepsAt, ReleasesOne, Waking, Releasing, Unlocking
<1>5. CASE r.pc \in Releasing /\ r.sa = "m" /\ r.k = Ret("csleep")
  <2>1. r.k # Top
    BY <1>a, <1>5, Stacks
  <2>2. InAwait(r)
    BY <1>0, <1>5, <2>1, InReleasing DEF InAwait
  <2> QED BY <1>5, <2>2 DEF NoBits, LetsIn, SleepsAt, ReleasesOne, Waking, Releasing
<1>6. CASE r.pc \in Waking /\ r.sa = "m" /\ r.k = <<"lread">> \o Ret("await")
  <2>1. r.k \notin {Top, <<"lread">> \o Top}
    BY <1>a, <1>6, StacksDiffer
  <2>2. InAwait(r)
    BY <1>0, <1>6, <2>1, InWaking DEF InAwait
  <2> QED BY <1>6, <2>2 DEF NoBits, LetsIn, SleepsAt, ReleasesOne, Waking, Releasing
<1> QED BY <1>1, <1>2, <1>3, <1>4, <1>5, <1>6

LEMMA AwaitAlike ==
    ASSUME Before, NEW g \in G, NEW s, s.ip = gr[g].ip, InAwait(gr[g]), InAwait(s), NoBits(gr[g]), NoBits(s),
           gr[g].pc \notin {"next", "unborn"}, s.pc \notin {"next", "unborn"}
    PROVE  Alike(gr[g], s, prog.calls[g])
<1>1. PICK r, cs : r = gr[g] /\ cs = prog.calls[g]
  OBVIOUS
<1>2. CallOf(r, cs)
  BY <1>1, CallFacts
<1>3. {r.pc, s.pc} \cap {"next", "unborn"} = {}
  BY <1>1
<1>4. \A c \in LockCalls : In(s, c) <=> In(r, c)
  BY <1>1 DEF InAwait
<1>5. Alike(r, s, cs)
  BY <1>1, <1>2, <1>3, <1>4, AlikeQuiet
<1> QED BY <1>1, <1>5

LEMMA PairAlike ==
    ASSUME Before, NEW g \in G, gr[g].pc \in Pairing, NEW s, s.ip = gr[g].ip,
           \/ gr[g].k = Top /\ (s.pc = "next" \/ (s.pc = "yparked" /\ s.k = Top))
           \/ gr[g].k = Ret("crelock") /\ (s.pc = "crelock" \/ (s.pc = "yparked" /\ s.k = gr[g].k))
    PROVE  Alike(gr[g], s, prog.calls[g])
<1>0. Wf(gr[g]) /\ "crelock" \in Place
  BY CallFacts DEF Place, Body
<1>1. Ret("crelock") # Top
  BY <1>0, Stacks
<1>2. CASE gr[g].k = Top
  <2>1. gr[g].pc \in {"yrel", "yparked"}
    BY <1>0, <1>1, <1>2, PairFacts DEF Pairing
  <2>2. Outside(gr[g])
    BY <1>2, <2>1 DEF Outside, Elsewhere
  <2>3. s.pc = "next" \/ Outside(s)
    BY <1>1, <1>2 DEF Outside
  <2> QED BY <2>2, <2>3, OutsideAlike
<1>3. CASE gr[g].k # Top
  <2>1. gr[g].pc \in {"yacq", "yparked"} /\ (s.pc = "crelock" \/ (s.pc = "yparked" /\ s.k # Top))
    BY <1>0, <1>1, <1>3, PairFacts DEF Pairing
  <2>2. InAwait(gr[g]) /\ NoBits(gr[g])
    BY <1>3, <2>1, Awaiting
  <2>3. InAwait(s) /\ NoBits(s)
    BY <2>1, Awaiting
  <2>4. gr[g].pc \notin {"next", "unborn"} /\ s.pc \notin {"next", "unborn"}
    BY <2>1
  <2> QED BY <2>2, <2>3, <2>4, AwaitAlike
<1> QED BY <1>2, <1>3

LEMMA PairBackAlike ==
    ASSUME Before, NEW g \in G, gr[g].pc \in Pairing, NEW q \in Gr, q.k = gr[g].k, q.ip = gr[g].ip
    PROVE  Alike(gr[g], Back(q), prog.calls[g])
<1>0. Wf(gr[g]) /\ "crelock" \in Place
  BY CallFacts DEF Place, Body
<1>1. gr[g].k \in {Top, Ret("crelock")}
  BY <1>0, PairFacts DEF Pairing
<1>2. PICK s : s = Back(q)
  OBVIOUS
<1>3. CASE gr[g].k = Top
  <2>1. s.pc = "next" /\ s.ip = q.ip
    BY <1>2, <1>3, BackTop
  <2> QED BY <1>2, <1>3, <2>1, PairAlike
<1>4. CASE gr[g].k = Ret("crelock")
  <2>1. s.pc = "crelock" /\ s.ip = q.ip
    BY <1>0, <1>2, <1>4, BackRet
  <2> QED BY <1>2, <1>4, <2>1, PairAlike
<1> QED BY <1>1, <1>3, <1>4

LEMMA SyncAcquireLocks ==
    ASSUME Before, NEW g \in G, SyncAcquire(g), UNCHANGED <<prog, syncvars>>
    PROVE  After
<1> DEFINE r == gr[g]
<1>0. r \in Gr /\ Wf(r) /\ gr \in [G -> Gr] /\ r.pc = "yacq" /\ r.pc \in Pairing
  BY CallFacts DEF SyncAcquire, At, Pairing
<1>1. r.k = Ret("crelock")
  BY <1>0, PairFacts
<1>2. UNCHANGED <<prog, rw, sem, mutex>>
  BY DEF SyncAcquire, syncvars
<1>3. Alike(r, Back(r), prog.calls[g])
  BY <1>0, PairBackAlike
<1>4. CASE syncsema # << >> /\ gr' = [Return(g) EXCEPT ![Head(syncsema).g] = Back(@)]
  <2>1. PICK h : h = Head(syncsema).g
    OBVIOUS
  <2>2. h \in G /\ gr[h].pc = "yparked"
    <3>1. 1 \in 1 .. Len(syncsema) /\ Head(syncsema) = syncsema[1]
      BY <1>4, HeadOfQueue DEF Before
    <3>2. syncsema[1].g \in G /\ gr[syncsema[1].g].pc = "yparked"
      BY <3>1, PairQueue DEF Before
    <3> QED BY <2>1, <3>1, <3>2
  <2>3. gr[h] \in Gr /\ h # g
    BY <1>0, <2>2
  <2>4. Alike(gr[h], Back(gr[h]), prog.calls[h])
    BY <2>2, <2>3, PairBackAlike DEF Pairing
  <2>5. gr' = [[gr EXCEPT ![g] = Back(r)] EXCEPT ![h] = Back(@)]
    BY <1>4, <2>1 DEF Return
  <2>6. gr'[g] = Back(r) /\ gr'[h] = Back(gr[h]) /\ \A i \in G : i # g /\ i # h => gr'[i] = gr[i]
    BY <1>0, <2>2, <2>3, <2>5
  <2>7. \A i \in G : Alike(gr[i], gr'[i], prog.calls[i])
    BY <1>3, <2>4, <2>6, AlikeSelf, CallFacts
  <2> QED BY <1>2, <2>7, AllAlike DEF Before, After
<1>5. CASE gr' = Return(g)
  BY <1>2, <1>3, <1>5, OneAlike DEF Return
<1>6. CASE gr' = Goto(g, "yparked")
  <2>1. PICK s : s = [r EXCEPT !.pc = "yparked"]
    OBVIOUS
  <2>2. gr' = [gr EXCEPT ![g] = s] /\ s.pc = "yparked" /\ s.k = r.k /\ s.ip = r.ip
    BY <1>0, <1>6, <2>1 DEF Goto, Gr
  <2>3. Alike(r, s, prog.calls[g])
    BY <1>0, <1>1, <2>2, PairAlike
  <2> QED BY <1>2, <2>2, <2>3, OneAlike
<1> QED BY <1>4, <1>5, <1>6 DEF SyncAcquire

LEMMA SyncReleaseLocks ==
    ASSUME Before, NEW g \in G, SyncRelease(g), UNCHANGED <<prog, syncvars>>
    PROVE  After
<1> DEFINE r == gr[g]
<1>0. r \in Gr /\ Wf(r) /\ gr \in [G -> Gr] /\ r.pc = "yrel" /\ r.pc \in Pairing
  BY CallFacts DEF SyncRelease, At, Pairing
<1>1. r.k = Top
  BY <1>0, PairFacts
<1>2. UNCHANGED <<prog, rw, sem, mutex>>
  BY DEF SyncRelease, syncvars
<1>a. PICK n : n = (IF syncsema = << >> \/ Head(syncsema).nrelease > 0 THEN 0 ELSE Min({r.n, Len(syncsema)}))
  OBVIOUS
<1>b. PICK woken : woken = {syncsema[i].g : i \in 1 .. n}
  OBVIOUS
<1>c. PICK left : left = r.n - n
  OBVIOUS
<1>4. n \in Nat /\ n <= Len(syncsema)
  BY <1>0, <1>a, PairedCount DEF Before, At
<1>5. \A h \in woken : h \in G /\ gr[h].pc = "yparked"
  <2>1. Len(syncsema) \in Nat /\ \A i \in 1 .. Len(syncsema) : syncsema[i].g \in G /\ gr[syncsema[i].g].pc = "yparked"
    BY PairQueue DEF Before
  <2>2. \A i \in 1 .. n : i \in 1 .. Len(syncsema)
    BY <1>4, <2>1
  <2> QED BY <1>b, <2>1, <2>2
<1>6. gr' = [h \in G |-> IF h \in woken THEN Back(gr[h])
                         ELSE IF h # g THEN gr[h]
                         ELSE IF left = 0 THEN Back([gr[g] EXCEPT !.n = 0])
                         ELSE [gr[g] EXCEPT !.pc = "yparked", !.n = 0]]
  BY <1>a, <1>b, <1>c, Zenon DEF SyncRelease
<1>7. ASSUME NEW h \in woken PROVE Alike(gr[h], gr'[h], prog.calls[h])
  <2>1. h \in G /\ gr[h].pc \in Pairing /\ gr[h] \in Gr /\ gr'[h] = Back(gr[h])
    BY <1>5, <1>6, <1>0 DEF Pairing
  <2>2. Alike(gr[h], Back(gr[h]), prog.calls[h])
    BY <2>1, PairBackAlike
  <2> QED BY <2>1, <2>2
<1>8. Alike(gr[g], gr'[g], prog.calls[g])
  <2>0. g \notin woken
    BY <1>0, <1>5
  <2>1. PICK q, s : q = [r EXCEPT !.n = 0] /\ s = [r EXCEPT !.pc = "yparked", !.n = 0]
    OBVIOUS
  <2>2. q \in Gr /\ q.k = r.k /\ q.ip = r.ip
    <3>1. q = [r EXCEPT !.n = 0] /\ 0 \in Int
      BY <2>1
    <3> QED BY <1>0, <3>1 DEF Gr
  <2>6. s.pc = "yparked" /\ s.k = r.k /\ s.ip = r.ip
    BY <1>0, <2>1 DEF Gr
  <2>3. gr'[g] = Back(q) \/ gr'[g] = s
    BY <1>6, <2>0, <2>1
  <2>4. Alike(gr[g], Back(q), prog.calls[g])
    BY <1>0, <2>2, PairBackAlike
  <2>5. Alike(gr[g], s, prog.calls[g])
    BY <1>0, <1>1, <2>6, PairAlike
  <2> QED BY <2>3, <2>4, <2>5
<1>9. \A h \in G : Alike(gr[h], gr'[h], prog.calls[h])
  <2> SUFFICES ASSUME NEW h \in G PROVE Alike(gr[h], gr'[h], prog.calls[h])
    OBVIOUS
  <2>1. CASE h \notin woken /\ h # g
    <3>1. gr'[h] = gr[h]
      BY <1>6, <2>1
    <3> QED BY <3>1, AlikeSelf, CallFacts
  <2> QED BY <1>7, <1>8, <2>1
<1> QED BY <1>2, <1>9, AllAlike DEF Before, After

(* Wait gives the Mutex up, which it has, or returns with it.              *)
LEMMA AwaitHas ==
    ASSUME NEW cs \in Seq(Calls), WellPaired(cs), NEW r \in Gr, CallOf(r, cs), InAwait(r), r.pc \notin {"next", "unborn"}
    PROVE  Between(r, cs, "Lock", "Unlock") /\ CurrentOf(r, cs) = "Await" /\ r.ip - 1 \in DOMAIN cs /\ cs[r.ip - 1] = "Await"
<1>0. r.ip - 1 \in DOMAIN cs /\ cs[r.ip - 1] = "Await" /\ r.ip \in Nat \ {0}
  BY DEF CallOf, InAwait, LockCalls, Gr
<1>1. PICK n \in Int : n = r.ip - 2
  BY <1>0
<1>2. n >= 0 /\ n + 1 = r.ip - 1 /\ r.ip # 1
  BY <1>0, <1>1
<1>3. Past(r) = n /\ CurrentOf(r, cs) = "Await"
  BY <1>0, <1>1, <1>2 DEF Past, CurrentOf
<1>4. Times(cs, n + 1, "Lock") > Times(cs, n + 1, "Unlock")
  BY <1>0, <1>2 DEF WellPaired
<1>5. Times(cs, n + 1, "Lock") = Times(cs, n, "Lock") /\ Times(cs, n + 1, "Unlock") = Times(cs, n, "Unlock")
  BY <1>0, <1>2, TimesStep
<1> QED BY <1>0, <1>3, <1>4, <1>5 DEF Between

LEMMA AwaitBack ==
    ASSUME NEW cs \in Seq(Calls), WellPaired(cs), NEW r \in Gr, CallOf(r, cs), r.pc = "await",
           NEW s, s.ip = r.ip, s.pc = "next"
    PROVE  Alike(r, s, cs)
<1>0. InAwait(r) /\ r.pc \notin {"next", "unborn"} /\ r.ip \in Nat \ {0}
  BY Awaiting DEF Gr
<1>1. Between(r, cs, "Lock", "Unlock") /\ CurrentOf(r, cs) = "Await" /\ r.ip - 1 \in DOMAIN cs /\ cs[r.ip - 1] = "Await"
  BY <1>0, AwaitHas
<1>2. CallOf(s, cs)
  <2>1. s.ip <= Len(cs) + 1
    BY <1>0, <1>1
  <2> QED BY <2>1 DEF CallOf
<1>3. NoBits(s)
  BY OutOfCalls
<1>4. ASSUME NEW a, NEW b, Paired(a, b)
      PROVE  CurrentOf(s, cs) = "none" /\ (Between(s, cs, a, b) <=> Between(r, cs, a, b))
  <2>1. "Await" \notin {a, b}
    BY <1>4 DEF Paired
  <2> QED BY <1>0, <1>1, <1>4, <2>1, BetweenEnd
<1>5. Paired("Lock", "Unlock") /\ Paired("RLock", "RUnlock") /\ Paired("WLock", "WUnlock")
  BY DEF Paired
<1>6. /\ Between(s, cs, "WLock", "WUnlock") <=> Between(r, cs, "WLock", "WUnlock")
      /\ Between(s, cs, "RLock", "RUnlock") <=> Between(r, cs, "RLock", "RUnlock")
      /\ Between(s, cs, "Lock", "Unlock") /\ CurrentOf(s, cs) # "Await"
  BY <1>1, <1>4, <1>5
<1>7. ~LetsIn(r) /\ \A a : ~SleepsAt(r, a) /\ ~ReleasesOne(r, a)
  BY DEF LetsIn, SleepsAt, ReleasesOne, Waking, Releasing
<1>8. /\ Writes(r, cs) <=> Between(r, cs, "WLock", "WUnlock")
      /\ Reads(r, cs) <=> Between(r, cs, "RLock", "RUnlock")
      /\ Has(r, cs, "m")
  BY <1>1 DEF Writes, Reads, Has
<1>9. Has(r, cs, "w") <=> Between(r, cs, "WLock", "WUnlock")
  BY <1>7, <1>8 DEF Has, Announced
<1>10. /\ Has(s, cs, "m") /\ (Has(s, cs, "w") <=> Between(s, cs, "WLock", "WUnlock"))
       /\ Writes(s, cs) <=> Between(s, cs, "WLock", "WUnlock")
       /\ Reads(s, cs) <=> Between(s, cs, "RLock", "RUnlock")
       /\ ~LetsIn(s) /\ \A a \in {"readerSem", "writerSem"} : ~SleepsAt(s, a) /\ ~ReleasesOne(s, a)
  BY <1>3, <1>6, OfNoBits
<1> QED BY <1>2, <1>6, <1>7, <1>8, <1>9, <1>10 DEF Alike, WriterSame, ReaderSame

(* It has the Mutex at the call of Unlock, and looks at the condition with *)
(* it only.                                                                *)
LEMMA AwaitUnlock ==
    ASSUME NEW cs \in Seq(Calls), WellPaired(cs), NEW r \in Gr, CallOf(r, cs), r.pc = "await",
           NEW s, s.ip = r.ip, s.pc = "unlock", s.mu = "m", s.k = Ret("csleep")
    PROVE  Alike(r, s, cs)
<1>0. InAwait(r) /\ InAwait(s)
  BY Awaiting DEF Unlocking
<1>1. Between(r, cs, "Lock", "Unlock") /\ CurrentOf(r, cs) = "Await"
  BY <1>0, AwaitHas
<1>2. /\ \A a, b : Between(s, cs, a, b) <=> Between(r, cs, a, b)
      /\ CurrentOf(s, cs) = CurrentOf(r, cs)
  BY BetweenOn
<1>3. CallOf(s, cs)
  BY <1>0 DEF CallOf, InAwait
<1>4. ~LetsIn(r) /\ \A a : ~SleepsAt(r, a) /\ ~ReleasesOne(r, a)
  BY DEF LetsIn, SleepsAt, ReleasesOne, Waking, Releasing
<1>5. ~LetsIn(s) /\ \A a : ~SleepsAt(s, a) /\ ~ReleasesOne(s, a)
  BY DEF LetsIn, SleepsAt, ReleasesOne, Waking, Releasing
<1>6. (Writes(s, cs) <=> Writes(r, cs)) /\ (Reads(s, cs) <=> Reads(r, cs))
  BY <1>2 DEF Writes, Reads
<1>7. Has(r, cs, "m") /\ Has(s, cs, "m")
  BY <1>1 DEF Has
<1>8. Has(r, cs, "w") <=> Has(s, cs, "w")
  BY <1>4, <1>5, <1>6 DEF Has, Announced
<1> QED BY <1>3, <1>4, <1>5, <1>6, <1>7, <1>8 DEF Alike, WriterSame, ReaderSame

LEMMA CondLocks ==
    ASSUME Before, NEW g \in G, CondStep(g)
    PROVE  After
<1> DEFINE r == gr[g]
<1>0. r \in Gr /\ Wf(r) /\ CallOf(r, prog.calls[g]) /\ prog.calls[g] \in Seq(Calls) /\ WellPaired(prog.calls[g])
  BY CallFacts
<1>a. UNCHANGED <<semavars, prog, mutex, rw>>
  BY CondMoves DEF Before, SyncIInv
<1>b. UNCHANGED <<prog, rw, sem, mutex>>
  BY <1>a DEF semavars
<1>c. r.pc \in Body /\ r.k = Top
  <2>1. r.pc \in Body
    BY DEF CondStep, CondWait, CondSleep, CondRelock, SetReady, SignalLoad, SignalCas, At, Body
  <2> QED BY <1>0, <2>1, BodyFacts
<1>d. Back(r).pc = "next" /\ Back(r).ip = r.ip
  BY <1>0, <1>c, BackTop
<1>1. CASE CondWait(g) /\ cond.ready
  <2>1. gr' = [gr EXCEPT ![g] = Back(r)] /\ r.pc = "await"
    BY <1>1 DEF CondWait, Return, At
  <2>2. Alike(r, Back(r), prog.calls[g])
    BY <1>0, <1>d, <2>1, AwaitBack
  <2> QED BY <1>b, <2>1, <2>2, OneAlike
<1>2. CASE CondWait(g) /\ ~cond.ready
  <2>1. PICK s : s = CallUnlock(r, "m", "csleep")
    OBVIOUS
  <2>2. gr' = [gr EXCEPT ![g] = s] /\ r.pc = "await"
    BY <1>2, <2>1 DEF CondWait, At
  <2>3. s.pc = "unlock" /\ s.mu = "m" /\ s.ip = r.ip /\ s.k = Ret("csleep")
    <3>1. <<"csleep">> \o r.k = Ret("csleep")
      BY <1>c DEF Ret
    <3> QED BY <1>0, <2>1, <3>1 DEF CallUnlock, CallTo, Gr
  <2>4. Alike(r, s, prog.calls[g])
    BY <1>0, <2>2, <2>3, AwaitUnlock
  <2> QED BY <1>b, <2>2, <2>4, OneAlike
<1>3. CASE CondSleep(g) \/ CondRelock(g)
  <2>1. r.pc \in {"csleep", "crelock"}
    BY <1>3 DEF CondSleep, CondRelock, At
  <2>2. PICK s : gr' = [gr EXCEPT ![g] = s] /\ (s = CallTo(r, "yacq", "crelock") \/ s = CallLock(r, "m", "await"))
    BY <1>3 DEF CondSleep, CondRelock
  <2>3. s.ip = r.ip /\ (s.pc = "yacq" \/ (s.pc = "lock" /\ s.mu = "m" /\ s.k = Ret("await")))
    <3>1. <<"await">> \o r.k = Ret("await")
      BY <1>c DEF Ret
    <3> QED BY <1>0, <2>2, <3>1 DEF CallLock, CallTo, Gr
  <2>4. InAwait(r) /\ NoBits(r) /\ r.pc \notin {"next", "unborn"}
    BY <2>1, Awaiting
  <2>5. InAwait(s) /\ NoBits(s) /\ s.pc \notin {"next", "unborn"}
    <3>1. s.pc \notin {"await", "unlock"}
      BY <2>3
    <3> QED BY <2>3, <3>1, Awaiting DEF Locking
  <2>6. Alike(r, s, prog.calls[g])
    BY <2>3, <2>4, <2>5, AwaitAlike
  <2> QED BY <1>b, <2>2, <2>6, OneAlike
<1>4. CASE SetReady(g) \/ SignalLoad(g) \/ SignalCas(g)
  <2>1. r.pc \in Elsewhere
    BY <1>4 DEF SetReady, SignalLoad, SignalCas, At, Elsewhere
  <2>2. PICK s : /\ gr' = [gr EXCEPT ![g] = s]
                 /\ \/ s = Back(r)
                    \/ \E l \in {"scas", "bcas", "yrel", "signal", "broadcast"} : \E n : s = [r EXCEPT !.pc = l, !.n = n]
    <3>1. CASE SetReady(g)
      BY <3>1 DEF SetReady, Return
    <3>2. CASE SignalLoad(g)
      <4>1. PICK l \in {"scas", "bcas"} : l = IF At(g, "signal") THEN "scas" ELSE "bcas"
        OBVIOUS
      <4>2. PICK s : s = IF cond.waiters = 0 THEN Back(r) ELSE [r EXCEPT !.pc = l, !.n = cond.waiters]
        OBVIOUS
      <4>3. gr' = [gr EXCEPT ![g] = s]
        BY <3>2, <4>1, <4>2 DEF SignalLoad
      <4> QED BY <4>1, <4>2, <4>3
    <3>3. CASE SignalCas(g)
      <4>1. \E l \in {"yrel", "signal", "broadcast"} : \E n : gr' = [gr EXCEPT ![g].pc = l, ![g].n = n]
        BY <3>3 DEF SignalCas
      <4>2. PICK l \in {"yrel", "signal", "broadcast"} : \E n : gr' = [gr EXCEPT ![g].pc = l, ![g].n = n]
        BY <4>1
      <4>5. PICK n : gr' = [gr EXCEPT ![g].pc = l, ![g].n = n]
        BY <4>2
      <4>3. PICK s : s = [r EXCEPT !.pc = l, !.n = n]
        OBVIOUS
      <4>4. gr' = [gr EXCEPT ![g] = s]
        BY <4>5, <4>3, CallFacts
      <4> QED BY <4>3, <4>4
    <3> QED BY <1>4, <3>1, <3>2, <3>3
  <2>3. s.ip = r.ip /\ (s.pc = "next" \/ s.pc \in Elsewhere)
    BY <1>0, <1>d, <2>2 DEF Elsewhere, Gr
  <2> QED BY <1>a, <2>1, <2>2, <2>3, OutsideStep DEF Outside
<1> QED BY <1>1, <1>2, <1>3, <1>4 DEF CondStep

(***************************************************************************)
(* Lock and Unlock of Mutex x, from where the goroutine goes on with k.    *)
(***************************************************************************)
Locks(r, x, k) ==
    \/ r.pc \in Locking /\ r.mu = x /\ r.k = k
    \/ r.pc \in Waking /\ r.sa = x /\ r.k = <<"lread">> \o k
Unlocks(r, x, k) ==
    /\ r.k = k
    /\ \/ r.pc \in Unlocking /\ r.mu = x
       \/ r.pc \in Releasing /\ r.sa = x
OnlyIn(r, c) == \A d \in LockCalls : In(r, d) <=> d = c

LEMMA LocksIn ==
    ASSUME NEW r, NEW x, NEW k, Locks(r, x, k), LockStack(x, k)
    PROVE  /\ r.pc \notin {"next", "unborn"} /\ NoBits(r)
           /\ x = "m" /\ k = Top => OnlyIn(r, "Lock")
           /\ x = "m" /\ k = Ret("await") => OnlyIn(r, "Await")
           /\ x = "w" => k = Ret("wannounce") /\ OnlyIn(r, "WLock")
           /\ x \notin {"m", "w"} => Outside(r)
           /\ x = "m" => k \in {Top, Ret("await")}
<1>0. LockCalls = {"Lock", "Unlock", "Await", "RLock", "RUnlock", "WLock", "WUnlock"}
  BY DEF LockCalls
<1>a. "await" \in Place /\ "await" # "lread"
  BY DEF Place, Body
<1>1. /\ x \in {"m", "w", "wgm", "om"} /\ (x = "m" => k \in {Top, Ret("await")})
      /\ x = "w" => k = Ret("wannounce")
  BY DEF LockStack
<1>2. /\ Ret("await") \notin {Top, <<"lread">> \o Top}
      /\ <<"lread">> \o Ret("await") \notin {Top, <<"lread">> \o Top}
  BY <1>a, Stacks, StacksDiffer
<1>3. CASE r.pc \in Locking /\ r.mu = x /\ r.k = k
  <2>1. r.pc \notin {"next", "unborn"} /\ NoBits(r)
    BY <1>3 DEF NoBits, LetsIn, SleepsAt, ReleasesOne, Waking, Releasing, Locking
  <2>2. /\ In(r, "Lock") <=> x = "m" /\ k \in {Top, <<"lread">> \o Top}
        /\ In(r, "Await") <=> x = "m" /\ k \notin {Top, <<"lread">> \o Top}
        /\ In(r, "WLock") <=> x = "w"
        /\ ~In(r, "Unlock") /\ ~In(r, "RLock") /\ ~In(r, "RUnlock") /\ ~In(r, "WUnlock")
    BY <1>3, InLocking
  <2>3. x = "m" /\ k = Top => OnlyIn(r, "Lock")
    BY <1>0, <2>2 DEF OnlyIn
  <2>4. x = "m" /\ k = Ret("await") => OnlyIn(r, "Await")
    BY <1>0, <1>2, <2>2 DEF OnlyIn
  <2>5. x = "w" => OnlyIn(r, "WLock")
    BY <1>0, <2>2 DEF OnlyIn
  <2>6. x \notin {"m", "w"} => Outside(r)
    BY <1>1, <1>3 DEF Outside
  <2> QED BY <1>1, <2>1, <2>3, <2>4, <2>5, <2>6
<1>4. CASE r.pc \in Waking /\ r.sa = x /\ r.k = <<"lread">> \o k
  <2>1. r.pc \notin {"next", "unborn"} /\ NoBits(r)
    BY <1>1, <1>4 DEF NoBits, LetsIn, SleepsAt, ReleasesOne, Waking, Releasing
  <2>2. /\ In(r, "Lock") <=> x = "m" /\ r.k \in {Top, <<"lread">> \o Top}
        /\ In(r, "Await") <=> x = "m" /\ r.k \notin {Top, <<"lread">> \o Top}
        /\ In(r, "WLock") <=> x \in {"w", "writerSem"}
        /\ In(r, "RLock") <=> x = "readerSem"
        /\ ~In(r, "Unlock") /\ ~In(r, "RUnlock") /\ ~In(r, "WUnlock")
    BY <1>4, InWaking
  <2>3. x = "m" /\ k = Top => OnlyIn(r, "Lock")
    BY <1>0, <1>4, <2>2 DEF OnlyIn
  <2>4. x = "m" /\ k = Ret("await") => OnlyIn(r, "Await")
    BY <1>0, <1>2, <1>4, <2>2 DEF OnlyIn
  <2>5. x = "w" => OnlyIn(r, "WLock")
    BY <1>0, <2>2 DEF OnlyIn
  <2>6. x \notin {"m", "w"} => Outside(r)
    BY <1>1, <1>4 DEF Outside
  <2> QED BY <1>1, <2>1, <2>3, <2>4, <2>5, <2>6
<1> QED BY <1>3, <1>4 DEF Locks

LEMMA UnlocksIn ==
    ASSUME NEW r, NEW x \in Mutexes, NEW k, Unlocks(r, x, k), UnlockStack(x, k)
    PROVE  /\ r.pc \notin {"next", "unborn"} /\ (r.pc # "unlock" => NoBits(r))
           /\ x = "m" /\ k = Top => OnlyIn(r, "Unlock")
           /\ x = "m" /\ k = Ret("csleep") => OnlyIn(r, "Await")
           /\ x = "w" => k = Top /\ OnlyIn(r, "WUnlock")
           /\ x \notin {"m", "w"} => Outside(r)
           /\ x = "m" => k \in {Top, Ret("csleep")}
<1>0. LockCalls = {"Lock", "Unlock", "Await", "RLock", "RUnlock", "WLock", "WUnlock"}
  BY DEF LockCalls
<1>1. /\ x \in {"m", "w", "wgm", "om"} /\ (x = "m" => k \in {Top, Ret("csleep")})
      /\ x = "w" => k = Top
  BY DEF UnlockStack, Mutexes
<1>2. Ret("csleep") # Top
  BY Stacks DEF Place, Body
<1>3. CASE r.pc \in Unlocking /\ r.mu = x /\ r.k = k
  <2>1. r.pc \notin {"next", "unborn"} /\ (r.pc # "unlock" => NoBits(r))
    BY <1>3 DEF NoBits, LetsIn, SleepsAt, ReleasesOne, Waking, Releasing, Unlocking
  <2>2. /\ In(r, "Unlock") <=> x = "m" /\ k = Top
        /\ In(r, "Await") <=> x = "m" /\ k # Top
        /\ In(r, "WUnlock") <=> x = "w"
        /\ ~In(r, "Lock") /\ ~In(r, "RLock") /\ ~In(r, "RUnlock") /\ ~In(r, "WLock")
    BY <1>3, InUnlocking
  <2>3. x = "m" /\ k = Top => OnlyIn(r, "Unlock")
    BY <1>0, <2>2 DEF OnlyIn
  <2>4. x = "m" /\ k = Ret("csleep") => OnlyIn(r, "Await")
    BY <1>0, <1>2, <2>2 DEF OnlyIn
  <2>5. x = "w" => OnlyIn(r, "WUnlock")
    BY <1>0, <2>2 DEF OnlyIn
  <2>6. x \notin {"m", "w"} => Outside(r)
    BY <1>1, <1>3 DEF Outside
  <2> QED BY <1>1, <2>1, <2>3, <2>4, <2>5, <2>6
<1>4. CASE r.pc \in Releasing /\ r.sa = x /\ r.k = k
  <2>1. r.pc \notin {"next", "unborn"} /\ NoBits(r)
    BY <1>1, <1>4 DEF NoBits, LetsIn, SleepsAt, ReleasesOne, Waking, Releasing
  <2>2. /\ In(r, "Unlock") <=> x = "m" /\ k = Top
        /\ In(r, "Await") <=> x = "m" /\ k # Top
        /\ In(r, "WUnlock") <=> x \in {"w", "readerSem"}
        /\ In(r, "RUnlock") <=> x = "writerSem"
        /\ ~In(r, "Lock") /\ ~In(r, "RLock") /\ ~In(r, "WLock")
    BY <1>4, InReleasing
  <2>3. x = "m" /\ k = Top => OnlyIn(r, "Unlock")
    BY <1>0, <2>2 DEF OnlyIn
  <2>4. x = "m" /\ k = Ret("csleep") => OnlyIn(r, "Await")
    BY <1>0, <1>2, <2>2 DEF OnlyIn
  <2>5. x = "w" => OnlyIn(r, "WUnlock")
    BY <1>0, <2>2 DEF OnlyIn
  <2>6. x \notin {"m", "w"} => Outside(r)
    BY <1>1, <1>4 DEF Outside
  <2> QED BY <1>1, <2>1, <2>3, <2>4, <2>5, <2>6
<1> QED BY <1>3, <1>4 DEF Unlocks

LEMMA SameCall ==
    ASSUME NEW cs, NEW r, NEW s, CallOf(r, cs), s.ip = r.ip, r.pc \notin {"next", "unborn"},
           s.pc \notin {"next", "unborn"}, NoBits(r), NoBits(s), NEW c, OnlyIn(r, c), OnlyIn(s, c)
    PROVE  Alike(r, s, cs)
<1>1. {r.pc, s.pc} \cap {"next", "unborn"} = {}
  OBVIOUS
<1>2. \A d \in LockCalls : In(s, d) <=> In(r, d)
  BY DEF OnlyIn
<1> QED BY <1>1, <1>2, AlikeQuiet

(* Lock goes on, or sleeps, or is woken.                                   *)
LEMMA LocksOn ==
    ASSUME Before, NEW g \in G, NEW s, NEW x, NEW k, LockStack(x, k), Locks(gr[g], x, k), Locks(s, x, k), s.ip = gr[g].ip
    PROVE  Alike(gr[g], s, prog.calls[g])
<1>1. PICK r, cs : r = gr[g] /\ cs = prog.calls[g]
  OBVIOUS
<1>2. CallOf(r, cs) /\ Locks(r, x, k) /\ s.ip = r.ip
  BY <1>1, CallFacts
<1>3. r.pc \notin {"next", "unborn"} /\ NoBits(r) /\ s.pc \notin {"next", "unborn"} /\ NoBits(s)
  BY <1>2, LocksIn
<1>4. CASE x \in {"m", "w"}
  <2>1. \E c : OnlyIn(r, c) /\ OnlyIn(s, c)
    BY <1>2, <1>4, LocksIn
  <2>2. Alike(r, s, cs)
    BY <1>2, <1>3, <2>1, SameCall
  <2> QED BY <1>1, <2>2
<1>5. CASE x \notin {"m", "w"}
  <2>1. Outside(gr[g]) /\ Outside(s)
    BY <1>5, LocksIn
  <2> QED BY <2>1, OutsideAlike
<1> QED BY <1>4, <1>5

(* Unlock goes on after it has given the Mutex up, or returns.             *)
LEMMA UnlocksOn ==
    ASSUME Before, NEW g \in G, NEW s, NEW x \in Mutexes, NEW k, UnlockStack(x, k), Unlocks(gr[g], x, k),
           gr[g].pc # "unlock", s.ip = gr[g].ip,
           \/ Unlocks(s, x, k) /\ s.pc # "unlock"
           \/ k = Top /\ s.pc = "next"
           \/ k = Ret("csleep") /\ s.pc = "csleep"
           \/ k = Ret("waitsleep") /\ s.pc = "waitsleep"
    PROVE  Alike(gr[g], s, prog.calls[g])
<1>1. PICK r, cs : r = gr[g] /\ cs = prog.calls[g]
  OBVIOUS
<1>2. CallOf(r, cs) /\ Unlocks(r, x, k) /\ s.ip = r.ip /\ r.ip \in Nat \ {0} /\ cs \in Seq(Calls) /\ WellPaired(cs)
  BY <1>1, CallFacts
<1>3. r.pc \notin {"next", "unborn"} /\ NoBits(r)
  BY <1>1, <1>2, UnlocksIn
<1>4. CASE Unlocks(s, x, k) /\ s.pc # "unlock"
  <2>1. s.pc \notin {"next", "unborn"} /\ NoBits(s)
    BY <1>4, UnlocksIn
  <2>2. CASE x \in {"m", "w"}
    <3>1. \E c : OnlyIn(r, c) /\ OnlyIn(s, c)
      BY <1>2, <1>4, <2>2, UnlocksIn
    <3>2. Alike(r, s, cs)
      BY <1>2, <1>3, <2>1, <3>1, SameCall
    <3> QED BY <1>1, <3>2
  <2>3. CASE x \notin {"m", "w"}
    <3>1. Outside(gr[g]) /\ Outside(s)
      BY <1>4, <2>3, UnlocksIn
    <3> QED BY <3>1, OutsideAlike
  <2> QED BY <2>2, <2>3
<1>5. CASE k = Top /\ s.pc = "next"
  <2>1. CASE x \in {"m", "w"}
    <3>1. OnlyIn(r, "Unlock") \/ OnlyIn(r, "WUnlock")
      BY <1>2, <1>5, <2>1, UnlocksIn
    <3>2. \A c \in {"Lock", "RLock", "WLock", "Await"} : ~In(r, c)
      BY <3>1 DEF OnlyIn, LockCalls
    <3>3. Alike(r, s, cs)
      BY <1>2, <1>3, <1>5, <3>2, AlikeBack
    <3> QED BY <1>1, <3>3
  <2>2. CASE x \notin {"m", "w"}
    <3>1. Outside(gr[g])
      BY <2>2, UnlocksIn
    <3> QED BY <1>5, <3>1, OutsideAlike
  <2> QED BY <2>1, <2>2
<1>a. /\ Ret("csleep") # Top /\ Ret("waitsleep") # Top /\ Ret("csleep") # Ret("waitsleep")
  BY Stacks, StacksDiffer DEF Place, Body
<1>6. CASE k = Ret("csleep") /\ s.pc = "csleep"
  <2>1. x = "m"
    BY <1>6, <1>a DEF UnlockStack
  <2>2. OnlyIn(r, "Await")
    BY <1>2, <1>6, <2>1, UnlocksIn
  <2>3. OnlyIn(s, "Await") /\ NoBits(s) /\ s.pc \notin {"next", "unborn"}
    BY <1>6, Awaiting DEF InAwait, OnlyIn
  <2>4. Alike(r, s, cs)
    BY <1>2, <1>3, <2>2, <2>3, SameCall
  <2> QED BY <1>1, <2>4
<1>7. CASE k = Ret("waitsleep") /\ s.pc = "waitsleep"
  <2>1. x = "wgm"
    BY <1>7, <1>a DEF UnlockStack
  <2>2. Outside(gr[g])
    BY <2>1, UnlocksIn
  <2>3. Outside(s)
    BY <1>7 DEF Outside, Elsewhere
  <2> QED BY <2>2, <2>3, OutsideAlike
<1> QED BY <1>4, <1>5, <1>6, <1>7

(***************************************************************************)
(* A Mutex is taken and given up.                                          *)
(***************************************************************************)
LEMMA TakenLocks ==
    ASSUME Before, NEW g \in G, NEW s, gr' = [gr EXCEPT ![g] = s], CallOf(s, prog.calls[g]),
           WriterSame(gr[g], s, prog.calls[g]), ReaderSame(gr[g], s, prog.calls[g]),
           NEW z \in {"m", "w"}, ~mutex[z].locked, mutex'[z].locked,
           \A x \in {"m", "w"} : x # z => (mutex[x].locked => mutex'[x].locked),
           \A x \in {"m", "w"} : Has(s, prog.calls[g], x) => Has(gr[g], prog.calls[g], x) \/ x = z,
           UNCHANGED <<prog, rw, sem>>
    PROVE  After
<1>1. gr'[g] = s /\ \A h \in G : h # g => gr'[h] = gr[h]
  BY CallFacts
<1>2. CallInv'
  BY <1>1 DEF CallInv, Before
<1>3. \A h \in G, x \in {"m", "w"} :
        Has(gr'[h], prog.calls[h], x) => Has(gr[h], prog.calls[h], x) \/ (h = g /\ x = z)
  BY <1>1
<1>4. HasInv'
  BY <1>3, HasTaken DEF Before
<1>5. \A h \in G : WriterSame(gr[h], gr'[h], prog.calls[h]) /\ ReaderSame(gr[h], gr'[h], prog.calls[h])
  <2> SUFFICES ASSUME NEW h \in G, h # g
               PROVE  WriterSame(gr[h], gr'[h], prog.calls[h]) /\ ReaderSame(gr[h], gr'[h], prog.calls[h])
    BY <1>1
  <2>1. Alike(gr[h], gr[h], prog.calls[h])
    BY AlikeSelf, CallFacts
  <2> QED BY <1>1, <2>1 DEF Alike
<1>6. RwInv'
  BY <1>5, RwKept DEF Before
<1> QED BY <1>2, <1>4, <1>6 DEF After

LEMMA GivenLocks ==
    ASSUME Before, NEW g \in G, NEW s, gr' = [gr EXCEPT ![g] = s], CallOf(s, prog.calls[g]),
           WriterSame(gr[g], s, prog.calls[g]), ReaderSame(gr[g], s, prog.calls[g]),
           NEW z \in {"m", "w"}, Has(gr[g], prog.calls[g], z),
           \A x \in {"m", "w"} : x # z => (mutex[x].locked => mutex'[x].locked),
           \A x \in {"m", "w"} : Has(s, prog.calls[g], x) => Has(gr[g], prog.calls[g], x) /\ x # z,
           UNCHANGED <<prog, rw, sem>>
    PROVE  After
<1>1. gr'[g] = s /\ \A h \in G : h # g => gr'[h] = gr[h]
  BY CallFacts
<1>2. CallInv'
  BY <1>1 DEF CallInv, Before
<1>3. \A h \in G, x \in {"m", "w"} :
        Has(gr'[h], prog.calls[h], x) => Has(gr[h], prog.calls[h], x) /\ ~(h = g /\ x = z)
  BY <1>1
<1>4. HasInv'
  BY <1>3, HasGiven DEF Before
<1>5. \A h \in G : WriterSame(gr[h], gr'[h], prog.calls[h]) /\ ReaderSame(gr[h], gr'[h], prog.calls[h])
  <2> SUFFICES ASSUME NEW h \in G, h # g
               PROVE  WriterSame(gr[h], gr'[h], prog.calls[h]) /\ ReaderSame(gr[h], gr'[h], prog.calls[h])
    BY <1>1
  <2>1. Alike(gr[h], gr[h], prog.calls[h])
    BY AlikeSelf, CallFacts
  <2> QED BY <1>1, <2>1 DEF Alike
<1>6. RwInv'
  BY <1>5, RwKept DEF Before
<1> QED BY <1>2, <1>4, <1>6 DEF After

LEMMA LeaveShape ==
    ASSUME NEW r \in Gr, NEW s, s = LeaveMutex(r)
    PROVE  s.ip = r.ip /\ (r.k = Top => s.pc = "next") /\ \A p \in Place : r.k = Ret(p) => s.pc = p /\ s.k = Top
<1>1. PICK q : q = Clean(r)
  OBVIOUS
<1>2. q \in Gr /\ q.k = r.k /\ q.ip = r.ip
  <2>1. Unlocked \in MState
    BY DEF Unlocked, MState
  <2> QED BY <1>1, <2>1 DEF Clean, Gr
<1>3. s = Back(q)
  BY <1>1 DEF LeaveMutex
<1>4. s.ip = r.ip
  BY <1>2, <1>3 DEF Back, Gr
<1>5. r.k = Top => s.pc = "next"
  BY <1>2, <1>3, BackTop
<1>6. ASSUME NEW p \in Place, r.k = Ret(p) PROVE s.pc = p /\ s.k = Top
  BY <1>2, <1>3, <1>6, BackRet
<1> QED BY <1>4, <1>5, <1>6

(* Two records within the same call.                                       *)
LEMMA WithinCall ==
    ASSUME NEW cs \in Seq(Calls), NEW r, NEW s, CallOf(r, cs), s.ip = r.ip, r.ip \in Nat \ {0}, r.pc \notin {"next", "unborn"},
           s.pc \notin {"next", "unborn"}, NEW c \in LockCalls, OnlyIn(r, c), OnlyIn(s, c)
    PROVE  /\ CallOf(s, cs) /\ CurrentOf(s, cs) = c /\ CurrentOf(r, cs) = c /\ cs[r.ip - 1] = c /\ r.ip - 1 \in DOMAIN cs
           /\ \A a, b : Between(s, cs, a, b) <=> Between(r, cs, a, b)
<1>1. r.ip - 1 \in DOMAIN cs /\ cs[r.ip - 1] = c
  BY DEF CallOf, OnlyIn
<1>2. CallOf(s, cs)
  BY DEF CallOf, OnlyIn
<1>3. /\ \A a, b : Between(s, cs, a, b) <=> Between(r, cs, a, b)
      /\ CurrentOf(s, cs) = CurrentOf(r, cs)
  BY BetweenOn
<1>4. r.ip # 1
  BY <1>1
<1>5. CurrentOf(r, cs) = c
  BY <1>1, <1>4 DEF CurrentOf
<1> QED BY <1>1, <1>2, <1>3, <1>5

(* Lock returns: of "m" to the program, of "m" to Wait, of "w" to RWMutex. *)
LEMMA LockReturns ==
    ASSUME NEW cs \in Seq(Calls), WellPaired(cs), NEW r \in Gr, CallOf(r, cs), NEW s, s.ip = r.ip,
           OnlyIn(r, "Lock"), NoBits(r), r.pc \notin {"next", "unborn"}, s.pc = "next"
    PROVE  /\ CallOf(s, cs) /\ WriterSame(r, s, cs) /\ ReaderSame(r, s, cs)
           /\ \A x \in {"m", "w"} : Has(s, cs, x) => Has(r, cs, x) \/ x = "m"
<1>0. r.ip \in Nat \ {0} /\ r.ip - 1 \in DOMAIN cs /\ cs[r.ip - 1] = "Lock"
  BY DEF CallOf, OnlyIn, LockCalls, Gr
<1>1. NoBits(s) /\ CallOf(s, cs)
  <2>1. s.ip <= Len(cs) + 1
    BY <1>0
  <2> QED BY <2>1, OutOfCalls DEF CallOf
<1>2. /\ Between(s, cs, "WLock", "WUnlock") <=> Between(r, cs, "WLock", "WUnlock")
      /\ Between(s, cs, "RLock", "RUnlock") <=> Between(r, cs, "RLock", "RUnlock")
  <2>1. Paired("RLock", "RUnlock") /\ Paired("WLock", "WUnlock")
    BY DEF Paired
  <2>2. ASSUME NEW a, NEW b, Paired(a, b), "Lock" \notin {a, b} PROVE Between(s, cs, a, b) <=> Between(r, cs, a, b)
    BY <1>0, <2>2, BetweenEnd
  <2> QED BY <2>1, <2>2
<1>3. /\ Has(s, cs, "w") <=> Has(r, cs, "w")
      /\ Writes(s, cs) <=> Writes(r, cs)
      /\ Reads(s, cs) <=> Reads(r, cs)
      /\ {r.pc, s.pc} \cap {"rdepart", "wwait"} = {} /\ ~LetsIn(r) /\ ~LetsIn(s)
      /\ \A a \in {"readerSem", "writerSem"} : ~SleepsAt(r, a) /\ ~ReleasesOne(r, a) /\ ~SleepsAt(s, a) /\ ~ReleasesOne(s, a)
  BY <1>1, <1>2, OfNoBits
<1> QED BY <1>1, <1>3 DEF WriterSame, ReaderSame

LEMMA LockReturnsWithin ==
    ASSUME NEW cs \in Seq(Calls), WellPaired(cs), NEW r \in Gr, CallOf(r, cs), NEW s, s.ip = r.ip,
           NoBits(r), r.pc \notin {"next", "unborn"}, NEW z,
           \/ z = "m" /\ OnlyIn(r, "Await") /\ s.pc = "await"
           \/ z = "w" /\ OnlyIn(r, "WLock") /\ s.pc = "wannounce"
    PROVE  /\ CallOf(s, cs) /\ WriterSame(r, s, cs) /\ ReaderSame(r, s, cs)
           /\ \A x \in {"m", "w"} : Has(s, cs, x) => Has(r, cs, x) \/ x = z
<1>0. r.ip \in Nat \ {0} /\ s.pc \in Body \cup {"yrel", "yacq"} /\ s.pc \notin {"next", "unborn"}
  BY DEF Gr, Body
<1>1. /\ ~In(s, "Lock") /\ ~In(s, "Unlock")
      /\ In(s, "Await") <=> s.pc \in {"await", "csleep", "crelock", "yacq"}
      /\ In(s, "RLock") <=> s.pc = "rlock"
      /\ In(s, "RUnlock") <=> s.pc \in {"runlock", "rdepart"}
      /\ In(s, "WLock") <=> s.pc \in {"wannounce", "wwait"}
      /\ In(s, "WUnlock") <=> s.pc \in {"wunlock", "wrelease"}
  BY <1>0, InBodyPlaces
<1>2. PICK c \in {"Await", "WLock"} :
        OnlyIn(r, c) /\ (c = "Await" => z = "m" /\ s.pc = "await") /\ (c = "WLock" => z = "w" /\ s.pc = "wannounce")
  <2>1. CASE z = "m" /\ OnlyIn(r, "Await") /\ s.pc = "await"
    BY <2>1
  <2>2. CASE z = "w" /\ OnlyIn(r, "WLock") /\ s.pc = "wannounce"
    BY <2>2
  <2> QED BY <2>1, <2>2
<1>3. OnlyIn(s, c)
  BY <1>1, <1>2 DEF OnlyIn, LockCalls
<1>4. /\ CallOf(s, cs) /\ CurrentOf(s, cs) = c /\ CurrentOf(r, cs) = c
      /\ \A a, b : Between(s, cs, a, b) <=> Between(r, cs, a, b)
  BY <1>0, <1>2, <1>3, WithinCall DEF LockCalls
<1>5. /\ Has(r, cs, "m") <=> Between(r, cs, "Lock", "Unlock") /\ CurrentOf(r, cs) # "Await"
      /\ Has(r, cs, "w") <=> Between(r, cs, "WLock", "WUnlock")
      /\ Writes(r, cs) <=> Between(r, cs, "WLock", "WUnlock")
      /\ Reads(r, cs) <=> Between(r, cs, "RLock", "RUnlock")
      /\ r.pc \notin {"rdepart", "wwait"} /\ ~LetsIn(r)
      /\ \A a \in {"readerSem", "writerSem"} : ~SleepsAt(r, a) /\ ~ReleasesOne(r, a)
  BY OfNoBits
<1>6. ~LetsIn(s) /\ \A a : ~SleepsAt(s, a) /\ ~ReleasesOne(s, a)
  BY <1>2 DEF LetsIn, SleepsAt, ReleasesOne, Waking, Releasing
<1>7. (Writes(s, cs) <=> Writes(r, cs)) /\ (Reads(s, cs) <=> Reads(r, cs)) /\ s.pc \notin {"rdepart", "wwait"}
  BY <1>2, <1>4, <1>5 DEF Writes, Reads
<1>8. WriterSame(r, s, cs) /\ ReaderSame(r, s, cs)
  BY <1>5, <1>6, <1>7 DEF WriterSame, ReaderSame
<1>9. z # "m" => (Has(s, cs, "m") => Has(r, cs, "m"))
  BY <1>2, <1>4, <1>5 DEF Has
<1>10. z # "w" => (Has(s, cs, "w") => Has(r, cs, "w"))
  <2>1. Announced(s, cs) <=> Writes(s, cs)
    BY <1>6, <1>7 DEF Announced
  <2> QED BY <1>2, <1>5, <1>6, <1>7, <2>1 DEF Has
<1> QED BY <1>4, <1>8, <1>9, <1>10

LEMMA LockTaken ==
    ASSUME Before, NEW g \in G, gr[g].pc \in Locking, ~mutex[gr[g].mu].locked, NEW m \in MState, m.locked,
           mutex' = [mutex EXCEPT ![gr[g].mu] = m], NEW s, s = LeaveMutex(gr[g]), gr' = [gr EXCEPT ![g] = s],
           UNCHANGED <<prog, rw, semavars>>
    PROVE  After
<1>1. PICK r, cs : r = gr[g] /\ cs = prog.calls[g]
  OBVIOUS
<1>2. r \in Gr /\ Wf(r) /\ CallOf(r, cs) /\ cs \in Seq(Calls) /\ WellPaired(cs) /\ r.ip \in Nat \ {0}
  BY <1>1, CallFacts
<1>3. PICK x, k : x \in Mutexes /\ r.mu = x /\ r.k = k /\ LockStack(x, k)
  BY <1>1, <1>2, LockFacts
<1>4. /\ r.pc \notin {"next", "unborn"} /\ NoBits(r)
      /\ x = "m" /\ k = Top => OnlyIn(r, "Lock")
      /\ x = "m" /\ k = Ret("await") => OnlyIn(r, "Await")
      /\ x = "w" => k = Ret("wannounce") /\ OnlyIn(r, "WLock")
      /\ x \notin {"m", "w"} => Outside(r)
      /\ x = "m" => k \in {Top, Ret("await")}
  <2>1. Locks(r, x, k)
    BY <1>1, <1>3 DEF Locks
  <2> QED BY <1>3, <2>1, LocksIn
<1>5. s.ip = r.ip /\ (k = Top => s.pc = "next") /\ \A p \in Place : k = Ret(p) => s.pc = p /\ s.k = Top
  BY <1>1, <1>2, <1>3, LeaveShape
<1>6. mutex'[x] = m /\ \A y \in Mutexes : y # x => mutex'[y] = mutex[y]
  BY <1>1, <1>3, SetMutex DEF Before, SyncIInv
<1>7. \A y \in {"m", "w"} : y # x => (mutex[y].locked => mutex'[y].locked)
  BY <1>6 DEF Mutexes
<1>8. UNCHANGED <<prog, rw, sem>>
  BY DEF semavars
<1>9. CASE x \in {"m", "w"}
  <2>1. /\ CallOf(s, cs) /\ WriterSame(r, s, cs) /\ ReaderSame(r, s, cs)
        /\ \A y \in {"m", "w"} : Has(s, cs, y) => Has(r, cs, y) \/ y = x
    <3>1. CASE x = "m" /\ k = Top
      <4>1. OnlyIn(r, "Lock") /\ NoBits(r) /\ r.pc \notin {"next", "unborn"} /\ s.pc = "next" /\ s.ip = r.ip /\ x = "m"
        BY <1>4, <1>5, <3>1
      <4> QED BY ONLY <1>2, <4>1, LockReturns
    <3>2. CASE x = "m" /\ k = Ret("await")
      <4>1. s.pc = "await"
        BY <1>5, <3>2 DEF Place, Body
      <4>2. OnlyIn(r, "Await") /\ NoBits(r) /\ r.pc \notin {"next", "unborn"} /\ s.ip = r.ip /\ x = "m"
        BY <1>4, <1>5, <3>2
      <4> QED BY ONLY <1>2, <4>1, <4>2, LockReturnsWithin
    <3>3. CASE x = "w"
      <4>1. s.pc = "wannounce"
        BY <1>4, <1>5, <3>3 DEF Place, Body
      <4>2. OnlyIn(r, "WLock") /\ NoBits(r) /\ r.pc \notin {"next", "unborn"} /\ s.ip = r.ip /\ x = "w"
        BY <1>4, <1>5, <3>3
      <4> QED BY ONLY <1>2, <4>1, <4>2, LockReturnsWithin
    <3> QED BY <1>4, <1>9, <3>1, <3>2, <3>3
  <2>2. /\ CallOf(s, prog.calls[g]) /\ WriterSame(gr[g], s, prog.calls[g]) /\ ReaderSame(gr[g], s, prog.calls[g])
        /\ \A y \in {"m", "w"} : Has(s, prog.calls[g], y) => Has(gr[g], prog.calls[g], y) \/ y = x
        /\ ~mutex[x].locked /\ mutex'[x].locked
    BY <1>1, <1>3, <1>6, <2>1
  <2>3. gr' = [gr EXCEPT ![g] = s]
    OBVIOUS
  <2> QED BY ONLY Before, g \in G, <1>7, <1>8, <1>9, <2>2, <2>3, TakenLocks
<1>10. CASE x \notin {"m", "w"}
  <2>1. PICK p \in {"waitadd", "addwake", "dof", "dofpanic"} : k = Ret(p)
    BY <1>3, <1>10 DEF LockStack
  <2>2. s.pc = p
    BY <1>5, <2>1 DEF Place, Body
  <2>3. Outside(gr[g]) /\ Outside(s)
    BY <1>1, <1>4, <1>10, <2>1, <2>2 DEF Outside, Elsewhere
  <2>4. Alike(gr[g], s, prog.calls[g])
    BY <1>1, <1>5, <2>3, OutsideAlike
  <2>5. \A y \in {"m", "w"} : mutex[y].locked => mutex'[y].locked
    BY <1>7, <1>10
  <2> QED BY <1>8, <2>4, <2>5, OneAlike
<1> QED BY <1>9, <1>10

(* Unlock gives the Mutex up, and returns or goes on.                      *)
LEMMA UnlockGives ==
    ASSUME NEW cs \in Seq(Calls), WellPaired(cs), NEW r \in Gr, CallOf(r, cs), NEW z \in {"m", "w"},
           r.pc = "unlock", r.mu = z, NEW s, s.ip = r.ip, NoBits(s), NEW c, OnlyIn(r, c), s.pc # "unborn",
           <<z, c>> \in {<<"m", "Unlock">>, <<"w", "WUnlock">>, <<"m", "Await">>},
           (s.pc = "next" /\ c # "Await") \/ (s.pc # "next" /\ OnlyIn(s, c))
    PROVE  /\ CallOf(s, cs) /\ WriterSame(r, s, cs) /\ ReaderSame(r, s, cs) /\ Has(r, cs, z)
           /\ \A x \in {"m", "w"} : Has(s, cs, x) => Has(r, cs, x) /\ x # z
<1>0. c \in LockCalls /\ r.ip \in Nat \ {0} /\ r.ip - 1 \in DOMAIN cs /\ cs[r.ip - 1] = c
  <2>1. c \in LockCalls
    BY DEF LockCalls
  <2> QED BY <2>1 DEF CallOf, OnlyIn, Gr
<1>1. /\ CallOf(s, cs) /\ CurrentOf(r, cs) = c
      /\ Between(s, cs, "WLock", "WUnlock") <=> Between(r, cs, "WLock", "WUnlock")
      /\ Between(s, cs, "RLock", "RUnlock") <=> Between(r, cs, "RLock", "RUnlock")
      /\ Between(s, cs, "Lock", "Unlock") <=> Between(r, cs, "Lock", "Unlock")
      /\ s.pc # "next" => CurrentOf(s, cs) = c
  <2>1. CASE s.pc = "next" /\ c # "Await"
    <3>1. s.ip <= Len(cs) + 1
      BY <1>0
    <3>2. CallOf(s, cs)
      BY <2>1, <3>1 DEF CallOf
    <3>3. ASSUME NEW a, NEW b, Paired(a, b)
          PROVE  CurrentOf(r, cs) = c /\ (Between(s, cs, a, b) <=> Between(r, cs, a, b))
      <4>1. c \notin {"Lock", "RLock", "WLock"} /\ a \in {"Lock", "RLock", "WLock"}
        BY <3>3 DEF Paired
      <4> QED BY <1>0, <2>1, <3>3, <4>1, BetweenEnd
    <3>4. Paired("Lock", "Unlock") /\ Paired("RLock", "RUnlock") /\ Paired("WLock", "WUnlock")
      BY DEF Paired
    <3> QED BY <2>1, <3>2, <3>3, <3>4
  <2>2. CASE s.pc # "next" /\ OnlyIn(s, c)
    <3>1. /\ CallOf(s, cs) /\ CurrentOf(s, cs) = c /\ CurrentOf(r, cs) = c
          /\ \A a, b : Between(s, cs, a, b) <=> Between(r, cs, a, b)
      BY <1>0, <2>2, WithinCall
    <3> QED BY <3>1
  <2> QED BY <2>1, <2>2
<1>2. /\ Has(s, cs, "m") <=> Between(s, cs, "Lock", "Unlock") /\ CurrentOf(s, cs) # "Await"
      /\ Has(s, cs, "w") <=> Between(s, cs, "WLock", "WUnlock")
      /\ Writes(s, cs) <=> Between(s, cs, "WLock", "WUnlock")
      /\ Reads(s, cs) <=> Between(s, cs, "RLock", "RUnlock")
      /\ s.pc \notin {"rdepart", "wwait"} /\ ~LetsIn(s)
      /\ \A a \in {"readerSem", "writerSem"} : ~SleepsAt(s, a) /\ ~ReleasesOne(s, a)
  BY OfNoBits
<1>3. ~LetsIn(r) /\ \A a : ~SleepsAt(r, a) /\ ~ReleasesOne(r, a)
  BY DEF LetsIn, SleepsAt, ReleasesOne, Waking, Releasing
<1>4. /\ Writes(r, cs) <=> Between(r, cs, "WLock", "WUnlock")
      /\ Reads(r, cs) <=> Between(r, cs, "RLock", "RUnlock")
      /\ Has(r, cs, z)
  BY DEF Writes, Reads, Has
<1>5. WriterSame(r, s, cs) /\ ReaderSame(r, s, cs)
  BY <1>1, <1>2, <1>3, <1>4 DEF WriterSame, ReaderSame
<1>6. c = "Unlock" => ~Between(r, cs, "Lock", "Unlock")
  BY <1>1 DEF Between
<1>7. c = "WUnlock" => ~Between(r, cs, "WLock", "WUnlock")
  BY <1>1 DEF Between
<1>8. z = "m" => ~Has(s, cs, "m")
  BY <1>1, <1>2, <1>6
<1>9. z = "w" => ~Has(s, cs, "w")
  BY <1>1, <1>2, <1>7
<1>10. z = "m" => (Has(s, cs, "w") => Has(r, cs, "w"))
  BY <1>1, <1>2, <1>4 DEF Has, Announced
<1>11. z = "w" => (Has(s, cs, "m") => Has(r, cs, "m"))
  BY <1>1, <1>2 DEF Has
<1> QED BY <1>1, <1>4, <1>5, <1>8, <1>9, <1>10, <1>11

(* What Unlock's loop leads to.                                            *)
LEMMA LoopShape ==
    ASSUME NEW r, Wf(r), r.pc \in Unlocking, NEW m, NEW s, s = UnlockLoop(r, m)
    PROVE  /\ s.ip = r.ip
           /\ \/ s.pc = "ucas" /\ s.mu = r.mu /\ s.k = r.k
              \/ r.k = Top /\ s.pc = "next"
              \/ r.k = Ret("csleep") /\ s.pc = "csleep"
              \/ r.k = Ret("waitsleep") /\ s.pc = "waitsleep"
<1>0. r \in Gr /\ UnlockStack(r.mu, r.k)
  BY UnlockFacts
<1>1. CASE NobodyToWake(m)
  <2>1. s = LeaveMutex(r)
    BY <1>1 DEF UnlockLoop
  <2>2. s.ip = r.ip /\ (r.k = Top => s.pc = "next") /\ \A p \in Place : r.k = Ret(p) => s.pc = p /\ s.k = Top
    BY <1>0, <2>1, LeaveShape
  <2>3. r.k = Top \/ r.k = Ret("csleep") \/ r.k = Ret("waitsleep")
    BY <1>0 DEF UnlockStack
  <2>4. "csleep" \in Place /\ "waitsleep" \in Place
    BY DEF Place, Body
  <2> QED BY <2>2, <2>3, <2>4
<1>2. CASE ~NobodyToWake(m)
  <2>1. s = [r EXCEPT !.pc = "ucas", !.old = m]
    BY <1>2 DEF UnlockLoop
  <2> QED BY <1>0, <2>1 DEF Gr
<1> QED BY <1>1, <1>2

LEMMA UnlockAddLocks ==
    ASSUME Before, NEW g \in G, UnlockAdd(g)
    PROVE  After
<1>1. PICK r, cs : r = gr[g] /\ cs = prog.calls[g]
  OBVIOUS
<1>2. r \in Gr /\ Wf(r) /\ CallOf(r, cs) /\ cs \in Seq(Calls) /\ WellPaired(cs) /\ r.ip \in Nat \ {0}
  BY <1>1, CallFacts
<1>3. r.pc = "unlock" /\ r.pc \in Unlocking /\ UNCHANGED <<prog, rw, sem>>
  BY <1>1 DEF UnlockAdd, At, Unlocking, semavars
<1>4. PICK x, k : x \in Mutexes /\ r.mu = x /\ r.k = k /\ UnlockStack(x, k)
  BY <1>2, <1>3, UnlockFacts
<1>5. CASE ~mutex[x].locked
  <2>1. UNCHANGED <<gr, mutex>>
    BY <1>1, <1>4, <1>5 DEF UnlockAdd
  <2>2. \A h \in G : Alike(gr[h], gr'[h], prog.calls[h])
    BY <2>1, AlikeSelf, CallFacts
  <2> QED BY <1>3, <2>1, <2>2, AllAlike DEF Before, After
<1>6. CASE mutex[x].locked
  <2>1. PICK m : m = [mutex[x] EXCEPT !.locked = FALSE]
    OBVIOUS
  <2>2. PICK s : s = UnlockLoop(r, m)
    OBVIOUS
  <2>3. gr' = [gr EXCEPT ![g] = s] /\ mutex' = [mutex EXCEPT ![x] = m]
    BY <1>1, <1>4, <1>6, <2>1, <2>2 DEF UnlockAdd
  <2>4. m \in MState
    <3>1. mutex[x] \in MState
      BY <1>4 DEF Before, SyncIInv, SyncTypes
    <3> QED BY <2>1, <3>1 DEF MState
  <2>5. \A y \in {"m", "w"} : y # x => (mutex[y].locked => mutex'[y].locked)
    BY <2>3, <2>4, SetMutex DEF Before, SyncIInv, Mutexes
  <2>6. /\ s.ip = r.ip
        /\ \/ s.pc = "ucas" /\ s.mu = x /\ s.k = k
           \/ k = Top /\ s.pc = "next"
           \/ k = Ret("csleep") /\ s.pc = "csleep"
           \/ k = Ret("waitsleep") /\ s.pc = "waitsleep"
    BY <1>2, <1>3, <1>4, <2>2, LoopShape
  <2>7. Unlocks(r, x, k) /\ (s.pc = "ucas" => Unlocks(s, x, k))
    BY <1>3, <1>4, <2>6 DEF Unlocks, Unlocking
  <2>8. /\ x = "m" /\ k = Top => OnlyIn(r, "Unlock")
        /\ x = "m" /\ k = Ret("csleep") => OnlyIn(r, "Await")
        /\ x = "w" => k = Top /\ OnlyIn(r, "WUnlock")
        /\ x \notin {"m", "w"} => Outside(r)
        /\ x = "m" => k \in {Top, Ret("csleep")}
    BY <1>4, <2>7, UnlocksIn
  <2>9. s.pc = "ucas" => /\ NoBits(s)
                         /\ x = "m" /\ k = Top => OnlyIn(s, "Unlock")
                         /\ x = "m" /\ k = Ret("csleep") => OnlyIn(s, "Await")
                         /\ x = "w" => OnlyIn(s, "WUnlock")
                         /\ x \notin {"m", "w"} => Outside(s)
    BY <1>4, <2>7, UnlocksIn
  <2>10. s.pc = "csleep" => OnlyIn(s, "Await") /\ NoBits(s)
    BY Awaiting DEF OnlyIn, InAwait
  <2>11. s.pc = "next" => NoBits(s)
    BY OutOfCalls
  <2>a. Ret("csleep") # Top /\ Ret("waitsleep") # Top /\ Ret("csleep") # Ret("waitsleep")
    BY Stacks, StacksDiffer DEF Place, Body
  <2>12. CASE x \in {"m", "w"}
    <3>1. k # Ret("waitsleep")
      BY <1>4, <2>a, <2>12 DEF UnlockStack
    <3>3. NoBits(s) /\ s.pc # "unborn"
      BY <2>6, <2>9, <2>10, <2>11, <3>1
    <3>a. r.mu = x /\ r.pc = "unlock" /\ r \in Gr
      BY <1>2, <1>3, <1>4
    <3>5. /\ CallOf(s, cs) /\ WriterSame(r, s, cs) /\ ReaderSame(r, s, cs) /\ Has(r, cs, x)
          /\ \A y \in {"m", "w"} : Has(s, cs, y) => Has(r, cs, y) /\ y # x
      <4>1. CASE x = "m" /\ k = Top
        <5>1. OnlyIn(r, "Unlock") /\ r.mu = "m"
          BY <2>8, <3>a, <4>1
        <5>2. s.pc = "next" \/ (s.pc # "next" /\ OnlyIn(s, "Unlock"))
          BY <2>6, <2>9, <2>a, <4>1
        <5> QED BY <1>2, <2>6, <3>3, <3>a, <4>1, <5>1, <5>2, UnlockGives
      <4>2. CASE x = "m" /\ k = Ret("csleep")
        <5>1. OnlyIn(r, "Await") /\ r.mu = "m"
          BY <2>8, <3>a, <4>2
        <5>2. s.pc # "next" /\ OnlyIn(s, "Await")
          BY <2>6, <2>9, <2>10, <2>a, <4>2
        <5> QED BY <1>2, <2>6, <3>3, <3>a, <4>2, <5>1, <5>2, UnlockGives
      <4>3. CASE x = "w"
        <5>1. OnlyIn(r, "WUnlock") /\ r.mu = "w" /\ k = Top
          BY <2>8, <3>a, <4>3
        <5>2. s.pc = "next" \/ (s.pc # "next" /\ OnlyIn(s, "WUnlock"))
          BY <2>6, <2>9, <2>a, <4>3, <5>1
        <5> QED BY <1>2, <2>6, <3>3, <3>a, <4>3, <5>1, <5>2, UnlockGives
      <4> QED BY <2>8, <2>12, <4>1, <4>2, <4>3
    <3>6. /\ CallOf(s, prog.calls[g]) /\ WriterSame(gr[g], s, prog.calls[g]) /\ ReaderSame(gr[g], s, prog.calls[g])
          /\ Has(gr[g], prog.calls[g], x)
          /\ \A y \in {"m", "w"} : Has(s, prog.calls[g], y) => Has(gr[g], prog.calls[g], y) /\ y # x
      BY <1>1, <3>5
    <3>7. x \in {"m", "w"} /\ UNCHANGED <<prog, rw, sem>> /\ gr' = [gr EXCEPT ![g] = s]
      BY <1>3, <2>3, <2>12
    <3> QED BY ONLY Before, g \in G, <2>5, <3>6, <3>7, GivenLocks
  <2>13. CASE x \notin {"m", "w"}
    <3>1. k # Ret("csleep")
      BY <1>4, <2>a, <2>13 DEF UnlockStack
    <3>2. s.pc = "next" \/ Outside(s)
      BY <2>6, <2>9, <2>13, <3>1 DEF Outside, Elsewhere
    <3>3. Alike(gr[g], s, prog.calls[g])
      BY <1>1, <2>6, <2>8, <2>13, <3>2, OutsideAlike
    <3>4. \A y \in {"m", "w"} : mutex[y].locked => mutex'[y].locked
      BY <2>5, <2>13
    <3> QED BY <1>3, <2>3, <3>3, <3>4, OneAlike
  <2> QED BY <2>12, <2>13
<1> QED BY <1>5, <1>6

(* Where Unlock goes once it has given the Mutex up.                       *)
GoesTo(s, x, k) ==
    \/ Unlocks(s, x, k) /\ s.pc # "unlock"
    \/ k = Top /\ s.pc = "next"
    \/ k = Ret("csleep") /\ s.pc = "csleep"
    \/ k = Ret("waitsleep") /\ s.pc = "waitsleep"

LEMMA UnlockGoesOn ==
    ASSUME Before, NEW g \in G, NEW s, gr[g].pc \in Unlocking, gr[g].pc # "unlock", gr' = [gr EXCEPT ![g] = s], s.ip = gr[g].ip,
           GoesTo(s, gr[g].mu, gr[g].k), \A y \in {"m", "w"} : mutex[y].locked => mutex'[y].locked,
           UNCHANGED <<prog, rw, sem>>
    PROVE  After
<1>1. PICK x, k : x = gr[g].mu /\ k = gr[g].k
  OBVIOUS
<1>2. gr[g].pc \in Unlocking /\ gr[g].pc # "unlock" /\ Wf(gr[g])
  BY CallFacts DEF Unlocking
<1>3. x \in Mutexes /\ UnlockStack(x, k) /\ Unlocks(gr[g], x, k)
  BY <1>1, <1>2, UnlockFacts DEF Unlocks
<1>4. Alike(gr[g], s, prog.calls[g])
  BY <1>1, <1>2, <1>3, UnlocksOn DEF GoesTo
<1> QED BY <1>4, OneAlike

LEMMA MutexLocks ==
    ASSUME Before, NEW g \in G, MutexStep(g)
    PROVE  After
<1>1. PICK r : r = gr[g]
  OBVIOUS
<1>2. r \in Gr /\ Wf(r) /\ SyncTypes /\ gr \in [G -> Gr]
  BY <1>1, CallFacts DEF Before, SyncIInv
<1>3. UNCHANGED <<prog, rw, semavars>> /\ UNCHANGED <<prog, rw, sem>>
  BY DEF MutexStep, LockFast, LockRead, LockCas, UnlockAdd, UnlockCas, UnlockRead, syncvars, semavars
<1>4. ASSUME r.pc \in Locking
      PROVE  r.mu \in Mutexes /\ LockStack(r.mu, r.k) /\ Locks(r, r.mu, r.k)
  BY <1>2, <1>4, LockFacts DEF Locks
<1>5. ASSUME r.pc \in Unlocking
      PROVE  r.mu \in Mutexes /\ UnlockStack(r.mu, r.k) /\ Unlocks(r, r.mu, r.k)
  BY <1>2, <1>5, UnlockFacts DEF Unlocks
<1>a. ASSUME NEW s, r.pc \in Locking, gr' = [gr EXCEPT ![g] = s], s.ip = r.ip, Locks(s, r.mu, r.k),
             \A y \in {"m", "w"} : mutex[y].locked => mutex'[y].locked
      PROVE  After
  <2>1. Alike(gr[g], s, prog.calls[g])
    BY <1>1, <1>4, <1>a, LocksOn
  <2> QED BY <1>3, <1>a, <2>1, OneAlike
<1>b. ASSUME NEW s, NEW l \in Locking, s = [r EXCEPT !.pc = l], r.pc \in Locking
      PROVE  s.ip = r.ip /\ Locks(s, r.mu, r.k)
  BY <1>2, <1>b DEF Locks, Gr
<1>6. CASE LockFast(g)
  <2>0. r.pc \in Locking
    BY <1>1, <1>6 DEF LockFast, At, Locking
  <2>1. CASE mutex[r.mu] = Unlocked
    <3>1. PICK m : m = [mutex[r.mu] EXCEPT !.locked = TRUE]
      OBVIOUS
    <3>2. mutex' = [mutex EXCEPT ![r.mu] = m] /\ gr' = [gr EXCEPT ![g] = LeaveMutex(r)]
      <4>1. mutex' = [mutex EXCEPT ![r.mu].locked = TRUE]
        BY <1>1, <1>6, <2>1 DEF LockFast
      <4> QED BY <1>1, <1>6, <2>1, <3>1, <4>1 DEF LockFast
    <3>3. m \in MState /\ m.locked /\ ~mutex[r.mu].locked
      <4>1. mutex[r.mu] \in MState
        BY <1>2, <1>4, <2>0 DEF SyncTypes
      <4>2. m \in MState /\ m.locked
        BY <3>1, <4>1 DEF MState
      <4>3. ~Unlocked.locked
        BY DEF Unlocked
      <4> QED BY <2>1, <4>2, <4>3
    <3>4. PICK s : s = LeaveMutex(r)
      OBVIOUS
    <3> QED BY <1>1, <1>3, <2>0, <3>2, <3>3, <3>4, LockTaken
  <2>2. CASE mutex[r.mu] # Unlocked
    <3>1. PICK s : s = [r EXCEPT !.pc = "lread"]
      OBVIOUS
    <3>2. gr' = [gr EXCEPT ![g] = s] /\ mutex' = mutex
      BY <1>1, <1>6, <2>2, <3>1 DEF LockFast, Goto
    <3>3. s.ip = r.ip /\ Locks(s, r.mu, r.k)
      BY <1>b, <2>0, <3>1 DEF Locking
    <3> QED BY <1>a, <2>0, <3>2, <3>3
  <2> QED BY <2>1, <2>2
<1>7. CASE LockRead(g)
  <2>0. r.pc \in Locking
    BY <1>1, <1>7 DEF LockRead, At, Locking
  <2>1. PICK m : m = mutex[r.mu]
    OBVIOUS
  <2>2. PICK s : s = [r EXCEPT !.pc = "lcas", !.old = m]
    OBVIOUS
  <2>3. gr' = [gr EXCEPT ![g] = s] /\ mutex' = mutex
    BY <1>1, <1>2, <1>7, <2>1, <2>2 DEF LockRead, syncvars
  <2>4. s.ip = r.ip /\ Locks(s, r.mu, r.k)
    BY <1>2, <2>2 DEF Locks, Locking, Gr
  <2> QED BY <1>a, <2>0, <2>3, <2>4
<1>8. CASE LockCas(g)
  <2>0. r.pc \in Locking
    BY <1>1, <1>8 DEF LockCas, At, Locking
  <2>1. CASE mutex[r.mu] # r.old
    <3>1. PICK s : s = [r EXCEPT !.pc = "lread"]
      OBVIOUS
    <3>2. gr' = [gr EXCEPT ![g] = s] /\ mutex' = mutex
      BY <1>1, <1>8, <2>1, <3>1 DEF LockCas, Goto
    <3>3. s.ip = r.ip /\ Locks(s, r.mu, r.k)
      BY <1>b, <2>0, <3>1 DEF Locking
    <3> QED BY <1>a, <2>0, <3>2, <3>3
  <2>2. CASE mutex[r.mu] = r.old
    <3>1. PICK m : m = Wanted(r.old, r.awoke)
      OBVIOUS
    <3>2. m \in MState /\ m.locked
      <4>1. r.old \in MState
        BY <1>2 DEF Gr
      <4> QED BY <3>1, <4>1 DEF Wanted, MState
    <3>3. mutex' = [mutex EXCEPT ![r.mu] = m]
      BY <1>1, <1>8, <2>2, <3>1 DEF LockCas
    <3>4. CASE r.old.locked
      <4>1. PICK q : q = [r EXCEPT !.awoke = TRUE]
        OBVIOUS
      <4>2. PICK s : s = CallAcquire(q, r.mu, "lread")
        OBVIOUS
      <4>3. gr' = [gr EXCEPT ![g] = s]
        BY <1>1, <1>8, <2>2, <3>4, <4>1, <4>2 DEF LockCas
      <4>4. q \in Gr /\ q.k = r.k /\ q.ip = r.ip
        BY <1>2, <4>1 DEF Gr
      <4>5. PICK k : k = <<"lread">> \o r.k
        OBVIOUS
      <4>6. s.pc = "sacq" /\ s.sa = r.mu /\ s.k = k /\ s.ip = r.ip
        BY <4>2, <4>4, <4>5 DEF CallAcquire, CallTo, Gr
      <4>7. Locks(s, r.mu, r.k)
        BY <4>5, <4>6 DEF Locks, Waking
      <4>8. \A y \in {"m", "w"} : mutex[y].locked => mutex'[y].locked
        BY <1>2, <1>4, <2>0, <3>2, <3>3, SetMutex DEF Mutexes
      <4> QED BY <1>a, <2>0, <4>3, <4>6, <4>7, <4>8
    <3>5. CASE ~r.old.locked
      <4>1. PICK s : s = LeaveMutex(r)
        OBVIOUS
      <4>2. gr' = [gr EXCEPT ![g] = s]
        BY <1>1, <1>8, <2>2, <3>5, <4>1 DEF LockCas
      <4>3. ~mutex[r.mu].locked
        BY <2>2, <3>5
      <4> QED BY <1>1, <1>3, <2>0, <3>2, <3>3, <4>1, <4>2, <4>3, LockTaken
    <3> QED BY <3>4, <3>5
  <2> QED BY <2>1, <2>2
<1>9. CASE UnlockCas(g)
  <2>0. r.pc = "ucas" /\ r.pc \in Unlocking
    BY <1>1, <1>9 DEF UnlockCas, At, Unlocking
  <2>1. CASE mutex[r.mu] # r.old
    <3>1. PICK s : s = [r EXCEPT !.pc = "uread"]
      OBVIOUS
    <3>2. gr' = [gr EXCEPT ![g] = s] /\ mutex' = mutex
      BY <1>1, <1>9, <2>1, <3>1 DEF UnlockCas, Goto
    <3>3. s.ip = r.ip /\ GoesTo(s, r.mu, r.k)
      BY <1>2, <3>1 DEF GoesTo, Unlocks, Unlocking, Gr
    <3>4. \A y \in {"m", "w"} : mutex[y].locked => mutex'[y].locked
      BY <3>2
    <3>5. gr[g].pc \in Unlocking /\ gr[g].pc # "unlock" /\ s.ip = gr[g].ip /\ GoesTo(s, gr[g].mu, gr[g].k)
      BY <1>1, <2>0, <3>3
    <3> QED BY <1>3, <3>2, <3>4, <3>5, UnlockGoesOn
  <2>2. CASE mutex[r.mu] = r.old
    <3>1. PICK m : m = [[mutex[r.mu] EXCEPT !.waiters = @ - 1] EXCEPT !.woken = TRUE]
      OBVIOUS
    <3>2. mutex' = [mutex EXCEPT ![r.mu] = m]
      <4>1. mutex' = [mutex EXCEPT ![r.mu].waiters = @ - 1, ![r.mu].woken = TRUE]
        BY <1>1, <1>9, <2>2 DEF UnlockCas
      <4> QED BY <1>2, <1>5, <2>0, <3>1, <4>1 DEF SyncTypes, MState
    <3>3. m \in MState /\ m.locked = mutex[r.mu].locked
      <4>1. PICK b \in MState : b = mutex[r.mu]
        BY <1>2, <1>5, <2>0 DEF SyncTypes
      <4>2. PICK w \in Int : w = b.waiters - 1
        BY DEF MState
      <4>3. m = [b EXCEPT !.waiters = w, !.woken = TRUE]
        BY <3>1, <4>1, <4>2 DEF MState
      <4> QED BY <4>1, <4>3 DEF MState
    <3>4. \A y \in {"m", "w"} : mutex[y].locked => mutex'[y].locked
      BY <1>2, <1>5, <2>0, <3>2, <3>3, SetMutex DEF Mutexes
    <3>5. PICK q : q = Clean(r)
      OBVIOUS
    <3>6. q \in Gr /\ q.k = r.k /\ q.ip = r.ip
      <4>1. Unlocked \in MState
        BY DEF Unlocked, MState
      <4> QED BY <1>2, <3>5, <4>1 DEF Clean, Gr
    <3>7. PICK s : s = TailRelease(q, r.mu)
      OBVIOUS
    <3>8. gr' = [gr EXCEPT ![g] = s]
      BY <1>1, <1>9, <2>2, <3>5, <3>7 DEF UnlockCas
    <3>9. s.pc = "srel" /\ s.sa = r.mu /\ s.k = r.k /\ s.ip = r.ip
      BY <3>6, <3>7, TailReleaseShape
    <3>10. GoesTo(s, r.mu, r.k)
      BY <3>9 DEF GoesTo, Unlocks, Releasing
    <3>11. gr[g].pc \in Unlocking /\ gr[g].pc # "unlock" /\ s.ip = gr[g].ip /\ GoesTo(s, gr[g].mu, gr[g].k)
      BY <1>1, <2>0, <3>9, <3>10
    <3> QED BY <1>3, <3>4, <3>8, <3>11, UnlockGoesOn
  <2> QED BY <2>1, <2>2
<1>10. CASE UnlockRead(g)
  <2>0. r.pc = "uread" /\ r.pc \in Unlocking
    BY <1>1, <1>10 DEF UnlockRead, At, Unlocking
  <2>1. PICK m : m = mutex[r.mu]
    OBVIOUS
  <2>2. PICK s : s = UnlockLoop(r, m)
    OBVIOUS
  <2>3. gr' = [gr EXCEPT ![g] = s] /\ mutex' = mutex
    BY <1>1, <1>10, <2>1, <2>2 DEF UnlockRead, syncvars
  <2>4. /\ s.ip = r.ip
        /\ \/ s.pc = "ucas" /\ s.mu = r.mu /\ s.k = r.k
           \/ r.k = Top /\ s.pc = "next"
           \/ r.k = Ret("csleep") /\ s.pc = "csleep"
           \/ r.k = Ret("waitsleep") /\ s.pc = "waitsleep"
    BY <1>2, <2>0, <2>2, LoopShape
  <2>5. GoesTo(s, r.mu, r.k)
    BY <2>4 DEF GoesTo, Unlocks, Unlocking
  <2>6. \A y \in {"m", "w"} : mutex[y].locked => mutex'[y].locked
    BY <2>3
  <2>7. gr[g].pc \in Unlocking /\ gr[g].pc # "unlock" /\ s.ip = gr[g].ip /\ GoesTo(s, gr[g].mu, gr[g].k)
    BY <1>1, <2>0, <2>4, <2>5
  <2> QED BY <1>3, <2>3, <2>6, <2>7, UnlockGoesOn
<1> QED BY <1>6, <1>7, <1>8, <1>9, <1>10, UnlockAddLocks DEF MutexStep

(***************************************************************************)
(* The semaphores: what keeps a goroutine in its call.                     *)
(***************************************************************************)
LEMMA WakingAlike ==
    ASSUME Before, NEW g \in G, gr[g].pc \in Waking, NEW s, s.pc \in Waking, s.sa = gr[g].sa, s.k = gr[g].k,
           s.ip = gr[g].ip
    PROVE  Alike(gr[g], s, prog.calls[g])
<1>1. PICK r, cs : r = gr[g] /\ cs = prog.calls[g]
  OBVIOUS
<1>2. CallOf(r, cs)
  BY <1>1, CallFacts
<1>3. r.pc \in Waking /\ s.sa = r.sa /\ s.k = r.k /\ s.ip = r.ip
  BY <1>1
<1>4. {r.pc, s.pc} \cap {"next", "unborn"} = {}
  BY <1>3 DEF Waking
<1>5. Bits(r, s)
  BY <1>3 DEF Bits, LetsIn, SleepsAt, ReleasesOne, Waking, Releasing
<1>6. \A c \in LockCalls : In(s, c) <=> In(r, c)
  BY <1>3, InWaking DEF LockCalls
<1>7. Alike(r, s, cs)
  BY <1>2, <1>3, <1>4, <1>5, <1>6, AlikeOn
<1> QED BY <1>1, <1>7

LEMMA ReleasingAlike ==
    ASSUME Before, NEW g \in G, gr[g].pc \in {"slook", "sdeq"}, NEW s, s.pc \in {"slook", "sdeq"}, s.sa = gr[g].sa,
           s.k = gr[g].k, s.ip = gr[g].ip, s.n = gr[g].n
    PROVE  Alike(gr[g], s, prog.calls[g])
<1>1. PICK r, cs : r = gr[g] /\ cs = prog.calls[g]
  OBVIOUS
<1>2. CallOf(r, cs)
  BY <1>1, CallFacts
<1>3. r.pc \in {"slook", "sdeq"} /\ s.sa = r.sa /\ s.k = r.k /\ s.ip = r.ip /\ s.n = r.n
  BY <1>1
<1>4. {r.pc, s.pc} \cap {"next", "unborn"} = {} /\ r.pc \in Releasing /\ s.pc \in Releasing
  BY <1>3 DEF Releasing
<1>5. Bits(r, s)
  BY <1>3 DEF Bits, LetsIn, SleepsAt, ReleasesOne, Waking, Releasing
<1>6. \A c \in LockCalls : In(s, c) <=> In(r, c)
  BY <1>3, <1>4, InReleasing DEF LockCalls
<1>7. Alike(r, s, cs)
  BY <1>2, <1>3, <1>4, <1>5, <1>6, AlikeOn
<1> QED BY <1>1, <1>7

(* Semrelease returns: to Unlock's caller, to the writer that lets readers *)
(* in, from RUnlock, or to a WaitGroup's Add.                              *)
LEMMA ReleasedAlike ==
    ASSUME Before, NEW g \in G, gr[g].pc \in {"slook", "sdeq"}, NEW s, s = Back(gr[g])
    PROVE  Alike(gr[g], s, prog.calls[g])
<1>1. PICK r, cs : r = gr[g] /\ cs = prog.calls[g]
  OBVIOUS
<1>2. r \in Gr /\ Wf(r) /\ CallOf(r, cs) /\ cs \in Seq(Calls) /\ WellPaired(cs) /\ r.ip \in Nat \ {0}
  BY <1>1, CallFacts
<1>3. r.pc \in {"slook", "sdeq"} /\ r.pc \in Releasing /\ s = Back(r)
  BY <1>1 DEF Releasing
<1>4. r.sa \in Sems /\ \/ r.sa \in Mutexes /\ UnlockStack(r.sa, r.k)
                       \/ r.sa = "readerSem" /\ r.k = Ret("wrelease")
                       \/ r.sa = "writerSem" /\ r.k = Top
                       \/ r.sa \in WgSet /\ r.k = Ret("addwake")
  BY <1>2, <1>3, ReleasingFacts
<1>5. (r.k = Top => s.pc = "next" /\ s.ip = r.ip)
      /\ \A p \in Place : r.k = Ret(p) => s.pc = p /\ s.ip = r.ip /\ s.n = r.n
  BY <1>2, <1>3, BackTop, BackRet
<1>a. {"csleep", "waitsleep", "wrelease", "addwake"} \subseteq Place
  BY DEF Place, Body
<1>6. CASE r.sa \in Mutexes /\ UnlockStack(r.sa, r.k)
  <2>1. PICK x, k : x = r.sa /\ k = r.k /\ x \in Mutexes
    BY <1>6
  <2>2. Unlocks(gr[g], x, k) /\ UnlockStack(x, k) /\ gr[g].pc # "unlock"
    BY <1>1, <1>3, <1>6, <2>1 DEF Unlocks
  <2>3. k = Top \/ k = Ret("csleep") \/ k = Ret("waitsleep")
    BY <2>2 DEF UnlockStack
  <2>4. /\ s.ip = gr[g].ip
        /\ \/ k = Top /\ s.pc = "next"
           \/ k = Ret("csleep") /\ s.pc = "csleep"
           \/ k = Ret("waitsleep") /\ s.pc = "waitsleep"
    BY <1>1, <1>5, <1>a, <2>1, <2>3
  <2> QED BY <2>1, <2>2, <2>4, UnlocksOn
<1>7. CASE r.sa = "readerSem" /\ r.k = Ret("wrelease")
  <2>1. s.pc = "wrelease" /\ s.ip = r.ip /\ s.n = r.n
    BY <1>5, <1>7, <1>a
  <2>2. {r.pc, s.pc} \cap {"next", "unborn"} = {}
    BY <1>3, <2>1
  <2>3. Bits(r, s)
    BY <1>3, <1>7, <2>1 DEF Bits, LetsIn, SleepsAt, ReleasesOne, Waking, Releasing
  <2>4. \A c \in LockCalls : In(s, c) <=> In(r, c)
    <3>1. s.pc \in Body
      BY <2>1 DEF Body
    <3> QED BY <1>3, <1>7, <2>1, <3>1, InReleasing, InBodyPlaces DEF LockCalls
  <2>5. Alike(r, s, cs)
    BY <1>2, <2>1, <2>2, <2>3, <2>4, AlikeOn
  <2> QED BY <1>1, <2>5
<1>8. CASE r.sa = "writerSem" /\ r.k = Top
  <2>1. s.pc = "next" /\ s.ip = r.ip
    BY <1>5, <1>8
  <2>2. NoBits(r)
    BY <1>3, <1>8 DEF NoBits, LetsIn, SleepsAt, ReleasesOne, Waking
  <2>3. \A c \in {"Lock", "RLock", "WLock", "Await"} : ~In(r, c)
    BY <1>3, <1>8, InReleasing
  <2>4. r.pc \notin {"next", "unborn"}
    BY <1>3
  <2>5. Alike(r, s, cs)
    BY <1>2, <2>1, <2>2, <2>3, <2>4, AlikeBack
  <2> QED BY <1>1, <2>5
<1>9. CASE r.sa \in WgSet /\ r.k = Ret("addwake")
  <2>1. s.pc = "addwake" /\ s.ip = r.ip
    BY <1>5, <1>9, <1>a
  <2>2. Outside(r) /\ Outside(s)
    BY <1>3, <1>9, <2>1 DEF Outside, Elsewhere
  <2> QED BY <1>1, <2>1, <2>2, OutsideAlike
<1> QED BY <1>4, <1>6, <1>7, <1>8, <1>9

(* Semaphores of nobody's concern here stay what they are.                 *)
LEMMA SemKept ==
    ASSUME Before, NEW a \in Sems, NEW n \in Nat, sem' = [sem EXCEPT ![a] = n]
    PROVE  /\ sem'[a] = n
           /\ \A b \in {"readerSem", "writerSem"} : b # a => sem'[b] = sem[b]
           /\ \A b \in {"readerSem", "writerSem"} : sem[b] \in Nat /\ sem'[b] \in Nat
<1>1. SyncTypes
  BY DEF Before, SyncIInv
<1>2. {"readerSem", "writerSem"} \subseteq Sems
  BY OtherSems
<1>3. sem' \in [Sems -> Nat] /\ sem'[a] = n /\ \A b \in Sems : b # a => sem'[b] = sem[b]
  BY <1>1, SetSem
<1> QED BY <1>1, <1>2, <1>3 DEF SyncTypes

(* What the step of one goroutine changes in the accounts.                 *)
LEMMA OneStep ==
    ASSUME Before, NEW g \in G, NEW s, gr' = [gr EXCEPT ![g] = s], prog' = prog
    PROVE  /\ gr'[g] = s /\ \A h \in G : h # g => gr'[h] = gr[h]
           /\ Reading \in Nat /\ Coming \in Nat /\ Leaving \in Nat
           /\ Reading' = Reading - Bit(Reads(gr[g], prog.calls[g])) + Bit(Reads(s, prog.calls[g]))
           /\ Coming' = Coming - Bit(SleepsAt(gr[g], "readerSem")) + Bit(SleepsAt(s, "readerSem"))
           /\ Leaving' = Leaving - Bit(gr[g].pc = "rdepart") + Bit(s.pc = "rdepart")
           /\ Reading' \in Nat /\ Coming' \in Nat /\ Leaving' \in Nat
           /\ \A a \in {"readerSem", "writerSem"} :
                /\ Count(a, {"srel"}) \in Nat /\ Count(a, {"srel"})' \in Nat
                /\ Count(a, {"srel"})' = Count(a, {"srel"}) - Bit(ReleasesOne(gr[g], a)) + Bit(ReleasesOne(s, a))
           /\ CallOf(s, prog.calls[g]) => CallInv'
           /\ UNCHANGED mutex /\ (\A x \in {"m", "w"} : Has(s, prog.calls[g], x) => Has(gr[g], prog.calls[g], x)) => HasInv'
<1>0. gr \in [G -> Gr] /\ CallInv /\ HasInv
  BY CallFacts DEF Before
<1>1. gr'[g] = s /\ \A h \in G : h # g => gr'[h] = gr[h]
  BY <1>0
<1>2. \A h \in G : h # g => ReaderSame(gr[h], gr'[h], prog.calls[h])
  BY <1>1 DEF ReaderSame
<1>3. /\ Reading \in Nat /\ Coming \in Nat /\ Leaving \in Nat
      /\ Reading' = Reading - Bit(Reads(gr[g], prog.calls[g])) + Bit(Reads(s, prog.calls[g]))
      /\ Coming' = Coming - Bit(SleepsAt(gr[g], "readerSem")) + Bit(SleepsAt(s, "readerSem"))
      /\ Leaving' = Leaving - Bit(gr[g].pc = "rdepart") + Bit(s.pc = "rdepart")
      /\ Reading' \in Nat /\ Coming' \in Nat /\ Leaving' \in Nat
  BY <1>1, <1>2, Accounts
<1>4. \A a \in {"readerSem", "writerSem"} :
        /\ Count(a, {"srel"}) \in Nat /\ Count(a, {"srel"})' \in Nat
        /\ Count(a, {"srel"})' = Count(a, {"srel"}) - Bit(ReleasesOne(gr[g], a)) + Bit(ReleasesOne(s, a))
  BY <1>1, <1>2, Accounts
<1>5. CallOf(s, prog.calls[g]) => CallInv'
  BY <1>0, <1>1 DEF CallInv
<1>6. ASSUME UNCHANGED mutex, \A x \in {"m", "w"} : Has(s, prog.calls[g], x) => Has(gr[g], prog.calls[g], x)
      PROVE  HasInv'
  <2>1. \A h \in G, x \in {"m", "w"} : Has(gr'[h], prog.calls[h], x) => Has(gr[h], prog.calls[h], x)
    BY <1>1, <1>6
  <2> QED BY <1>0, <1>6, <2>1, HasKept
<1> QED BY <1>1, <1>3, <1>4, <1>5, <1>6

LEMMA OneKeeps ==
    ASSUME Before, NEW g \in G, NEW s, gr' = [gr EXCEPT ![g] = s], UNCHANGED <<prog, mutex>>, NEW cs, cs = prog.calls[g],
           CallOf(s, cs), \A x \in {"m", "w"} : Has(s, cs, x) => Has(gr[g], cs, x)
    PROVE  CallInv' /\ HasInv'
<1>1. CallOf(s, prog.calls[g]) /\ \A x \in {"m", "w"} : Has(s, prog.calls[g], x) => Has(gr[g], prog.calls[g], x)
  OBVIOUS
<1>2. prog' = prog /\ mutex' = mutex
  OBVIOUS
<1> QED BY <1>1, <1>2, OneStep

(* Units that readers and releases move about while the writers stay what  *)
(* they are.                                                               *)
LEMMA RwMoves ==
    ASSUME RwInv, UNCHANGED <<prog, rw>>,
           \A h \in G : WriterSame(gr[h], gr'[h], prog.calls[h]),
           NEW d \in Int, NEW e \in Int, Reading \in Int, Coming \in Int, Units("readerSem") \in Int, sem["readerSem"] \in Int,
           Reading' = Reading + d, Coming' = Coming - d, Units("readerSem")' = Units("readerSem") - d,
           sem'["readerSem"] = sem["readerSem"] - e, Leaving' = Leaving, Leaving \in Int,
           Units("writerSem")' = Units("writerSem"),
           e = d \/ (~AnyWriter /\ \E g \in G : LetsIn(gr[g])),
           d # 0 => \A g \in G : ~Writes(gr[g], prog.calls[g]), \A g \in G : gr[g].n \in Int
    PROVE  RwInv'
<1>1. /\ AnyWriter' <=> AnyWriter
      /\ (\A h \in G : ~LetsIn(gr'[h])) <=> (\A h \in G : ~LetsIn(gr[h]))
  BY WritersKept
<1>2. ReadersCounted'
  <2>1. MaxReaders \in Int
    BY SyncConstants
  <2>2. PICK m \in Int : m = IF AnyWriter THEN MaxReaders ELSE 0
    BY <2>1
  <2>3. rw.readerCount = Reading + Coming - m
    BY <2>2 DEF RwInv, ReadersCounted
  <2>4. rw'.readerCount = Reading' + Coming' - m
    BY <2>3
  <2> QED BY <1>1, <2>2, <2>4 DEF ReadersCounted
<1>3. NoWriter'
  <2>1. ASSUME ~AnyWriter', \A h \in G : ~LetsIn(gr'[h]) PROVE Coming' = sem'["readerSem"]
    <3>1. ~AnyWriter /\ \A h \in G : ~LetsIn(gr[h])
      BY <1>1, <2>1
    <3>2. e = d /\ Coming = sem["readerSem"]
      BY <3>1 DEF RwInv, NoWriter
    <3> QED BY <3>2
  <2>2. ~AnyWriter' => rw'.readerWait = 0 /\ Leaving' = 0 /\ Units("writerSem")' = 0
    BY <1>1 DEF RwInv, NoWriter
  <2> QED BY <2>1, <2>2 DEF NoWriter
<1>4. ASSUME NEW h \in G PROVE WriterAt(h)'
  <2>1. WriterAt(h) /\ WriterSame(gr[h], gr'[h], prog.calls[h])
    BY DEF RwInv
  <2>2. Announced(gr[h], prog.calls[h]) => e = d
    BY DEF AnyWriter
  <2>3. LetsIn(gr'[h]) => gr'[h].n >= 0 /\ Coming' = Units("readerSem")' + gr'[h].n
    <3>1. gr[h].n \in Int
      OBVIOUS
    <3> QED BY <2>1, <3>1 DEF WriterAt, WriterSame
  <2>4. gr'[h].pc = "wwait" => /\ gr'[h].n + rw'.readerWait = Reading' + Leaving' + sem'["readerSem"]
                               /\ rw'.readerWait <= 0 /\ Units("writerSem")' = 0
    BY <2>1, <2>2 DEF WriterAt, WriterSame, Announced, At
  <2>5. SleepsAt(gr'[h], "writerSem") =>
          /\ rw'.readerWait = Reading' + Leaving' + sem'["readerSem"]
          /\ Units("writerSem")' = IF rw'.readerWait = 0 THEN 1 ELSE 0
    BY <2>1, <2>2 DEF WriterAt, WriterSame, Announced
  <2>6. Writes(gr'[h], prog.calls[h]) =>
          /\ Reading' = 0 /\ Leaving' = 0 /\ sem'["readerSem"] = 0
          /\ rw'.readerWait = 0 /\ Units("writerSem")' = 0
    BY <2>1, <2>2 DEF WriterAt, WriterSame, Announced
  <2> QED BY <2>3, <2>4, <2>5, <2>6 DEF WriterAt, At
<1> QED BY <1>2, <1>3, <1>4 DEF RwInv

(* The end of a call.                                                      *)
LEMMA CallEnds ==
    ASSUME NEW cs \in Seq(Calls), WellPaired(cs), NEW r \in Gr, CallOf(r, cs), r.pc \notin {"next", "unborn"},
           NEW c \in LockCalls, OnlyIn(r, c), NEW s, s.pc = "next", s.ip = r.ip
    PROVE  /\ CallOf(s, cs) /\ CurrentOf(s, cs) = "none" /\ CurrentOf(r, cs) = c
           /\ \A a, b : Paired(a, b) => /\ c = a => ~Between(r, cs, a, b) /\ Between(s, cs, a, b)
                                        /\ c = b => ~Between(r, cs, a, b) /\ ~Between(s, cs, a, b)
                                        /\ c \notin {a, b} => (Between(s, cs, a, b) <=> Between(r, cs, a, b))
           /\ Has(s, cs, "m") <=> Between(s, cs, "Lock", "Unlock")
           /\ Has(s, cs, "w") <=> Between(s, cs, "WLock", "WUnlock")
           /\ Writes(s, cs) <=> Between(s, cs, "WLock", "WUnlock")
           /\ Reads(s, cs) <=> Between(s, cs, "RLock", "RUnlock")
           /\ ~LetsIn(s) /\ \A a : ~SleepsAt(s, a) /\ ~ReleasesOne(s, a)
<1>0. r.ip \in Nat \ {0} /\ r.ip - 1 \in DOMAIN cs /\ cs[r.ip - 1] = c
  BY DEF CallOf, OnlyIn, Gr
<1>1. CallOf(s, cs)
  <2>1. s.ip <= Len(cs) + 1
    BY <1>0
  <2> QED BY <2>1 DEF CallOf
<1>2. CurrentOf(s, cs) = "none" /\ CurrentOf(r, cs) = c
  BY <1>0 DEF CurrentOf, Gr
<1>3. ASSUME NEW a, NEW b, Paired(a, b)
      PROVE  /\ c = a => ~Between(r, cs, a, b) /\ Between(s, cs, a, b)
             /\ c = b => ~Between(r, cs, a, b) /\ ~Between(s, cs, a, b)
             /\ c \notin {a, b} => (Between(s, cs, a, b) <=> Between(r, cs, a, b))
  BY <1>0, <1>3, BetweenEnd
<1>4. NoBits(s)
  BY OutOfCalls
<1>5. /\ Has(s, cs, "m") <=> Between(s, cs, "Lock", "Unlock") /\ CurrentOf(s, cs) # "Await"
      /\ Has(s, cs, "w") <=> Between(s, cs, "WLock", "WUnlock")
      /\ Writes(s, cs) <=> Between(s, cs, "WLock", "WUnlock")
      /\ Reads(s, cs) <=> Between(s, cs, "RLock", "RUnlock")
  BY <1>4, OfNoBits
<1>6. ~LetsIn(s) /\ \A a : ~SleepsAt(s, a) /\ ~ReleasesOne(s, a)
  BY DEF LetsIn, SleepsAt, ReleasesOne, Waking, Releasing
<1> QED BY <1>1, <1>2, <1>3, <1>5, <1>6

LEMMA CallPairs == Paired("Lock", "Unlock") /\ Paired("RLock", "RUnlock") /\ Paired("WLock", "WUnlock")
BY DEF Paired

(* A goroutine in RLock, before and after it has it.                       *)
Enters(r) == r.pc = "rlock" \/ SleepsAt(r, "readerSem")

LEMMA EntersFacts ==
    ASSUME NEW r, Enters(r)
    PROVE  /\ OnlyIn(r, "RLock") /\ r.pc \notin {"next", "unborn", "runlock", "rdepart", "wwait", "wunlock", "unlock", "wannounce"}
           /\ ~LetsIn(r) /\ ~SleepsAt(r, "writerSem") /\ \A a : ~ReleasesOne(r, a)
<1>1. CASE r.pc = "rlock"
  <2>1. r.pc \in Body
    BY <1>1 DEF Body
  <2>2. OnlyIn(r, "RLock")
    BY <1>1, <2>1, InBodyPlaces DEF OnlyIn, LockCalls
  <2> QED BY <1>1, <2>2 DEF LetsIn, SleepsAt, ReleasesOne, Waking, Releasing
<1>2. CASE SleepsAt(r, "readerSem")
  <2>1. r.pc \in Waking /\ r.sa = "readerSem"
    BY <1>2 DEF SleepsAt
  <2>2. OnlyIn(r, "RLock")
    BY <2>1, InWaking DEF OnlyIn, LockCalls
  <2> QED BY <2>1, <2>2 DEF LetsIn, SleepsAt, ReleasesOne, Waking, Releasing
<1> QED BY <1>1, <1>2 DEF Enters

LEMMA RLockEnds ==
    ASSUME NEW cs \in Seq(Calls), WellPaired(cs), NEW r \in Gr, CallOf(r, cs), Enters(r), NEW s, s.pc = "next", s.ip = r.ip
    PROVE  /\ CallOf(s, cs) /\ WriterSame(r, s, cs) /\ ~Reads(r, cs) /\ Reads(s, cs)
           /\ \A x \in {"m", "w"} : Has(s, cs, x) => Has(r, cs, x)
           /\ ~SleepsAt(s, "readerSem") /\ \A a : ~ReleasesOne(r, a) /\ ~ReleasesOne(s, a)
           /\ r.pc # "rdepart" /\ s.pc # "rdepart"
<1>1. /\ OnlyIn(r, "RLock") /\ r.pc \notin {"next", "unborn", "runlock", "rdepart", "wwait", "wunlock", "unlock", "wannounce"}
      /\ ~LetsIn(r) /\ ~SleepsAt(r, "writerSem") /\ \A a : ~ReleasesOne(r, a)
  BY EntersFacts
<1>2. "RLock" \in LockCalls
  BY DEF LockCalls
<1>3. /\ CallOf(s, cs) /\ CurrentOf(r, cs) = "RLock"
      /\ ~Between(r, cs, "RLock", "RUnlock") /\ Between(s, cs, "RLock", "RUnlock")
      /\ Between(s, cs, "Lock", "Unlock") <=> Between(r, cs, "Lock", "Unlock")
      /\ Between(s, cs, "WLock", "WUnlock") <=> Between(r, cs, "WLock", "WUnlock")
  BY <1>1, <1>2, CallEnds, CallPairs
<1>4. /\ Has(s, cs, "m") <=> Between(s, cs, "Lock", "Unlock")
      /\ Has(s, cs, "w") <=> Between(s, cs, "WLock", "WUnlock")
      /\ Writes(s, cs) <=> Between(s, cs, "WLock", "WUnlock")
      /\ Reads(s, cs) <=> Between(s, cs, "RLock", "RUnlock")
      /\ ~LetsIn(s) /\ \A a : ~SleepsAt(s, a) /\ ~ReleasesOne(s, a)
  BY <1>1, <1>2, CallEnds
<1>5. ~Reads(r, cs) /\ (Writes(r, cs) <=> Between(r, cs, "WLock", "WUnlock"))
  BY <1>1, <1>3 DEF Reads, Writes
<1>6. WriterSame(r, s, cs)
  BY <1>1, <1>3, <1>4, <1>5 DEF WriterSame
<1>7. \A x \in {"m", "w"} : Has(s, cs, x) => Has(r, cs, x)
  BY <1>3, <1>4, <1>5 DEF Has, Announced
<1> QED BY <1>1, <1>3, <1>4, <1>5, <1>6, <1>7

(* A reader that a writer lets in.                                         *)
LEMMA ReaderEnters ==
    ASSUME Before, NEW g \in G, SleepsAt(gr[g], "readerSem"), sem["readerSem"] > 0,
           NEW n, n = sem["readerSem"] - 1, sem' = [sem EXCEPT !["readerSem"] = n],
           NEW s, s.pc = "next", s.ip = gr[g].ip, gr' = [gr EXCEPT ![g] = s], UNCHANGED <<prog, rw, mutex>>
    PROVE  After
<1>1. PICK cs : cs = prog.calls[g]
  OBVIOUS
<1>2. gr[g] \in Gr /\ CallOf(gr[g], cs) /\ cs \in Seq(Calls) /\ WellPaired(cs) /\ Enters(gr[g])
  BY <1>1, CallFacts DEF Enters
<1>3. /\ CallOf(s, cs) /\ WriterSame(gr[g], s, cs) /\ ~Reads(gr[g], cs) /\ Reads(s, cs)
      /\ \A x \in {"m", "w"} : Has(s, cs, x) => Has(gr[g], cs, x)
      /\ ~SleepsAt(s, "readerSem") /\ \A a : ~ReleasesOne(gr[g], a) /\ ~ReleasesOne(s, a)
      /\ gr[g].pc # "rdepart" /\ s.pc # "rdepart"
  BY <1>2, RLockEnds
<1>4. sem["readerSem"] \in Nat /\ sem["writerSem"] \in Nat /\ n \in Nat /\ "readerSem" \in Sems
  BY OtherSems DEF Before, SyncIInv, SyncTypes
<1>5. sem'["readerSem"] = sem["readerSem"] - 1 /\ sem'["writerSem"] = sem["writerSem"]
  BY <1>4, SemKept
<1>6. /\ gr'[g] = s /\ \A h \in G : h # g => gr'[h] = gr[h]
      /\ Reading \in Nat /\ Coming \in Nat /\ Leaving \in Nat
      /\ Reading' = Reading - Bit(Reads(gr[g], cs)) + Bit(Reads(s, cs))
      /\ Coming' = Coming - Bit(SleepsAt(gr[g], "readerSem")) + Bit(SleepsAt(s, "readerSem"))
      /\ Leaving' = Leaving - Bit(gr[g].pc = "rdepart") + Bit(s.pc = "rdepart")
  BY <1>1, OneStep
<1>7. Reading' = Reading + 1 /\ Coming' = Coming - 1 /\ Leaving' = Leaving
  BY <1>3, <1>6 DEF Bit
<1>8. \A a \in {"readerSem", "writerSem"} : Count(a, {"srel"}) \in Nat /\ Count(a, {"srel"})' = Count(a, {"srel"})
  <2>1. \A a \in {"readerSem", "writerSem"} : 
          /\ Count(a, {"srel"}) \in Nat
          /\ Count(a, {"srel"})' = Count(a, {"srel"}) - Bit(ReleasesOne(gr[g], a)) + Bit(ReleasesOne(s, a))
    BY OneStep
  <2> QED BY <1>3, <2>1 DEF Bit
<1>9. CallInv' /\ HasInv'
  BY <1>1, <1>3, OneKeeps
<1>10. /\ Units("readerSem") \in Int /\ Units("readerSem")' = Units("readerSem") - 1
       /\ Units("writerSem")' = Units("writerSem")
  BY <1>4, <1>5, <1>8 DEF Units
<1>11. \A h \in G : WriterSame(gr[h], gr'[h], prog.calls[h])
  BY <1>1, <1>3, <1>6 DEF WriterSame
<1>12. \A h \in G : ~Writes(gr[h], prog.calls[h]) /\ gr[h].n \in Int
  <2>1. SUFFICES ASSUME NEW h \in G PROVE ~Writes(gr[h], prog.calls[h]) /\ gr[h].n \in Int
    OBVIOUS
  <2>2. gr[h] \in Gr /\ WriterAt(h)
    BY CallFacts DEF Before, RwInv
  <2> QED BY <2>2 DEF WriterAt, Gr
<1>13. RwInv /\ UNCHANGED <<prog, rw>>
  BY DEF Before
<1>14. RwInv'
  <2>1. PICK d \in Int : d = 1
    OBVIOUS
  <2>2. /\ Reading' = Reading + d /\ Coming' = Coming - d /\ Units("readerSem")' = Units("readerSem") - d
        /\ sem'["readerSem"] = sem["readerSem"] - d /\ Reading \in Int /\ Coming \in Int /\ Leaving \in Int
        /\ sem["readerSem"] \in Int
    BY <1>4, <1>5, <1>6, <1>7, <1>10, <2>1
  <2>3. \A h \in G : ~Writes(gr[h], prog.calls[h])
    BY <1>12
  <2>4. \A h \in G : gr[h].n \in Int
    BY <1>12
  <2> QED BY <1>7, <1>10, <1>11, <1>13, <2>1, <2>2, <2>3, <2>4, RwMoves
<1> QED BY <1>9, <1>14 DEF After

(* While one goroutine has the Mutex of the RWMutex nobody else is a       *)
(* writer.                                                                 *)
LEMMA SoleWriter ==
    ASSUME Before, NEW g \in G, Has(gr[g], prog.calls[g], "w"), NEW h \in G, h # g
    PROVE  ~Announced(gr[h], prog.calls[h]) /\ ~LetsIn(gr[h])
<1>1. Announced(gr[h], prog.calls[h]) \/ LetsIn(gr[h]) => Has(gr[h], prog.calls[h], "w")
  BY DEF Has
<1> QED BY <1>1 DEF Before, HasInv

LEMMA OnlyWriter ==
    ASSUME Before, NEW g \in G, Has(gr[g], prog.calls[g], "w"), NEW s, gr' = [gr EXCEPT ![g] = s], prog' = prog,
           Announced(s, prog.calls[g]), rw'.readerCount = Reading' + Coming' - MaxReaders, WriterAt(g)'
    PROVE  RwInv'
<1>1. gr'[g] = s /\ \A h \in G : h # g => gr'[h] = gr[h]
  BY OneStep
<1>2. AnyWriter'
  BY <1>1 DEF AnyWriter
<1>3. ReadersCounted'
  BY <1>2 DEF ReadersCounted
<1>4. NoWriter'
  BY <1>2 DEF NoWriter
<1>5. ASSUME NEW h \in G, h # g PROVE WriterAt(h)'
  <2>1. ~Announced(gr'[h], prog'.calls[h]) /\ ~LetsIn(gr'[h])
    BY <1>1, <1>5, SoleWriter
  <2> QED BY <2>1 DEF WriterAt, Announced, At
<1> QED BY <1>3, <1>4, <1>5 DEF RwInv

(* A goroutine in WLock that has the Mutex.                                *)
Writing(r) == r.pc \in {"wannounce", "wwait"} \/ SleepsAt(r, "writerSem")

LEMMA WritingFacts ==
    ASSUME NEW r, Writing(r)
    PROVE  /\ OnlyIn(r, "WLock") /\ r.pc \notin {"next", "unborn", "runlock", "rdepart", "wunlock", "unlock"}
           /\ ~LetsIn(r) /\ ~SleepsAt(r, "readerSem") /\ \A a : ~ReleasesOne(r, a)
<1>1. CASE r.pc \in {"wannounce", "wwait"}
  <2>1. r.pc \in Body
    BY <1>1 DEF Body
  <2>2. OnlyIn(r, "WLock")
    BY <1>1, <2>1, InBodyPlaces DEF OnlyIn, LockCalls
  <2> QED BY <1>1, <2>2 DEF LetsIn, SleepsAt, ReleasesOne, Waking, Releasing
<1>2. CASE SleepsAt(r, "writerSem")
  <2>1. r.pc \in Waking /\ r.sa = "writerSem"
    BY <1>2 DEF SleepsAt
  <2>2. OnlyIn(r, "WLock")
    BY <2>1, InWaking DEF OnlyIn, LockCalls
  <2> QED BY <2>1, <2>2 DEF LetsIn, SleepsAt, ReleasesOne, Waking, Releasing
<1> QED BY <1>1, <1>2 DEF Writing

LEMMA WLockEnds ==
    ASSUME NEW cs \in Seq(Calls), WellPaired(cs), NEW r \in Gr, CallOf(r, cs), Writing(r), NEW s, s.pc = "next", s.ip = r.ip
    PROVE  /\ CallOf(s, cs) /\ ReaderSame(r, s, cs) /\ ~Writes(r, cs) /\ Writes(s, cs) /\ Has(r, cs, "w")
           /\ \A x \in {"m", "w"} : Has(s, cs, x) => Has(r, cs, x)
           /\ ~LetsIn(s) /\ ~SleepsAt(s, "writerSem")
<1>1. /\ OnlyIn(r, "WLock") /\ r.pc \notin {"next", "unborn", "runlock", "rdepart", "wunlock", "unlock"}
      /\ ~LetsIn(r) /\ ~SleepsAt(r, "readerSem") /\ \A a : ~ReleasesOne(r, a)
  BY WritingFacts
<1>2. "WLock" \in LockCalls
  BY DEF LockCalls
<1>3. /\ CallOf(s, cs) /\ CurrentOf(r, cs) = "WLock"
      /\ ~Between(r, cs, "WLock", "WUnlock") /\ Between(s, cs, "WLock", "WUnlock")
      /\ Between(s, cs, "Lock", "Unlock") <=> Between(r, cs, "Lock", "Unlock")
      /\ Between(s, cs, "RLock", "RUnlock") <=> Between(r, cs, "RLock", "RUnlock")
  BY <1>1, <1>2, CallEnds, CallPairs
<1>4. /\ Has(s, cs, "m") <=> Between(s, cs, "Lock", "Unlock")
      /\ Has(s, cs, "w") <=> Between(s, cs, "WLock", "WUnlock")
      /\ Writes(s, cs) <=> Between(s, cs, "WLock", "WUnlock")
      /\ Reads(s, cs) <=> Between(s, cs, "RLock", "RUnlock")
      /\ ~LetsIn(s) /\ \A a : ~SleepsAt(s, a) /\ ~ReleasesOne(s, a)
  BY <1>1, <1>2, CallEnds
<1>5. ~Writes(r, cs) /\ (Reads(r, cs) <=> Between(r, cs, "RLock", "RUnlock"))
  BY <1>1, <1>3 DEF Reads, Writes
<1>6. ReaderSame(r, s, cs)
  BY <1>1, <1>3, <1>4, <1>5 DEF ReaderSame
<1>7. Has(r, cs, "w")
  BY DEF Has, Announced, Writing
<1>8. Has(s, cs, "m") => Has(r, cs, "m")
  BY <1>3, <1>4 DEF Has
<1> QED BY <1>3, <1>4, <1>5, <1>6, <1>7, <1>8

(* The accounts when a goroutine stays the reader it was.                  *)
LEMMA SameAccounts ==
    ASSUME Before, NEW g \in G, NEW s, gr' = [gr EXCEPT ![g] = s], prog' = prog, ReaderSame(gr[g], s, prog.calls[g])
    PROVE  /\ Reading \in Nat /\ Coming \in Nat /\ Leaving \in Nat
           /\ Reading' = Reading /\ Coming' = Coming /\ Leaving' = Leaving
           /\ \A a \in {"readerSem", "writerSem"} : Count(a, {"srel"}) \in Nat /\ Count(a, {"srel"})' = Count(a, {"srel"})
<1>1. /\ Reading \in Nat /\ Coming \in Nat /\ Leaving \in Nat
      /\ Reading' = Reading - Bit(Reads(gr[g], prog.calls[g])) + Bit(Reads(s, prog.calls[g]))
      /\ Coming' = Coming - Bit(SleepsAt(gr[g], "readerSem")) + Bit(SleepsAt(s, "readerSem"))
      /\ Leaving' = Leaving - Bit(gr[g].pc = "rdepart") + Bit(s.pc = "rdepart")
  BY OneStep
<1>2. \A a \in {"readerSem", "writerSem"} :
        /\ Count(a, {"srel"}) \in Nat
        /\ Count(a, {"srel"})' = Count(a, {"srel"}) - Bit(ReleasesOne(gr[g], a)) + Bit(ReleasesOne(s, a))
  BY OneStep
<1>3. ASSUME NEW a \in {"readerSem", "writerSem"}
      PROVE  Count(a, {"srel"}) \in Nat /\ Count(a, {"srel"})' = Count(a, {"srel"})
  <2>1. ReleasesOne(s, a) <=> ReleasesOne(gr[g], a)
    BY DEF ReaderSame
  <2>2. PICK m, n : m = Count(a, {"srel"}) /\ n = Count(a, {"srel"})'
    OBVIOUS
  <2>3. m \in Nat /\ n = m - Bit(ReleasesOne(gr[g], a)) + Bit(ReleasesOne(s, a))
    BY <1>2, <2>2
  <2>4. n = m
    BY <2>1, <2>3 DEF Bit
  <2> QED BY <2>2, <2>3, <2>4
<1>4. Reading' = Reading
  BY <1>1 DEF Bit, ReaderSame
<1>5. Coming' = Coming
  BY <1>1 DEF Bit, ReaderSame
<1>6. Leaving' = Leaving
  BY <1>1 DEF Bit, ReaderSame
<1> QED BY <1>1, <1>3, <1>4, <1>5, <1>6

(* A writer gets the RWMutex.                                              *)
LEMMA WriterEnters ==
    ASSUME Before, NEW g \in G, Writing(gr[g]), NEW s, s.pc = "next", s.ip = gr[g].ip, gr' = [gr EXCEPT ![g] = s],
           UNCHANGED <<prog, mutex>>, Reading = 0, Leaving = 0, sem'["readerSem"] = 0, Units("writerSem")' = 0,
           rw'.readerWait = 0, rw'.readerCount = Reading + Coming - MaxReaders
    PROVE  After
<1>1. PICK cs : cs = prog.calls[g]
  OBVIOUS
<1>2. gr[g] \in Gr /\ CallOf(gr[g], cs) /\ cs \in Seq(Calls) /\ WellPaired(cs)
  BY <1>1, CallFacts
<1>3. /\ CallOf(s, cs) /\ ReaderSame(gr[g], s, cs) /\ ~Writes(gr[g], cs) /\ Writes(s, cs) /\ Has(gr[g], cs, "w")
      /\ \A x \in {"m", "w"} : Has(s, cs, x) => Has(gr[g], cs, x)
      /\ ~LetsIn(s) /\ ~SleepsAt(s, "writerSem")
  BY <1>2, WLockEnds
<1>4. CallInv' /\ HasInv'
  <2>1. CallOf(s, cs) /\ \A x \in {"m", "w"} : Has(s, cs, x) => Has(gr[g], cs, x)
    BY <1>3
  <2>2. gr' = [gr EXCEPT ![g] = s] /\ UNCHANGED <<prog, mutex>> /\ Before
    OBVIOUS
  <2> QED BY ONLY <1>1, <2>1, <2>2, OneKeeps, g \in G
<1>5. Reading' = Reading /\ Coming' = Coming /\ Leaving' = Leaving
  BY <1>1, <1>3, SameAccounts
<1>6. gr'[g] = s
  BY CallFacts
<1>7. WriterAt(g)'
  BY <1>3, <1>5, <1>6 DEF WriterAt, At
<1>8. Announced(s, prog.calls[g]) /\ Has(gr[g], prog.calls[g], "w") /\ rw'.readerCount = Reading' + Coming' - MaxReaders
  BY <1>1, <1>3, <1>5 DEF Announced
<1>9. RwInv'
  BY <1>7, <1>8, OnlyWriter
<1> QED BY <1>4, <1>9 DEF After

(* Semacquire gets a unit.                                                 *)
LEMMA AcquireLocks ==
    ASSUME Before, NEW g \in G, gr[g].pc \in Waking, NEW n, n = sem[gr[g].sa] - 1, sem[gr[g].sa] > 0,
           sem' = [sem EXCEPT ![gr[g].sa] = n], NEW s, s = Back(gr[g]), gr' = [gr EXCEPT ![g] = s],
           UNCHANGED <<prog, syncvars>>
    PROVE  After
<1>1. PICK r, a : r = gr[g] /\ a = r.sa
  OBVIOUS
<1>2. r \in Gr /\ Wf(r) /\ r.pc \in Waking
  BY <1>1, CallFacts
<1>3. /\ a \in Sems
      /\ a \in Mutexes => /\ r.mu = a
                          /\ \E t \in Seq(Place) : r.k = <<"lread">> \o t /\ LockStack(r.mu, t)
      /\ a \notin Mutexes => r.k = Top
  BY <1>1, <1>2, WakingFacts
<1>4. UNCHANGED <<prog, rw, mutex>>
  BY DEF syncvars
<1>5. n \in Nat /\ sem[a] \in Nat
  <2>1. sem \in [Sems -> Nat]
    BY DEF Before, SyncIInv, SyncTypes
  <2>2. sem[a] \in Nat
    BY ONLY <1>3, <2>1
  <2> QED BY <1>1, <2>2
<1>6. /\ sem'[a] = n
      /\ \A b \in {"readerSem", "writerSem"} : b # a => sem'[b] = sem[b]
      /\ \A b \in {"readerSem", "writerSem"} : sem[b] \in Nat /\ sem'[b] \in Nat
  BY <1>1, <1>3, <1>5, SemKept
<1>7. a \notin Mutexes => s.pc = "next" /\ s.ip = gr[g].ip
  BY <1>1, <1>2, <1>3, BackTop
<1>8. CASE a \in Mutexes
  <2>1. PICK t \in Seq(Place) : r.k = <<"lread">> \o t /\ LockStack(a, t)
    BY <1>3, <1>8
  <2>2. Head(r.k) = "lread" /\ Tail(r.k) = t
    <3>1. "lread" \in Place
      BY Places
    <3>2. Head(<<"lread">> \o t) = "lread" /\ Tail(<<"lread">> \o t) = t
      BY <3>1, Push
    <3> QED BY <2>1, <3>2
  <2>3. s.pc = "lread" /\ s.k = t /\ s.mu = a /\ s.ip = gr[g].ip
    BY <1>1, <1>2, <1>3, <1>8, <2>2, BackFacts, Places
  <2>4. Locks(gr[g], a, t) /\ Locks(s, a, t)
    BY <1>1, <1>2, <2>1, <2>3 DEF Locks, Locking
  <2>5. Alike(gr[g], s, prog.calls[g])
    BY <2>1, <2>3, <2>4, LocksOn
  <2>6. "readerSem" # a /\ "writerSem" # a
    BY <1>8 DEF Mutexes
  <2>7. sem'["readerSem"] = sem["readerSem"] /\ sem'["writerSem"] = sem["writerSem"]
    BY <1>6, <2>6
  <2> QED BY <1>4, <2>5, <2>7, OneAlike
<1>9. CASE a \in WgSet
  <2>1. "readerSem" # a /\ "writerSem" # a /\ a \notin Mutexes
    BY <1>9, SyncConstants DEF WgSet
  <2>2. Outside(gr[g])
    BY <1>1, <1>2, <1>9 DEF Outside
  <2>3. Alike(gr[g], s, prog.calls[g])
    BY <1>7, <2>1, <2>2, OutsideAlike
  <2>4. sem'["readerSem"] = sem["readerSem"] /\ sem'["writerSem"] = sem["writerSem"]
    BY <1>6, <2>1
  <2> QED BY <1>4, <2>3, <2>4, OneAlike
<1>10. CASE a = "readerSem"
  <2>1. SleepsAt(gr[g], "readerSem") /\ s.pc = "next" /\ s.ip = gr[g].ip
    BY <1>1, <1>7, <1>10 DEF SleepsAt, Mutexes
  <2>2. sem["readerSem"] > 0 /\ n = sem["readerSem"] - 1 /\ sem' = [sem EXCEPT !["readerSem"] = n]
    BY <1>1, <1>10
  <2> QED BY <1>4, <2>1, <2>2, ReaderEnters
<1>11. CASE a = "writerSem"
  <2>1. SleepsAt(gr[g], "writerSem") /\ s.pc = "next" /\ s.ip = gr[g].ip /\ Writing(gr[g])
    BY <1>1, <1>7, <1>11 DEF SleepsAt, Mutexes, Writing
  <2>2. /\ rw.readerWait = Reading + Leaving + sem["readerSem"]
        /\ Units("writerSem") = IF rw.readerWait = 0 THEN 1 ELSE 0
    BY <2>1 DEF Before, RwInv, WriterAt
  <2>3. PICK cs : cs = prog.calls[g]
    OBVIOUS
  <2>4. ReaderSame(gr[g], s, prog.calls[g])
    <3>1. gr[g] \in Gr /\ CallOf(gr[g], cs) /\ cs \in Seq(Calls) /\ WellPaired(cs)
      BY <2>3, CallFacts
    <3>2. ReaderSame(gr[g], s, cs)
      BY <2>1, <3>1, WLockEnds
    <3> QED BY <2>3, <3>2
  <2>5. /\ Reading \in Nat /\ Coming \in Nat /\ Leaving \in Nat
        /\ Reading' = Reading /\ Coming' = Coming /\ Leaving' = Leaving
        /\ \A b \in {"readerSem", "writerSem"} : Count(b, {"srel"}) \in Nat /\ Count(b, {"srel"})' = Count(b, {"srel"})
    BY <2>4, SameAccounts
  <2>6. sem["writerSem"] > 0 /\ n = sem["writerSem"] - 1 /\ sem'["writerSem"] = n /\ sem'["readerSem"] = sem["readerSem"]
    BY <1>1, <1>6, <1>11
  <2>7. Units("writerSem") > 0 /\ Units("writerSem")' = Units("writerSem") - 1
    BY <1>6, <2>5, <2>6 DEF Units
  <2>8. rw.readerWait = 0 /\ Units("writerSem")' = 0
    BY <2>2, <2>7
  <2>9. Reading = 0 /\ Leaving = 0 /\ sem'["readerSem"] = 0
    <3>1. PICK i \in Nat, j \in Nat, l \in Nat : i = Reading /\ j = Leaving /\ l = sem["readerSem"]
      BY <1>6, <2>5
    <3>2. i + j + l = 0
      BY <2>2, <2>8, <3>1
    <3>3. i = 0 /\ j = 0 /\ l = 0
      BY <3>2
    <3> QED BY <2>6, <3>1, <3>3
  <2>10. rw'.readerWait = 0 /\ rw'.readerCount = Reading + Coming - MaxReaders
    <3>1. AnyWriter
      BY <2>1 DEF AnyWriter, Announced
    <3> QED BY <1>4, <2>8, <3>1 DEF Before, RwInv, ReadersCounted
  <2> QED BY <1>4, <2>1, <2>8, <2>9, <2>10, WriterEnters
<1> QED BY <1>3, <1>8, <1>9, <1>10, <1>11, SyncConstants DEF WgSet

(* Semrelease adds one.                                                    *)
LEMMA AddLocks ==
    ASSUME Before, NEW g \in G, gr[g].pc = "srel", NEW n, n = sem[gr[g].sa] + 1, sem' = [sem EXCEPT ![gr[g].sa] = n],
           NEW s, s = [gr[g] EXCEPT !.pc = "slook"], gr' = [gr EXCEPT ![g] = s], UNCHANGED <<prog, syncvars>>
    PROVE  After
<1>1. PICK r, a : r = gr[g] /\ a = r.sa
  OBVIOUS
<1>2. r \in Gr /\ Wf(r) /\ r.pc = "srel" /\ r.pc \in Releasing
  BY <1>1, CallFacts DEF Releasing
<1>3. a \in Sems /\ (a \in Mutexes => UnlockStack(a, r.k))
  <2>1. "readerSem" \notin Mutexes /\ "writerSem" \notin Mutexes /\ WgSet \cap Mutexes = {}
    BY OtherSems
  <2> QED BY <1>1, <1>2, <2>1, ReleasingFacts
<1>4. UNCHANGED <<prog, rw, mutex>>
  BY DEF syncvars
<1>5. n \in Nat /\ sem[a] \in Nat
  <2>1. sem \in [Sems -> Nat]
    BY DEF Before, SyncIInv, SyncTypes
  <2>2. sem[a] \in Nat
    BY ONLY <1>3, <2>1
  <2> QED BY <1>1, <2>2
<1>6. /\ sem'[a] = n
      /\ \A b \in {"readerSem", "writerSem"} : b # a => sem'[b] = sem[b]
      /\ \A b \in {"readerSem", "writerSem"} : sem[b] \in Nat /\ sem'[b] \in Nat
  BY <1>1, <1>3, <1>5, SemKept
<1>7. s.pc = "slook" /\ s.sa = a /\ s.k = r.k /\ s.ip = r.ip /\ s.n = r.n
  BY <1>1, <1>2 DEF Gr
<1>8. CASE a \in Mutexes
  <2>1. PICK k : k = r.k
    OBVIOUS
  <2>2. Unlocks(gr[g], a, k) /\ Unlocks(s, a, k) /\ gr[g].pc # "unlock" /\ s.pc # "unlock"
    BY <1>1, <1>2, <1>7, <2>1 DEF Unlocks, Releasing
  <2>3. UnlockStack(a, k) /\ s.ip = gr[g].ip
    BY <1>1, <1>3, <1>7, <1>8, <2>1
  <2>5. Alike(gr[g], s, prog.calls[g])
    BY <1>8, <2>2, <2>3, UnlocksOn
  <2>6. "readerSem" # a /\ "writerSem" # a
    BY <1>8 DEF Mutexes
  <2>7. sem'["readerSem"] = sem["readerSem"] /\ sem'["writerSem"] = sem["writerSem"]
    BY <1>6, <2>6
  <2> QED BY <1>4, <2>5, <2>7, OneAlike
<1>9. CASE a \in WgSet
  <2>1. "readerSem" # a /\ "writerSem" # a
    BY <1>9, SyncConstants DEF WgSet
  <2>2. Outside(gr[g]) /\ Outside(s) /\ s.ip = gr[g].ip
    BY <1>1, <1>2, <1>7, <1>9 DEF Outside, Releasing
  <2>3. Alike(gr[g], s, prog.calls[g])
    BY <2>2, OutsideAlike
  <2>4. sem'["readerSem"] = sem["readerSem"] /\ sem'["writerSem"] = sem["writerSem"]
    BY <1>6, <2>1
  <2> QED BY <1>4, <2>3, <2>4, OneAlike
<1>10. CASE a \in {"readerSem", "writerSem"}
  <2>1. PICK cs : cs = prog.calls[g]
    OBVIOUS
  <2>2. CallOf(r, cs) /\ cs \in Seq(Calls)
    BY <1>1, <2>1, CallFacts
  <2>3. s.pc \in Releasing /\ \A c \in LockCalls : In(s, c) <=> In(r, c)
    <3>1. s.pc \in Releasing
      BY <1>7 DEF Releasing
    <3>2. s.sa = r.sa /\ s.k = r.k
      BY <1>1, <1>7
    <3> QED BY <1>2, <3>1, <3>2, InReleasing DEF LockCalls
  <2>4. CallOf(s, cs) /\ WriterSame(r, s, cs) /\ (Reads(s, cs) <=> Reads(r, cs)) /\ \A x \in {"m", "w"} : Has(s, cs, x) => Has(r, cs, x)
    <3>1. CallOf(s, cs)
      BY <1>2, <1>7, <2>2, <2>3 DEF CallOf
    <3>2. \A b, c : Between(s, cs, b, c) <=> Between(r, cs, b, c)
      BY <1>2, <1>7, BetweenOn
    <3>3. CurrentOf(s, cs) = CurrentOf(r, cs)
      BY <1>2, <1>7 DEF CurrentOf
    <3>4. LetsIn(s) <=> LetsIn(r)
      BY <1>1, <1>2, <1>7 DEF LetsIn, Releasing
    <3>5. (Writes(s, cs) <=> Writes(r, cs)) /\ (Reads(s, cs) <=> Reads(r, cs))
      BY <1>2, <1>7, <3>2 DEF Writes, Reads
    <3>6. \A b : ~SleepsAt(r, b) /\ ~SleepsAt(s, b)
      BY <1>2, <1>7 DEF SleepsAt, Waking
    <3>7. WriterSame(r, s, cs)
      BY <1>2, <1>7, <3>4, <3>5, <3>6 DEF WriterSame
    <3>8. Has(s, cs, "m") => Has(r, cs, "m")
      BY <1>2, <1>7, <3>2, <3>3 DEF Has
    <3>9. Has(s, cs, "w") => Has(r, cs, "w")
      BY <1>7, <3>4, <3>5, <3>6 DEF Has, Announced
    <3> QED BY <3>1, <3>5, <3>7, <3>8, <3>9
  <2>5. CallInv' /\ HasInv'
    <3>1. CallOf(s, cs) /\ \A x \in {"m", "w"} : Has(s, cs, x) => Has(gr[g], cs, x)
      BY <1>1, <2>4
    <3>2. gr' = [gr EXCEPT ![g] = s] /\ UNCHANGED <<prog, mutex>> /\ Before
      BY <1>4
    <3> QED BY ONLY <2>1, <3>1, <3>2, OneKeeps, g \in G
  <2>6. /\ gr'[g] = s /\ \A h \in G : h # g => gr'[h] = gr[h]
        /\ Reading \in Nat /\ Coming \in Nat /\ Leaving \in Nat
        /\ Reading' = Reading - Bit(Reads(r, cs)) + Bit(Reads(s, cs))
        /\ Coming' = Coming - Bit(SleepsAt(r, "readerSem")) + Bit(SleepsAt(s, "readerSem"))
        /\ Leaving' = Leaving - Bit(r.pc = "rdepart") + Bit(s.pc = "rdepart")
    BY <1>1, <2>1, OneStep
  <2>7. Reading' = Reading /\ Coming' = Coming /\ Leaving' = Leaving
    <3>1. Reading' = Reading
      BY <2>4, <2>6 DEF Bit
    <3>2. ~SleepsAt(r, "readerSem") /\ ~SleepsAt(s, "readerSem")
      BY <1>2, <1>7 DEF SleepsAt, Waking
    <3>3. Coming' = Coming
      BY <2>6, <3>2 DEF Bit
    <3>4. Leaving' = Leaving
      BY <1>2, <1>7, <2>6 DEF Bit
    <3> QED BY <3>1, <3>3, <3>4
  <2>8. ASSUME NEW b \in {"readerSem", "writerSem"} PROVE Units(b) \in Int /\ Units(b)' = Units(b)
    <3>1. PICK i, j : i = Count(b, {"srel"}) /\ j = Count(b, {"srel"})'
      OBVIOUS
    <3>2. i \in Nat /\ j = i - Bit(ReleasesOne(r, b)) + Bit(ReleasesOne(s, b))
      BY <1>1, <3>1, OneStep
    <3>3. (ReleasesOne(r, b) <=> b = a) /\ ~ReleasesOne(s, b)
      BY <1>1, <1>2, <1>7 DEF ReleasesOne
    <3>4. j = i - Bit(b = a)
      BY <3>2, <3>3 DEF Bit
    <3>5. sem[b] \in Nat /\ sem'[b] = sem[b] + Bit(b = a)
      BY <1>1, <1>6 DEF Bit
    <3>6. sem'[b] + j = sem[b] + i
      BY <3>2, <3>4, <3>5 DEF Bit
    <3> QED BY <3>1, <3>2, <3>5, <3>6 DEF Units
  <2>9. \A h \in G : WriterSame(gr[h], gr'[h], prog.calls[h])
    BY <1>1, <2>1, <2>4, <2>6 DEF WriterSame
  <2>10. \A h \in G : gr[h].n \in Int
    BY CallFacts DEF Gr
  <2>11. PICK e \in Int : sem'["readerSem"] = sem["readerSem"] - e /\ (e = 0 \/ (~AnyWriter /\ \E h \in G : LetsIn(gr[h])))
    <3>1. CASE a = "readerSem"
      <4>1. LetsIn(gr[g])
        BY <1>1, <1>2, <3>1 DEF LetsIn
      <4>2. ~AnyWriter
        BY <4>1, LetsInAlone DEF Before, SyncIInv
      <4>3. sem'["readerSem"] = sem["readerSem"] - (-1)
        BY <1>1, <1>5, <1>6, <3>1
      <4> QED BY <4>1, <4>2, <4>3
    <3>2. CASE a = "writerSem"
      <4>1. sem'["readerSem"] = sem["readerSem"] - 0
        BY <1>6, <3>2
      <4> QED BY <4>1
    <3> QED BY <1>10, <3>1, <3>2
  <2>12. PICK d \in Int : d = 0
    OBVIOUS
  <2>13. /\ Reading' = Reading + d /\ Coming' = Coming - d /\ Units("readerSem")' = Units("readerSem") - d
         /\ Reading \in Int /\ Coming \in Int /\ Leaving \in Int /\ sem["readerSem"] \in Int
         /\ Units("readerSem") \in Int /\ Units("writerSem")' = Units("writerSem")
         /\ e = d \/ (~AnyWriter /\ \E h \in G : LetsIn(gr[h]))
         /\ ~(d # 0)
    <3>1. Units("readerSem") \in Int /\ Units("readerSem")' = Units("readerSem") /\ Units("writerSem")' = Units("writerSem")
      BY <2>8
    <3> QED BY <1>6, <2>6, <2>7, <2>11, <2>12, <3>1
  <2>14. RwInv'
    <3>1. RwInv /\ UNCHANGED <<prog, rw>>
      BY <1>4 DEF Before
    <3> QED BY ONLY <2>7, <2>9, <2>10, <2>11, <2>12, <2>13, <3>1, e \in Int, d \in Int, RwMoves
  <2> QED BY <2>5, <2>14 DEF After
<1> QED BY <1>3, <1>8, <1>9, <1>10, SyncConstants DEF WgSet

LEMMA WokenLocks ==
    ASSUME Before, NEW g \in G, SemWake(g), UNCHANGED <<prog, syncvars>>
    PROVE  After
<1>0. SyncIInv /\ SyncTypes /\ Wf(gr[g]) /\ gr[g].pc = "sdeq" /\ gr[g].pc \in Releasing /\ UNCHANGED <<sem, syncsema>>
  BY CallFacts DEF Before, SyncIInv, SemWake, At, Releasing
<1>a. UNCHANGED <<prog, rw, mutex>> /\ HasInv /\ RwInv
  BY DEF syncvars, Before
<1>b. PICK s : s = Back(gr[g])
  OBVIOUS
<1>c. Alike(gr[g], s, prog.calls[g])
  BY <1>0, <1>b, ReleasedAlike
<1>1. gr[g].sa \in Sems /\ RootOf[gr[g].sa] \in Roots
  BY <1>0, ReleasingFacts, RootAssumption
<1>2. PICK q \in Roots : q = RootOf[gr[g].sa]
  BY <1>1
<1>3. root[q].queue \in QueueType /\ Len(root[q].queue) \in Nat /\ DOMAIN root[q].queue = 1 .. Len(root[q].queue)
  <2>1. root[q].queue \in Seq([g : G, addr : Sems]) /\ Len(root[q].queue) \in Nat
    BY <1>0, RootFacts
  <2> QED BY <2>1 DEF QueueType
<1>5. CASE RootFor(g).nwait = 0 \/ WaiterAt(g) = {}
  <2>1. gr' = [gr EXCEPT ![g] = s]
    BY <1>5, <1>b DEF SemWake, Return
  <2> QED BY <1>0, <1>a, <1>c, <2>1, OneAlike
<1>6. CASE ~(RootFor(g).nwait = 0 \/ WaiterAt(g) = {})
  <2>1. PICK i : i = Min(WaiterAt(g))
    OBVIOUS
  <2>2. i \in 1 .. Len(root[q].queue) /\ root[q].queue[i].addr = gr[g].sa
    <3>1. WaiterAt(g) \subseteq Nat /\ WaiterAt(g) # {}
      <4>1. WaiterAt(g) \subseteq DOMAIN root[q].queue
        BY <1>2 DEF WaiterAt, RootFor
      <4> QED BY <1>3, <1>6, <4>1
    <3>2. i \in WaiterAt(g)
      BY <2>1, <3>1, LeastNat
    <3> QED BY <1>2, <1>3, <3>2 DEF WaiterAt, RootFor
  <2>3. PICK e, w : e = root[q].queue[i] /\ w = root[q].queue[i].g
    OBVIOUS
  <2>4. w \in G /\ gr[w].pc = "sparked" /\ w # g
    <3>1. e.g \in G /\ gr[e.g].pc = "sparked"
      BY <1>0, <2>2, <2>3, QueuedStay
    <3> QED BY <1>0, <2>3, <3>1
  <2>5. gr' = [Return(g) EXCEPT ![w].pc = "sacq"]
    BY <1>2, <1>6, <2>1, <2>3 DEF SemWake, RootFor
  <2>6. Return(g) = [gr EXCEPT ![g] = s]
    BY <1>b DEF Return
  <2>7. PICK v : v = [gr[w] EXCEPT !.pc = "sacq"]
    OBVIOUS
  <2>8. gr' = [gr EXCEPT ![g] = s, ![w] = v]
    BY <1>0, <2>4, <2>5, <2>6, <2>7 DEF SyncTypes
  <2>9. gr'[g] = s /\ gr'[w] = v /\ \A h \in G : h # g /\ h # w => gr'[h] = gr[h]
    BY <1>0, <2>4, <2>8 DEF SyncTypes
  <2>10. Alike(gr[w], v, prog.calls[w])
    <3>1. v.pc = "sacq" /\ v.sa = gr[w].sa /\ v.k = gr[w].k /\ v.ip = gr[w].ip
      <4>1. gr[w] \in Gr
        BY <2>4, CallFacts
      <4> QED BY <2>7, <4>1 DEF Gr
    <3>2. v.pc \in Waking /\ gr[w].pc \in Waking
      BY <2>4, <3>1 DEF Waking
    <3> QED BY <2>4, <3>1, <3>2, WakingAlike
  <2>11. \A h \in G : Alike(gr[h], gr'[h], prog.calls[h])
    BY <1>c, <2>9, <2>10, AlikeSelf, CallFacts
  <2>12. /\ sem'["readerSem"] = sem["readerSem"] /\ sem'["writerSem"] = sem["writerSem"]
         /\ \A x \in {"m", "w"} : mutex[x].locked => mutex'[x].locked
    BY <1>0, <1>a
  <2> QED BY <1>a, <2>11, <2>12, AllAlike DEF After
<1> QED BY <1>5, <1>6

LEMMA SemaLocks ==
    ASSUME Before, NEW g \in G, SemaStep(g), UNCHANGED <<prog, syncvars>>
    PROVE  After
<1>1. PICK r : r = gr[g]
  OBVIOUS
<1>2. r \in Gr /\ gr \in [G -> Gr] /\ UNCHANGED <<prog, rw, mutex>>
  BY <1>1, CallFacts DEF syncvars
<1>3. ASSUME NEW s, gr' = [gr EXCEPT ![g] = s], sem' = sem, r.pc \in Waking, NEW p \in Waking, s = [r EXCEPT !.pc = p]
      PROVE  After
  <2>1. s.pc = p /\ s.sa = gr[g].sa /\ s.k = gr[g].k /\ s.ip = gr[g].ip
    BY <1>1, <1>2, <1>3 DEF Gr
  <2>2. Alike(gr[g], s, prog.calls[g])
    BY <1>1, <1>3, <2>1, WakingAlike
  <2> QED BY <1>2, <1>3, <2>2, OneAlike
<1>4. CASE SemTry(g)
  <2>1. r.pc \in Waking
    BY <1>1, <1>4 DEF SemTry, At, Waking
  <2>2. CASE cansemacquire(g)
    <3>1. PICK n, s : n = sem[gr[g].sa] - 1 /\ s = Back(gr[g])
      OBVIOUS
    <3>2. sem' = [sem EXCEPT ![gr[g].sa] = n] /\ gr' = [gr EXCEPT ![g] = s] /\ sem[gr[g].sa] > 0
      BY <1>4, <2>2, <3>1 DEF SemTry, Take, Return, cansemacquire
    <3> QED BY <1>1, <2>1, <3>1, <3>2, AcquireLocks
  <2>3. CASE ~cansemacquire(g)
    <3>1. PICK s : s = [r EXCEPT !.pc = "slock"]
      OBVIOUS
    <3>2. gr' = [gr EXCEPT ![g] = s] /\ sem' = sem
      BY <1>1, <1>4, <2>3, <3>1 DEF SemTry, Goto
    <3>3. "slock" \in Waking
      BY DEF Waking
    <3> QED BY <1>3, <2>1, <3>1, <3>2, <3>3
  <2> QED BY <2>2, <2>3
<1>5. CASE SemAnnounce(g)
  <2>1. PICK s : s = [r EXCEPT !.pc = "sretry"]
    OBVIOUS
  <2>2. gr' = [gr EXCEPT ![g] = s] /\ sem' = sem
    BY <1>1, <1>5, <2>1 DEF SemAnnounce, Goto
  <2>3. "sretry" \in Waking /\ r.pc \in Waking
    BY <1>1, <1>5 DEF Waking, SemAnnounce, At
  <2> QED BY <1>3, <2>1, <2>2, <2>3
<1>6. CASE SemPark(g)
  <2>1. r.pc \in Waking
    BY <1>1, <1>6 DEF SemPark, At, Waking
  <2>2. CASE cansemacquire(g)
    <3>1. PICK n, s : n = sem[gr[g].sa] - 1 /\ s = Back(gr[g])
      OBVIOUS
    <3>2. sem' = [sem EXCEPT ![gr[g].sa] = n] /\ gr' = [gr EXCEPT ![g] = s] /\ sem[gr[g].sa] > 0
      BY <1>6, <2>2, <3>1 DEF SemPark, Take, Return, cansemacquire
    <3> QED BY <1>1, <2>1, <3>1, <3>2, AcquireLocks
  <2>3. CASE ~cansemacquire(g)
    <3>1. PICK s : s = [r EXCEPT !.pc = "sparked"]
      OBVIOUS
    <3>2. gr' = [gr EXCEPT ![g] = s] /\ sem' = sem
      BY <1>1, <1>6, <2>3, <3>1 DEF SemPark, Goto
    <3>3. "sparked" \in Waking
      BY DEF Waking
    <3> QED BY <1>3, <2>1, <3>1, <3>2, <3>3
  <2> QED BY <2>2, <2>3
<1>7. CASE SemAdd(g)
  <2>1. PICK n, s : n = sem[gr[g].sa] + 1 /\ s = [gr[g] EXCEPT !.pc = "slook"]
    OBVIOUS
  <2>2. sem' = [sem EXCEPT ![gr[g].sa] = n] /\ gr' = [gr EXCEPT ![g] = s] /\ gr[g].pc = "srel"
    BY <1>7, <2>1 DEF SemAdd, Goto, At
  <2> QED BY <2>1, <2>2, AddLocks
<1>8. CASE SemLook(g)
  <2>1. gr[g].pc = "slook" /\ sem' = sem
    BY <1>8 DEF SemLook, At, semavars
  <2>2. CASE RootFor(g).nwait = 0
    <3>1. PICK s : s = Back(gr[g])
      OBVIOUS
    <3>2. gr' = [gr EXCEPT ![g] = s]
      BY <1>8, <2>2, <3>1 DEF SemLook, Return
    <3>3. Alike(gr[g], s, prog.calls[g])
      BY <2>1, <3>1, ReleasedAlike
    <3> QED BY <1>2, <2>1, <3>2, <3>3, OneAlike
  <2>3. CASE RootFor(g).nwait # 0
    <3>1. PICK s : s = [r EXCEPT !.pc = "sdeq"]
      OBVIOUS
    <3>2. gr' = [gr EXCEPT ![g] = s]
      BY <1>1, <1>8, <2>3, <3>1 DEF SemLook, Goto
    <3>3. s.pc = "sdeq" /\ s.sa = gr[g].sa /\ s.k = gr[g].k /\ s.ip = gr[g].ip /\ s.n = gr[g].n
      BY <1>1, <1>2, <3>1 DEF Gr
    <3>4. Alike(gr[g], s, prog.calls[g])
      BY <2>1, <3>3, ReleasingAlike
    <3> QED BY <1>2, <2>1, <3>2, <3>4, OneAlike
  <2> QED BY <2>2, <2>3
<1> QED BY <1>4, <1>5, <1>6, <1>7, <1>8, WokenLocks, SyncAcquireLocks, SyncReleaseLocks DEF SemaStep

(***************************************************************************)
(* The steps of RWMutex.                                                   *)
(***************************************************************************)
LEMMA ReadersApart ==
    ASSUME Before, NEW h \in G, SleepsAt(gr[h], "readerSem")
    PROVE  ~Reads(gr[h], prog.calls[h])
<1>2. PICK r, cs : r = gr[h] /\ cs = prog.calls[h]
  OBVIOUS
<1>3. r \in Gr /\ CallOf(r, cs) /\ cs \in Seq(Calls) /\ WellPaired(cs) /\ Enters(r)
  BY <1>2, CallFacts DEF Enters
<1>4. OnlyIn(r, "RLock") /\ r.pc \notin {"next", "unborn", "runlock"}
  BY <1>3, EntersFacts
<1>5. In(r, "RLock")
  BY <1>4 DEF OnlyIn, LockCalls
<1>6. ~Between(r, cs, "RLock", "RUnlock")
  BY <1>3, <1>4, <1>5, CallPairs, InNotBetween
<1> QED BY <1>2, <1>4, <1>6 DEF Reads

LEMMA ReadersFit ==
    ASSUME Before, NEW g \in G, ~Reads(gr[g], prog.calls[g]), ~SleepsAt(gr[g], "readerSem")
    PROVE  Reading + Coming + 1 < MaxReaders /\ MaxReaders \in Nat /\ Reading \in Nat /\ Coming \in Nat
<1>1. PICK A, B : A = {h \in G : Reads(gr[h], prog.calls[h])} /\ B = {h \in G : SleepsAt(gr[h], "readerSem")}
  OBVIOUS
<1>2. IsFiniteSet(G) /\ Cardinality(G) < MaxReaders /\ MaxReaders \in Nat /\ Cardinality(G) \in Nat
  BY SyncConstants, FS_CardinalityType
<1>4. A \subseteq G \ {g} /\ B \subseteq G \ {g} /\ A \cap B = {}
  BY <1>1, ReadersApart
<1>5. IsFiniteSet(G \ {g}) /\ Cardinality(G \ {g}) = Cardinality(G) - 1
  BY <1>2, FS_RemoveElement
<1>6. A \cup B \subseteq G \ {g} /\ IsFiniteSet(A) /\ IsFiniteSet(B)
  BY <1>4, <1>5, FS_Subset
<1>7. IsFiniteSet(A \cup B) /\ Cardinality(A \cup B) <= Cardinality(G) - 1
  BY <1>5, <1>6, FS_Subset
<1>8. Cardinality(A \cup B) = Cardinality(A) + Cardinality(B) - Cardinality(A \cap B)
  BY <1>6, FS_Union
<1>9. Cardinality(A \cap B) = 0 /\ Cardinality(A) \in Nat /\ Cardinality(B) \in Nat
  BY <1>4, <1>6, FS_EmptySet, FS_CardinalityType
<1>10. Reading = Cardinality(A) /\ Coming = Cardinality(B)
  BY <1>1 DEF Reading, Coming
<1> QED BY <1>2, <1>7, <1>8, <1>9, <1>10

(* Readers come and go while there is no writer.                           *)
LEMMA RwRest ==
    ASSUME RwInv, ~AnyWriter, prog' = prog, sem' = sem, \A h \in G : WriterSame(gr[h], gr'[h], prog.calls[h]),
           rw'.readerWait = rw.readerWait, rw'.readerCount = Reading' + Coming', Coming' = Coming, Leaving' = Leaving,
           Reading' \in Nat, Coming \in Nat,
           \A a \in {"readerSem", "writerSem"} : Count(a, {"srel"})' = Count(a, {"srel"})
    PROVE  RwInv'
<1>1. /\ AnyWriter' <=> AnyWriter
      /\ (\A h \in G : ~LetsIn(gr'[h])) <=> (\A h \in G : ~LetsIn(gr[h]))
  BY WritersKept
<1>2. Units("readerSem")' = Units("readerSem") /\ Units("writerSem")' = Units("writerSem")
  BY DEF Units
<1>3. ReadersCounted'
  BY <1>1 DEF ReadersCounted
<1>4. NoWriter'
  BY <1>1, <1>2 DEF RwInv, NoWriter
<1>5. ASSUME NEW h \in G PROVE WriterAt(h)'
  <2>1. WriterAt(h) /\ WriterSame(gr[h], gr'[h], prog.calls[h])
    BY DEF RwInv
  <2>2. ~Announced(gr[h], prog.calls[h])
    BY DEF AnyWriter
  <2>3. /\ ~Writes(gr'[h], prog.calls[h]) /\ gr'[h].pc # "wwait" /\ ~SleepsAt(gr'[h], "writerSem")
        /\ LetsIn(gr'[h]) => LetsIn(gr[h]) /\ gr'[h].n = gr[h].n
    BY <2>1, <2>2 DEF Announced, WriterSame
  <2>4. LetsIn(gr'[h]) => gr'[h].n >= 0 /\ Coming' = Units("readerSem")' + gr'[h].n
    BY <1>2, <2>1, <2>3 DEF WriterAt
  <2> QED BY <2>3, <2>4 DEF WriterAt, At
<1> QED BY <1>3, <1>4, <1>5 DEF RwInv

(* Readers come and go while there is one.                                 *)
LEMMA RwBusy ==
    ASSUME Before, AnyWriter, prog' = prog, \A h \in G : WriterSame(gr[h], gr'[h], prog.calls[h]),
           rw'.readerCount = Reading' + Coming' - MaxReaders,
           \A h \in G : Writes(gr[h], prog.calls[h]) =>
             /\ Reading' = 0 /\ Leaving' = 0 /\ sem'["readerSem"] = 0 /\ rw'.readerWait = 0 /\ Units("writerSem")' = 0,
           \A h \in G : gr[h].pc = "wwait" =>
             /\ gr[h].n + rw'.readerWait = Reading' + Leaving' + sem'["readerSem"]
             /\ rw'.readerWait <= 0 /\ Units("writerSem")' = 0,
           \A h \in G : SleepsAt(gr[h], "writerSem") =>
             /\ rw'.readerWait = Reading' + Leaving' + sem'["readerSem"]
             /\ Units("writerSem")' = IF rw'.readerWait = 0 THEN 1 ELSE 0
    PROVE  RwInv'
<1>1. AnyWriter'
  BY WritersKept
<1>2. ReadersCounted' /\ NoWriter'
  BY <1>1 DEF ReadersCounted, NoWriter
<1>3. ASSUME NEW h \in G PROVE WriterAt(h)'
  <2>1. WriterSame(gr[h], gr'[h], prog.calls[h])
    OBVIOUS
  <2>2. ~LetsIn(gr[h])
    BY LetsInAlone DEF Before, SyncIInv
  <2>3. ~LetsIn(gr'[h])
    BY <2>1, <2>2 DEF WriterSame
  <2>4. gr'[h].pc = "wwait" => /\ gr'[h].n + rw'.readerWait = Reading' + Leaving' + sem'["readerSem"]
                               /\ rw'.readerWait <= 0 /\ Units("writerSem")' = 0
    BY <2>1 DEF WriterSame
  <2>5. SleepsAt(gr'[h], "writerSem") =>
          /\ rw'.readerWait = Reading' + Leaving' + sem'["readerSem"]
          /\ Units("writerSem")' = IF rw'.readerWait = 0 THEN 1 ELSE 0
    BY <2>1 DEF WriterSame
  <2>6. Writes(gr'[h], prog.calls[h]) =>
          /\ Reading' = 0 /\ Leaving' = 0 /\ sem'["readerSem"] = 0
          /\ rw'.readerWait = 0 /\ Units("writerSem")' = 0
    BY <2>1 DEF WriterSame
  <2> QED BY <2>3, <2>4, <2>5, <2>6 DEF WriterAt, At
<1> QED BY <1>2, <1>3 DEF RwInv

LEMMA ReaderTypes == Reading \in Nat /\ Coming \in Nat /\ Leaving \in Nat
<1>1. /\ {h \in G : Reads(gr[h], prog.calls[h])} \subseteq G
      /\ {h \in G : SleepsAt(gr[h], "readerSem")} \subseteq G
      /\ {h \in G : gr[h].pc = "rdepart"} \subseteq G
  OBVIOUS
<1> QED BY <1>1, CardSubset DEF Reading, Coming, Leaving

(* RLock finds a writer and goes to sleep.                                 *)
LEMMA RLockSleeps ==
    ASSUME NEW cs \in Seq(Calls), WellPaired(cs), NEW r \in Gr, CallOf(r, cs), r.pc = "rlock",
           NEW s, s.pc = "sacq", s.sa = "readerSem", s.ip = r.ip
    PROVE  /\ CallOf(s, cs) /\ WriterSame(r, s, cs) /\ ~Reads(r, cs) /\ ~Reads(s, cs)
           /\ \A x \in {"m", "w"} : Has(s, cs, x) => Has(r, cs, x)
           /\ ~SleepsAt(r, "readerSem") /\ SleepsAt(s, "readerSem")
           /\ \A a : ~ReleasesOne(r, a) /\ ~ReleasesOne(s, a)
<1>1. Enters(r) /\ Enters(s) /\ SleepsAt(s, "readerSem")
  BY DEF Enters, SleepsAt, Waking
<1>2. \A q \in {r, s} : /\ OnlyIn(q, "RLock") /\ q.pc \notin {"next", "unborn", "runlock", "rdepart", "wwait", "wunlock", "unlock", "wannounce"}
                        /\ ~LetsIn(q) /\ ~SleepsAt(q, "writerSem") /\ \A a : ~ReleasesOne(q, a)
  BY <1>1, EntersFacts
<1>3. "RLock" \in LockCalls /\ r.ip \in Nat \ {0} /\ ~SleepsAt(r, "readerSem")
  BY DEF LockCalls, Gr, SleepsAt, Waking
<1>4. /\ CallOf(s, cs) /\ CurrentOf(s, cs) = "RLock" /\ CurrentOf(r, cs) = "RLock"
      /\ \A a, b : Between(s, cs, a, b) <=> Between(r, cs, a, b)
  BY <1>2, <1>3, WithinCall
<1>5. ~Between(r, cs, "RLock", "RUnlock")
  <2>1. In(r, "RLock")
    BY <1>2, <1>3 DEF OnlyIn
  <2> QED BY <2>1, <1>2, CallPairs, InNotBetween
<1>6. ~Reads(r, cs) /\ ~Reads(s, cs) /\ (Writes(s, cs) <=> Writes(r, cs))
  BY <1>2, <1>4, <1>5 DEF Reads, Writes
<1>7. WriterSame(r, s, cs)
  BY <1>2, <1>6 DEF WriterSame
<1>8. Has(s, cs, "m") => Has(r, cs, "m")
  BY <1>2, <1>4 DEF Has
<1>9. Has(s, cs, "w") => Has(r, cs, "w")
  BY <1>2, <1>6 DEF Has, Announced
<1> QED BY <1>1, <1>2, <1>3, <1>4, <1>6, <1>7, <1>8, <1>9

LEMMA RLockLocks ==
    ASSUME Before, NEW g \in G, RLock(g)
    PROVE  After
<1>1. PICK r, cs : r = gr[g] /\ cs = prog.calls[g]
  OBVIOUS
<1>2. r \in Gr /\ Wf(r) /\ CallOf(r, cs) /\ cs \in Seq(Calls) /\ WellPaired(cs) /\ r.pc = "rlock"
  BY <1>1, CallFacts DEF RLock, At
<1>3. r.k = Top /\ UNCHANGED <<sem, prog, mutex>>
  BY <1>2, BodyFacts DEF RLock, semavars, Body
<1>4. PICK c : c = rw.readerCount + 1
  OBVIOUS
<1>5. rw.readerCount \in Int /\ rw.readerWait \in Int /\ sem["readerSem"] \in Nat /\ sem["writerSem"] \in Nat
  BY OtherSems DEF Before, SyncIInv, SyncTypes
<1>6. rw'.readerCount = c /\ rw'.readerWait = rw.readerWait
  <2>1. rw' = [rw EXCEPT !.readerCount = c]
    BY <1>4 DEF RLock
  <2>2. rw \in [readerCount : Int, readerWait : Int]
    BY DEF Before, SyncIInv, SyncTypes
  <2> QED BY <2>1, <2>2
<1>7. ReadersCounted /\ RwInv
  BY DEF Before, RwInv
<1>a. Enters(r) /\ ~SleepsAt(r, "readerSem")
  BY <1>2 DEF Enters, SleepsAt, Waking
<1>8. CASE AnyWriter
  <2>1. ~Reads(r, cs)
    <3>1. PICK q : q = [r EXCEPT !.pc = "next"]
      OBVIOUS
    <3>2. q.pc = "next" /\ q.ip = r.ip
      BY <1>2, <3>1 DEF Gr
    <3> QED BY <1>2, <1>a, <3>2, RLockEnds
  <2>2. Reading + Coming + 1 < MaxReaders /\ MaxReaders \in Nat /\ Reading \in Nat /\ Coming \in Nat
    BY <1>1, <1>a, <2>1, ReadersFit
  <2>3. c = Reading + Coming + 1 - MaxReaders
    BY <1>4, <1>7, <1>8, <2>2 DEF ReadersCounted
  <2>4. c < 0
    BY <2>2, <2>3
  <2>5. PICK s : s = TailAcquire(r, "readerSem")
    OBVIOUS
  <2>6. gr' = [gr EXCEPT ![g] = s]
    BY <1>1, <1>4, <2>4, <2>5 DEF RLock
  <2>7. s.pc = "sacq" /\ s.sa = "readerSem" /\ s.k = r.k /\ s.ip = r.ip
    BY <1>2, <2>5, TailAcquireShape
  <2>8. /\ CallOf(s, cs) /\ WriterSame(r, s, cs) /\ ~Reads(s, cs)
        /\ \A x \in {"m", "w"} : Has(s, cs, x) => Has(r, cs, x)
        /\ SleepsAt(s, "readerSem")
        /\ \A a : ~ReleasesOne(r, a) /\ ~ReleasesOne(s, a)
    BY <1>2, <2>7, RLockSleeps
  <2>9. CallInv' /\ HasInv'
    <3>1. CallOf(s, cs) /\ \A x \in {"m", "w"} : Has(s, cs, x) => Has(gr[g], cs, x)
      BY <1>1, <2>8
    <3>2. cs = prog.calls[g] /\ UNCHANGED <<prog, mutex>>
      BY <1>1, <1>3
    <3> QED BY ONLY Before, g \in G, <2>6, <3>1, <3>2, OneKeeps
  <2>10. /\ gr'[g] = s /\ \A h \in G : h # g => gr'[h] = gr[h]
         /\ Leaving \in Nat
         /\ Reading' = Reading - Bit(Reads(r, cs)) + Bit(Reads(s, cs))
         /\ Coming' = Coming - Bit(SleepsAt(r, "readerSem")) + Bit(SleepsAt(s, "readerSem"))
         /\ Leaving' = Leaving - Bit(r.pc = "rdepart") + Bit(s.pc = "rdepart")
    BY <1>1, <1>3, <2>6, OneStep
  <2>11. Reading' = Reading /\ Coming' = Coming + 1 /\ Leaving' = Leaving
    BY <1>2, <1>a, <2>1, <2>2, <2>7, <2>8, <2>10 DEF Bit
  <2>12. Units("writerSem")' = Units("writerSem")
    <3>1. PICK i, j : i = Count("writerSem", {"srel"}) /\ j = Count("writerSem", {"srel"})'
      OBVIOUS
    <3>2. i \in Nat /\ j = i - Bit(ReleasesOne(r, "writerSem")) + Bit(ReleasesOne(s, "writerSem"))
      BY <1>1, <1>3, <2>6, <3>1, OneStep
    <3>3. i = j
      BY <2>8, <3>2 DEF Bit
    <3> QED BY <1>3, <3>1, <3>3 DEF Units
  <2>13. \A h \in G : WriterSame(gr[h], gr'[h], prog.calls[h])
    BY <1>1, <2>8, <2>10 DEF WriterSame
  <2>14. \A h \in G : WriterAt(h)
    BY <1>7 DEF RwInv
  <2>15. rw'.readerCount = Reading' + Coming' - MaxReaders
    BY <1>6, <2>2, <2>3, <2>11
  <2>16. \A h \in G : Writes(gr[h], prog.calls[h]) =>
             /\ Reading' = 0 /\ Leaving' = 0 /\ sem'["readerSem"] = 0 /\ rw'.readerWait = 0 /\ Units("writerSem")' = 0
    BY <1>3, <1>6, <2>11, <2>12, <2>14 DEF WriterAt
  <2>17. \A h \in G : gr[h].pc = "wwait" =>
             /\ gr[h].n + rw'.readerWait = Reading' + Leaving' + sem'["readerSem"]
             /\ rw'.readerWait <= 0 /\ Units("writerSem")' = 0
    BY <1>3, <1>6, <2>11, <2>12, <2>14 DEF WriterAt, At
  <2>18. \A h \in G : SleepsAt(gr[h], "writerSem") =>
             /\ rw'.readerWait = Reading' + Leaving' + sem'["readerSem"]
             /\ Units("writerSem")' = IF rw'.readerWait = 0 THEN 1 ELSE 0
    BY <1>3, <1>6, <2>11, <2>12, <2>14 DEF WriterAt
  <2>19. RwInv'
    BY <1>3, <1>8, <2>13, <2>15, <2>16, <2>17, <2>18, RwBusy
  <2> QED BY <2>9, <2>19 DEF After
<1>9. CASE ~AnyWriter
  <2>0. Reading \in Nat /\ Coming \in Nat
    BY ReaderTypes
  <2>1. c = Reading + Coming + 1 /\ ~(c < 0)
    BY <1>4, <1>7, <1>9, <2>0 DEF ReadersCounted
  <2>2. PICK s : s = Back(r)
    OBVIOUS
  <2>3. gr' = [gr EXCEPT ![g] = s]
    BY <1>1, <1>4, <2>1, <2>2 DEF RLock
  <2>4. s.pc = "next" /\ s.ip = r.ip
    BY <1>2, <1>3, <2>2, BackTop
  <2>5. /\ CallOf(s, cs) /\ WriterSame(r, s, cs) /\ ~Reads(r, cs) /\ Reads(s, cs)
        /\ \A x \in {"m", "w"} : Has(s, cs, x) => Has(r, cs, x)
        /\ ~SleepsAt(s, "readerSem") /\ \A a : ~ReleasesOne(r, a) /\ ~ReleasesOne(s, a)
        /\ r.pc # "rdepart" /\ s.pc # "rdepart"
    BY <1>2, <1>a, <2>4, RLockEnds
  <2>6. CallInv' /\ HasInv'
    <3>1. CallOf(s, cs) /\ \A x \in {"m", "w"} : Has(s, cs, x) => Has(gr[g], cs, x)
      BY <1>1, <2>5
    <3>2. cs = prog.calls[g] /\ UNCHANGED <<prog, mutex>>
      BY <1>1, <1>3
    <3> QED BY ONLY Before, g \in G, <2>3, <3>1, <3>2, OneKeeps
  <2>7. /\ gr'[g] = s /\ \A h \in G : h # g => gr'[h] = gr[h]
        /\ Leaving \in Nat
        /\ Reading' = Reading - Bit(Reads(r, cs)) + Bit(Reads(s, cs))
        /\ Coming' = Coming - Bit(SleepsAt(r, "readerSem")) + Bit(SleepsAt(s, "readerSem"))
        /\ Leaving' = Leaving - Bit(r.pc = "rdepart") + Bit(s.pc = "rdepart")
    BY <1>1, <1>3, <2>3, OneStep
  <2>8. Reading' = Reading + 1 /\ Coming' = Coming /\ Leaving' = Leaving
    BY <1>a, <2>0, <2>5, <2>7 DEF Bit
  <2>9. ASSUME NEW a \in {"readerSem", "writerSem"} PROVE Count(a, {"srel"})' = Count(a, {"srel"})
    <3>1. PICK i, j : i = Count(a, {"srel"}) /\ j = Count(a, {"srel"})'
      OBVIOUS
    <3>2. i \in Nat /\ j = i - Bit(ReleasesOne(r, a)) + Bit(ReleasesOne(s, a))
      BY <1>1, <1>3, <2>3, <3>1, OneStep
    <3>3. i = j
      BY <2>5, <3>2 DEF Bit
    <3> QED BY <3>1, <3>3
  <2>10. \A h \in G : WriterSame(gr[h], gr'[h], prog.calls[h])
    BY <1>1, <2>5, <2>7 DEF WriterSame
  <2>11. rw'.readerCount = Reading' + Coming' /\ Reading' \in Nat
    BY <1>6, <2>0, <2>1, <2>8
  <2>12. RwInv'
    BY <1>3, <1>6, <1>7, <1>9, <2>0, <2>8, <2>9, <2>10, <2>11, RwRest
  <2> QED BY <2>6, <2>12 DEF After
<1> QED BY <1>8, <1>9

(* The readers are fewer than MaxReaders, and one at RUnlock is among them.*)
LEMMA ReadersBelow ==
    ASSUME Before
    PROVE  Reading + Coming < MaxReaders
<1>1. PICK A, B : A = {h \in G : Reads(gr[h], prog.calls[h])} /\ B = {h \in G : SleepsAt(gr[h], "readerSem")}
  OBVIOUS
<1>2. IsFiniteSet(G) /\ Cardinality(G) < MaxReaders /\ MaxReaders \in Nat /\ Cardinality(G) \in Nat
  BY SyncConstants, FS_CardinalityType
<1>3. A \cap B = {}
  BY <1>1, ReadersApart
<1>4. IsFiniteSet(A) /\ IsFiniteSet(B) /\ A \cup B \subseteq G
  BY <1>1, <1>2, FS_Subset
<1>5. IsFiniteSet(A \cup B) /\ Cardinality(A \cup B) <= Cardinality(G)
  BY <1>2, <1>4, FS_Subset
<1>6. Cardinality(A \cup B) = Cardinality(A) + Cardinality(B) - Cardinality(A \cap B)
  BY <1>4, FS_Union
<1>7. Cardinality(A \cap B) = 0 /\ Cardinality(A) \in Nat /\ Cardinality(B) \in Nat
  BY <1>3, <1>4, FS_EmptySet, FS_CardinalityType
<1>8. Reading = Cardinality(A) /\ Coming = Cardinality(B)
  BY <1>1 DEF Reading, Coming
<1> QED BY <1>2, <1>5, <1>6, <1>7, <1>8

LEMMA ReaderThere ==
    ASSUME Before, NEW g \in G, gr[g].pc = "runlock"
    PROVE  Reading >= 1
<1>1. {g} \subseteq {h \in G : Reads(gr[h], prog.calls[h])}
  BY DEF Reads
<1>2. Cardinality({g}) <= Reading
  BY <1>1, CardSubset DEF Reading
<1>3. Cardinality({g}) = 1
  BY FS_Singleton
<1> QED BY <1>2, <1>3, ReaderTypes

(* RUnlock, from its first step until it returns.                          *)
LEMMA RUnlockGoes ==
    ASSUME NEW cs \in Seq(Calls), WellPaired(cs), NEW r \in Gr, CallOf(r, cs), r.pc \in {"runlock", "rdepart"},
           NEW s, s.ip = r.ip, s.pc \in {"next", "rdepart", "srel"}, s.pc = "srel" => s.sa = "writerSem"
    PROVE  /\ CallOf(s, cs) /\ WriterSame(r, s, cs) /\ (Reads(r, cs) <=> r.pc = "runlock") /\ ~Reads(s, cs)
           /\ \A x \in {"m", "w"} : Has(s, cs, x) => Has(r, cs, x)
           /\ ~SleepsAt(r, "readerSem") /\ ~SleepsAt(s, "readerSem")
           /\ \A a : ~ReleasesOne(r, a) /\ (ReleasesOne(s, a) <=> s.pc = "srel" /\ a = "writerSem")
<1>1. OnlyIn(r, "RUnlock")
  <2>1. r.pc \in Body
    BY DEF Body
  <2> QED BY <2>1, InBodyPlaces DEF OnlyIn, LockCalls
<1>2. s.pc # "next" => OnlyIn(s, "RUnlock")
  <2>1. CASE s.pc = "rdepart"
    <3>1. s.pc \in Body
      BY <2>1 DEF Body
    <3> QED BY <2>1, <3>1, InBodyPlaces DEF OnlyIn, LockCalls
  <2>2. CASE s.pc = "srel"
    <3>1. s.pc \in Releasing
      BY <2>2 DEF Releasing
    <3> QED BY <2>2, <3>1, InReleasing DEF OnlyIn, LockCalls
  <2> QED BY <2>1, <2>2
<1>3. "RUnlock" \in LockCalls /\ r.ip \in Nat \ {0} /\ r.pc \notin {"next", "unborn"} /\ s.pc # "unborn"
  BY DEF LockCalls, Gr
<1>4. /\ CallOf(s, cs) /\ CurrentOf(r, cs) = "RUnlock" /\ CurrentOf(s, cs) # "Await"
      /\ ~Between(r, cs, "RLock", "RUnlock") /\ ~Between(s, cs, "RLock", "RUnlock")
      /\ Between(s, cs, "Lock", "Unlock") <=> Between(r, cs, "Lock", "Unlock")
      /\ Between(s, cs, "WLock", "WUnlock") <=> Between(r, cs, "WLock", "WUnlock")
  <2>1. CASE s.pc = "next"
    <3>1. CallOf(s, cs) /\ CurrentOf(r, cs) = "RUnlock" /\ CurrentOf(s, cs) = "none"
      BY <1>1, <1>3, <2>1, CallEnds
    <3>2. /\ ~Between(r, cs, "RLock", "RUnlock") /\ ~Between(s, cs, "RLock", "RUnlock")
          /\ Between(s, cs, "Lock", "Unlock") <=> Between(r, cs, "Lock", "Unlock")
          /\ Between(s, cs, "WLock", "WUnlock") <=> Between(r, cs, "WLock", "WUnlock")
      BY <1>1, <1>3, <2>1, CallEnds, CallPairs
    <3> QED BY <3>1, <3>2
  <2>2. CASE s.pc # "next"
    <3>1. /\ CallOf(s, cs) /\ CurrentOf(s, cs) = "RUnlock" /\ CurrentOf(r, cs) = "RUnlock"
          /\ \A a, b : Between(s, cs, a, b) <=> Between(r, cs, a, b)
      BY <1>1, <1>2, <1>3, <2>2, WithinCall
    <3>2. ~Between(r, cs, "RLock", "RUnlock")
      BY <3>1 DEF Between
    <3> QED BY <3>1, <3>2
  <2> QED BY <2>1, <2>2
<1>5. ~LetsIn(r) /\ ~LetsIn(s) /\ \A a : ~SleepsAt(r, a) /\ ~SleepsAt(s, a)
  BY DEF LetsIn, SleepsAt, Waking, Releasing
<1>6. \A a : ~ReleasesOne(r, a) /\ (ReleasesOne(s, a) <=> s.pc = "srel" /\ a = "writerSem")
  BY DEF ReleasesOne
<1>7. (Reads(r, cs) <=> r.pc = "runlock") /\ ~Reads(s, cs) /\ (Writes(s, cs) <=> Writes(r, cs))
  BY <1>4 DEF Reads, Writes
<1>8. WriterSame(r, s, cs)
  BY <1>5, <1>7 DEF WriterSame
<1>9. Has(s, cs, "m") => Has(r, cs, "m")
  BY <1>4 DEF Has
<1>10. Has(s, cs, "w") => Has(r, cs, "w")
  BY <1>5, <1>7 DEF Has, Announced
<1> QED BY <1>4, <1>5, <1>6, <1>7, <1>8, <1>9, <1>10

(* What a step of RUnlock does to the accounts.                            *)
LEMMA RUnlockAccounts ==
    ASSUME Before, NEW g \in G, gr[g].pc \in {"runlock", "rdepart"}, NEW s, s.ip = gr[g].ip,
           s.pc \in {"next", "rdepart", "srel"}, s.pc = "srel" => s.sa = "writerSem",
           gr' = [gr EXCEPT ![g] = s], UNCHANGED <<prog, mutex>>
    PROVE  /\ CallInv' /\ HasInv' /\ \A h \in G : WriterSame(gr[h], gr'[h], prog.calls[h])
           /\ Reading \in Nat /\ Coming \in Nat /\ Leaving \in Nat /\ Coming' = Coming
           /\ Reading' = Reading - Bit(gr[g].pc = "runlock") /\ Reading' \in Nat
           /\ Leaving' = Leaving - Bit(gr[g].pc = "rdepart") + Bit(s.pc = "rdepart")
           /\ Count("readerSem", {"srel"})' = Count("readerSem", {"srel"})
           /\ Count("writerSem", {"srel"}) \in Nat
           /\ Count("writerSem", {"srel"})' = Count("writerSem", {"srel"}) + Bit(s.pc = "srel")
<1>1. PICK r, cs : r = gr[g] /\ cs = prog.calls[g]
  OBVIOUS
<1>2. r \in Gr /\ CallOf(r, cs) /\ cs \in Seq(Calls) /\ WellPaired(cs) /\ r.pc \in {"runlock", "rdepart"} /\ s.ip = r.ip
  BY <1>1, CallFacts
<1>3. /\ CallOf(s, cs) /\ WriterSame(r, s, cs) /\ (Reads(r, cs) <=> r.pc = "runlock") /\ ~Reads(s, cs)
      /\ \A x \in {"m", "w"} : Has(s, cs, x) => Has(r, cs, x)
      /\ ~SleepsAt(r, "readerSem") /\ ~SleepsAt(s, "readerSem")
      /\ \A a : ~ReleasesOne(r, a) /\ (ReleasesOne(s, a) <=> s.pc = "srel" /\ a = "writerSem")
  BY <1>2, RUnlockGoes
<1>4. CallInv' /\ HasInv'
  <2>1. CallOf(s, cs) /\ \A x \in {"m", "w"} : Has(s, cs, x) => Has(gr[g], cs, x)
    BY <1>1, <1>3
  <2>2. cs = prog.calls[g] /\ UNCHANGED <<prog, mutex>> /\ gr' = [gr EXCEPT ![g] = s]
    BY <1>1
  <2> QED BY ONLY Before, g \in G, <2>1, <2>2, OneKeeps
<1>5. /\ gr'[g] = s /\ \A h \in G : h # g => gr'[h] = gr[h]
      /\ Reading \in Nat /\ Coming \in Nat /\ Leaving \in Nat /\ Reading' \in Nat
      /\ Reading' = Reading - Bit(Reads(r, cs)) + Bit(Reads(s, cs))
      /\ Coming' = Coming - Bit(SleepsAt(r, "readerSem")) + Bit(SleepsAt(s, "readerSem"))
      /\ Leaving' = Leaving - Bit(r.pc = "rdepart") + Bit(s.pc = "rdepart")
  BY <1>1, OneStep
<1>6. Reading' = Reading - Bit(r.pc = "runlock") /\ Coming' = Coming
  BY <1>3, <1>5 DEF Bit
<1>7. ASSUME NEW a \in {"readerSem", "writerSem"}
      PROVE  Count(a, {"srel"}) \in Nat /\ Count(a, {"srel"})' = Count(a, {"srel"}) + Bit(s.pc = "srel" /\ a = "writerSem")
  <2>1. PICK i, j : i = Count(a, {"srel"}) /\ j = Count(a, {"srel"})'
    OBVIOUS
  <2>2. i \in Nat /\ j = i - Bit(ReleasesOne(r, a)) + Bit(ReleasesOne(s, a))
    <3>1. prog' = prog /\ gr' = [gr EXCEPT ![g] = s]
      OBVIOUS
    <3>2. Count(a, {"srel"}) \in Nat
      BY ONLY Before, <3>1, g \in G, a \in {"readerSem", "writerSem"}, OneStep
    <3>3. Count(a, {"srel"})' = Count(a, {"srel"}) - Bit(ReleasesOne(gr[g], a)) + Bit(ReleasesOne(s, a))
      BY ONLY Before, <3>1, g \in G, a \in {"readerSem", "writerSem"}, OneStep
    <3> QED BY <1>1, <2>1, <3>2, <3>3
  <2>3. j = i + Bit(s.pc = "srel" /\ a = "writerSem")
    BY <1>3, <2>2 DEF Bit
  <2> QED BY <2>1, <2>2, <2>3
<1>8. Count("readerSem", {"srel"})' = Count("readerSem", {"srel"})
  BY <1>7 DEF Bit
<1>9. /\ Count("writerSem", {"srel"}) \in Nat
      /\ Count("writerSem", {"srel"})' = Count("writerSem", {"srel"}) + Bit(s.pc = "srel")
  BY <1>7 DEF Bit
<1>10. \A h \in G : WriterSame(gr[h], gr'[h], prog.calls[h])
  BY <1>1, <1>3, <1>5 DEF WriterSame
<1> QED BY <1>1, <1>4, <1>5, <1>6, <1>8, <1>9, <1>10

LEMMA RUnlockLocks ==
    ASSUME Before, NEW g \in G, RUnlock(g)
    PROVE  After
<1>1. PICK r : r = gr[g]
  OBVIOUS
<1>2. r \in Gr /\ Wf(r) /\ r.pc = "runlock" /\ gr[g].pc \in {"runlock", "rdepart"}
  BY <1>1, CallFacts DEF RUnlock, At
<1>3. r.k = Top /\ UNCHANGED <<sem, prog, mutex>>
  BY <1>2, BodyFacts DEF RUnlock, semavars, Body
<1>4. PICK c : c = rw.readerCount - 1
  OBVIOUS
<1>5. rw.readerCount \in Int /\ rw.readerWait \in Int /\ sem["readerSem"] \in Nat /\ sem["writerSem"] \in Nat /\ MaxReaders \in Nat
  BY OtherSems, SyncConstants DEF Before, SyncIInv, SyncTypes
<1>6. rw'.readerCount = c /\ rw'.readerWait = rw.readerWait
  <2>1. rw' = [rw EXCEPT !.readerCount = c]
    BY <1>4 DEF RUnlock
  <2>2. rw \in [readerCount : Int, readerWait : Int]
    BY DEF Before, SyncIInv, SyncTypes
  <2> QED BY <2>1, <2>2
<1>7. ReadersCounted /\ RwInv
  BY DEF Before, RwInv
<1>a. Reading \in Nat /\ Coming \in Nat /\ Leaving \in Nat
  BY ReaderTypes
<1>8. CASE AnyWriter
  <2>1. c = Reading + Coming - 1 - MaxReaders
    BY <1>4, <1>5, <1>7, <1>8, <1>a DEF ReadersCounted
  <2>2. c < 0
    <3>1. Reading + Coming < MaxReaders
      BY ReadersBelow
    <3> QED BY <1>5, <1>a, <2>1, <3>1
  <2>3. PICK s : s = [r EXCEPT !.pc = "rdepart"]
    OBVIOUS
  <2>4. gr' = [gr EXCEPT ![g] = s]
    BY <1>1, <1>4, <2>2, <2>3 DEF RUnlock
  <2>5. s.pc = "rdepart" /\ s.ip = gr[g].ip
    BY <1>1, <1>2, <2>3 DEF Gr
  <2>6. /\ CallInv' /\ HasInv' /\ \A h \in G : WriterSame(gr[h], gr'[h], prog.calls[h])
        /\ Coming' = Coming
        /\ Reading' = Reading - Bit(gr[g].pc = "runlock") /\ Reading' \in Nat
        /\ Leaving' = Leaving - Bit(gr[g].pc = "rdepart") + Bit(s.pc = "rdepart")
        /\ Count("writerSem", {"srel"}) \in Nat
        /\ Count("writerSem", {"srel"})' = Count("writerSem", {"srel"}) + Bit(s.pc = "srel")
    BY <1>2, <1>3, <2>4, <2>5, RUnlockAccounts
  <2>7. Reading' = Reading - 1 /\ Leaving' = Leaving + 1 /\ Units("writerSem")' = Units("writerSem")
    BY <1>1, <1>2, <1>3, <1>a, <2>5, <2>6 DEF Bit, Units
  <2>8. rw'.readerCount = Reading' + Coming' - MaxReaders
    BY <1>5, <1>6, <1>a, <2>1, <2>6, <2>7
  <2>9. \A h \in G : WriterAt(h)
    BY <1>7 DEF RwInv
  <2>10. \A h \in G : ~Writes(gr[h], prog.calls[h])
    <3>1. Reading # 0
      BY <1>a, <2>6, <2>7
    <3> QED BY <2>9, <3>1 DEF WriterAt
  <2>11. Reading' + Leaving' + sem'["readerSem"] = Reading + Leaving + sem["readerSem"]
    BY <1>3, <1>5, <1>a, <2>7
  <2>12. \A h \in G : gr[h].pc = "wwait" =>
             /\ gr[h].n + rw'.readerWait = Reading' + Leaving' + sem'["readerSem"]
             /\ rw'.readerWait <= 0 /\ Units("writerSem")' = 0
    BY <1>6, <2>7, <2>9, <2>11 DEF WriterAt, At
  <2>13. \A h \in G : SleepsAt(gr[h], "writerSem") =>
             /\ rw'.readerWait = Reading' + Leaving' + sem'["readerSem"]
             /\ Units("writerSem")' = IF rw'.readerWait = 0 THEN 1 ELSE 0
    BY <1>6, <2>7, <2>9, <2>11 DEF WriterAt
  <2>14. RwInv'
    BY <1>3, <1>8, <2>6, <2>8, <2>10, <2>12, <2>13, RwBusy
  <2> QED BY <2>6, <2>14 DEF After
<1>9. CASE ~AnyWriter
  <2>1. Reading >= 1
    BY <1>1, <1>2, ReaderThere
  <2>2. c = Reading + Coming - 1 /\ ~(c < 0)
    BY <1>4, <1>7, <1>9, <1>a, <2>1 DEF ReadersCounted
  <2>3. PICK s : s = Back(r)
    OBVIOUS
  <2>4. gr' = [gr EXCEPT ![g] = s]
    BY <1>1, <1>4, <2>2, <2>3 DEF RUnlock
  <2>5. s.pc = "next" /\ s.ip = gr[g].ip
    BY <1>1, <1>2, <1>3, <2>3, BackTop
  <2>6. /\ CallInv' /\ HasInv' /\ \A h \in G : WriterSame(gr[h], gr'[h], prog.calls[h])
        /\ Coming' = Coming
        /\ Reading' = Reading - Bit(gr[g].pc = "runlock") /\ Reading' \in Nat
        /\ Leaving' = Leaving - Bit(gr[g].pc = "rdepart") + Bit(s.pc = "rdepart")
        /\ Count("readerSem", {"srel"})' = Count("readerSem", {"srel"})
        /\ Count("writerSem", {"srel"}) \in Nat
        /\ Count("writerSem", {"srel"})' = Count("writerSem", {"srel"}) + Bit(s.pc = "srel")
    BY <1>2, <1>3, <2>4, <2>5, RUnlockAccounts
  <2>7. Reading' = Reading - 1 /\ Leaving' = Leaving /\ Count("writerSem", {"srel"})' = Count("writerSem", {"srel"})
    BY <1>1, <1>2, <1>a, <2>5, <2>6 DEF Bit
  <2>8. rw'.readerCount = Reading' + Coming'
    BY <1>6, <1>a, <2>2, <2>6, <2>7
  <2>9. \A a \in {"readerSem", "writerSem"} : Count(a, {"srel"})' = Count(a, {"srel"})
    BY <2>6, <2>7
  <2>10. RwInv'
    BY <1>3, <1>6, <1>7, <1>9, <1>a, <2>6, <2>7, <2>8, <2>9, RwRest
  <2> QED BY <2>6, <2>10 DEF After
<1> QED BY <1>8, <1>9

LEMMA RDepartLocks ==
    ASSUME Before, NEW g \in G, RDepart(g)
    PROVE  After
<1>1. PICK r : r = gr[g]
  OBVIOUS
<1>2. r \in Gr /\ Wf(r) /\ r.pc = "rdepart" /\ gr[g].pc \in {"runlock", "rdepart"}
  BY <1>1, CallFacts DEF RDepart, At
<1>3. r.k = Top /\ UNCHANGED <<sem, prog, mutex>>
  BY <1>2, BodyFacts DEF RDepart, semavars, Body
<1>4. PICK w : w = rw.readerWait - 1
  OBVIOUS
<1>5. rw.readerCount \in Int /\ rw.readerWait \in Int /\ sem["readerSem"] \in Nat /\ sem["writerSem"] \in Nat /\ MaxReaders \in Nat
  BY OtherSems, SyncConstants DEF Before, SyncIInv, SyncTypes
<1>6. rw'.readerCount = rw.readerCount /\ rw'.readerWait = w
  <2>1. rw' = [rw EXCEPT !.readerWait = w]
    BY <1>4 DEF RDepart
  <2>2. rw \in [readerCount : Int, readerWait : Int]
    BY DEF Before, SyncIInv, SyncTypes
  <2> QED BY <2>1, <2>2
<1>7. ReadersCounted /\ RwInv /\ NoWriter /\ \A h \in G : WriterAt(h)
  BY DEF Before, RwInv
<1>8. PICK s : s = IF w = 0 THEN TailRelease(r, "writerSem") ELSE Back(r)
  OBVIOUS
<1>9. gr' = [gr EXCEPT ![g] = s]
  BY <1>1, <1>4, <1>8, Zenon DEF RDepart
<1>10. s.ip = gr[g].ip /\ (w = 0 => s.pc = "srel" /\ s.sa = "writerSem") /\ (w # 0 => s.pc = "next")
  <2>1. CASE w = 0
    BY <1>1, <1>2, <1>8, <2>1, TailReleaseShape
  <2>2. CASE w # 0
    BY <1>1, <1>2, <1>3, <1>8, <2>2, BackTop
  <2> QED BY <2>1, <2>2
<1>11. /\ CallInv' /\ HasInv' /\ \A h \in G : WriterSame(gr[h], gr'[h], prog.calls[h])
       /\ Reading \in Nat /\ Coming \in Nat /\ Leaving \in Nat /\ Coming' = Coming
       /\ Reading' = Reading - Bit(gr[g].pc = "runlock") /\ Reading' \in Nat
       /\ Leaving' = Leaving - Bit(gr[g].pc = "rdepart") + Bit(s.pc = "rdepart")
       /\ Count("writerSem", {"srel"}) \in Nat
       /\ Count("writerSem", {"srel"})' = Count("writerSem", {"srel"}) + Bit(s.pc = "srel")
  <2>1. s.pc \in {"next", "rdepart", "srel"} /\ (s.pc = "srel" => s.sa = "writerSem")
    BY <1>10
  <2> QED BY <1>2, <1>3, <1>9, <1>10, <2>1, RUnlockAccounts
<1>12. Reading' = Reading /\ Leaving' = Leaving - 1
  BY <1>1, <1>2, <1>10, <1>11 DEF Bit
<1>13. Units("writerSem") \in Nat /\ Units("writerSem")' = Units("writerSem") + Bit(w = 0)
  <2>1. PICK i, j : i \in Nat /\ i = Count("writerSem", {"srel"}) /\ j = Count("writerSem", {"srel"})'
    BY <1>11
  <2>2. j = i + Bit(w = 0)
    BY <1>10, <1>11, <2>1 DEF Bit
  <2>3. sem'["writerSem"] = sem["writerSem"]
    BY <1>3
  <2> QED BY <1>5, <2>1, <2>2, <2>3 DEF Units, Bit
<1>14. Leaving >= 1
  <2>1. {g} \subseteq {h \in G : gr[h].pc = "rdepart"}
    BY <1>1, <1>2
  <2>2. Cardinality({g}) <= Leaving
    BY <2>1, CardSubset DEF Leaving
  <2>3. Cardinality({g}) = 1
    BY FS_Singleton
  <2> QED BY <1>11, <2>2, <2>3
<1>15. AnyWriter
  BY <1>7, <1>14 DEF NoWriter
<1>16. \A h \in G : ~Writes(gr[h], prog.calls[h])
  BY <1>7, <1>14 DEF WriterAt
<1>17. rw'.readerCount = Reading' + Coming' - MaxReaders
  BY <1>6, <1>7, <1>11, <1>12, <1>15 DEF ReadersCounted
<1>18. ASSUME NEW h \in G, gr[h].pc = "wwait"
       PROVE  /\ gr[h].n + rw'.readerWait = Reading' + Leaving' + sem'["readerSem"]
              /\ rw'.readerWait <= 0 /\ Units("writerSem")' = 0
  <2>1. /\ gr[h].n + rw.readerWait = Reading + Leaving + sem["readerSem"]
        /\ rw.readerWait <= 0 /\ Units("writerSem") = 0
    BY <1>7, <1>18 DEF WriterAt, At
  <2>2. gr[h].n \in Int
    BY CallFacts DEF Gr
  <2>3. w < 0
    BY <1>4, <1>5, <2>1
  <2>4. Units("writerSem")' = 0
    BY <1>13, <2>1, <2>3 DEF Bit
  <2>5. gr[h].n + w = Reading + (Leaving - 1) + sem["readerSem"]
    <3>1. PICK n \in Int, v \in Int, i \in Nat, j \in Nat, k \in Nat :
            n = gr[h].n /\ v = rw.readerWait /\ i = Reading /\ j = Leaving /\ k = sem["readerSem"]
      BY <1>5, <1>11, <2>2
    <3>2. n + v = i + j + k /\ w = v - 1
      BY <1>4, <2>1, <3>1
    <3>3. n + w = i + (j - 1) + k
      BY ONLY <3>2, n \in Int, v \in Int, i \in Nat, j \in Nat, k \in Nat
    <3> QED BY <3>1, <3>3
  <2>6. rw'.readerWait = w /\ w <= 0
    BY <1>4, <1>5, <1>6, <2>3
  <2>7. sem'["readerSem"] = sem["readerSem"]
    BY <1>3
  <2> QED BY <1>12, <2>4, <2>5, <2>6, <2>7
<1>19. ASSUME NEW h \in G, SleepsAt(gr[h], "writerSem")
       PROVE  /\ rw'.readerWait = Reading' + Leaving' + sem'["readerSem"]
              /\ Units("writerSem")' = IF rw'.readerWait = 0 THEN 1 ELSE 0
  <2>1. /\ rw.readerWait = Reading + Leaving + sem["readerSem"]
        /\ Units("writerSem") = IF rw.readerWait = 0 THEN 1 ELSE 0
    BY <1>7, <1>19 DEF WriterAt
  <2>2. rw.readerWait >= 1
    BY <1>5, <1>11, <1>14, <2>1
  <2>3. Units("writerSem") = 0
    BY <2>1, <2>2
  <2>4. Units("writerSem")' = IF w = 0 THEN 1 ELSE 0
    BY <1>13, <2>3 DEF Bit
  <2>5. w = Reading + (Leaving - 1) + sem["readerSem"]
    BY <1>4, <1>5, <1>11, <2>1
  <2> QED BY <1>3, <1>6, <1>12, <2>4, <2>5
<1>20. RwInv'
  <2>1. \A h \in G : Writes(gr[h], prog.calls[h]) =>
             /\ Reading' = 0 /\ Leaving' = 0 /\ sem'["readerSem"] = 0 /\ rw'.readerWait = 0 /\ Units("writerSem")' = 0
    BY <1>16
  <2>2. prog' = prog /\ \A h \in G : WriterSame(gr[h], gr'[h], prog.calls[h])
    BY <1>3, <1>11
  <2> QED BY ONLY Before, <1>15, <1>17, <1>18, <1>19, <2>1, <2>2, RwBusy
<1> QED BY <1>11, <1>20 DEF After

(* A writer announces itself, or goes to sleep.                            *)
LEMMA WritingOn ==
    ASSUME NEW cs \in Seq(Calls), WellPaired(cs), NEW r \in Gr, CallOf(r, cs), Writing(r), NEW s, Writing(s), s.ip = r.ip
    PROVE  /\ CallOf(s, cs) /\ ReaderSame(r, s, cs) /\ ~Writes(r, cs) /\ ~Writes(s, cs) /\ Has(r, cs, "w")
           /\ \A x \in {"m", "w"} : Has(s, cs, x) => Has(r, cs, x)
<1>1. \A q \in {r, s} : /\ OnlyIn(q, "WLock") /\ q.pc \notin {"next", "unborn", "runlock", "rdepart", "wunlock", "unlock"}
                        /\ ~LetsIn(q) /\ ~SleepsAt(q, "readerSem") /\ \A a : ~ReleasesOne(q, a)
  BY WritingFacts
<1>2. "WLock" \in LockCalls /\ r.ip \in Nat \ {0}
  BY DEF LockCalls, Gr
<1>3. /\ CallOf(s, cs) /\ CurrentOf(s, cs) = "WLock" /\ CurrentOf(r, cs) = "WLock"
      /\ \A a, b : Between(s, cs, a, b) <=> Between(r, cs, a, b)
  BY <1>1, <1>2, WithinCall
<1>4. ~Between(r, cs, "WLock", "WUnlock")
  <2>1. In(r, "WLock")
    BY <1>1, <1>2 DEF OnlyIn
  <2> QED BY <2>1, <1>1, CallPairs, InNotBetween
<1>5. ~Writes(r, cs) /\ ~Writes(s, cs) /\ (Reads(s, cs) <=> Reads(r, cs))
  BY <1>1, <1>3, <1>4 DEF Reads, Writes
<1>6. ReaderSame(r, s, cs)
  BY <1>1, <1>5 DEF ReaderSame
<1>7. Has(r, cs, "w")
  BY DEF Has, Announced, Writing
<1>8. Has(s, cs, "m") => Has(r, cs, "m")
  BY <1>1, <1>3 DEF Has
<1> QED BY <1>3, <1>5, <1>6, <1>7, <1>8

LEMMA WriterGoesOn ==
    ASSUME Before, NEW g \in G, Writing(gr[g]), NEW s, Writing(s), s.pc # "wannounce", s.ip = gr[g].ip, gr' = [gr EXCEPT ![g] = s],
           UNCHANGED <<prog, mutex, sem>>, rw'.readerCount = Reading + Coming - MaxReaders,
           s.pc = "wwait" => /\ s.n + rw'.readerWait = Reading + Leaving + sem["readerSem"]
                             /\ rw'.readerWait <= 0 /\ Units("writerSem") = 0,
           SleepsAt(s, "writerSem") => /\ rw'.readerWait = Reading + Leaving + sem["readerSem"]
                                       /\ Units("writerSem") = IF rw'.readerWait = 0 THEN 1 ELSE 0
    PROVE  After
<1>1. PICK cs : cs = prog.calls[g]
  OBVIOUS
<1>2. gr[g] \in Gr /\ CallOf(gr[g], cs) /\ cs \in Seq(Calls) /\ WellPaired(cs)
  BY <1>1, CallFacts
<1>3. /\ CallOf(s, cs) /\ ReaderSame(gr[g], s, cs) /\ ~Writes(s, cs) /\ Has(gr[g], cs, "w")
      /\ \A x \in {"m", "w"} : Has(s, cs, x) => Has(gr[g], cs, x)
  BY <1>2, WritingOn
<1>4. CallInv' /\ HasInv'
  <2>1. CallOf(s, cs) /\ \A x \in {"m", "w"} : Has(s, cs, x) => Has(gr[g], cs, x)
    BY <1>3
  <2>2. cs = prog.calls[g] /\ UNCHANGED <<prog, mutex>> /\ gr' = [gr EXCEPT ![g] = s]
    BY <1>1
  <2> QED BY ONLY Before, g \in G, <2>1, <2>2, OneKeeps
<1>5. /\ Reading' = Reading /\ Coming' = Coming /\ Leaving' = Leaving
      /\ Count("writerSem", {"srel"})' = Count("writerSem", {"srel"})
  <2>1. ReaderSame(gr[g], s, prog.calls[g]) /\ prog' = prog /\ gr' = [gr EXCEPT ![g] = s]
    BY <1>1, <1>3
  <2> QED BY ONLY Before, g \in G, <2>1, SameAccounts
<1>6. Units("writerSem")' = Units("writerSem") /\ sem'["readerSem"] = sem["readerSem"]
  BY <1>5 DEF Units
<1>7. gr'[g] = s /\ ~LetsIn(s)
  BY CallFacts, WritingFacts
<1>8. ~Writes(s, prog'.calls[g])
  BY <1>1, <1>3
<1>9. WriterAt(g)'
  <2>1. s.pc = "wwait" => /\ s.n + rw'.readerWait = Reading' + Leaving' + sem'["readerSem"]
                          /\ rw'.readerWait <= 0 /\ Units("writerSem")' = 0
    BY <1>5, <1>6
  <2>2. SleepsAt(s, "writerSem") => /\ rw'.readerWait = Reading' + Leaving' + sem'["readerSem"]
                                    /\ Units("writerSem")' = IF rw'.readerWait = 0 THEN 1 ELSE 0
    BY <1>5, <1>6
  <2> QED BY ONLY <1>7, <1>8, <2>1, <2>2 DEF WriterAt, At
<1>10. /\ Announced(s, prog.calls[g]) /\ Has(gr[g], prog.calls[g], "w") /\ rw'.readerCount = Reading' + Coming' - MaxReaders
       /\ prog' = prog /\ gr' = [gr EXCEPT ![g] = s]
  BY <1>1, <1>3, <1>5 DEF Announced, Writing
<1>11. RwInv'
  BY ONLY Before, g \in G, <1>9, <1>10, OnlyWriter
<1> QED BY <1>4, <1>11 DEF After

LEMMA WAnnounceLocks ==
    ASSUME Before, NEW g \in G, WAnnounce(g)
    PROVE  After
<1>1. PICK r, cs : r = gr[g] /\ cs = prog.calls[g]
  OBVIOUS
<1>2. r \in Gr /\ Wf(r) /\ CallOf(r, cs) /\ cs \in Seq(Calls) /\ WellPaired(cs) /\ r.pc = "wannounce" /\ Writing(r)
  BY <1>1, CallFacts DEF WAnnounce, At, Writing
<1>3. r.k = Top /\ UNCHANGED <<sem, prog, mutex>>
  BY <1>2, BodyFacts DEF WAnnounce, semavars, Body
<1>4. PICK c : c = rw.readerCount
  OBVIOUS
<1>5. /\ rw.readerCount \in Int /\ rw.readerWait \in Int /\ sem["readerSem"] \in Nat /\ sem["writerSem"] \in Nat
      /\ MaxReaders \in Nat /\ Reading \in Nat /\ Coming \in Nat /\ Leaving \in Nat
  BY OtherSems, SyncConstants, ReaderTypes DEF Before, SyncIInv, SyncTypes
<1>6. rw'.readerCount = c - MaxReaders /\ rw'.readerWait = rw.readerWait
  <2>1. PICK d : d = c - MaxReaders
    OBVIOUS
  <2>2. rw' = [rw EXCEPT !.readerCount = d]
    BY <1>4, <2>1 DEF WAnnounce
  <2>3. rw \in [readerCount : Int, readerWait : Int]
    BY DEF Before, SyncIInv, SyncTypes
  <2> QED BY <2>1, <2>2, <2>3
<1>7. ReadersCounted /\ RwInv /\ NoWriter
  BY DEF Before, RwInv
<1>8. Has(r, cs, "w") /\ ~Writes(r, cs)
  BY <1>2, WritingOn
<1>9. ~AnyWriter /\ \A h \in G : ~LetsIn(gr[h])
  <2>1. ~Announced(r, cs) /\ ~LetsIn(r)
    BY <1>2, <1>8 DEF Announced, LetsIn, SleepsAt, Waking, Releasing
  <2>2. \A h \in G : h # g => ~Announced(gr[h], prog.calls[h]) /\ ~LetsIn(gr[h])
    BY <1>1, <1>8, SoleWriter
  <2> QED BY <1>1, <2>1, <2>2 DEF AnyWriter
<1>10. rw.readerWait = 0 /\ Leaving = 0 /\ Units("writerSem") = 0 /\ Coming = sem["readerSem"]
  BY <1>7, <1>9 DEF NoWriter
<1>11. c = Reading + Coming
  BY <1>4, <1>5, <1>7, <1>9 DEF ReadersCounted
<1>12. rw'.readerCount = Reading + Coming - MaxReaders
  BY <1>5, <1>6, <1>11
<1>13. CASE c # 0
  <2>1. PICK s : s = [r EXCEPT !.pc = "wwait", !.n = c]
    OBVIOUS
  <2>2. gr' = [gr EXCEPT ![g] = s]
    BY <1>1, <1>4, <1>13, <2>1 DEF WAnnounce
  <2>3. s.pc = "wwait" /\ s.n = c /\ s.ip = gr[g].ip
    BY <1>1, <1>2, <2>1 DEF Gr
  <2>4. Writing(s) /\ s.pc # "wannounce" /\ ~SleepsAt(s, "writerSem") /\ Writing(gr[g])
    BY <1>1, <1>2, <2>3 DEF Writing, SleepsAt, Waking
  <2>5. s.n + rw'.readerWait = Reading + Leaving + sem["readerSem"] /\ rw'.readerWait <= 0 /\ Units("writerSem") = 0
    BY <1>5, <1>6, <1>10, <1>11, <2>3
  <2>6. UNCHANGED <<prog, mutex, sem>>
    BY <1>3
  <2> QED BY ONLY Before, g \in G, <1>12, <2>2, <2>3, <2>4, <2>5, <2>6, WriterGoesOn
<1>14. CASE c = 0
  <2>1. PICK s : s = Back(r)
    OBVIOUS
  <2>2. gr' = [gr EXCEPT ![g] = s]
    BY <1>1, <1>4, <1>14, <2>1 DEF WAnnounce
  <2>3. s.pc = "next" /\ s.ip = r.ip
    BY <1>2, <1>3, <2>1, BackTop
  <2>4. Reading = 0 /\ Coming = 0
    BY <1>5, <1>11, <1>14
  <2>5. ReaderSame(r, s, cs)
    BY <1>2, <2>3, WLockEnds
  <2>6. Count("writerSem", {"srel"})' = Count("writerSem", {"srel"})
    <3>1. ReaderSame(gr[g], s, prog.calls[g]) /\ prog' = prog
      BY <1>1, <1>3, <2>5
    <3> QED BY ONLY Before, g \in G, <2>2, <3>1, SameAccounts
  <2>7. Units("writerSem")' = 0 /\ sem'["readerSem"] = 0
    BY <1>3, <1>10, <2>4, <2>6 DEF Units
  <2>8. Writing(gr[g]) /\ s.ip = gr[g].ip /\ UNCHANGED <<prog, mutex>> /\ rw'.readerWait = 0
    BY <1>1, <1>2, <1>3, <1>6, <1>10, <2>3
  <2> QED BY ONLY Before, g \in G, <1>10, <1>12, <2>2, <2>3, <2>4, <2>7, <2>8, WriterEnters
<1> QED BY <1>13, <1>14

LEMMA WWaitLocks ==
    ASSUME Before, NEW g \in G, WWait(g)
    PROVE  After
<1>1. PICK r, cs : r = gr[g] /\ cs = prog.calls[g]
  OBVIOUS
<1>2. r \in Gr /\ Wf(r) /\ CallOf(r, cs) /\ cs \in Seq(Calls) /\ WellPaired(cs) /\ r.pc = "wwait" /\ Writing(r)
  BY <1>1, CallFacts DEF WWait, At, Writing
<1>3. r.k = Top /\ UNCHANGED <<sem, prog, mutex>>
  BY <1>2, BodyFacts DEF WWait, semavars, Body
<1>4. PICK w, q : w = rw.readerWait + r.n /\ q = [r EXCEPT !.n = 0]
  OBVIOUS
<1>5. /\ rw.readerCount \in Int /\ rw.readerWait \in Int /\ sem["readerSem"] \in Nat /\ sem["writerSem"] \in Nat
      /\ MaxReaders \in Nat /\ Reading \in Nat /\ Coming \in Nat /\ Leaving \in Nat
  BY OtherSems, SyncConstants, ReaderTypes DEF Before, SyncIInv, SyncTypes
<1>6. rw'.readerCount = rw.readerCount /\ rw'.readerWait = w
  <2>1. rw' = [rw EXCEPT !.readerWait = w]
    BY <1>1, <1>4 DEF WWait
  <2>2. rw \in [readerCount : Int, readerWait : Int]
    BY DEF Before, SyncIInv, SyncTypes
  <2> QED BY <2>1, <2>2
<1>7. ReadersCounted /\ WriterAt(g)
  BY DEF Before, RwInv
<1>8. r.n + rw.readerWait = Reading + Leaving + sem["readerSem"] /\ Units("writerSem") = 0
  BY <1>1, <1>2, <1>7 DEF WriterAt, At
<1>9. w = Reading + Leaving + sem["readerSem"]
  <2>1. r.n \in Int
    BY <1>2 DEF Gr
  <2> QED BY <1>4, <1>5, <1>8, <2>1
<1>10. rw'.readerCount = Reading + Coming - MaxReaders
  <2>1. AnyWriter
    BY <1>1, <1>2 DEF AnyWriter, Announced
  <2> QED BY <1>6, <1>7, <2>1 DEF ReadersCounted
<1>11. q \in Gr /\ q.k = Top /\ q.ip = r.ip
  BY <1>2, <1>3, <1>4 DEF Gr
<1>12. CASE w # 0
  <2>1. PICK s : s = TailAcquire(q, "writerSem")
    OBVIOUS
  <2>2. gr' = [gr EXCEPT ![g] = s]
    BY <1>1, <1>4, <1>12, <2>1 DEF WWait
  <2>3. s.pc = "sacq" /\ s.sa = "writerSem" /\ s.ip = gr[g].ip
    BY <1>1, <1>11, <2>1, TailAcquireShape
  <2>4. Writing(s) /\ s.pc # "wannounce" /\ s.pc # "wwait" /\ Writing(gr[g])
    BY <1>1, <1>2, <2>3 DEF Writing, SleepsAt, Waking
  <2>5. rw'.readerWait = Reading + Leaving + sem["readerSem"] /\ Units("writerSem") = IF rw'.readerWait = 0 THEN 1 ELSE 0
    BY <1>6, <1>8, <1>9, <1>12
  <2>6. UNCHANGED <<prog, mutex, sem>>
    BY <1>3
  <2> QED BY ONLY Before, g \in G, <1>10, <2>2, <2>3, <2>4, <2>5, <2>6, WriterGoesOn
<1>13. CASE w = 0
  <2>1. PICK s : s = Back(q)
    OBVIOUS
  <2>2. gr' = [gr EXCEPT ![g] = s]
    BY <1>1, <1>4, <1>13, <2>1 DEF WWait
  <2>3. s.pc = "next" /\ s.ip = r.ip
    BY <1>11, <2>1, BackTop
  <2>4. Reading = 0 /\ Leaving = 0 /\ sem["readerSem"] = 0
    <3>1. PICK i \in Nat, j \in Nat, l \in Nat : i = Reading /\ j = Leaving /\ l = sem["readerSem"]
      BY <1>5
    <3>2. i + j + l = 0
      BY <1>9, <1>13, <3>1
    <3>3. i = 0 /\ j = 0 /\ l = 0
      BY <3>2
    <3> QED BY <3>1, <3>3
  <2>5. ReaderSame(r, s, cs)
    BY <1>2, <2>3, WLockEnds
  <2>6. Count("writerSem", {"srel"})' = Count("writerSem", {"srel"})
    <3>1. ReaderSame(gr[g], s, prog.calls[g]) /\ prog' = prog
      BY <1>1, <1>3, <2>5
    <3> QED BY ONLY Before, g \in G, <2>2, <3>1, SameAccounts
  <2>7. Units("writerSem")' = 0 /\ sem'["readerSem"] = 0
    BY <1>3, <1>8, <2>4, <2>6 DEF Units
  <2>8. Writing(gr[g]) /\ s.ip = gr[g].ip /\ UNCHANGED <<prog, mutex>> /\ rw'.readerWait = 0
    BY <1>1, <1>2, <1>3, <1>6, <1>13, <2>3
  <2> QED BY ONLY Before, g \in G, <1>10, <2>2, <2>3, <2>4, <2>7, <2>8, WriterEnters
<1> QED BY <1>12, <1>13

(* A writer leaves: it lets the readers in, and hands over the Mutex.      *)
LetsGo(r) == r.pc = "wunlock" \/ LetsIn(r) \/ (r.pc = "unlock" /\ r.mu = "w")

LEMMA LetsGoIn ==
    ASSUME NEW r, LetsGo(r)
    PROVE  /\ OnlyIn(r, "WUnlock") /\ r.pc \notin {"next", "unborn", "runlock", "rdepart", "wannounce", "wwait"}
           /\ (\A a : ~SleepsAt(r, a)) /\ ~ReleasesOne(r, "writerSem")
           /\ r.pc = "unlock" => ~LetsIn(r)
<1>1. CASE r.pc \in {"wunlock", "wrelease"}
  <2>1. OnlyIn(r, "WUnlock")
    <3>1. r.pc \in Body \cup {"yrel", "yacq"}
      BY <1>1 DEF Body
    <3> QED BY <1>1, <3>1, InBodyPlaces DEF OnlyIn, LockCalls
  <2> QED BY <1>1, <2>1 DEF SleepsAt, Waking, ReleasesOne, LetsIn
<1>2. CASE r.pc \in Releasing /\ r.sa = "readerSem"
  <2>1. OnlyIn(r, "WUnlock")
    BY <1>2, InReleasing DEF OnlyIn, LockCalls
  <2> QED BY <1>2, <2>1 DEF SleepsAt, Waking, ReleasesOne, LetsIn, Releasing
<1>3. CASE r.pc = "unlock" /\ r.mu = "w"
  <2>1. OnlyIn(r, "WUnlock")
    <3>1. r.pc \in Unlocking
      BY <1>3 DEF Unlocking
    <3> QED BY <1>3, <3>1, InUnlocking DEF OnlyIn, LockCalls
  <2> QED BY <1>3, <2>1 DEF SleepsAt, Waking, ReleasesOne, LetsIn, Releasing
<1> QED BY <1>1, <1>2, <1>3 DEF LetsGo, LetsIn

LEMMA LetsGoOn ==
    ASSUME NEW cs \in Seq(Calls), WellPaired(cs), NEW r \in Gr, CallOf(r, cs), LetsGo(r), NEW s, LetsGo(s), s.pc # "wunlock",
           s.ip = r.ip
    PROVE  /\ CallOf(s, cs) /\ ~Announced(s, cs) /\ Has(r, cs, "w") /\ (Reads(s, cs) <=> Reads(r, cs))
           /\ \A x \in {"m", "w"} : Has(s, cs, x) => Has(r, cs, x)
<1>1. \A q \in {r, s} : /\ OnlyIn(q, "WUnlock") /\ q.pc \notin {"next", "unborn", "runlock", "rdepart", "wannounce", "wwait"}
                        /\ (\A a : ~SleepsAt(q, a)) /\ (q.pc = "unlock" => ~LetsIn(q))
  BY LetsGoIn
<1>2. "WUnlock" \in LockCalls /\ r.ip \in Nat \ {0}
  BY DEF LockCalls, Gr
<1>3. /\ CallOf(s, cs) /\ CurrentOf(s, cs) = "WUnlock" /\ CurrentOf(r, cs) = "WUnlock"
      /\ \A a, b : Between(s, cs, a, b) <=> Between(r, cs, a, b)
  BY <1>1, <1>2, WithinCall
<1>4. ~Between(r, cs, "WLock", "WUnlock")
  <2>1. In(r, "WUnlock")
    BY <1>1, <1>2 DEF OnlyIn
  <2> QED BY <2>1, <1>1, CallPairs, InNotBetween
<1>5. ~Writes(s, cs) /\ (Reads(s, cs) <=> Reads(r, cs))
  BY <1>1, <1>3, <1>4 DEF Reads, Writes
<1>6. ~Announced(s, cs)
  BY <1>1, <1>5 DEF Announced
<1>7. Has(r, cs, "w")
  BY DEF Has, Announced, Writes, LetsGo
<1>8. Has(s, cs, "m") => Has(r, cs, "m")
  BY <1>1, <1>3 DEF Has, LetsGo
<1> QED BY <1>3, <1>5, <1>6, <1>7, <1>8

LEMMA WriterLeaves ==
    ASSUME Before, NEW g \in G, Has(gr[g], prog.calls[g], "w"), NEW s, gr' = [gr EXCEPT ![g] = s], prog' = prog,
           ~Announced(s, prog.calls[g]), rw'.readerCount = Reading' + Coming', rw'.readerWait = 0, Leaving' = 0,
           Units("writerSem")' = 0, LetsIn(s) => s.n >= 0 /\ Coming' = Units("readerSem")' + s.n,
           ~LetsIn(s) => Coming' = sem'["readerSem"]
    PROVE  RwInv'
<1>1. gr'[g] = s /\ \A h \in G : h # g => gr'[h] = gr[h]
  BY OneStep
<1>2. \A h \in G : h # g => ~Announced(gr'[h], prog'.calls[h]) /\ ~LetsIn(gr'[h])
  BY <1>1, SoleWriter
<1>3. ~AnyWriter'
  BY <1>1, <1>2 DEF AnyWriter
<1>4. Reading' \in Nat /\ Coming' \in Nat
  BY OneStep
<1>5. ReadersCounted'
  BY <1>3, <1>4 DEF ReadersCounted
<1>6. NoWriter'
  <2>1. (\A h \in G : ~LetsIn(gr'[h])) => ~LetsIn(s)
    BY <1>1
  <2> QED BY <2>1 DEF NoWriter
<1>7. ASSUME NEW h \in G PROVE WriterAt(h)'
  <2>1. ~Announced(gr'[h], prog'.calls[h])
    BY <1>1, <1>2
  <2>2. LetsIn(gr'[h]) => gr'[h].n >= 0 /\ Coming' = Units("readerSem")' + gr'[h].n
    BY <1>1, <1>2
  <2> QED BY <2>1, <2>2 DEF WriterAt, Announced, At
<1> QED BY <1>5, <1>6, <1>7 DEF RwInv

LEMMA WUnlockLocks ==
    ASSUME Before, NEW g \in G, WUnlock(g)
    PROVE  After
<1>1. PICK r, cs, c : r = gr[g] /\ cs = prog.calls[g] /\ c = rw.readerCount + MaxReaders
  OBVIOUS
<1>2. r \in Gr /\ CallOf(r, cs) /\ cs \in Seq(Calls) /\ WellPaired(cs) /\ r.pc = "wunlock"
  BY <1>1, CallFacts DEF WUnlock, At
<1>3. UNCHANGED <<sem, prog, mutex>>
  BY DEF WUnlock, semavars
<1>4. PICK s : s = [r EXCEPT !.pc = "wrelease", !.n = c]
  OBVIOUS
<1>5. gr' = [gr EXCEPT ![g] = s]
  BY <1>1, <1>4, Zenon DEF WUnlock
<1>6. s.pc = "wrelease" /\ s.n = c /\ s.ip = r.ip
  BY <1>2, <1>4 DEF Gr
<1>7. /\ rw.readerCount \in Int /\ rw.readerWait \in Int /\ sem["readerSem"] \in Nat /\ sem["writerSem"] \in Nat
      /\ MaxReaders \in Nat /\ Reading \in Nat /\ Coming \in Nat /\ Leaving \in Nat
  BY OtherSems, SyncConstants, ReaderTypes DEF Before, SyncIInv, SyncTypes
<1>8. rw'.readerCount = c /\ rw'.readerWait = rw.readerWait
  <2>1. rw' = [rw EXCEPT !.readerCount = c]
    BY <1>1 DEF WUnlock
  <2>2. rw \in [readerCount : Int, readerWait : Int]
    BY DEF Before, SyncIInv, SyncTypes
  <2> QED BY <2>1, <2>2
<1>9. LetsGo(r) /\ LetsGo(s) /\ LetsIn(s) /\ s.pc # "wunlock"
  BY <1>2, <1>6 DEF LetsGo, LetsIn
<1>10. /\ CallOf(s, cs) /\ ~Announced(s, cs) /\ Has(r, cs, "w") /\ (Reads(s, cs) <=> Reads(r, cs))
       /\ \A x \in {"m", "w"} : Has(s, cs, x) => Has(r, cs, x)
  BY <1>2, <1>6, <1>9, LetsGoOn
<1>11. CallInv' /\ HasInv'
  <2>1. CallOf(s, cs) /\ \A x \in {"m", "w"} : Has(s, cs, x) => Has(gr[g], cs, x)
    BY <1>1, <1>10
  <2>2. cs = prog.calls[g] /\ UNCHANGED <<prog, mutex>>
    BY <1>1, <1>3
  <2> QED BY ONLY Before, g \in G, <1>5, <2>1, <2>2, OneKeeps
<1>12. ReaderSame(r, s, cs)
  BY <1>2, <1>6, <1>10 DEF ReaderSame, SleepsAt, Waking, ReleasesOne
<1>13. /\ Reading' = Reading /\ Coming' = Coming /\ Leaving' = Leaving
       /\ \A a \in {"readerSem", "writerSem"} : Count(a, {"srel"})' = Count(a, {"srel"})
  <2>1. ReaderSame(gr[g], s, prog.calls[g]) /\ prog' = prog
    BY <1>1, <1>3, <1>12
  <2> QED BY ONLY Before, g \in G, <1>5, <2>1, SameAccounts
<1>14. /\ Reading = 0 /\ Leaving = 0 /\ sem["readerSem"] = 0
       /\ rw.readerWait = 0 /\ Units("writerSem") = 0
  <2>1. Writes(gr[g], prog.calls[g])
    BY <1>1, <1>2 DEF Writes
  <2> QED BY <2>1 DEF Before, RwInv, WriterAt
<1>15. rw.readerCount = Reading + Coming - MaxReaders
  <2>1. AnyWriter
    BY <1>1, <1>2 DEF AnyWriter, Announced, Writes
  <2> QED BY <2>1 DEF Before, RwInv, ReadersCounted
<1>16. c = Coming
  BY <1>1, <1>7, <1>14, <1>15
<1>17. Units("readerSem") = 0
  <2>1. ~LetsIn(gr[g])
    BY <1>1, <1>2 DEF LetsIn, Releasing
  <2>2. \A h \in G : h # g => ~LetsIn(gr[h])
    BY <1>1, <1>10, SoleWriter
  <2>3. \A h \in G : ~LetsIn(gr[h])
    BY <2>1, <2>2
  <2> QED BY <1>14, <2>3, NoRelease
<1>18. Units("readerSem")' = 0 /\ Units("writerSem")' = 0
  BY <1>3, <1>13, <1>14, <1>17 DEF Units
<1>19. /\ rw'.readerCount = Reading' + Coming' /\ rw'.readerWait = 0 /\ Leaving' = 0
       /\ s.n >= 0 /\ Coming' = Units("readerSem")' + s.n
  BY <1>6, <1>7, <1>8, <1>13, <1>14, <1>16, <1>18
<1>20. RwInv'
  <2>1. Has(gr[g], prog.calls[g], "w") /\ prog' = prog /\ ~Announced(s, prog.calls[g]) /\ LetsIn(s)
    BY <1>1, <1>3, <1>9, <1>10
  <2> QED BY ONLY Before, g \in G, <1>5, <1>18, <1>19, <2>1, WriterLeaves
<1> QED BY <1>11, <1>20 DEF After

LEMMA WReleaseLocks ==
    ASSUME Before, NEW g \in G, WRelease(g)
    PROVE  After
<1>1. PICK r, cs : r = gr[g] /\ cs = prog.calls[g]
  OBVIOUS
<1>2. r \in Gr /\ Wf(r) /\ CallOf(r, cs) /\ cs \in Seq(Calls) /\ WellPaired(cs) /\ r.pc = "wrelease" /\ LetsIn(gr[g])
  BY <1>1, CallFacts DEF WRelease, At, LetsIn
<1>3. UNCHANGED <<sem, prog, mutex, rw>>
  BY DEF WRelease, semavars, syncvars
<1>4. r.n >= 0 /\ r.n \in Int /\ Coming = Units("readerSem") + r.n
  BY <1>1, <1>2 DEF Before, RwInv, WriterAt, Gr
<1>5. PICK s : s = IF r.n > 0 THEN CallRelease([r EXCEPT !.n = r.n - 1], "readerSem", "wrelease")
                             ELSE TailUnlock([r EXCEPT !.n = 0], "w")
  OBVIOUS
<1>6. gr' = [gr EXCEPT ![g] = s]
  BY <1>1, <1>5, Zenon DEF WRelease
<1>7. r.n > 0 => s.pc = "srel" /\ s.sa = "readerSem" /\ s.n = r.n - 1 /\ s.ip = r.ip
  BY <1>2, <1>4, <1>5 DEF CallRelease, CallTo, Gr
<1>8. r.n = 0 => s.pc = "unlock" /\ s.mu = "w" /\ s.ip = r.ip
  BY <1>2, <1>5 DEF TailUnlock, Gr
<1>9. LetsGo(r) /\ LetsGo(s) /\ s.pc # "wunlock" /\ s.ip = r.ip /\ (LetsIn(s) <=> r.n > 0)
  BY <1>2, <1>4, <1>7, <1>8 DEF LetsGo, LetsIn, Releasing
<1>10. /\ CallOf(s, cs) /\ ~Announced(s, cs) /\ Has(r, cs, "w") /\ (Reads(s, cs) <=> Reads(r, cs))
       /\ \A x \in {"m", "w"} : Has(s, cs, x) => Has(r, cs, x)
  BY <1>2, <1>9, LetsGoOn
<1>11. CallInv' /\ HasInv'
  <2>1. CallOf(s, cs) /\ \A x \in {"m", "w"} : Has(s, cs, x) => Has(gr[g], cs, x)
    BY <1>1, <1>10
  <2>2. cs = prog.calls[g] /\ UNCHANGED <<prog, mutex>>
    BY <1>1, <1>3
  <2> QED BY ONLY Before, g \in G, <1>6, <2>1, <2>2, OneKeeps
<1>12. ~AnyWriter /\ \A h \in G : LetsIn(gr[h]) => h = g
  BY <1>2, LetsInAlone DEF Before, SyncIInv
<1>13. /\ Reading \in Nat /\ Coming \in Nat /\ Leaving \in Nat
       /\ Reading' = Reading - Bit(Reads(r, cs)) + Bit(Reads(s, cs))
       /\ Coming' = Coming - Bit(SleepsAt(r, "readerSem")) + Bit(SleepsAt(s, "readerSem"))
       /\ Leaving' = Leaving - Bit(r.pc = "rdepart") + Bit(s.pc = "rdepart")
       /\ \A a \in {"readerSem", "writerSem"} :
            /\ Count(a, {"srel"}) \in Nat
            /\ Count(a, {"srel"})' = Count(a, {"srel"}) - Bit(ReleasesOne(r, a)) + Bit(ReleasesOne(s, a))
  BY <1>1, <1>3, <1>6, OneStep
<1>14. /\ \A q \in {r, s} : /\ q.pc # "rdepart" /\ ~SleepsAt(q, "readerSem") /\ ~ReleasesOne(q, "writerSem")
       /\ ~ReleasesOne(r, "readerSem") /\ (ReleasesOne(s, "readerSem") <=> r.n > 0)
  <2>1. \A q \in {r, s} : /\ q.pc # "rdepart" /\ ~SleepsAt(q, "readerSem") /\ ~ReleasesOne(q, "writerSem")
    BY <1>9, LetsGoIn
  <2>2. ~ReleasesOne(r, "readerSem") /\ (ReleasesOne(s, "readerSem") <=> r.n > 0)
    BY <1>2, <1>4, <1>7, <1>8 DEF ReleasesOne
  <2> QED BY <2>1, <2>2
<1>15. Reading' = Reading /\ Coming' = Coming /\ Leaving' = Leaving
  <2>1. Reading' = Reading
    BY <1>10, <1>13 DEF Bit
  <2>2. Coming' = Coming
    BY <1>13, <1>14 DEF Bit
  <2>3. Leaving' = Leaving
    BY <1>13, <1>14 DEF Bit
  <2> QED BY <2>1, <2>2, <2>3
<1>16. sem["readerSem"] \in Nat /\ sem["writerSem"] \in Nat
  BY OtherSems DEF Before, SyncIInv, SyncTypes
<1>17. Units("writerSem")' = Units("writerSem")
  <2>1. PICK i, j : i = Count("writerSem", {"srel"}) /\ j = Count("writerSem", {"srel"})'
    OBVIOUS
  <2>2. i \in Nat /\ j = i
    BY <1>13, <1>14, <2>1 DEF Bit
  <2> QED BY <1>3, <2>1, <2>2 DEF Units
<1>18. Units("readerSem") = sem["readerSem"] /\ Units("readerSem")' = sem["readerSem"] + Bit(r.n > 0)
  <2>1. PICK i, j : i = Count("readerSem", {"srel"}) /\ j = Count("readerSem", {"srel"})'
    OBVIOUS
  <2>2. i \in Nat /\ j = i + Bit(r.n > 0)
    BY <1>13, <1>14, <2>1 DEF Bit
  <2>3. i = 0
    <3>1. \A h \in G : ~ReleasesOne(gr[h], "readerSem")
      BY <1>1, <1>12, <1>14 DEF ReleasesOne, LetsIn, Releasing
    <3>2. {h \in G : gr[h].pc \in {"srel"} /\ gr[h].sa = "readerSem"} = {}
      BY <3>1 DEF ReleasesOne
    <3> QED BY <2>1, <3>2, FS_EmptySet DEF Count
  <2> QED BY <1>3, <1>16, <2>1, <2>2, <2>3 DEF Units, Bit
<1>19. rw'.readerCount = Reading' + Coming' /\ rw'.readerWait = 0 /\ Leaving' = 0 /\ Units("writerSem")' = 0
  <2>1. rw.readerWait = 0 /\ Leaving = 0 /\ Units("writerSem") = 0
    BY <1>12 DEF Before, RwInv, NoWriter
  <2>2. rw.readerCount = Reading + Coming
    BY <1>12, <1>13 DEF Before, RwInv, ReadersCounted
  <2> QED BY <1>3, <1>15, <1>17, <2>1, <2>2
<1>20. /\ LetsIn(s) => s.n >= 0 /\ Coming' = Units("readerSem")' + s.n
       /\ ~LetsIn(s) => Coming' = sem'["readerSem"]
  <2>1. CASE r.n > 0
    <3>1. s.n = r.n - 1 /\ Units("readerSem")' = sem["readerSem"] + 1
      BY <1>7, <1>18, <2>1 DEF Bit
    <3> QED BY <1>4, <1>9, <1>15, <1>16, <1>18, <2>1, <3>1
  <2>2. CASE r.n = 0
    BY <1>3, <1>4, <1>9, <1>15, <1>16, <1>18, <2>2
  <2> QED BY <1>4, <2>1, <2>2
<1>21. RwInv'
  <2>1. Has(gr[g], prog.calls[g], "w") /\ prog' = prog /\ ~Announced(s, prog.calls[g])
    BY <1>1, <1>3, <1>10
  <2> QED BY ONLY Before, g \in G, <1>6, <1>19, <1>20, <2>1, WriterLeaves
<1> QED BY <1>11, <1>21 DEF After

(***************************************************************************)
(* Every step, the first state, and the invariant.                         *)
(***************************************************************************)
LEMMA RWLocks ==
    ASSUME Before, NEW g \in G, RWStep(g)
    PROVE  After
<1>1. CASE RLock(g) \/ RUnlock(g) \/ RDepart(g)
  BY <1>1, RLockLocks, RUnlockLocks, RDepartLocks
<1>2. CASE WAnnounce(g) \/ WWait(g)
  BY <1>2, WAnnounceLocks, WWaitLocks
<1>3. CASE WUnlock(g) \/ WRelease(g)
  BY <1>3, WUnlockLocks, WReleaseLocks
<1> QED BY <1>1, <1>2, <1>3 DEF RWStep

LEMMA StepLocks ==
    ASSUME Before, NEW g \in G, Step(g)
    PROVE  After
<1>1. CASE SemaStep(g) /\ UNCHANGED <<prog, syncvars, panicked>>
  BY <1>1, SemaLocks
<1>2. CASE MutexStep(g) \/ RWStep(g)
  BY <1>2, MutexLocks, RWLocks
<1>3. CASE Begin(g) \/ WgStep(g)
  BY <1>3, BeginLocks, WgLocks
<1>4. CASE CondStep(g) \/ OnceStep(g)
  BY <1>4, CondLocks, OnceLocks
<1> QED BY <1>1, <1>2, <1>3, <1>4 DEF Step

LEMMA ProgStays ==
    ASSUME NEW g \in G, Step(g)
    PROVE  prog' = prog
<1>1. CASE SemaStep(g) /\ UNCHANGED <<prog, syncvars, panicked>>
  BY <1>1
<1>2. CASE Begin(g)
  BY <1>2 DEF Begin
<1>3. CASE MutexStep(g)
  BY <1>3 DEF MutexStep, LockFast, LockRead, LockCas, UnlockAdd, UnlockCas, UnlockRead
<1>4. CASE RWStep(g)
  BY <1>4 DEF RWStep, RLock, RUnlock, RDepart, WAnnounce, WWait, WUnlock, WRelease
<1>5. CASE WgStep(g)
  BY <1>5 DEF WgStep, AddCount, AddLook, AddWake, WaitFast, WaitAdd, WaitLook, WaitUndo, WaitSleep
<1>6. CASE CondStep(g)
  BY <1>6 DEF CondStep, CondWait, CondSleep, CondRelock, SetReady, SignalLoad, SignalCas
<1>7. CASE OnceStep(g)
  BY <1>7 DEF OnceStep, DoFast, DoSlow, FReturns, FPanics, DoStore
<1> QED BY <1>1, <1>2, <1>3, <1>4, <1>5, <1>6, <1>7 DEF Step

LEMMA InitNobody ==
    ASSUME Init, NEW g \in G
    PROVE  LET r == gr[g] cs == prog.calls[g]
           IN  /\ CallOf(r, cs) /\ ~Reads(r, cs) /\ ~Announced(r, cs) /\ ~LetsIn(r) /\ r.pc # "rdepart"
               /\ (\A x : ~Has(r, cs, x)) /\ \A a : ~SleepsAt(r, a) /\ ~ReleasesOne(r, a)
<1>1. PICK r, cs : r = gr[g] /\ cs = prog.calls[g]
  OBVIOUS
<1>2. r.pc \in {"next", "unborn"} /\ r.ip = 1
  BY <1>1 DEF Init, Idle
<1>3. cs \in Seq(Calls)
  BY <1>1, SyncConstants DEF Init
<1>4. CallOf(r, cs)
  BY <1>2, <1>3 DEF CallOf
<1>5. ASSUME NEW a, NEW b PROVE ~Between(r, cs, a, b)
  <2>1. PICK n \in Int : n = Past(r) /\ n <= 0
    BY <1>2 DEF Past
  <2>2. 1 .. n = {}
    BY <2>1
  <2>3. Times(cs, n, a) = 0 /\ Times(cs, n, b) = 0
    BY <2>2, FS_EmptySet DEF Times
  <2> QED BY <2>1, <2>3 DEF Between
<1>6. ~LetsIn(r) /\ r.pc # "rdepart" /\ \A a : ~SleepsAt(r, a) /\ ~ReleasesOne(r, a)
  BY <1>2 DEF LetsIn, SleepsAt, Waking, Releasing, ReleasesOne
<1>7. ~Reads(r, cs) /\ ~Announced(r, cs)
  BY <1>2, <1>5, <1>6 DEF Reads, Announced, Writes
<1>8. ASSUME NEW x PROVE ~Has(r, cs, x)
  BY <1>2, <1>5, <1>6, <1>7 DEF Has
<1> QED BY <1>1, <1>4, <1>6, <1>7, <1>8

LEMMA InitLocks ==
    ASSUME Init
    PROVE  CallInv /\ HasInv /\ RwInv
<1>1. \A g \in G : LET r == gr[g] cs == prog.calls[g]
                   IN  /\ CallOf(r, cs) /\ ~Reads(r, cs) /\ ~Announced(r, cs) /\ ~LetsIn(r) /\ r.pc # "rdepart"
                       /\ (\A x : ~Has(r, cs, x)) /\ \A a : ~SleepsAt(r, a) /\ ~ReleasesOne(r, a)
  BY InitNobody
<1>2. CallInv /\ HasInv
  BY <1>1 DEF CallInv, HasInv
<1>3. Reading = 0 /\ Coming = 0 /\ Leaving = 0
  <2>1. {g \in G : Reads(gr[g], prog.calls[g])} = {} /\ {g \in G : SleepsAt(gr[g], "readerSem")} = {}
        /\ {g \in G : gr[g].pc = "rdepart"} = {}
    BY <1>1
  <2> QED BY <2>1, FS_EmptySet DEF Reading, Coming, Leaving
<1>4. sem["readerSem"] = 0 /\ sem["writerSem"] = 0
  BY OtherSems DEF Init, SemaInit
<1>5. Units("writerSem") = 0
  <2>1. {g \in G : gr[g].sa = "writerSem" /\ gr[g].pc \in {"srel"}} = {}
    BY <1>1 DEF ReleasesOne
  <2> QED BY <1>4, <2>1, FS_EmptySet DEF Units, Count
<1>6. ~AnyWriter
  BY <1>1 DEF AnyWriter
<1>7. rw.readerCount = 0 /\ rw.readerWait = 0
  BY DEF Init
<1>8. ReadersCounted /\ NoWriter
  BY <1>3, <1>4, <1>5, <1>6, <1>7 DEF ReadersCounted, NoWriter
<1>9. \A g \in G : WriterAt(g)
  BY <1>1 DEF WriterAt, Announced, At
<1> QED BY <1>2, <1>8, <1>9 DEF RwInv

LEMMA LockInvAlways == Spec => [](SyncIInv /\ LockInv)
<1>1. Init => LockInv
  BY InitLocks DEF LockInv
<1>2. SyncIInv /\ LockInv /\ [Next]_vars => LockInv'
  <2>1. ASSUME SyncIInv, LockInv, NEW g \in G, Step(g) PROVE LockInv'
    <3>1. Disciplined' <=> Disciplined
      BY <2>1, ProgStays DEF Disciplined
    <3>2. Disciplined => After
      BY <2>1, StepLocks DEF LockInv, Before
    <3> QED BY <3>1, <3>2 DEF LockInv, After
  <2>2. ASSUME LockInv, UNCHANGED vars PROVE LockInv'
    <3>1. UNCHANGED <<gr, sem, prog, mutex, rw>>
      BY <2>2 DEF vars, semavars, syncvars
    <3>2. Disciplined' <=> Disciplined
      BY <3>1 DEF Disciplined
    <3>3. CallInv /\ HasInv => CallInv' /\ HasInv'
      BY <3>1 DEF CallInv, HasInv
    <3>4. Reading' = Reading /\ Coming' = Coming /\ Leaving' = Leaving /\ (AnyWriter' <=> AnyWriter) /\ \A a : Units(a)' = Units(a)
      BY <3>1 DEF Reading, Coming, Leaving, AnyWriter, Units, Count
    <3>5. RwInv => RwInv'
      BY <3>1, <3>4 DEF RwInv, ReadersCounted, NoWriter, WriterAt, At
    <3> QED BY <2>2, <3>2, <3>3, <3>5 DEF LockInv
  <2> QED BY <2>1, <2>2 DEF Next
<1> QED BY <1>1, <1>2, SyncIInvAlways, PTL DEF Spec

(***************************************************************************)
(* The locks exclude whom they should.                                     *)
(***************************************************************************)
LEMMA AtMostOne ==
    ASSUME NEW S \in SUBSET G, \A g, h \in S : g = h
    PROVE  Cardinality(S) <= 1
<1>1. CASE S = {}
  BY <1>1, FS_EmptySet
<1>2. CASE S # {}
  <2>1. PICK g : S = {g}
    BY <1>2
  <2>2. Cardinality(S) = 1
    BY <2>1, FS_Singleton
  <2> QED BY <2>2
<1> QED BY <1>1, <1>2

LEMMA NobodyIn ==
    ASSUME NEW S \in SUBSET G, Cardinality(S) = 0
    PROVE  S = {}
<1>1. IsFiniteSet(S)
  BY FS_Subset, SyncConstants
<1> QED BY <1>1, FS_EmptySet

LEMMA ExcludesAll ==
    ASSUME Before
    PROVE  Exclusion
<1>1. \A g \in Holders : Has(gr[g], prog.calls[g], "m")
  BY DEF Holders, HasBetween, Current, Has, At
<1>2. \A g \in Writers : Writes(gr[g], prog.calls[g]) /\ Has(gr[g], prog.calls[g], "w")
  BY DEF Writers, HasBetween, Has, Announced, Writes
<1>3. Holders \in SUBSET G /\ Writers \in SUBSET G
  BY DEF Holders, Writers, HasBetween
<1>4. \A x \in {"m", "w"} : \A g, h \in G : Has(gr[g], prog.calls[g], x) /\ Has(gr[h], prog.calls[h], x) => g = h
  BY DEF Before, HasInv
<1>5. Cardinality(Holders) <= 1
  <2>1. \A g, h \in Holders : g = h
    BY <1>1, <1>3, <1>4
  <2> QED BY <1>3, <2>1, AtMostOne
<1>6. Cardinality(Writers) <= 1
  <2>1. \A g, h \in Writers : g = h
    BY <1>2, <1>3, <1>4
  <2> QED BY <1>3, <2>1, AtMostOne
<1>7. ASSUME Writers # {} PROVE Readers = {}
  <2>1. PICK g \in Writers : TRUE
    BY <1>7
  <2>2. g \in G /\ Writes(gr[g], prog.calls[g]) /\ WriterAt(g)
    BY <1>2, <1>3, <2>1 DEF Before, RwInv
  <2>3. Reading = 0
    BY <2>2 DEF WriterAt
  <2>4. {h \in G : Reads(gr[h], prog.calls[h])} = {}
    BY <2>3, NobodyIn DEF Reading
  <2> QED BY <2>4 DEF Readers, HasBetween, Reads
<1> QED BY <1>5, <1>6, <1>7 DEF Exclusion

LEMMA AccountsReaders ==
    ASSUME Before
    PROVE  ReadersAccounted
<1> SUFFICES ASSUME Count("writerSem", Waking) > 0
             PROVE  \/ sem["writerSem"] + Count("writerSem", {"srel"}) = 1
                    \/ /\ rw.readerWait > 0
                       /\ rw.readerWait = sem["readerSem"] +
                            Cardinality(Readers \cup {g \in G : gr[g].pc \in {"rdepart", "runlock"}})
  BY DEF ReadersAccounted
<1>1. PICK g \in G : SleepsAt(gr[g], "writerSem")
  <2>1. {g \in G : gr[g].sa = "writerSem" /\ gr[g].pc \in Waking} # {}
    <3>1. SUFFICES ASSUME {g \in G : gr[g].sa = "writerSem" /\ gr[g].pc \in Waking} = {} PROVE FALSE
      OBVIOUS
    <3> QED BY <3>1, FS_EmptySet DEF Count
  <2> QED BY <2>1 DEF SleepsAt
<1>2. /\ rw.readerWait = Reading + Leaving + sem["readerSem"]
      /\ Units("writerSem") = IF rw.readerWait = 0 THEN 1 ELSE 0
  BY <1>1 DEF Before, RwInv, WriterAt
<1>3. CASE rw.readerWait = 0
  BY <1>2, <1>3 DEF Units
<1>4. CASE rw.readerWait # 0
  <2> DEFINE R == {h \in G : Reads(gr[h], prog.calls[h])}
             L == {h \in G : gr[h].pc = "rdepart"}
  <2>1. Readers \cup {h \in G : gr[h].pc \in {"rdepart", "runlock"}} = R \cup L
    BY DEF Readers, HasBetween, Reads
  <2>2. R \cap L = {}
    <3>1. ASSUME NEW h \in G, gr[h].pc = "rdepart" PROVE ~Reads(gr[h], prog.calls[h])
      <4>1. PICK r, cs : r = gr[h] /\ cs = prog.calls[h]
        OBVIOUS
      <4>2. r \in Gr /\ CallOf(r, cs) /\ cs \in Seq(Calls) /\ WellPaired(cs)
        BY <4>1, CallFacts
      <4>3. r.pc = "rdepart" /\ In(r, "RUnlock")
        BY <3>1, <4>1 DEF In
      <4>4. ~Between(r, cs, "RLock", "RUnlock")
        BY <4>2, <4>3, CallPairs, InNotBetween
      <4> QED BY <4>1, <4>3, <4>4 DEF Reads
    <3> QED BY <3>1
  <2>3. IsFiniteSet(R) /\ IsFiniteSet(L)
    BY FS_Subset, SyncConstants
  <2>4. Cardinality(R \cup L) = Reading + Leaving - Cardinality({})
    BY <2>2, <2>3, FS_Union DEF Reading, Leaving
  <2>5. Reading \in Nat /\ Leaving \in Nat /\ sem["readerSem"] \in Nat /\ rw.readerWait \in Int
    BY ReaderTypes, OtherSems DEF Before, SyncIInv, SyncTypes
  <2>6. Cardinality(R \cup L) = Reading + Leaving
    BY <2>4, <2>5, FS_EmptySet
  <2>7. rw.readerWait = sem["readerSem"] + Cardinality(R \cup L) /\ rw.readerWait > 0
    BY <1>2, <1>4, <2>5, <2>6
  <2> QED BY <2>1, <2>7
<1> QED BY <1>3, <1>4

(* Mutex and RWMutex (src/src/pkg/sync/mutex.go, rwmutex.go) exclude whom  *)
(* they should: in every program whose goroutines call Lock and Unlock in  *)
(* turn, with any number of goroutines and calls, at most one goroutine    *)
(* has a Mutex, through the fast path, the semaphore or Cond's relocking;  *)
(* a writer has the RWMutex alone; and a writer that waits in Lock waits   *)
(* for exactly the readers that were there before it, or the last of them  *)
(* is releasing it.                                                        *)
THEOREM LocksAreSafe == Spec => [](Disciplined => LocksSafe)
<1>1. SyncIInv /\ LockInv => (Disciplined => LocksSafe)
  BY ExcludesAll, AccountsReaders DEF LockInv, Before, LocksSafe
<1> QED BY <1>1, LockInvAlways, PTL
=============================================================================
