------------------------------- MODULE MCSync -------------------------------
(* Small programs over package sync: its locks, and sync.Map, which is     *)
(* used in the program that calls nothing else.                            *)
EXTENDS Sync

VARIABLES mprog, mu, read, dirty, misses, ent, l, lin
mvars == <<mprog, mu, read, dirty, misses, ent, l, lin>>

Three == 1 .. 3
Wgs == <<"wg1", "wg2">>
AllSems == Mutexes \cup {"readerSem", "writerSem", "wg1", "wg2"}
OneRoot == {1}
SameRoot == [a \in AllSems |-> 1]

Prog(a, b, c) == [calls |-> <<a, b, c>>, start |-> Three, counter |-> 0]

Locks == Prog(<<"Lock", "Unlock", "Lock", "Unlock">>, <<"Lock", "Unlock">>, <<"Lock", "Unlock">>)
RWs == Prog(<<"WLock", "WUnlock">>, <<"RLock", "RUnlock", "WLock", "WUnlock">>, <<"RLock", "RUnlock">>)
Rounds == [calls |-> <<<<"Wait">>, <<"Done", "Wait">>, <<"Wait", "Add1", "Wait">>>>,
           start |-> Three, counter |-> 1]
Misuse == [calls |-> <<<<"Wait">>, <<"Done", "Done">>, <<"Lock", "Unlock", "Unlock">>>>,
           start |-> Three, counter |-> 1]
Reuse == [calls |-> <<<<"Wait">>, <<"Done", "Add1", "Go", "Wait">>, <<"Done">>>>,
          start |-> {1, 2}, counter |-> 1]
Group == [calls |-> <<<<"Add2", "Go", "Go", "Wait">>, <<"Done">>, <<"Done", "Wait">>>>,
          start |-> {1}, counter |-> 0]
Conds == Prog(<<"Lock", "Await", "Unlock">>, <<"Lock", "Await", "Unlock">>,
              <<"Lock", "Set", "Broadcast", "Unlock">>)
Conds1 == Prog(<<"Lock", "Await", "Unlock">>, <<"Signal">>,
               <<"Lock", "Set", "Unlock", "Broadcast">>)
Onces == Prog(<<"Do">>, <<"DoPanic", "Do">>, <<"Do">>)

NoCalls == Prog(<< >>, << >>, << >>)

SafePrograms == {NoCalls, Locks, RWs, Misuse, Reuse, Group, Conds, Conds1, Onces}
NextRound == {Rounds}

(* Goroutine 1 makes an entry, which its Load promotes, before the others  *)
(* start.                                                                  *)
MCall(op, k, v) == [op |-> op, key |-> k, val |-> v]
Deleted == <<MCall("Store", 1, "a"), MCall("Load", 1, ""), MCall("Delete", 1, "")>>
Stores ==
    [calls |-> <<Deleted \o <<MCall("Store", 2, "b"), MCall("Load", 1, "")>>,
                 <<MCall("Store", 1, "c"), MCall("Load", 1, ""), MCall("Load", 2, "")>>,
                 <<MCall("LoadOrStore", 1, "d"), MCall("Delete", 1, ""), MCall("LoadOrStore", 2, "e")>>>>,
     go |-> <<0, 2, 2>>]
Ranging ==
    [calls |-> <<Deleted \o <<MCall("Store", 2, "b"), MCall("LoadOrStore", 2, "e"), MCall("Load", 3, "")>>,
                 <<MCall("Range", 1, ""), MCall("Store", 1, "c")>>,
                 <<MCall("Delete", 2, ""), MCall("RangeFirst", 1, ""), MCall("Store", 3, "f")>>>>,
     go |-> <<0, 2, 2>>]
Maps == <<Stores, Ranging>>

Map == INSTANCE SyncMap WITH Goroutines <- Three, Keys <- Three, None <- 0,
                             Programs <- Maps, prog <- mprog

SyncInit == Init /\ Map!Init /\ (prog # NoCalls => mprog = 1)
SyncNext ==
    \/ Next /\ UNCHANGED mvars
    \/ prog = NoCalls /\ Map!Next /\ UNCHANGED vars

SyncSpec ==
    /\ SyncInit /\ [][SyncNext]_<<vars, mvars>>
    /\ \A g \in G : WF_vars(~panicked /\ Step(g) /\ UNCHANGED mvars)

(* The calls of a sync.Map return what those of a plain map would: each    *)
(* takes effect at once, and a Range at one moment for each key; and its   *)
(* dirty part has every entry of read that is not expunged, so that it can *)
(* take the place of read at any time.                                     *)
MapSafe == Map!MapSafe
=============================================================================
