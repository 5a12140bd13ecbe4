CONSTANTS
    g1 = g1  g2 = g2  g3 = g3  g4 = g4
    NoVal = NoVal
    G <- Three
    Chan = {1, 2}
    Cap <- Cap10
    Menu <- SelMenu
    MaxOps <- Ops211
SPECIFICATION FairSpec
INVARIANTS NoThrow IInv QueuedInScope SelNotFreedEarly NoMissedRendezvous
PROPERTIES Refines ComesToRest
CHECK_DEADLOCK FALSE
