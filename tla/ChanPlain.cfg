CONSTANTS
    g1 = g1  g2 = g2  g3 = g3  g4 = g4
    NoVal = NoVal
    G <- Three
    Chan = {1, 2}
    Cap <- Cap02
    Menu <- PlainMenu
    MaxOps <- Ops221
SPECIFICATION FairSpec
INVARIANTS NoLostWakeup
PROPERTIES Refines
CHECK_DEADLOCK FALSE
