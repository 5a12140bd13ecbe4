CONSTANTS
    g1 = g1  g2 = g2  g3 = g3  g4 = g4
    NoVal = NoVal
    G <- Four
    Chan = {1, 2}
    Cap <- Cap11
    Menu <- StrandMenu
    MaxOps <- OpsFour
SPECIFICATION Spec
INVARIANTS NoLostWakeup
CHECK_DEADLOCK FALSE
