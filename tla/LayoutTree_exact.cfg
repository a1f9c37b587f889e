CONSTANTS
    p1 = p1
    p2 = p2
    p3 = p3
    p4 = p4
    p5 = p5
    p6 = p6
    none = none
    None = none
    MaxTerminals = 6
    MaxFree = 5
    PaneIds = {p1, p2, p3, p4, p5, p6}
    Ratios <- EdgeRatios
    Views <- ExactView
SPECIFICATION Spec
SYMMETRY PaneSymmetry
INVARIANTS
    DrawsAtEverySize
