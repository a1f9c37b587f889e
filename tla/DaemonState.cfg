SPECIFICATION Spec
CONSTANTS
    p1 = p1
    p2 = p2
    p3 = p3
    w1 = w1
    w2 = w2
    w3 = w3
    n1 = n1
    blank = blank
    d1 = d1
    shell = shell
    agent = agent
    none = none
    PaneIds = {p1, p2, p3}
    WorkspaceIds = {w1, w2, w3}
    Names = {n1, blank}
    BlankNames = {blank}
    Dirs = {d1}
    Labels = {shell, agent}
    ShellLabel = shell
    Sizes <- MCSizes
    MaxTerminals = 2
    None = none
    Observable = {"Exited"}
SYMMETRY MCSymmetry
INVARIANTS
    SnapshotsWellFormed
    EffectsCoverPanes
    RestartRestores
PROPERTIES
    ClosedStaysClosed
    FocusFollowsUser
