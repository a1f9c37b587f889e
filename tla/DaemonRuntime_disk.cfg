SPECIFICATION RuntimeSpec
CONSTANTS
    p1 = p1
    p2 = p2
    p3 = p3
    w1 = w1
    n1 = n1
    d1 = d1
    d2 = d2
    shell = shell
    agent = agent
    c1 = c1
    c2 = c2
    none = none
    PaneIds = {p1, p2}
    WorkspaceIds = {w1}
    Names = {n1}
    BlankNames = {}
    Dirs = {d1, d2}
    Labels = {shell, agent}
    ShellLabel = shell
    Sizes <- OneSize
    Fitting <- OneSize
    MaxTerminals = 3
    Observable = {"Running", "Exited", "FailedToStart"}
    Clients = {c1}
    SavesFail = FALSE
    Budgets <- DiskBudgets
    None = none
SYMMETRY RuntimeSymmetry
INVARIANTS
    DiskCatchesUp
CHECK_DEADLOCK FALSE
