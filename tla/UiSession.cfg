SPECIFICATION Spec
CONSTANTS
    name = name
    dir = dir
    shell = shell
    agent = agent
    none = none
    PaneIds = {1, 2, 3, 4}
    WorkspaceIds = {1, 2, 3, 4}
    Names = {name}
    BlankNames = {}
    Dirs = {dir}
    Labels = {shell, agent}
    ShellLabel = shell
    Sizes <- MCSizes
    MaxTerminals = 2
    None = none
    Capacity = 2
    MaxActions = 3
    MaxEvents = 2
    MaxSteps = 4
INVARIANTS
    ViewWellFormed
    ComesToRest
PROPERTIES
    TerminalsContinue
CHECK_DEADLOCK FALSE
