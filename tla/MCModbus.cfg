SPECIFICATION RFairSpec
CONSTANTS
    dark = dark
    lit = lit
    Nodes = {1, 2}
    Patterns = {dark, lit}
    Dark = dark
    Tables <- MCTables
    BriskLimit = 2
    MaxHooks = 1
INVARIANTS
    NoLostWakeup
    CleanCycleIsUp
PROPERTIES
    IsMirror
    NodesConverge
