SPECIFICATION PanelSpec
CONSTANTS
    Writers <- MCFourWriters
    Callers <- MCOneCaller
    Topics <- MCTopics
    Values <- MCValues
    PubDepth = 2
    MaxDrops = 1
    MaxChanges = 2
INVARIANTS
    PanelSound
    
PROPERTIES
    FrameCatchesUp
