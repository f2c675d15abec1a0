SPECIFICATION MCSpec
CONSTANTS
    lampA = lampA
    lampB = lampB
    control = control
    lit = lit
    dark = dark
    p4 = p4
    p5 = p5
    p15 = p15
    driving = driving
    Outputs = {lampA, lampB}
    Signals = {control}
    Texts = {lit, dark}
    MaxTime = 5
    Wrap = 100
    Users = {mqtt, http}
    Ticker = actions
    Pins <- MCPins
    Reserved = {p15}
    Slaves = {1}
    CoilSpan = 3
    Sections <- MCSections
    Gestures = {driving}
    Unknown = unknown
    GestureSections <- MCGestureSections
    MaxPulses = 4
INVARIANTS
    TypeOK
    PendingOffOnlyWhileOn
    DisabledMeansDark
    TargetsFollowOutputs
    EveryChangeMakesOneEvent
    ClicksMatchPulses
PROPERTIES
    DueSwitchOffsHappen
    BurstsResolve
