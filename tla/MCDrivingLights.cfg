SPECIFICATION LFairSpec
CONSTANTS
    lamp = lamp
    engine = engine
    beam = beam
    yes = yes
    no = no
    driving = driving
    Outputs = {lamp}
    Signals = {engine, beam}
    Texts = {yes, no}
    MaxTime = 1
    Wrap = 100
    Users = {http}
    Ticker = actions
    Uploader = http
    Documents <- UploadedDocs
    Pins = {}
    Reserved = {}
    Slaves = {1}
    CoilSpan = 1
    Sections <- UploadedSections
    Gestures = {driving}
    Unknown = unknown
    GestureSections <- ShippedGestures
INVARIANTS
    LTypeOK
PROPERTIES
    StopReportDouses
    DipHappens
