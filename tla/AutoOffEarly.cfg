SPECIFICATION LSpec
CONSTANTS
    lamp = lamp
    engine = engine
    beam = beam
    yes = yes
    no = no
    driving = driving
    Outputs = {lamp}
    Signals = {engine, beam}
    Texts = {yes, no}
    MaxTime = 3
    Wrap = 100
    Users = {}
    Ticker = actions
    Uploader = http
    Documents = {}
    Pins = {}
    Reserved = {}
    Slaves = {1}
    CoilSpan = 1
    Sections <- TimedSections
    Gestures = {driving}
    Unknown = unknown
    GestureSections <- TimedGestures
PROPERTY
    AutoOffRunsItsTime
