SPECIFICATION FlSpec
CONSTANTS
    lamp = lamp
    horn = horn
    None = None
    OutputNames = {lamp, horn}
    Docs <- MCDocs
    BuiltIn <- MCBuiltIn
    Images <- MCImages
    Mute <- MCMute
    Crashing <- MCCrashing
    Shipped = "shipped"
    MaxPosts = 3
    MaxBoots = 5
INVARIANTS
    FlashSound
    NeverUndecodable
    UploadSurvives
    AnswersAreHonest
    AlwaysBoots
PROPERTIES
    NeverRegresses
    AddressConfirms
CHECK_DEADLOCK FALSE
