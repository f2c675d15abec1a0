SPECIFICATION SSpec
CONSTANTS
    lamp = lamp
    horn = horn
    None = None
    OutputNames = {lamp, horn}
    Docs <- MCDocs
    BuiltIn <- MCBuiltIn
PROPERTY
    PreviousStaysUsable
