CONSTANTS
    Writings <- NoTexts
    Texts <- NoTexts
    Streams <- Utf16Streams
    Launches <- NoTexts
    CommonLine <- MCCommonLine
    ConfigFile <- MCConfigFile
    Handlers <- MCHandlers
    Asked <- MCAsked
SPECIFICATION Spec
INVARIANT EveryEncodingIsRead
