CONSTANTS
    Writings <- MCWritings
    Texts <- MCTexts
    Streams <- MCStreams
    Launches <- MCLaunches
    CommonLine <- MCCommonLine
    ConfigFile <- MCConfigFile
    Handlers <- MCHandlers
    Asked <- MCAsked
SPECIFICATION Spec
INVARIANTS RoundTrip EventsNest KeysAndIndents ReadsOn ReadsWhatIsThere ServesAsConfigured RoutesAreFirstMatch
