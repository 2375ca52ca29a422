CONSTANTS
    AudioURIs = {"english", "french"}
    FirstAudioURI = "english"
    VideoURI = "video"
    NumSegments = 1
    MinPackets = 1
    Hastes = {}
    MaxCalls = 1
    Budgets <- AllButOneOnce
SPECIFICATION FairSpec
INVARIANT ChecksHold
PROPERTY ReadsItsPosition
PROPERTY CallsReturn
PROPERTY SeekIsPlayed
CHECK_DEADLOCK FALSE
