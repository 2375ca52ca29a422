CONSTANTS
    AudioURIs = {"english", "french"}
    FirstAudioURI = "english"
    VideoURI = "video"
    NumSegments = 2
    MinPackets = 1
    Hastes = {}
    MaxCalls = 1
    Budgets <- SelectOnly
SPECIFICATION Spec
INVARIANT TrackIsAnnounced
CHECK_DEADLOCK FALSE
