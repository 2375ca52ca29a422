CONSTANTS
    AudioURIs = {"english", "french"}
    FirstAudioURI = "english"
    VideoURI = "video"
    NumSegments = 2
    MinPackets = 1
    Hastes = {"seekWhileChanging"}
    MaxCalls = 1
    Budgets <- SeekAndSelect
SPECIFICATION Spec
INVARIANT ChecksHold
CHECK_DEADLOCK FALSE
