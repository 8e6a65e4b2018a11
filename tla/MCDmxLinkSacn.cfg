CONSTANTS
    UniverseLength = 512
    Protocol = "sacn"
    Universes = {1, 63999}
    Sequences = {0}
    Frames <- MCFrames
    Foreign <- MCSacnForeign
    MaxSent = 2
SPECIFICATION Spec
INVARIANT OwnPacketsTaken
