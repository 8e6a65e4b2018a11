CONSTANTS
    UniverseLength = 3
    Protocol = "artnet"
    Universes <- MCUniverses
    Sequences = {0, 255}
    Frames <- MCFrames
    Foreign <- MCArtNetForeign
    MaxSent = 2
SPECIFICATION Spec
INVARIANTS ReceivedWasSent NoStaleChannels OwnPacketsTaken
