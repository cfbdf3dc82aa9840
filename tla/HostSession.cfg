SPECIFICATION FairSpec
CONSTANTS
    car = car
    pad = pad
    Broadcast = Broadcast
    None = None
    Garbage = Garbage
    Fragment = Fragment
    Macs = {car, pad}
    SeqMod = 2
    Payloads <- MCPayloads
    FrameBytes = 2
    WireBytes = 3
    WireMsgs = 1
    Board = "Controller"
    Forwarded <- MCForwarded
    MaxFrame = 3
    ChunkBytes = 2
    EventsDepth = 1
    CmdsDepth = 1
    Bursts <- MCBursts
    Accidents <- MCAccidents
    Lines <- MCLines
    Misreads <- MCMisreads
    Backlog = 1
    MaxUpsets = 1
INVARIANTS
    TypeOK
    PanelsOwnBoard
PROPERTIES
    ImplementsService
    HandshakeEnds
