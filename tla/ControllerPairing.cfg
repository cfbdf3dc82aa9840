SPECIFICATION Spec
CONSTANTS
    car = car
    pad = pad
    other = other
    third = third
    garbage = garbage
    Broadcast = Broadcast
    None = None
    Macs = {car, pad, other, third}
    SeqMod = 2
    Payloads <- PairPayloads
    MaxPeers = 2
    RxDepth = 1
    FlashFaults = FALSE
    Self = pad
    Arrivals <- PairArrivals
    UsbCommands <- PairCommands
    CmdsDepth = 1
    MaxRxDrain = 2
    Sticks <- Centred
    ReadTimes <- ReadQuick
    ReadTimeoutMs = 0
    TickMs = 10
    TxIntervalMs = 10
    NeutralFailures = 1
    LinkTimeoutMs = 500
    BootPresses <- BothPresses
INVARIANTS
    FlashRemembersPeer
    SendsAreDeliverable
PROPERTIES
    PeerNeverReplaced
