SPECIFICATION Spec
CONSTANTS
    car = car
    pad = pad
    other = other
    garbage = garbage
    Broadcast = Broadcast
    None = None
    Macs = {car, pad, other}
    SeqMod = 4
    Payloads <- PairPayloads
    MaxPeers = 1
    RxDepth = 1
    LinkTimeoutMs = 50
    LoopIntervalMs = 50
    BlinkMs = 0
    FlashFaults = FALSE
    Self = car
    Arrivals <- PairArrivals
    UsbCommands <- PairCommands
    CmdsDepth = 1
    MaxRxDrain = 2
    SensePeriod = 2
    BootPresses <- BothPresses
INVARIANTS
    FlashRemembersPeer
    SendsAreDeliverable
PROPERTIES
    OnlyPairedPeerCommands
