SPECIFICATION Spec
CONSTANTS
    car = car
    pad = pad
    other = other
    Broadcast = Broadcast
    None = None
    Macs = {car, pad, other}
    SeqMod = 4
    Payloads <- NoPayloads
    MaxPeers = 2
    RxDepth = 1
    FlashFaults = FALSE
    PadMac = pad
    CarMac = car
    Strangers <- OneStranger
    MaxUpsets = 2
    PadPresses <- BothPresses
    CarPresses <- PlainReset
    CmdsDepth = 1
    MaxRxDrain = 1
    Sticks <- NoSamples
    ReadTimes <- ReadQuick
    ReadTimeoutMs = 0
    TickMs = 10
    TxIntervalMs = 10
    NeutralFailures = 1
    LinkTimeoutMs = 50
    LoopIntervalMs = 50
    SensePeriod = 1
    BlinkMs = 0
INVARIANTS
    PairingAgrees
