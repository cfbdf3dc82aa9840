SPECIFICATION Spec
CONSTANTS
    car = car
    pad = pad
    other = other
    garbage = garbage
    Broadcast = Broadcast
    None = None
    Macs = {car, pad, other}
    SeqMod = 4
    Payloads <- NoPayloads
    MaxPeers = 2
    RxDepth = 1
    LinkTimeoutMs = 100
    LoopIntervalMs = 50
    BlinkMs = 150
    FlashFaults = FALSE
    Self = car
    Arrivals <- TwoSenders
    UsbCommands <- NoCommands
    CmdsDepth = 1
    MaxRxDrain = 2
    SensePeriod = 2
    BootPresses <- NoReset
INVARIANTS
    NextControlAccepted
