SPECIFICATION FairSpec
CONSTANTS
    car = car
    pad = pad
    other = other
    garbage = garbage
    Broadcast = Broadcast
    None = None
    Macs = {car, pad}
    SeqMod = 4
    Payloads <- NoPayloads
    MaxPeers = 2
    RxDepth = 1
    LinkTimeoutMs = 100
    LoopIntervalMs = 50
    BlinkMs = 150
    FlashFaults = FALSE
    Self = car
    Arrivals <- DriveArrivals
    UsbCommands <- DriveCommands
    CmdsDepth = 1
    MaxRxDrain = 2
    SensePeriod = 2
    BootPresses <- PlainReset
INVARIANTS
    TypeOK
    StopDeadline
    FailSafeHold
    ManualHeld
    LastDutyTracksMotor
    NextControlAccepted
PROPERTIES
    ImplementsFailSafe
    LoopKeepsTicking
