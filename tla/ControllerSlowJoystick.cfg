SPECIFICATION Spec
CONSTANTS
    car = car
    pad = pad
    other = other
    third = third
    garbage = garbage
    Broadcast = Broadcast
    None = None
    Macs = {car, pad}
    SeqMod = 2
    Payloads <- NoPayloads
    MaxPeers = 2
    RxDepth = 1
    FlashFaults = FALSE
    Self = pad
    Arrivals <- AckOnly
    UsbCommands <- NoCommands
    CmdsDepth = 1
    MaxRxDrain = 2
    Sticks <- Centred
    ReadTimes <- ReadSlowOrQuick
    ReadTimeoutMs = 80
    TickMs = 10
    TxIntervalMs = 100
    NeutralFailures = 3
    LinkTimeoutMs = 500
    BootPresses <- NoReset
INVARIANTS
    StreamIsKeepalive
