---------------------------- MODULE JoystickBus ----------------------------
(***************************************************************************)
(* controller/src/joystick.rs: how the joystick is found on the I2C bus at *)
(* boot and read afterwards.                                               *)
(*                                                                         *)
(* An address answers in one of these ways: "silent", "acks" (a device     *)
(* that does not serve the frame read), "joystick", or "readonly", a       *)
(* joystick that does not take the empty write the scan probes with.  The  *)
(* code knows a joystick by the read it serves and by nothing else.        *)
(***************************************************************************)
EXTENDS Integers, Sequences

CONSTANTS
    Present,  \* addresses of the bus at which there may be a device
    Absent    \* Option::None

I2C_SCAN_START_ADDR == 16
I2C_SCAN_END_ADDR == 119
JOYSTICK_DEFAULT_ADDRESS == 90
JOYSTICK_CANDIDATE_ADDRESSES == <<90, 36, 18, 72>>

ASSUME BusAssumption ==
    /\ Present \subseteq I2C_SCAN_START_ADDR .. I2C_SCAN_END_ADDR
    /\ Absent \notin Int

VARIABLES
    bus,     \* how each address answers
    active   \* active_joystick_address, resolved once at boot

Kinds == {"silent", "acks", "joystick", "readonly"}

device_responded(a) == bus[a] \in {"acks", "joystick"}
FrameReadable(a) == bus[a] \in {"joystick", "readonly"}
Serving == {a \in Present : FrameReadable(a)}

Candidates == {JOYSTICK_CANDIDATE_ADDRESSES[i] : i \in DOMAIN JOYSTICK_CANDIDATE_ADDRESSES}

\* scan_i2c_bus.
first_found ==
    LET found == {a \in Present : device_responded(a)}
    IN  IF found = {} THEN Absent ELSE CHOOSE a \in found : \A b \in found : a <= b

\* The first address of an order that is one of some.
FirstOf(order, some) ==
    LET hits == {i \in DOMAIN order : order[i] \in some}
    IN  IF hits = {} THEN Absent ELSE order[CHOOSE i \in hits : \A k \in hits : i <= k]

\* The default address is the first of the candidates; an address that is in
\* the order already is not added to it.
PushUnique(order, a) == IF a = Absent \/ a \in Candidates THEN order ELSE Append(order, a)

\* The order without the scan's result.
KnownOnly == JOYSTICK_CANDIDATE_ADDRESSES
probe_order == PushUnique(JOYSTICK_CANDIDATE_ADDRESSES, first_found)

resolve_active_joystick_address ==
    FirstOf(probe_order, {a \in Serving : device_responded(a)})

\* read_joystick_runtime_frame_async: the address that was read, or Absent
\* for an error.
OnlyCandidates(preferred) == JOYSTICK_CANDIDATE_ADDRESSES
ReadOrder(preferred) ==
    IF preferred = Absent \/ preferred \in Candidates
    THEN JOYSTICK_CANDIDATE_ADDRESSES
    ELSE <<preferred>> \o JOYSTICK_CANDIDATE_ADDRESSES

read_joystick_runtime_frame == FirstOf(ReadOrder(active), Serving)

BusInit == bus \in [Present -> {"silent", "acks"}] /\ active = Absent

Boot ==
    /\ active' = resolve_active_joystick_address
    /\ UNCHANGED bus

\* A device is plugged, unplugged or stops to answer.
Replug ==
    /\ \E a \in Present, k \in Kinds : bus' = [bus EXCEPT ![a] = k]
    /\ UNCHANGED active

-----------------------------------------------------------------------------
(* Properties.                                                             *)

\* The loop's read succeeds exactly when a joystick answers where the boot
\* found one or at a candidate address; and the joystick the boot found is
\* the one that is read as long as it is the only one.
JoystickIsRead ==
    /\ read_joystick_runtime_frame \in Serving \cup {Absent}
    /\ read_joystick_runtime_frame = Absent
       <=> Serving \cap (Candidates \cup {active}) = {}
    /\ \A a \in Serving : Serving = {a} /\ a = active => read_joystick_runtime_frame = a

\* What the boot finds is a joystick, and it finds one if there is one at a
\* candidate address or at the lowest address that answers the scan.
BootFindsJoystick ==
    [][ LET probed == {a \in Present : bus[a] = "joystick"} \cap (Candidates \cup {first_found})
        IN  active' # active
            => /\ active' = Absent => probed = {}
               /\ active' # Absent => active' \in probed ]_<<bus, active>>
=============================================================================
