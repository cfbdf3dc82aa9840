----------------------------- MODULE Operators -----------------------------
(***************************************************************************)
(* The algorithms of both boards that keep no state, the pairing record    *)
(* and the clocks of the watchdog, checked against reference definitions   *)
(* for every value of a byte, and the joystick's bus as devices come and   *)
(* go.  The byte moves while the bus is as it began.                       *)
(***************************************************************************)
EXTENDS JoystickBus, CurrentSense, Drive, PairingRecord

Link == INSTANCE ControlProtocol
    WITH SeqMod <- 65536, Macs <- {}, Broadcast <- "broadcast", None <- Absent

Dog == INSTANCE WatchdogClock
    WITH LinkTimeoutMs <- 500, LoopIntervalMs <- 50,
         Macs <- {}, Broadcast <- "broadcast", None <- Absent

VARIABLE byte

NoByte == -1

Init ==
    \/ byte = 0 /\ bus = [a \in Present |-> "silent"] /\ active = Absent
    \/ byte = NoByte /\ BusInit

AnotherByte == byte # NoByte /\ byte' \in 0 .. 255 /\ UNCHANGED <<bus, active>>

Next ==
    \/ AnotherByte
    \/ byte = NoByte /\ (Boot \/ Replug) /\ UNCHANGED byte

Spec == Init /\ [][Next]_<<bus, active, byte>>
-----------------------------------------------------------------------------
(* Properties.                                                             *)

\* Of two different sequence numbers exactly one is newer than the other,
\* but for numbers half a cycle apart, of which neither is; and the numbers
\* newer than one are those fewer than half a cycle ahead, wrap or not.
last == byte * 257
Ahead == {1, 255, 256, 32767, 32768, 32769, 65535}
NewerIsHalfACycle == byte # NoByte =>
    \A d \in Ahead :
        LET other == (last + d) % 65536
        IN  /\ Link!is_newer_sequence(last, other) <=> d < 32768
            /\ Link!is_newer_sequence(other, last) <=> d > 32768

\* The duty is the stick's deflection in percent of its range, rounded
\* towards zero, nothing in the dead zone, and never grows as the stick is
\* pulled back.
DutyFollowsStick == byte # NoByte =>
    LET deflection == byte - 127
        duty == y_to_duty(byte)
        range == IF deflection > 0 THEN 128 ELSE 127
        pct == IF duty < 0 THEN -duty ELSE duty
        size == IF deflection < 0 THEN -deflection ELSE deflection
    IN  /\ IF size <= 10 THEN duty = 0
           ELSE /\ duty * deflection > 0
                /\ pct * range <= size * 100 /\ size * 100 < (pct + 1) * range
        /\ byte < 255 => duty <= y_to_duty(byte + 1)

\* The vehicle's model forgets the watchdog's clocks and keeps the silence:
\* with the code's clocks it answers the same, at both sides of the timeout,
\* whether a packet was ever heard or not, and goes on doing so.
Silences == {0, 1, 450, 499, 500, 501, 550, 551, 2000}
SilenceIsEnough == byte # NoByte =>
    LET now == byte * 10
        lasts == {Absent} \cup {now - d : d \in {s \in Silences : s <= now}}
    IN  /\ Dog!Silence(Absent, 0) = Dog!NewWatchdog
        /\ \A l \in lasts : Dog!SilenceSuffices(l, now)

\* Samples of which n are high and the others idle, over a baseline.
High == byte * 257
MixOf(n) == [i \in 1 .. AVG_SAMPLES |-> IF i <= n THEN High ELSE 300]
ReadingIsExact(n, base) ==
    LET offset == Average([i \in 1 .. CAL_SAMPLES |-> base])
        reading == read_current(MixOf(n), MixOf(0), offset, 300)
        mean == (n * High + (AVG_SAMPLES - n) * 300) \div AVG_SAMPLES
        exact == IF mean > base THEN (mean - base) * 17 ELSE 0
    IN  /\ reading.r_mv = mean
        /\ reading.l_ma = 0
        /\ IF exact < 131072 THEN 2 * reading.r_ma \in {exact, exact - 1}
           ELSE reading.r_ma = 65535
\* A current is exact to a milliampere or saturated, never wrapped, whatever
\* the samples and the baseline; and a motor that draws what it drew while
\* the baseline was taken reads as idle.
CurrentIsExact == byte # NoByte =>
    \A n \in {0, 1, 7, 8}, base \in {0, 300, 65535} : ReadingIsExact(n, base)

\* Whatever single byte of a record changes, and wherever a reset cuts its
\* write short, it is read as the peer that was written or as no pairing, but
\* for the one in 65536 addresses cut short that have the checksum of erased
\* flash (the third address here, with its last byte cut off).
Written == {<<36, 111, 40, 170, 187, byte>>, <<byte, 255, 255, 255, 255, 255>>,
            <<36, 111, 40, 64, 176, byte>>}
AddressOf(numbers) == [i \in 1 .. 6 |-> OctetOf(numbers[i])]
NoStrangerIsLoaded == byte # NoByte =>
    \A numbers \in Written :
        LET mac == AddressOf(numbers)
        IN  /\ ReadsBack(mac)
            /\ \A i \in 1 .. PAIRING_RECORD_LEN : ChangeIsSeen(mac, i, OctetOf(byte))
            /\ \A n \in 0 .. PAIRING_RECORD_LEN - 1 : CutIsSeen(mac, n)
=============================================================================
