--------------------------- MODULE OperatorProofs ---------------------------
(***************************************************************************)
(* Proofs about the algorithms that keep no state: the search for the      *)
(* joystick, for every bus; the currents, for every sample; the mapping of *)
(* the stick and the order of the sequence numbers; the pairing record,    *)
(* for every address, every changed byte and every cut; the watchdog, at   *)
(* every time.                                                             *)
(***************************************************************************)
EXTENDS Operators, RecursionProofs

-----------------------------------------------------------------------------
(* The joystick's bus.                                                     *)

LEMMA Addresses == Present \subseteq Nat /\ Present \subseteq Int /\ Absent \notin Int
<1>1. I2C_SCAN_START_ADDR .. I2C_SCAN_END_ADDR \subseteq Nat
  BY DEF I2C_SCAN_START_ADDR, I2C_SCAN_END_ADDR
<1> QED
  BY <1>1, BusAssumption

\* The first hit of an order is one of its elements, and there is none only
\* when no element is a hit.
LEMMA FirstHit ==
    ASSUME NEW order \in Seq(Int), NEW some, Absent \notin some
    PROVE  LET first == FirstOf(order, some)
               tried == {order[i] : i \in DOMAIN order}
           IN  /\ first \in (tried \cap some) \cup {Absent}
               /\ first = Absent <=> tried \cap some = {}
<1> DEFINE hits == {i \in DOMAIN order : order[i] \in some}
           least == CHOOSE i \in hits : \A k \in hits : i <= k
<1>1. CASE hits = {}
  BY <1>1 DEF FirstOf
<1>2. CASE hits # {}
  <2>1. hits \in SUBSET Nat
    OBVIOUS
  <2>2. \E i \in hits : \A k \in hits : i <= k
    <3> HIDE DEF hits
    <3> QED
      BY <1>2, <2>1, LeastElement
  <2>3. least \in hits
    <3> HIDE DEF hits
    <3> QED
      BY <2>2
  <2>4. FirstOf(order, some) = order[least]
    BY <1>2 DEF FirstOf
  <2> HIDE DEF least
  <2> QED
    BY <2>3, <2>4
<1> QED
  BY <1>1, <1>2

\* The scan finds a device that answers, if there is one.
LEMMA ScanFinds ==
    LET found == {a \in Present : device_responded(a)}
    IN  first_found \in (IF found = {} THEN {Absent} ELSE found)
<1> DEFINE found == {a \in Present : device_responded(a)}
           least == CHOOSE a \in found : \A b \in found : a <= b
<1>1. CASE found = {}
  BY <1>1 DEF first_found
<1>2. CASE found # {}
  <2>1. found \in SUBSET Nat
    BY Addresses
  <2>2. \E a \in found : \A b \in found : a <= b
    <3> HIDE DEF found
    <3> QED
      BY <1>2, <2>1, LeastElement
  <2>3. least \in found
    <3> HIDE DEF found
    <3> QED
      BY <2>2
  <2> QED
    BY <1>2, <2>3 DEF first_found
<1> QED
  BY <1>1, <1>2

LEMMA CandidateOrder ==
    /\ JOYSTICK_CANDIDATE_ADDRESSES \in Seq(Int)
    /\ Candidates = {JOYSTICK_CANDIDATE_ADDRESSES[i] : i \in DOMAIN JOYSTICK_CANDIDATE_ADDRESSES}
    /\ Candidates \subseteq Int
BY DEF Candidates, JOYSTICK_CANDIDATE_ADDRESSES

\* What the order with the scan's result tries.
LEMMA ProbeOrder ==
    /\ probe_order \in Seq(Int)
    /\ {probe_order[i] : i \in DOMAIN probe_order} = (Candidates \cup {first_found}) \ {Absent}
<1> DEFINE order == JOYSTICK_CANDIDATE_ADDRESSES
           longer == Append(order, first_found)
<1>1. first_found \in Int \cup {Absent} /\ Absent \notin Int /\ order \in Seq(Int)
      /\ Candidates = {order[i] : i \in DOMAIN order} /\ Candidates \subseteq Int
  BY ScanFinds, Addresses, CandidateOrder
<1>2. CASE first_found = Absent \/ first_found \in Candidates
  BY <1>1, <1>2 DEF probe_order, PushUnique
<1>3. CASE ~(first_found = Absent \/ first_found \in Candidates)
  <2> HIDE DEF order
  <2>1. longer \in Seq(Int) /\ Len(longer) = Len(order) + 1 /\ Len(order) \in Nat
        /\ longer[Len(order) + 1] = first_found
        /\ \A i \in 1 .. Len(order) : longer[i] = order[i]
    BY <1>1, <1>3, AppendProperties
  <2> HIDE DEF longer
  <2>2. DOMAIN order = 1 .. Len(order) /\ DOMAIN longer = 1 .. Len(order) + 1
    BY <1>1, <2>1
  <2>3. {longer[i] : i \in DOMAIN longer} = {order[i] : i \in DOMAIN order} \cup {first_found}
    BY <2>1, <2>2
  <2>4. probe_order = longer
    BY <1>3 DEF probe_order, PushUnique, order, longer
  <2> QED
    BY <1>1, <1>3, <2>1, <2>3, <2>4
<1> QED
  BY <1>2, <1>3

\* What a read tries: the joystick of the boot and the candidates.
LEMMA ReadOrderTries ==
    ASSUME active \in Int \cup {Absent}
    PROVE  /\ ReadOrder(active) \in Seq(Int)
           /\ {ReadOrder(active)[i] : i \in DOMAIN ReadOrder(active)}
                  = (Candidates \cup {active}) \ {Absent}
<1> DEFINE order == JOYSTICK_CANDIDATE_ADDRESSES
           longer == <<active>> \o order
<1>1. Absent \notin Int /\ order \in Seq(Int)
      /\ Candidates = {order[i] : i \in DOMAIN order} /\ Candidates \subseteq Int
  BY Addresses, CandidateOrder
<1>2. CASE active = Absent \/ active \in Candidates
  BY <1>1, <1>2 DEF ReadOrder
<1>3. CASE ~(active = Absent \/ active \in Candidates)
  <2> HIDE DEF order
  <2>1. <<active>> \in Seq(Int) /\ Len(<<active>>) = 1 /\ <<active>>[1] = active
    BY <1>3
  <2>2. longer \in Seq(Int) /\ Len(longer) = 1 + Len(order) /\ Len(order) \in Nat
        /\ \A i \in 1 .. Len(longer) :
               longer[i] = IF i <= 1 THEN <<active>>[i] ELSE order[i - 1]
    BY <1>1, <2>1, ConcatProperties
  <2> HIDE DEF longer
  <2>3. longer[1] = active /\ \A i \in 1 .. Len(order) : longer[i + 1] = order[i]
    BY <2>1, <2>2
  <2>4. DOMAIN order = 1 .. Len(order) /\ DOMAIN longer = 1 .. 1 + Len(order)
    BY <1>1, <2>2
  <2>5. {longer[i] : i \in DOMAIN longer} = {order[i] : i \in DOMAIN order} \cup {active}
    <3>1. ASSUME NEW i \in DOMAIN longer
          PROVE  longer[i] \in {order[k] : k \in DOMAIN order} \cup {active}
      <4>1. CASE i = 1
        BY <2>3, <4>1
      <4>2. CASE i # 1
        <5>1. i - 1 \in 1 .. Len(order) /\ longer[i] = order[i - 1]
          BY <2>2, <2>4, <4>2
        <5> QED
          BY <2>4, <5>1
      <4> QED
        BY <4>1, <4>2
    <3>2. ASSUME NEW i \in DOMAIN order PROVE order[i] \in {longer[k] : k \in DOMAIN longer}
      <4>1. i + 1 \in DOMAIN longer /\ longer[i + 1] = order[i]
        BY <2>2, <2>3, <2>4
      <4> QED
        BY <4>1
    <3>3. active \in {longer[k] : k \in DOMAIN longer}
      BY <2>2, <2>3, <2>4
    <3> QED
      BY <3>1, <3>2, <3>3
  <2>6. ReadOrder(active) = longer
    BY <1>3 DEF ReadOrder, order, longer
  <2> QED
    BY <1>1, <1>3, <2>2, <2>5, <2>6
<1> QED
  BY <1>2, <1>3

\* The boot stores an address of the bus, or none.
BusTypes == active \in Present \cup {Absent} /\ byte \in (0 .. 255) \cup {NoByte}

LEMMA BootResolves ==
    LET probed == {a \in Present : bus[a] = "joystick"} \cap (Candidates \cup {first_found})
    IN  /\ resolve_active_joystick_address \in probed \cup {Absent}
        /\ resolve_active_joystick_address = Absent <=> probed = {}
<1> DEFINE some == {a \in Serving : device_responded(a)}
<1>1. some = {a \in Present : bus[a] = "joystick"}
  BY DEF Serving, FrameReadable, device_responded
<1>2. Absent \notin Present /\ Absent \notin some
  BY <1>1, Addresses
<1>3. resolve_active_joystick_address = FirstOf(probe_order, some)
  BY DEF resolve_active_joystick_address
<1> DEFINE first == FirstOf(probe_order, some)
           tried == {probe_order[i] : i \in DOMAIN probe_order}
<1> HIDE DEF some
<1>4. first \in (tried \cap some) \cup {Absent} /\ (first = Absent <=> tried \cap some = {})
  BY <1>2, ProbeOrder, FirstHit
<1>5. tried = (Candidates \cup {first_found}) \ {Absent}
  BY ProbeOrder
<1> HIDE DEF first, tried
<1>6. /\ first \in (some \cap (Candidates \cup {first_found})) \cup {Absent}
      /\ first = Absent <=> some \cap (Candidates \cup {first_found}) = {}
  BY <1>2, <1>4, <1>5
<1> QED
  BY <1>1, <1>3, <1>6 DEF first

LEMMA NextKeepsBusTypes == BusTypes /\ [Next]_<<bus, active, byte>> => BusTypes'
<1> SUFFICES ASSUME BusTypes, [Next]_<<bus, active, byte>> PROVE BusTypes'
  OBVIOUS
<1>1. CASE AnotherByte
  BY <1>1 DEF BusTypes, AnotherByte
<1>2. CASE Boot /\ UNCHANGED byte
  BY <1>2, BootResolves DEF BusTypes, Boot
<1>3. CASE Replug /\ UNCHANGED byte
  BY <1>3 DEF BusTypes, Replug
<1>4. CASE UNCHANGED <<bus, active, byte>>
  BY <1>4 DEF BusTypes
<1> QED
  BY <1>1, <1>2, <1>3, <1>4 DEF Next

LEMMA BusTypesHold == Spec => []BusTypes
<1>1. Init => BusTypes
  BY DEF Init, BusInit, BusTypes
<1> QED
  BY <1>1, NextKeepsBusTypes, PTL DEF Spec

\* joystick.rs: the loop's read fails only when no joystick answers at the
\* boot's address or at a candidate, and never answers for another device.
THEOREM JoystickIsReadHolds == Spec => []JoystickIsRead
<1>1. BusTypes => JoystickIsRead
  <2> SUFFICES ASSUME BusTypes PROVE JoystickIsRead
    OBVIOUS
  <2> DEFINE first == read_joystick_runtime_frame
  <2>1. Absent \notin Present /\ Absent \notin Serving /\ active \in Int \cup {Absent}
        /\ Present \subseteq Int
    BY Addresses DEF BusTypes, Serving
  <2>2. /\ first \in (((Candidates \cup {active}) \ {Absent}) \cap Serving) \cup {Absent}
        /\ first = Absent <=> ((Candidates \cup {active}) \ {Absent}) \cap Serving = {}
    BY <2>1, ReadOrderTries, FirstHit DEF read_joystick_runtime_frame
  <2> HIDE DEF first
  <2>3. /\ first \in Serving \cup {Absent}
        /\ first = Absent <=> Serving \cap (Candidates \cup {active}) = {}
        /\ \A a \in Serving : Serving = {a} /\ a = active => first = a
    BY <2>1, <2>2
  <2> QED
    BY <2>3 DEF JoystickIsRead, first
<1> QED
  BY <1>1, BusTypesHold, PTL

\* joystick.rs: what the boot stores is a joystick that the probe reached,
\* and it stores none only when the probe could reach none.
THEOREM BootFindsJoystickHolds == Spec => BootFindsJoystick
<1>1. [Next]_<<bus, active, byte>>
        => [ LET probed == {a \in Present : bus[a] = "joystick"} \cap (Candidates \cup {first_found})
             IN  active' # active
                 => /\ active' = Absent => probed = {}
                    /\ active' # Absent => active' \in probed ]_<<bus, active>>
  <2>1. active' # active /\ [Next]_<<bus, active, byte>> => Boot
    BY DEF Next, AnotherByte, Replug
  <2> QED
    BY <2>1, BootResolves DEF Boot
<1> QED
  BY <1>1, PTL DEF Spec, BootFindsJoystick

-----------------------------------------------------------------------------
(* The sequence numbers and the stick.                                     *)

\* A remainder of the 16-bit numbers.
LEMMA Remainders == \A n \in Int : n >= -65535 /\ n < 131072 =>
    n % 65536 = IF n < 0 THEN n + 65536 ELSE IF n < 65536 THEN n ELSE n - 65536
OBVIOUS

\* How far apart two numbers are, one way round the cycle and the other.
LEMMA RoundTheCycle ==
    ASSUME NEW a \in Nat, a < 65536, NEW d \in Nat, d > 0, d < 65536
    PROVE  LET b == (a + d) % 65536
           IN  (b - a) % 65536 = d /\ (a - b) % 65536 = 65536 - d
<1> DEFINE b == (a + d) % 65536
<1>1. b \in Nat /\ b < 65536 /\ b = IF a + d < 65536 THEN a + d ELSE a + d - 65536
  BY Remainders
<1> HIDE DEF b
<1>2. (b - a) % 65536 = d
  BY <1>1, Remainders
<1>3. (a - b) % 65536 = 65536 - d
  BY <1>1, Remainders
<1> QED
  BY <1>2, <1>3 DEF b

\* protocol.rs: the numbers newer than one are the next half cycle, wrap or
\* not, and no two numbers are each newer than the other.
THEOREM NewerIsHalfACycleHolds == Spec => []NewerIsHalfACycle
<1>1. BusTypes => NewerIsHalfACycle
  <2>1. SUFFICES ASSUME BusTypes, byte # NoByte, NEW d \in Ahead
                 PROVE  LET other == (last + d) % 65536
                        IN  /\ Link!is_newer_sequence(last, other) <=> d < 32768
                            /\ Link!is_newer_sequence(other, last) <=> d > 32768
    BY DEF NewerIsHalfACycle
  <2> DEFINE other == (last + d) % 65536
  <2>2. last \in Nat /\ last < 65536 /\ d \in Nat /\ d > 0 /\ d < 65536
    BY <2>1 DEF BusTypes, last, Ahead
  <2>3. (other - last) % 65536 = d /\ (last - other) % 65536 = 65536 - d
    <3> HIDE DEF last
    <3> QED
      BY <2>2, RoundTheCycle
  <2> HIDE DEF other
  <2>4. 65536 \div 2 = 32768 /\ (65536 - d < 32768 <=> d > 32768) /\ 65536 - d # 0
    BY <2>2
  <2>5. Link!is_newer_sequence(last, other) <=> d < 32768
    BY <2>2, <2>3, <2>4 DEF Link!is_newer_sequence, Link!wrapping_sub
  <2>6. Link!is_newer_sequence(other, last) <=> d > 32768
    BY <2>3, <2>4 DEF Link!is_newer_sequence, Link!wrapping_sub
  <2> QED
    BY <2>5, <2>6 DEF other
<1> QED
  BY <1>1, BusTypesHold, PTL

\* drive.rs: the duty by cases, of the deflection.
LEMMA DutyOfDeflection ==
    ASSUME NEW y \in 0 .. 255
    PROVE  y_to_duty(y) = IF y > 137 THEN ((y - 127) * 100) \div 128
                          ELSE IF y < 117 THEN -(((127 - y) * 100) \div 127)
                          ELSE 0
<1>1. CASE y > 137
  <2>1. ((y - 127) * 100) \div 128 <= 100
    BY <1>1
  <2> QED
    BY <1>1, <2>1 DEF y_to_duty, DEAD_ZONE, CENTER, AtMost100
<1>2. CASE y < 117
  <2>1. ((127 - y) * 100) \div 127 <= 100 /\ -(y - 127) = 127 - y
    BY <1>2
  <2> QED
    BY <1>2, <2>1 DEF y_to_duty, DEAD_ZONE, CENTER, AtMost100
<1>3. CASE y \in 117 .. 137
  BY <1>3 DEF y_to_duty, DEAD_ZONE, CENTER, AtMost100
<1> QED
  BY <1>1, <1>2, <1>3

\* drive.rs: the duty is the deflection in percent, rounded towards zero,
\* outside the dead zone, and grows with the stick.
THEOREM DutyFollowsStickHolds == Spec => []DutyFollowsStick
<1>1. BusTypes => DutyFollowsStick
  <2> SUFFICES ASSUME byte \in 0 .. 255 PROVE DutyFollowsStick
    BY DEF BusTypes, DutyFollowsStick
  <2>1. byte < 255 => byte + 1 \in 0 .. 255
    OBVIOUS
  <2>2. CASE byte > 137
    <3> DEFINE duty == ((byte - 127) * 100) \div 128
    <3>1. y_to_duty(byte) = duty
      BY <2>2, DutyOfDeflection
    <3>2. duty \in 1 .. 100 /\ duty * 128 <= (byte - 127) * 100
          /\ (byte - 127) * 100 < (duty + 1) * 128
      BY <2>2
    <3>3. byte < 255 => y_to_duty(byte + 1) = ((byte + 1 - 127) * 100) \div 128
      BY <2>1, <2>2, DutyOfDeflection
    <3>4. duty <= ((byte + 1 - 127) * 100) \div 128
      BY <2>2
    <3>5. duty * (byte - 127) > 0
      <4> HIDE DEF duty
      <4> QED
        BY <2>2, <3>2
    <3> HIDE DEF duty
    <3> QED
      BY <2>2, <3>1, <3>2, <3>3, <3>4, <3>5 DEF DutyFollowsStick
  <2>3. CASE byte < 117
    <3> DEFINE pct == ((127 - byte) * 100) \div 127
    <3>1. y_to_duty(byte) = -pct
      BY <2>3, DutyOfDeflection
    <3>2. pct \in 1 .. 100 /\ pct * 127 <= (127 - byte) * 100
          /\ (127 - byte) * 100 < (pct + 1) * 127
      BY <2>3
    <3>3. y_to_duty(byte + 1) = IF byte + 1 < 117 THEN -(((126 - byte) * 100) \div 127) ELSE 0
      BY <2>1, <2>3, DutyOfDeflection
    <3>4. ((126 - byte) * 100) \div 127 <= pct /\ ((126 - byte) * 100) \div 127 \in Int
      BY <2>3
    <3>5. (-pct) * (byte - 127) > 0
      <4> HIDE DEF pct
      <4> QED
        BY <2>3, <3>2
    <3> HIDE DEF pct
    <3> QED
      BY <2>3, <3>1, <3>2, <3>3, <3>4, <3>5 DEF DutyFollowsStick
  <2>4. CASE byte \in 117 .. 137
    <3>1. y_to_duty(byte) = 0
      BY <2>4, DutyOfDeflection
    <3>2. y_to_duty(byte + 1) >= 0
      <4>1. byte + 1 \in 118 .. 138 /\ byte + 1 \in 0 .. 255
        BY <2>4
      <4>2. ((138 - 127) * 100) \div 128 >= 0
        OBVIOUS
      <4> QED
        BY <4>1, <4>2, DutyOfDeflection
    <3> QED
      BY <2>4, <3>1, <3>2 DEF DutyFollowsStick
  <2> QED
    BY <2>2, <2>3, <2>4
<1> QED
  BY <1>1, BusTypesHold, PTL

-----------------------------------------------------------------------------
(* The currents.                                                           *)

\* g sums samples up, one after the other.
Sums(g, samples) ==
    /\ g \in [0 .. Len(samples) -> Int]
    /\ g[0] = 0
    /\ \A n \in 1 .. Len(samples) : g[n] = g[n - 1] + samples[n]

LEMMA SumUnfolds ==
    ASSUME NEW samples \in Seq(Int)
    PROVE  \E g : Sums(g, samples) /\ Sum(samples) = g[Len(samples)]
<1> DEFINE N == Len(samples)
           step == [x \in (1 .. N) \X Int |-> x[2] + samples[x[1]]]
           Fixed(g) == g = [n \in 0 .. N |-> IF n = 0 THEN 0 ELSE g[n - 1] + samples[n]]
           sum == CHOOSE g : Fixed(g)
<1>1. N \in Nat /\ \A n \in 1 .. N : samples[n] \in Int
  BY ElementOfSeq
<1>2. step \in [(1 .. N) \X Int -> Int]
  BY <1>1
<1>3. PICK f \in [0 .. N -> Int] : Runs(f, N, 0, step)
  <2> HIDE DEF step, N
  <2>1. ASSUME NEW R, R = Int, NEW z \in R, z = 0
        PROVE  \E f \in [0 .. N -> R] : Runs(f, N, z, step)
    <3>1. step \in [(1 .. N) \X R -> R]
      BY <1>2, <2>1
    <3> QED
      BY <1>1, <3>1, NaturalRecursion
  <2>2. 0 \in Int
    OBVIOUS
  <2> QED
    BY <2>1, <2>2
<1>4. f[0] = 0 /\ \A n \in 1 .. N : f[n] = f[n - 1] + samples[n]
  <2>1. ASSUME NEW n \in 1 .. N PROVE f[n] = f[n - 1] + samples[n]
    <3>1. f[n] = step[<<n, f[n - 1]>>]
      <4> HIDE DEF step, N
      <4> QED
        BY <1>3 DEF Runs
    <3>2. n - 1 \in 0 .. N
      BY <1>1
    <3>3. f[n - 1] \in Int
      <4> HIDE DEF N
      <4> QED
        BY <1>3, <3>2
    <3>4. <<n, f[n - 1]>> \in (1 .. N) \X Int
      BY <3>3
    <3> QED
      BY <3>1, <3>4
  <2> QED
    BY <1>3, <2>1 DEF Runs
<1>5. Fixed(f)
  <2>1. \A n \in 0 .. N : f[n] = IF n = 0 THEN 0 ELSE f[n - 1] + samples[n]
    BY <1>1, <1>4
  <2> QED
    BY <1>3, <2>1
<1>6. Fixed(sum)
  <2> HIDE DEF Fixed
  <2> QED
    BY <1>5
<1>7. Sum(samples) = sum[N]
  BY DEF Sum
<1> HIDE DEF sum
<1>8. sum[0] = 0 /\ \A n \in 1 .. N : sum[n] = sum[n - 1] + samples[n]
  BY <1>1, <1>6
<1>9. sum = [n \in 0 .. N |-> sum[n]]
  BY <1>6
<1>10. \A n \in 0 .. N : sum[n] \in Int
  <2> DEFINE T == {n \in Nat : n <= N => sum[n] \in Int}
  <2>1. 0 \in T
    BY <1>8
  <2>2. ASSUME NEW n \in T PROVE n + 1 \in T
    <3> SUFFICES ASSUME n + 1 <= N PROVE sum[n + 1] \in Int
      OBVIOUS
    <3>1. n + 1 \in 1 .. N /\ sum[n] \in Int /\ (n + 1) - 1 = n
      BY <1>1
    <3> QED
      BY <1>1, <1>8, <3>1
  <2>3. Nat \subseteq T
    <3>1. T \in SUBSET Nat
      OBVIOUS
    <3> HIDE DEF T
    <3> QED
      BY <2>1, <2>2, <3>1, NaturalInduction
  <2> QED
    BY <1>1, <2>3
<1> QED
  BY <1>7, <1>8, <1>9, <1>10 DEF Sums

Within(samples, lo, hi) == \A i \in 1 .. Len(samples) : lo <= samples[i] /\ samples[i] <= hi

\* A sum lies between that of as many of the least and of the greatest.
LEMMA SumIsBetween ==
    ASSUME NEW samples \in Seq(Int), NEW lo \in Int, NEW hi \in Int,
           Within(samples, lo, hi)
    PROVE  /\ Sum(samples) \in Int
           /\ Len(samples) * lo <= Sum(samples)
           /\ Sum(samples) <= Len(samples) * hi
<1> DEFINE N == Len(samples)
<1>1. PICK g : Sums(g, samples) /\ Sum(samples) = g[N]
  BY SumUnfolds
<1>2. N \in Nat /\ \A n \in 1 .. N : samples[n] \in Int
  BY ElementOfSeq
<1> DEFINE T == {n \in Nat : n <= N => g[n] \in Int /\ n * lo <= g[n] /\ g[n] <= n * hi}
<1>3. 0 \in T
  BY <1>1, <1>2 DEF Sums
<1>4. ASSUME NEW n \in T PROVE n + 1 \in T
  <2> SUFFICES ASSUME n + 1 <= N
               PROVE  g[n + 1] \in Int /\ (n + 1) * lo <= g[n + 1] /\ g[n + 1] <= (n + 1) * hi
    OBVIOUS
  <2>1. n \in Nat /\ n + 1 \in 1 .. N /\ (n + 1) - 1 = n
        /\ g[n] \in Int /\ n * lo <= g[n] /\ g[n] <= n * hi
    BY <1>2
  <2>2. g[n + 1] = g[n] + samples[n + 1]
    BY <1>1, <2>1 DEF Sums
  <2>3. samples[n + 1] \in Int /\ lo <= samples[n + 1] /\ samples[n + 1] <= hi
    BY <1>2, <2>1 DEF Within
  <2>4. (n + 1) * lo = n * lo + lo /\ (n + 1) * hi = n * hi + hi
        /\ n * lo \in Int /\ n * hi \in Int
    BY <2>1
  <2> QED
    BY <2>1, <2>2, <2>3, <2>4
<1>5. Nat \subseteq T
  <2>1. T \in SUBSET Nat
    OBVIOUS
  <2> HIDE DEF T
  <2> QED
    BY <1>3, <1>4, <2>1, NaturalInduction
<1>6. N \in T
  BY <1>2, <1>5
<1> QED
  BY <1>1, <1>2, <1>6

\* ibt2.rs: the average of samples of 16 bits is one of 16 bits, between the
\* least and the greatest of them; the cast takes nothing off.
THEOREM AverageIsExact ==
    ASSUME NEW samples \in Seq(Int), samples # <<>>,
           NEW lo \in Nat, NEW hi \in Nat, hi < 65536,
           Within(samples, lo, hi)
    PROVE  /\ Average(samples) = Sum(samples) \div Len(samples)
           /\ lo <= Average(samples)
           /\ Average(samples) <= hi
<1> DEFINE N == Len(samples)
           S == Sum(samples)
           q == S \div N
<1>1. N \in Nat /\ N > 0
  OBVIOUS
<1>2. S \in Int /\ N * lo <= S /\ S <= N * hi
  <2>1. lo \in Int /\ hi \in Int
    OBVIOUS
  <2>2. S \in Int /\ Len(samples) * lo <= S /\ S <= Len(samples) * hi
    BY <2>1, SumIsBetween
  <2> QED
    BY <2>2
<1> HIDE DEF N, S
<1>3. q \in Int /\ N * q <= S /\ S < N * q + N
  BY <1>1, <1>2
<1> HIDE DEF q
<1>4. lo <= q
  <2> SUFFICES ASSUME q + 1 <= lo PROVE FALSE
    BY <1>3
  <2>1. N * (q + 1) <= N * lo
    BY <1>1, <1>3
  <2>2. N * (q + 1) = N * q + N
    BY <1>1, <1>3
  <2> QED
    BY <1>1, <1>2, <1>3, <2>1, <2>2
<1>5. q <= hi
  <2> SUFFICES ASSUME hi + 1 <= q PROVE FALSE
    BY <1>3
  <2>1. N * (hi + 1) <= N * q
    BY <1>1, <1>3
  <2>2. N * (hi + 1) = N * hi + N
    BY <1>1
  <2> QED
    BY <1>1, <1>2, <1>3, <2>1, <2>2
<1>6. q % 65536 = q
  BY <1>3, <1>4, <1>5, Remainders
<1> QED
  BY <1>4, <1>5, <1>6 DEF Average, U16, N, S, q

\* The excess of a voltage over a baseline in half milliamperes, and a
\* current that is that excess to a milliampere, or as much as 16 bits hold.
Excess(mv, base) == IF mv > base THEN (mv - base) * 17 ELSE 0
Exact(ma, excess) == IF excess < 131072 THEN 2 * ma \in {excess, excess - 1} ELSE ma = 65535

\* ibt2.rs: from 16-bit voltages, what lies above the baseline is scaled to
\* the milliampere below it or saturates; nothing is a negative current.
THEOREM ScalingIsExact ==
    ASSUME NEW mv \in Nat, mv < 65536, NEW base \in Nat, base < 65536
    PROVE  /\ mv_to_ma(mv, base) \in Nat /\ mv_to_ma(mv, base) < 65536
           /\ Exact(mv_to_ma(mv, base), Excess(mv, base))
<1> DEFINE excess == Excess(mv, base)
           ma == mv_to_ma(mv, base)
           half == excess \div 2
<1>1. excess \in Nat
  BY DEF Excess
<1>2. ma = IF half > 65535 THEN 65535 ELSE half
  BY DEF mv_to_ma, ScaledMa, saturating_sub, IS_SCALE_NUM, IS_SCALE_DEN, Excess
<1> HIDE DEF excess, ma
<1>3. half \in Nat /\ 2 * half <= excess /\ excess <= 2 * half + 1
  BY <1>1
<1> HIDE DEF half
<1>4. ma \in Nat /\ ma < 65536
  BY <1>2, <1>3
<1>5. CASE excess < 131072
  <2>1. ma = half /\ 2 * half \in {excess, excess - 1}
    BY <1>1, <1>2, <1>3, <1>5
  <2>2. Exact(ma, excess)
    BY <1>5, <2>1 DEF Exact
  <2> QED
    BY <1>4, <2>2 DEF excess, ma
<1>6. CASE ~(excess < 131072)
  <2>1. ma = 65535
    BY <1>1, <1>2, <1>3, <1>6
  <2>2. Exact(ma, excess)
    BY <1>6, <2>1 DEF Exact
  <2> QED
    BY <1>4, <2>2 DEF excess, ma
<1> QED
  BY <1>5, <1>6

LEMMA SumOfEight ==
    ASSUME NEW s \in Seq(Int), Len(s) = 8
    PROVE  Sum(s) = s[1] + s[2] + s[3] + s[4] + s[5] + s[6] + s[7] + s[8]
<1>1. PICK g : Sums(g, s) /\ Sum(s) = g[8]
  BY SumUnfolds
<1>2. \A i \in 1 .. 8 : s[i] \in Int
  BY ElementOfSeq
<1>3. /\ g[0] = 0 /\ \A n \in 1 .. 8 : g[n] = g[n - 1] + s[n]
  BY <1>1 DEF Sums
<1>4. /\ g[1] = s[1] /\ g[2] = g[1] + s[2] /\ g[3] = g[2] + s[3] /\ g[4] = g[3] + s[4]
      /\ g[5] = g[4] + s[5] /\ g[6] = g[5] + s[6] /\ g[7] = g[6] + s[7] /\ g[8] = g[7] + s[8]
  BY <1>2, <1>3
<1> QED
  BY <1>1, <1>2, <1>4

\* The same sample again and again averages to itself.
Same(samples, n, v) ==
    samples \in Seq(Int) /\ Len(samples) = n /\ \A i \in 1 .. n : samples[i] = v

LEMMA AverageOfSame ==
    ASSUME NEW N \in Nat, N > 0, NEW v \in Nat, v < 65536, NEW s, Same(s, N, v)
    PROVE  Average(s) = v
<1>1. s \in Seq(Int) /\ Len(s) = N /\ \A i \in 1 .. N : s[i] = v
  BY DEF Same
<1>2. s # <<>> /\ Within(s, v, v)
  BY <1>1 DEF Within
<1>3. v <= Average(s) /\ Average(s) <= v /\ Average(s) = Sum(s) \div Len(s)
  BY <1>1, <1>2, AverageIsExact
<1>4. Sum(s) \in Int
  BY <1>1, <1>2, SumIsBetween
<1> QED
  BY <1>1, <1>3, <1>4

LEMMA AverageOfMix ==
    ASSUME byte \in 0 .. 255, NEW n \in {0, 1, 7, 8}
    PROVE  LET mean == (n * High + (AVG_SAMPLES - n) * 300) \div AVG_SAMPLES
           IN  Average(MixOf(n)) = mean /\ mean \in Nat /\ mean < 65536
<1> DEFINE s == MixOf(n)
           total == n * High + (8 - n) * 300
<1>1. High \in Nat /\ High <= 65535
  BY DEF High
<1> HIDE DEF High
<1>2. s = [i \in 1 .. 8 |-> IF i <= n THEN High ELSE 300]
  BY DEF MixOf, AVG_SAMPLES
<1> HIDE DEF s
<1>3. s \in Seq(Int) /\ Len(s) = 8 /\ \A i \in 1 .. 8 : s[i] = IF i <= n THEN High ELSE 300
  BY <1>1, <1>2
<1>4. Sum(s) = total
  <2>1. Sum(s) = s[1] + s[2] + s[3] + s[4] + s[5] + s[6] + s[7] + s[8]
    BY <1>3, SumOfEight
  <2>2. n * High = IF n = 0 THEN 0 ELSE IF n = 1 THEN High ELSE IF n = 7 THEN 7 * High ELSE 8 * High
    BY <1>1
  <2>3. CASE n = 0
    BY <1>1, <1>3, <2>1, <2>3
  <2>4. CASE n = 1
    BY <1>1, <1>3, <2>1, <2>4
  <2>5. CASE n = 7
    BY <1>1, <1>3, <2>1, <2>5
  <2>6. CASE n = 8
    BY <1>1, <1>3, <2>1, <2>6
  <2> QED
    BY <2>3, <2>4, <2>5, <2>6
<1> DEFINE lo == 0
           hi == 65535
<1>5. s # <<>> /\ lo \in Nat /\ hi \in Nat /\ hi < 65536 /\ Within(s, lo, hi)
  <2>1. \A i \in 1 .. 8 : 0 <= s[i] /\ s[i] <= 65535
    BY <1>1, <1>3
  <2>2. Within(s, lo, hi)
    BY <1>3, <2>1 DEF Within
  <2> QED
    BY <1>3, <2>2
<1>6. /\ Average(s) = Sum(s) \div Len(s) /\ 0 <= Average(s) /\ Average(s) <= 65535
  <2> HIDE DEF lo, hi
  <2>1. s \in Seq(Int)
    BY <1>3
  <2>2. /\ Average(s) = Sum(s) \div Len(s) /\ lo <= Average(s) /\ Average(s) <= hi
    BY <1>5, <2>1, AverageIsExact
  <2> QED
    BY <2>2 DEF lo, hi
<1>7. total \div 8 \in Int
  BY <1>1
<1> HIDE DEF total
<1>8. Average(s) = total \div 8 /\ total \div 8 \in Nat /\ total \div 8 < 65536
  BY <1>3, <1>4, <1>6, <1>7
<1> QED
  BY <1>8 DEF s, total, AVG_SAMPLES

\* ibt2.rs: from samples to milliamperes, the reading is that of the mean
\* above the baseline's mean, and what drew the baseline reads as idle.
THEOREM CurrentIsExactHolds == Spec => []CurrentIsExact
<1>1. BusTypes => CurrentIsExact
  <2>1. SUFFICES ASSUME BusTypes, byte # NoByte, NEW n \in {0, 1, 7, 8}, NEW base \in {0, 300, 65535}
                 PROVE  ReadingIsExact(n, base)
    BY DEF CurrentIsExact
  <2> DEFINE offset == Average([i \in 1 .. CAL_SAMPLES |-> base])
             mean == (n * High + (AVG_SAMPLES - n) * 300) \div AVG_SAMPLES
             right == MixOf(n)
             left == MixOf(0)
             idle == 300
  <2>2. /\ byte \in 0 .. 255 /\ base \in Nat /\ base < 65536 /\ idle \in Nat /\ idle < 65536
        /\ CAL_SAMPLES \in Nat /\ CAL_SAMPLES > 0 /\ AVG_SAMPLES \in Nat /\ AVG_SAMPLES > 0
    BY <2>1 DEF BusTypes, CAL_SAMPLES, AVG_SAMPLES
  <2>3. offset = base
    <3>1. Same([i \in 1 .. CAL_SAMPLES |-> base], CAL_SAMPLES, base)
      BY <2>2 DEF Same
    <3> QED
      BY <2>2, <3>1, AverageOfSame
  <2>4. Average(right) = mean /\ mean \in Nat /\ mean < 65536
    BY <2>2, AverageOfMix
  <2>5. Average(left) = idle
    <3>1. left = [i \in 1 .. AVG_SAMPLES |-> idle]
      BY DEF MixOf, AVG_SAMPLES
    <3> HIDE DEF left, idle
    <3>2. Same(left, AVG_SAMPLES, idle)
      BY <2>2, <3>1 DEF Same
    <3> QED
      BY <2>2, <3>2, AverageOfSame
  <2>6. mv_to_ma(idle, idle) = 0
    BY DEF mv_to_ma, ScaledMa, saturating_sub, IS_SCALE_NUM, IS_SCALE_DEN
  <2> HIDE DEF offset, mean, right, left
  <2>7. Exact(mv_to_ma(mean, base), Excess(mean, base))
    BY <2>2, <2>4, ScalingIsExact
  <2>8. /\ read_current(right, left, offset, idle).r_mv = mean
        /\ read_current(right, left, offset, idle).l_ma = 0
        /\ read_current(right, left, offset, idle).r_ma = mv_to_ma(mean, base)
    <3> HIDE DEF idle
    <3> QED
      BY <2>3, <2>4, <2>5, <2>6 DEF read_current
  <2> QED
    BY <2>7, <2>8 DEF offset, mean, right, left, Exact, Excess, ReadingIsExact
<1> QED
  BY <1>1, BusTypesHold, PTL

-----------------------------------------------------------------------------
(* The checksum of the pairing record.                                     *)

\* Its step takes 16 bits to 16 bits.
LEMMA StepTypes ==
    /\ \A r \in Register : Shift(r) \in Register
    /\ \A r \in Register, b \in Octet : SymDiff(r, Raised(b)) \in Register
    /\ \A r \in Register, b \in Octet : Update(r, b) \in Register
<1>1. ASSUME NEW r \in Register PROVE Shift(r) \in Register
  <2>1. Doubled(r) \subseteq 0 .. 15 /\ Poly \subseteq 0 .. 15
    BY DEF Register, Doubled, Poly
  <2> QED
    BY <2>1 DEF Register, Shift, SymDiff
<1>2. ASSUME NEW r \in Register, NEW b \in Octet PROVE SymDiff(r, Raised(b)) \in Register
  <2>1. Raised(b) \subseteq 0 .. 15
    <3>1. \A k \in b : k \in 0 .. 7
      BY DEF Octet
    <3>2. \A k \in 0 .. 7 : k + 8 \in 0 .. 15
      OBVIOUS
    <3> QED
      BY <3>1, <3>2 DEF Raised
  <2> QED
    BY <2>1 DEF Register, SymDiff
<1>3. ASSUME NEW r \in Register, NEW b \in Octet PROVE Update(r, b) \in Register
  <2>1. \A s \in Register : FourShifts(s) \in Register
    BY <1>1 DEF FourShifts
  <2> QED
    BY <1>2, <2>1 DEF Update
<1> QED
  BY <1>1, <1>2, <1>3

\* Nothing is lost in a shift: the lowest bit tells whether the polynomial was
\* applied, since the polynomial has that bit.
LEMMA ShiftLosesNothing ==
    ASSUME NEW r \in Register, NEW s \in Register, Shift(r) = Shift(s)
    PROVE  r = s
<1>1. ASSUME NEW q \in Register
      PROVE  /\ 0 \notin Doubled(q)
             /\ \A k \in 0 .. 14 : k \in q <=> k + 1 \in Doubled(q)
  BY DEF Register, Doubled
<1>2. ASSUME NEW q \in Register PROVE 15 \in q <=> 0 \in Shift(q)
  BY <1>1 DEF Shift, SymDiff, Poly
<1>3. 15 \in r <=> 15 \in s
  BY <1>2
<1>4. Doubled(r) = Doubled(s)
  <2>1. CASE 15 \in r
    <3>1. SymDiff(Doubled(r), Poly) = SymDiff(Doubled(s), Poly)
      BY <1>3, <2>1 DEF Shift
    <3>2. ASSUME NEW k PROVE k \in Doubled(r) <=> k \in Doubled(s)
      <4>1. k \in SymDiff(Doubled(r), Poly) <=> k \in SymDiff(Doubled(s), Poly)
        BY <3>1
      <4> QED
        BY <4>1 DEF SymDiff
    <3> QED
      BY <3>2
  <2>2. CASE 15 \notin r
    BY <1>3, <2>2 DEF Shift
  <2> QED
    BY <2>1, <2>2
<1>5. \A k \in 0 .. 15 : k \in r <=> k \in s
  <2>1. \A k \in 0 .. 14 : k \in r <=> k \in s
    BY <1>1, <1>4
  <2>2. \A k \in 0 .. 15 : k \in 0 .. 14 \/ k = 15
    OBVIOUS
  <2> QED
    BY <1>3, <2>1, <2>2
<1> QED
  BY <1>5 DEF Register

\* So two registers that differ still differ when the same byte has been
\* added, and two bytes that differ leave the same register different.
LEMMA UpdateTellsApart ==
    ASSUME NEW r \in Register, NEW s \in Register, NEW b \in Octet, NEW c \in Octet,
           Update(r, b) = Update(s, c)
    PROVE  /\ b = c => r = s
           /\ r = s => b = c
<1>1. ASSUME NEW p \in Register, NEW q \in Register, FourShifts(p) = FourShifts(q)
      PROVE  p = q
  <2>1. \A x, y \in Register : Shift(x) = Shift(y) => x = y
    BY ShiftLosesNothing
  <2>2. \A x \in Register : Shift(x) \in Register
    BY StepTypes
  <2> QED
    BY <1>1, <2>1, <2>2 DEF FourShifts
<1>2. SymDiff(r, Raised(b)) = SymDiff(s, Raised(c))
  <2>1. /\ SymDiff(r, Raised(b)) \in Register /\ SymDiff(s, Raised(c)) \in Register
        /\ \A x \in Register : FourShifts(x) \in Register
    BY StepTypes DEF FourShifts
  <2> QED
    BY <1>1, <2>1 DEF Update
<1>3. \A k : k \in SymDiff(r, Raised(b)) <=> k \in SymDiff(s, Raised(c))
  BY <1>2
<1>4. b = c => r = s
  BY <1>3 DEF SymDiff
<1>5. r = s => Raised(b) = Raised(c)
  BY <1>3 DEF SymDiff
<1>6. Raised(b) = Raised(c) => b = c
  <2>1. \A k \in 0 .. 7, d \in Octet : k \in d <=> k + 8 \in Raised(d)
    BY DEF Octet, Raised
  <2> QED
    BY <2>1 DEF Octet
<1> QED
  BY <1>4, <1>5, <1>6

\* The equations of crc16_ccitt.
LEMMA ChecksumFolds ==
    /\ \A s \in Seq(Octet) : crc16_ccitt[s] \in Register
    /\ crc16_ccitt[<<>>] = 0 .. 15
    /\ \A s \in Seq(Octet), b \in Octet :
           crc16_ccitt[Append(s, b)] = Update(crc16_ccitt[s], b)
<1> DEFINE step == [x \in Register \X Octet |-> Update(x[1], x[2])]
           Beginning(s) == SubSeq(s, 1, Len(s) - 1)
           Equation(f) == f = [s \in Seq(Octet) |->
                                 IF s = <<>> THEN 0 .. 15
                                 ELSE Update(f[Beginning(s)], s[Len(s)])]
<1>1. 0 .. 15 \in Register
  BY DEF Register
<1>2. step \in [Register \X Octet -> Register]
  <2>1. ASSUME NEW x \in Register \X Octet PROVE Update(x[1], x[2]) \in Register
    BY StepTypes
  <2> QED
    BY <2>1
<1>3. \A r \in Register, b \in Octet : step[<<r, b>>] = Update(r, b)
  OBVIOUS
<1> HIDE DEF step
<1>4. \E f : Equation(f)
  <2>1. PICK f \in [Seq(Octet) -> Register] : Folds(f, Octet, 0 .. 15, step)
    BY <1>1, <1>2, SequenceRecursion
  <2>2. ASSUME NEW s \in Seq(Octet), s # <<>>
        PROVE  f[s] = Update(f[Beginning(s)], s[Len(s)])
    <3>1. Beginning(s) \in Seq(Octet) /\ s[Len(s)] \in Octet
          /\ s = Append(Beginning(s), s[Len(s)])
      BY <2>2, FrontAndLast
    <3> HIDE DEF Beginning
    <3>2. f[Append(Beginning(s), s[Len(s)])] = step[<<f[Beginning(s)], s[Len(s)]>>]
      BY <2>1, <3>1 DEF Folds
    <3>3. f[Beginning(s)] \in Register
      BY <3>1
    <3> QED
      BY <1>3, <3>1, <3>2, <3>3
  <2>3. \A s \in Seq(Octet) :
            f[s] = IF s = <<>> THEN 0 .. 15 ELSE Update(f[Beginning(s)], s[Len(s)])
    BY <2>1, <2>2 DEF Folds
  <2> HIDE DEF Beginning
  <2>4. Equation(f)
    BY <2>3
  <2> QED
    BY <2>4
<1>5. Equation(crc16_ccitt)
  BY <1>4 DEF crc16_ccitt
<1>6. crc16_ccitt[<<>>] = 0 .. 15
  BY <1>5, EmptySeq
<1>7. ASSUME NEW s \in Seq(Octet), NEW b \in Octet
      PROVE  crc16_ccitt[Append(s, b)] = Update(crc16_ccitt[s], b)
  <2> DEFINE t == Append(s, b)
  <2>1. t # <<>> /\ t \in Seq(Octet) /\ Beginning(t) = s /\ t[Len(t)] = b
    BY FrontOfAppend
  <2> HIDE DEF t, Beginning
  <2>2. crc16_ccitt[t] = Update(crc16_ccitt[Beginning(t)], t[Len(t)])
    BY <1>5, <2>1
  <2> QED
    BY <2>1, <2>2 DEF t
<1> HIDE DEF Equation
<1> DEFINE T == {s \in Seq(Octet) : crc16_ccitt[s] \in Register}
<1>8. <<>> \in T
  BY <1>1, <1>6, EmptySeq
<1>9. ASSUME NEW s \in T, NEW b \in Octet PROVE Append(s, b) \in T
  BY <1>7, StepTypes, AppendProperties
<1>10. Seq(Octet) \subseteq T
  <2> HIDE DEF T
  <2>1. T \in SUBSET Seq(Octet)
    BY DEF T
  <2> QED
    BY <1>8, <1>9, <2>1, SequenceInduction
<1> QED
  BY <1>6, <1>7, <1>10

\* Registers that differ still differ after the same bytes.
LEMMA BytesKeepApart ==
    ASSUME NEW s \in Seq(Octet), NEW t \in Seq(Octet), NEW u \in Seq(Octet),
           crc16_ccitt[s] # crc16_ccitt[t]
    PROVE  crc16_ccitt[s \o u] # crc16_ccitt[t \o u]
<1> DEFINE T == {v \in Seq(Octet) : crc16_ccitt[s \o v] # crc16_ccitt[t \o v]}
<1>1. <<>> \in T
  BY EmptySeq, ConcatEmptySeq
<1>2. ASSUME NEW v \in T, NEW b \in Octet PROVE Append(v, b) \in T
  <2>1. v \in Seq(Octet) /\ s \o v \in Seq(Octet) /\ t \o v \in Seq(Octet)
        /\ Append(v, b) \in Seq(Octet)
    BY ConcatProperties, AppendProperties
  <2>2. /\ crc16_ccitt[s \o Append(v, b)] = Update(crc16_ccitt[s \o v], b)
        /\ crc16_ccitt[t \o Append(v, b)] = Update(crc16_ccitt[t \o v], b)
    <3> HIDE DEF T
    <3>1. /\ s \o Append(v, b) = Append(s \o v, b)
          /\ t \o Append(v, b) = Append(t \o v, b)
      BY <2>1, ConcatAppend
    <3>2. \A q \in Seq(Octet) : crc16_ccitt[Append(q, b)] = Update(crc16_ccitt[q], b)
      BY ChecksumFolds
    <3> QED
      BY <2>1, <3>1, <3>2
  <2>3. crc16_ccitt[s \o v] \in Register /\ crc16_ccitt[t \o v] \in Register
    BY <2>1, ChecksumFolds
  <2>4. crc16_ccitt[s \o v] # crc16_ccitt[t \o v]
    OBVIOUS
  <2>5. crc16_ccitt[s \o Append(v, b)] # crc16_ccitt[t \o Append(v, b)]
    BY <2>2, <2>3, <2>4, UpdateTellsApart
  <2> QED
    BY <2>1, <2>5
<1>3. Seq(Octet) \subseteq T
  <2> HIDE DEF T
  <2>1. T \in SUBSET Seq(Octet)
    BY DEF T
  <2> QED
    BY <1>1, <1>2, <2>1, SequenceInduction
<1> QED
  BY <1>3

\* The checksum sees a change of any one byte.
LEMMA ChecksumSeesAChange ==
    ASSUME NEW s \in Seq(Octet), NEW t \in Seq(Octet), Len(t) = Len(s),
           NEW i \in 1 .. Len(s), t[i] # s[i],
           \A k \in 1 .. Len(s) : k # i => t[k] = s[k]
    PROVE  crc16_ccitt[t] # crc16_ccitt[s]
<1> DEFINE start == SubSeq(s, 1, i - 1)
           end == SubSeq(s, i + 1, Len(s))
<1>1. Len(s) \in Nat /\ i \in Nat /\ s[i] \in Octet /\ t[i] \in Octet
  BY LenProperties, ElementOfSeq
<1>2. ASSUME NEW q \in Seq(Octet), Len(q) = Len(s), \A k \in 1 .. Len(s) : k # i => q[k] = s[k]
      PROVE  q = Append(start, q[i]) \o end
  <2>1. i \in 0 .. Len(q) /\ i # 0
    BY <1>1, <1>2
  <2>2. SubSeq(q, 1, i) \in Seq(Octet) /\ SubSeq(q, i + 1, Len(q)) \in Seq(Octet)
        /\ SubSeq(q, 1, i) \o SubSeq(q, i + 1, Len(q)) = q
    BY <2>1, CutInTwo
  <2>3. SubSeq(q, i + 1, Len(q)) = end
    BY <1>1, <1>2, SubSeqProperties
  <2>4. SubSeq(q, 1, i) = Append(start, q[i])
    BY <1>1, <1>2, SubSeqProperties, AppendProperties
  <2> QED
    BY <2>2, <2>3, <2>4
<1>3. start \in Seq(Octet) /\ end \in Seq(Octet)
  BY <1>1, SubSeqProperties
<1>4. s = Append(start, s[i]) \o end /\ t = Append(start, t[i]) \o end
  BY <1>2
<1> HIDE DEF start, end
<1>5. crc16_ccitt[Append(start, s[i])] # crc16_ccitt[Append(start, t[i])]
  <2>1. crc16_ccitt[start] \in Register
    BY <1>3, ChecksumFolds
  <2>2. Update(crc16_ccitt[start], s[i]) # Update(crc16_ccitt[start], t[i])
    BY <1>1, <2>1, UpdateTellsApart
  <2> QED
    BY <1>1, <1>3, <2>2, ChecksumFolds
<1>6. Append(start, s[i]) \in Seq(Octet) /\ Append(start, t[i]) \in Seq(Octet)
  BY <1>1, <1>3, AppendProperties
<1> QED
  BY <1>3, <1>4, <1>5, <1>6, BytesKeepApart

-----------------------------------------------------------------------------
(* The pairing record.                                                     *)

Address == {s \in Seq(Octet) : Len(s) = 6}
Record == {s \in Seq(Octet) : Len(s) = 12}
Body(rec) == SubSeq(rec, 1, 10)
Stored(rec) == rec[11] \cup Raised(rec[12])

\* Bytes that are given place by place are a sequence.
LEMMA PlaceByPlace ==
    ASSUME NEW n \in Nat, NEW f \in [1 .. n -> Octet]
    PROVE  f \in Seq(Octet) /\ Len(f) = n
<1>1. f \in Seq(Octet)
  BY SeqDef
<1>2. Len(f) \in Nat /\ 1 .. Len(f) = 1 .. n
  BY <1>1, LenProperties
<1>3. Len(f) <= n /\ n <= Len(f)
  <2>1. Len(f) # 0 => Len(f) \in 1 .. n
    BY <1>2
  <2>2. n # 0 => n \in 1 .. Len(f)
    BY <1>2
  <2> QED
    BY <1>2, <2>1, <2>2
<1> QED
  BY <1>1, <1>2, <1>3

\* Joining and changing bytes.
LEMMA Joined ==
    ASSUME NEW s \in Seq(Octet), NEW t \in Seq(Octet)
    PROVE  /\ s \o t \in Seq(Octet) /\ Len(s \o t) = Len(s) + Len(t)
           /\ \A k \in 1 .. Len(s) : (s \o t)[k] = s[k]
           /\ \A k \in 1 .. Len(t) : (s \o t)[k + Len(s)] = t[k]
<1> DEFINE st == s \o t
<1>1. /\ st \in Seq(Octet) /\ Len(st) = Len(s) + Len(t)
      /\ \A k \in 1 .. Len(s) + Len(t) : st[k] = IF k <= Len(s) THEN s[k] ELSE t[k - Len(s)]
  BY ConcatProperties
<1> HIDE DEF st
<1>2. /\ \A k \in 1 .. Len(s) : k \in 1 .. Len(s) + Len(t) /\ k <= Len(s)
      /\ \A k \in 1 .. Len(t) : /\ k + Len(s) \in 1 .. Len(s) + Len(t)
                                /\ ~(k + Len(s) <= Len(s)) /\ (k + Len(s)) - Len(s) = k
  BY LenProperties
<1>3. \A k \in 1 .. Len(s) : st[k] = s[k]
  BY <1>1, <1>2
<1>4. \A k \in 1 .. Len(t) : st[k + Len(s)] = t[k]
  BY <1>1, <1>2
<1> QED
  BY <1>1, <1>3, <1>4 DEF st

LEMMA Changed ==
    ASSUME NEW s \in Seq(Octet), NEW i \in 1 .. Len(s), NEW b \in Octet,
           NEW t, t = [s EXCEPT ![i] = b]
    PROVE  /\ t \in Seq(Octet) /\ Len(t) = Len(s) /\ t[i] = b
           /\ \A k \in 1 .. Len(s) : k # i => t[k] = s[k]
BY ExceptSeq

\* Where the parts of a record are.
LEMMA PartsOfRecord ==
    ASSUME NEW rec \in Record
    PROVE  /\ Body(rec) \in Seq(Octet) /\ Len(Body(rec)) = 10
           /\ \A k \in 1 .. 10 : Body(rec)[k] = rec[k]
           /\ SubSeq(rec, 1, 4) \in Seq(Octet) /\ Len(SubSeq(rec, 1, 4)) = 4
           /\ \A k \in 1 .. 4 : SubSeq(rec, 1, 4)[k] = rec[k]
           /\ SubSeq(rec, 5, 10) \in Address
           /\ \A k \in 1 .. 6 : SubSeq(rec, 5, 10)[k] = rec[k + 4]
<1>1. \A k \in 1 .. 12 : rec[k] \in Octet
  BY ElementOfSeq DEF Record
<1>2. /\ Body(rec) \in Seq(Octet) /\ Len(Body(rec)) = 10
      /\ \A k \in 1 .. 10 : Body(rec)[k] = rec[k]
  BY <1>1, SubSeqProperties DEF Body
<1>3. /\ SubSeq(rec, 1, 4) \in Seq(Octet) /\ Len(SubSeq(rec, 1, 4)) = 4
      /\ \A k \in 1 .. 4 : SubSeq(rec, 1, 4)[k] = rec[k]
  BY <1>1, SubSeqProperties
<1>4. /\ SubSeq(rec, 5, 10) \in Address
      /\ \A k \in 1 .. 6 : SubSeq(rec, 5, 10)[k] = rec[k + 4]
  <2>1. /\ SubSeq(rec, 5, 10) \in Seq(Octet) /\ Len(SubSeq(rec, 5, 10)) = 6
        /\ \A k \in 1 .. 6 : SubSeq(rec, 5, 10)[k] = rec[5 + k - 1]
    BY <1>1, SubSeqProperties
  <2>2. \A k \in 1 .. 6 : 5 + k - 1 = k + 4
    OBVIOUS
  <2> QED
    BY <2>1, <2>2 DEF Address
<1> QED
  BY <1>2, <1>3, <1>4

\* What was written.
LEMMA WhatIsWritten ==
    ASSUME NEW mac \in Address
    PROVE  /\ serialize(mac) \in Record
           /\ SubSeq(serialize(mac), 1, 4) = MAGIC
           /\ SubSeq(serialize(mac), 5, 10) = mac
           /\ Stored(serialize(mac)) = crc16_ccitt[Body(serialize(mac))]
<1> DEFINE body == MAGIC \o mac
           crc == crc16_ccitt[body]
           rec == serialize(mac)
<1>1. MAGIC \in Seq(Octet) /\ Len(MAGIC) = 4
  <2>1. \A k \in Nat : OctetOf(k) \in Octet
    BY DEF OctetOf, Octet
  <2> QED
    BY <2>1 DEF MAGIC
<1>2. body \in Seq(Octet) /\ Len(body) = 10
      /\ (\A k \in 1 .. 4 : body[k] = MAGIC[k]) /\ (\A k \in 1 .. 6 : body[k + 4] = mac[k])
  <2>1. mac \in Seq(Octet) /\ Len(mac) = 6
    BY DEF Address
  <2>2. /\ body \in Seq(Octet) /\ Len(body) = Len(MAGIC) + Len(mac)
        /\ \A k \in 1 .. Len(MAGIC) : body[k] = MAGIC[k]
        /\ \A k \in 1 .. Len(mac) : body[k + Len(MAGIC)] = mac[k]
    BY <1>1, <2>1, Joined
  <2> HIDE DEF body
  <2> QED
    BY <1>1, <2>1, <2>2
<1> HIDE DEF body
<1>3. crc \in Register
  BY <1>2, ChecksumFolds
<1> HIDE DEF crc
<1>4. LowOctet(crc) \in Octet /\ HighOctet(crc) \in Octet
      /\ LowOctet(crc) \cup Raised(HighOctet(crc)) = crc
  <2>1. \A k \in crc : k \in 0 .. 7 \/ (k - 8 \in 0 .. 7 /\ (k - 8) + 8 = k)
    BY <1>3 DEF Register
  <2>2. LowOctet(crc) \in Octet /\ HighOctet(crc) \in Octet
    BY DEF Octet, LowOctet, HighOctet
  <2>3. Raised(HighOctet(crc)) \subseteq crc /\ LowOctet(crc) \subseteq crc
    BY DEF LowOctet, HighOctet, Raised
  <2>4. ASSUME NEW k \in crc PROVE k \in LowOctet(crc) \cup Raised(HighOctet(crc))
    <3>1. CASE k \in 0 .. 7
      BY <3>1 DEF LowOctet
    <3>2. CASE k - 8 \in 0 .. 7 /\ (k - 8) + 8 = k
      <4>1. k - 8 \in HighOctet(crc)
        BY <3>2 DEF HighOctet
      <4> QED
        BY <3>2, <4>1 DEF Raised
    <3> QED
      BY <2>1, <3>1, <3>2
  <2> QED
    BY <2>2, <2>3, <2>4
<1>5. rec = body \o <<LowOctet(crc), HighOctet(crc)>>
  BY DEF serialize, body, crc
<1>6. /\ rec \in Record /\ (\A k \in 1 .. 10 : rec[k] = body[k])
      /\ rec[11] = LowOctet(crc) /\ rec[12] = HighOctet(crc)
  <2> DEFINE ends == <<LowOctet(crc), HighOctet(crc)>>
  <2>1. ends \in Seq(Octet) /\ Len(ends) = 2 /\ ends[1] = LowOctet(crc) /\ ends[2] = HighOctet(crc)
    BY <1>4
  <2> HIDE DEF ends
  <2>2. rec = body \o ends
    BY <1>5 DEF ends
  <2> HIDE DEF rec
  <2>3. /\ rec \in Seq(Octet) /\ Len(rec) = Len(body) + Len(ends)
        /\ \A k \in 1 .. Len(body) : rec[k] = body[k]
        /\ \A k \in 1 .. Len(ends) : rec[k + Len(body)] = ends[k]
    BY <1>2, <2>1, <2>2, Joined
  <2>4. rec[11] = ends[1] /\ rec[12] = ends[2] /\ Len(rec) = 12
    BY <1>2, <2>1, <2>3
  <2>5. \A k \in 1 .. 10 : rec[k] = body[k]
    BY <1>2, <2>3
  <2> QED
    BY <2>1, <2>3, <2>4, <2>5 DEF Record
<1> HIDE DEF rec
<1>7. Body(rec) = body
  <2>1. Body(rec) \in Seq(Octet) /\ Len(Body(rec)) = 10
        /\ \A k \in 1 .. 10 : Body(rec)[k] = body[k]
    BY <1>6, PartsOfRecord
  <2> QED
    BY <1>2, <2>1, SeqEqual
<1>8. SubSeq(rec, 1, 4) = MAGIC
  <2>1. SubSeq(rec, 1, 4) \in Seq(Octet) /\ Len(SubSeq(rec, 1, 4)) = 4
        /\ \A k \in 1 .. 4 : SubSeq(rec, 1, 4)[k] = MAGIC[k]
    BY <1>2, <1>6, PartsOfRecord
  <2> QED
    BY <1>1, <2>1, SeqEqual
<1>9. SubSeq(rec, 5, 10) = mac
  <2>1. SubSeq(rec, 5, 10) \in Seq(Octet) /\ Len(SubSeq(rec, 5, 10)) = 6
        /\ \A k \in 1 .. 6 : SubSeq(rec, 5, 10)[k] = mac[k]
    BY <1>2, <1>6, PartsOfRecord DEF Address
  <2> QED
    BY <2>1, SeqEqual DEF Address
<1> QED
  BY <1>4, <1>6, <1>7, <1>8, <1>9 DEF rec, crc, Stored

\* A changed byte is always seen: by the magic number, or by the checksum.
LEMMA AnyChangeIsSeen ==
    ASSUME NEW mac \in Address, NEW i \in 1 .. PAIRING_RECORD_LEN, NEW octet \in Octet
    PROVE  ChangeIsSeen(mac, i, octet)
<1> DEFINE rec == serialize(mac)
           new == [rec EXCEPT ![i] = octet]
<1> SUFFICES ASSUME octet # rec[i] PROVE ~Valid(new)
  BY DEF ChangeIsSeen, deserialize
<1>1. rec \in Record /\ SubSeq(rec, 1, 4) = MAGIC /\ Stored(rec) = crc16_ccitt[Body(rec)]
  BY WhatIsWritten
<1> HIDE DEF rec
<1>2. new \in Record /\ new[i] = octet /\ i \in 1 .. 12
      /\ \A k \in 1 .. 12 : k # i => new[k] = rec[k]
  <2>1. rec \in Seq(Octet) /\ Len(rec) = 12 /\ i \in 1 .. 12
    BY <1>1 DEF Record, PAIRING_RECORD_LEN
  <2>2. i \in 1 .. Len(rec)
    BY <2>1
  <2>3. /\ new \in Seq(Octet) /\ Len(new) = Len(rec) /\ new[i] = octet
        /\ \A k \in 1 .. Len(rec) : k # i => new[k] = rec[k]
    <3>1. new = [rec EXCEPT ![i] = octet]
      OBVIOUS
    <3> HIDE DEF new
    <3> QED
      BY <2>1, <2>2, <3>1, Changed
  <2> HIDE DEF new
  <2> QED
    BY <2>1, <2>3 DEF Record
<1> HIDE DEF new
<1>3. CASE i \in 1 .. 4
  <2>1. SubSeq(new, 1, 4)[i] = octet /\ SubSeq(rec, 1, 4)[i] = rec[i]
    BY <1>1, <1>2, <1>3, PartsOfRecord
  <2> QED
    BY <1>1, <2>1 DEF Valid
<1>4. CASE i \in 5 .. 10
  <2>1. crc16_ccitt[Body(new)] # crc16_ccitt[Body(rec)]
    <3>1. /\ Body(new) \in Seq(Octet) /\ Body(rec) \in Seq(Octet)
          /\ Len(Body(new)) = 10 /\ Len(Body(rec)) = 10
          /\ \A k \in 1 .. 10 : Body(new)[k] = new[k] /\ Body(rec)[k] = rec[k]
      BY <1>1, <1>2, PartsOfRecord
    <3>2. i \in 1 .. Len(Body(rec)) /\ Body(new)[i] # Body(rec)[i]
          /\ \A k \in 1 .. Len(Body(rec)) : k # i => Body(new)[k] = Body(rec)[k]
      BY <1>2, <1>4, <3>1
    <3> QED
      BY <3>1, <3>2, ChecksumSeesAChange
  <2>2. Stored(new) = Stored(rec)
    BY <1>2, <1>4 DEF Stored
  <2> QED
    BY <1>1, <2>1, <2>2 DEF Valid, Body, Stored
<1>5. CASE i \in 11 .. 12
  <2>1. Body(new) = Body(rec)
    <3>1. /\ Body(new) \in Seq(Octet) /\ Body(rec) \in Seq(Octet)
          /\ Len(Body(new)) = 10 /\ Len(Body(rec)) = 10
          /\ \A k \in 1 .. 10 : Body(new)[k] = Body(rec)[k]
      BY <1>1, <1>2, <1>5, PartsOfRecord
    <3> QED
      BY <3>1, SeqEqual
  <2>2. Stored(new) # Stored(rec)
    <3>1. \A q \in Record, k \in 0 .. 7 :
              /\ k \in q[11] <=> k \in Stored(q)
              /\ k \in q[12] <=> k + 8 \in Stored(q)
      <4> SUFFICES ASSUME NEW q \in Record, NEW k \in 0 .. 7
                   PROVE  /\ k \in q[11] <=> k \in Stored(q)
                          /\ k \in q[12] <=> k + 8 \in Stored(q)
        OBVIOUS
      <4>1. q[11] \in Octet /\ q[12] \in Octet
        <5>1. q \in Seq(Octet) /\ Len(q) = 12
          BY DEF Record
        <5>2. \A e \in 1 .. Len(q) : q[e] \in Octet
          BY <5>1, ElementOfSeq
        <5> QED
          BY <5>1, <5>2
      <4> QED
        BY <4>1 DEF Octet, Stored, Raised
    <3>2. rec[i] \in Octet
      BY <1>1, <1>2, ElementOfSeq DEF Record
    <3>3. PICK k \in 0 .. 7 : ~(k \in new[i] <=> k \in rec[i])
      BY <1>2, <3>2 DEF Octet
    <3> QED
      BY <1>1, <1>2, <1>5, <3>1, <3>3
  <2> QED
    BY <1>1, <2>1, <2>2 DEF Valid, Body, Stored
<1> QED
  BY <1>2, <1>3, <1>4, <1>5

\* A write that was cut short.
LEMMA AnyCutIsSeen ==
    ASSUME NEW mac \in Address, NEW n \in 0 .. PAIRING_RECORD_LEN - 1
    PROVE  CutIsSeen(mac, n)
<1> DEFINE rec == serialize(mac)
           torn == Torn(rec, n)
<1>1. rec \in Record /\ SubSeq(rec, 5, 10) = mac
  BY WhatIsWritten
<1> HIDE DEF rec
<1>2. /\ torn \in Record /\ n \in 0 .. 11
      /\ \A k \in 1 .. 12 : torn[k] = IF k <= n THEN rec[k] ELSE Erased
  <2>1. \A k \in 1 .. 12 : rec[k] \in Octet
    BY <1>1, ElementOfSeq DEF Record
  <2>2. torn \in [1 .. 12 -> Octet] /\ \A k \in 1 .. 12 : torn[k] = IF k <= n THEN rec[k] ELSE Erased
    BY <2>1 DEF Torn, PAIRING_RECORD_LEN, Erased, Octet
  <2> HIDE DEF torn
  <2>3. torn \in Seq(Octet) /\ Len(torn) = 12
    <3>1. 12 \in Nat
      OBVIOUS
    <3> QED
      BY <2>2, <3>1, PlaceByPlace
  <2> QED
    BY <2>2, <2>3 DEF Record, PAIRING_RECORD_LEN
<1> HIDE DEF torn
<1>3. CASE n \in 0 .. 3
  <2>1. torn[4] = 0 .. 7
    BY <1>2, <1>3 DEF Erased
  <2>2. 0 \notin MAGIC[4]
    BY DEF MAGIC, OctetOf, Weights
  <2>3. ~Valid(torn)
    BY <1>2, <2>1, <2>2, PartsOfRecord DEF Valid
  <2> QED
    BY <2>3 DEF CutIsSeen, deserialize, torn, rec
<1>4. CASE n \in 4 .. 9
  <2>1. Stored(torn) = 0 .. 15
    <3>1. torn[11] = 0 .. 7 /\ torn[12] = 0 .. 7
      BY <1>2, <1>4 DEF Erased
    <3>2. Raised(0 .. 7) = 8 .. 15
      <4>1. \A k \in 8 .. 15 : k - 8 \in 0 .. 7 /\ (k - 8) + 8 = k
        OBVIOUS
      <4> QED
        BY <4>1 DEF Raised
    <3> QED
      BY <3>1, <3>2 DEF Stored
  <2>2. Valid(torn) => crc16_ccitt[SubSeq(torn, 1, 10)] = 0 .. 15
    BY <2>1 DEF Valid, Stored
  <2> QED
    BY <1>4, <2>2 DEF CutIsSeen, deserialize, torn, rec
<1>5. CASE n \in 10 .. 11
  <2>1. /\ SubSeq(torn, 5, 10) \in Address /\ SubSeq(rec, 5, 10) \in Address
        /\ \A k \in 1 .. 6 : SubSeq(torn, 5, 10)[k] = torn[k + 4]
        /\ \A k \in 1 .. 6 : SubSeq(rec, 5, 10)[k] = rec[k + 4]
    BY <1>1, <1>2, PartsOfRecord
  <2>2. \A k \in 1 .. 6 : torn[k + 4] = rec[k + 4]
    BY <1>2, <1>5
  <2>3. SubSeq(torn, 5, 10) = mac
    BY <1>1, <2>1, <2>2, SeqEqual DEF Address
  <2> QED
    BY <2>3 DEF CutIsSeen, deserialize, torn, rec
<1> QED
  BY <1>2, <1>3, <1>4, <1>5

\* Every address is read back; of its record any one byte may change and any
\* write may be cut short without a stranger being loaded, but for a cut in the
\* address that happens to have the checksum of erased flash.
THEOREM RecordIsSafe ==
    ASSUME NEW mac \in Address
    PROVE  /\ ReadsBack(mac)
           /\ \A i \in 1 .. PAIRING_RECORD_LEN, octet \in Octet : ChangeIsSeen(mac, i, octet)
           /\ \A n \in 0 .. PAIRING_RECORD_LEN - 1 : CutIsSeen(mac, n)
<1>1. ReadsBack(mac)
  BY WhatIsWritten DEF ReadsBack, deserialize, Valid, Body, Stored
<1> QED
  BY <1>1, AnyChangeIsSeen, AnyCutIsSeen

\* The addresses that the run writes are addresses.
LEMMA WrittenAreAddresses ==
    ASSUME byte \in 0 .. 255, NEW numbers \in Written
    PROVE  AddressOf(numbers) \in Address
<1>1. \A n : OctetOf(n) \in Octet
  BY DEF OctetOf, Octet
<1>2. AddressOf(numbers) \in [1 .. 6 -> Octet]
  BY <1>1 DEF AddressOf
<1>3. 6 \in Nat
  OBVIOUS
<1> HIDE DEF AddressOf
<1>4. AddressOf(numbers) \in Seq(Octet) /\ Len(AddressOf(numbers)) = 6
  BY <1>2, <1>3, PlaceByPlace
<1> QED
  BY <1>4 DEF Address

\* pairing.rs: for the addresses and bytes of the run, as for all of them.
THEOREM NoStrangerIsLoadedHolds == Spec => []NoStrangerIsLoaded
<1>1. BusTypes => NoStrangerIsLoaded
  <2> SUFFICES ASSUME BusTypes, byte # NoByte, NEW numbers \in Written
               PROVE  LET mac == AddressOf(numbers)
                      IN  /\ ReadsBack(mac)
                          /\ \A i \in 1 .. PAIRING_RECORD_LEN : ChangeIsSeen(mac, i, OctetOf(byte))
                          /\ \A n \in 0 .. PAIRING_RECORD_LEN - 1 : CutIsSeen(mac, n)
    BY DEF NoStrangerIsLoaded
  <2> DEFINE mac == AddressOf(numbers)
             octet == OctetOf(byte)
  <2>1. byte \in 0 .. 255
    BY DEF BusTypes
  <2>2. mac \in Address
    BY <2>1, WrittenAreAddresses
  <2>3. octet \in Octet
    BY DEF OctetOf, Octet
  <2> HIDE DEF mac, octet
  <2>4. /\ ReadsBack(mac)
        /\ \A i \in 1 .. PAIRING_RECORD_LEN : ChangeIsSeen(mac, i, octet)
        /\ \A n \in 0 .. PAIRING_RECORD_LEN - 1 : CutIsSeen(mac, n)
    BY <2>2, <2>3, RecordIsSafe
  <2> QED
    BY <2>4 DEF mac, octet
<1> QED
  BY <1>1, BusTypesHold, PTL

-----------------------------------------------------------------------------
(* The watchdog's clocks.                                                  *)

\* keepalive.rs: with the code's timeout and loop interval.
LEMMA SilenceSufficesHere ==
    ASSUME NEW now \in Nat, NEW l \in (0 .. now) \cup {Absent}
    PROVE  Dog!SilenceSuffices(l, now)
<1> DEFINE silent == IF l = Absent THEN now ELSE now - l
           w == Dog!Silence(l, now)
<1>1. Dog!SilentCap = 550
  BY DEF Dog!SilentCap
<1>2. silent \in Nat
  BY Addresses
<1>3. w = [heard |-> l # Absent, silent_ms |-> Dog!AtMost(silent, 550)]
  BY <1>1 DEF Dog!Silence
<1>4. Dog!AtMost(silent, 550) > 500 <=> silent > 500
  BY <1>2 DEF Dog!AtMost
<1>5. Dog!state(w) = Dog!state_at(l, now)
  <2>1. w.heard = (l # Absent) /\ (w.silent_ms > 500 <=> silent > 500)
    BY <1>3, <1>4
  <2> HIDE DEF w
  <2>2. CASE l = Absent
    BY <2>1, <2>2 DEF Dog!state, Dog!state_at
  <2>3. CASE l # Absent
    BY <2>1, <2>3 DEF Dog!state, Dog!state_at
  <2> QED
    BY <2>2, <2>3
<1>6. Dog!record_valid_packet(w) = Dog!Silence(now, now)
  <2>1. now # Absent /\ now - now = 0
    BY Addresses
  <2>2. Dog!AtMost(0, Dog!SilentCap) = 0
    BY <1>1 DEF Dog!AtMost
  <2>3. Dog!Silence(now, now) = [heard |-> TRUE, silent_ms |-> Dog!AtMost(0, Dog!SilentCap)]
    BY <2>1 DEF Dog!Silence
  <2> QED
    BY <2>2, <2>3 DEF Dog!record_valid_packet
<1>7. Dog!Elapsed(w) = Dog!Silence(l, now + 50)
  <2>1. Dog!Elapsed(w) = [heard |-> l # Absent,
                          silent_ms |-> Dog!AtMost(Dog!AtMost(silent, 550) + 50, 550)]
    BY <1>1, <1>3 DEF Dog!Elapsed
  <2>2. Dog!AtMost(Dog!AtMost(silent, 550) + 50, 550) = Dog!AtMost(silent + 50, 550)
    BY <1>2 DEF Dog!AtMost
  <2>3. CASE l = Absent
    BY <1>1, <2>1, <2>2, <2>3 DEF Dog!Silence
  <2>4. CASE l # Absent
    <3>1. now + 50 - l = silent + 50
      BY <2>4
    <3> QED
      BY <1>1, <2>1, <2>2, <2>4, <3>1 DEF Dog!Silence
  <2> QED
    BY <2>3, <2>4
<1> QED
  BY <1>5, <1>6, <1>7 DEF Dog!SilenceSuffices

\* keepalive.rs: the silence answers as the clocks do, and goes on doing so.
THEOREM SilenceIsEnoughHolds == Spec => []SilenceIsEnough
<1>1. BusTypes => SilenceIsEnough
  <2> SUFFICES ASSUME BusTypes, byte # NoByte
               PROVE  SilenceIsEnough
    BY DEF SilenceIsEnough
  <2> DEFINE now == byte * 10
             lasts == {Absent} \cup {now - d : d \in {s \in Silences : s <= now}}
  <2>1. now \in Nat
    BY DEF BusTypes
  <2>2. lasts \subseteq (0 .. now) \cup {Absent}
    BY <2>1 DEF Silences
  <2>3. Dog!Silence(Absent, 0) = Dog!NewWatchdog
    <3>1. Dog!AtMost(0, Dog!SilentCap) = 0
      BY DEF Dog!AtMost, Dog!SilentCap
    <3> QED
      BY <3>1 DEF Dog!Silence, Dog!NewWatchdog
  <2>4. \A l \in lasts : Dog!SilenceSuffices(l, now)
    <3> HIDE DEF now, lasts
    <3> QED
      BY <2>1, <2>2, SilenceSufficesHere
  <2> QED
    BY <2>3, <2>4 DEF SilenceIsEnough
<1> QED
  BY <1>1, BusTypesHold, PTL
=============================================================================
