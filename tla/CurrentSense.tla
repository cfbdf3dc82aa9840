---------------------------- MODULE CurrentSense ----------------------------
(***************************************************************************)
(* The current readings of vehicle/src/ibt2.rs: samples of the two sense   *)
(* pins in mV, averaged, freed of the idle baseline and scaled to mA.  The *)
(* ends are 16 bits wide.  What lies between is u32 in the code and stays  *)
(* below 2^22, so it is written with integers.                             *)
(***************************************************************************)
EXTENDS Integers, Sequences

U16(n) == n % 65536

IS_SCALE_NUM == 17
IS_SCALE_DEN == 2
AVG_SAMPLES == 8
CAL_SAMPLES == 32

Sum(samples) ==
    LET sum[n \in 0 .. Len(samples)] == IF n = 0 THEN 0 ELSE sum[n - 1] + samples[n]
    IN  sum[Len(samples)]

\* avg_mv takes AVG_SAMPLES of them, calibrate_offset CAL_SAMPLES.
Average(samples) == U16(Sum(samples) \div Len(samples))

saturating_sub(a, b) == IF a > b THEN a - b ELSE 0

\* The conversion if it were computed in 16 bits.
NarrowMa(net) == U16(net * IS_SCALE_NUM) \div IS_SCALE_DEN
ScaledMa(net) ==
    LET ma == (net * IS_SCALE_NUM) \div IS_SCALE_DEN
    IN  IF ma > 65535 THEN 65535 ELSE ma

mv_to_ma(mv, offset_mv) == ScaledMa(saturating_sub(mv, offset_mv))

read_current(r, l, r_offset_mv, l_offset_mv) ==
    [r_ma |-> mv_to_ma(Average(r), r_offset_mv),
     l_ma |-> mv_to_ma(Average(l), l_offset_mv),
     r_mv |-> Average(r), l_mv |-> Average(l)]
=============================================================================
