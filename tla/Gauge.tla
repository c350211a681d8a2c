--------------------------------- MODULE Gauge ---------------------------------
(***************************************************************************)
(* Fractions as integers: One stands for 1.0, the unit for the last        *)
(* decimal that is stored.                                                 *)
(***************************************************************************)
EXTENDS Integers

CONSTANT One

ASSUME GaugeAssumption == One \in Nat \ {0}

Times(a, b) == (a * b) \div One

Bounded(lo, hi, v) == IF v < lo THEN lo ELSE IF v > hi THEN hi ELSE v

Clamp01(v) == Bounded(0, One, v)

Gap(a, b) == IF a < b THEN b - a ELSE a - b
=============================================================================
