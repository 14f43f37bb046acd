------------------------------- MODULE PowersOfTwo -------------------------------
(***************************************************************************)
(* The shift 1 << n, which all widths and bits of numbers are made of.     *)
(***************************************************************************)
EXTENDS Integers

Pow2[n \in Nat] == IF n = 0 THEN 1 ELSE 2 * Pow2[n - 1]

================================================================================
