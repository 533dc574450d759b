-------------------------------- MODULE Totals --------------------------------
(***************************************************************************)
(* Adding up as the loops of the source do it, one number after another.   *)
(***************************************************************************)
EXTENDS Integers, Sequences

(* How much the first n numbers are together.                              *)
Totals(numbers) ==
  LET total[n \in 0 .. Len(numbers)] ==
        IF n = 0 THEN 0 ELSE total[n - 1] + numbers[n]
  IN  total

Total(numbers) == Totals(numbers)[Len(numbers)]
=============================================================================
