-------------------------------- MODULE Sums --------------------------------
(* Loops that add up the terms of a sequence.                              *)
EXTENDS Integers, Sequences

(* The sum of the first n terms of a sequence, for each n: what a loop that*)
(* adds the terms one after the other holds after n of them.               *)
RunningSum(terms) ==
    LET sum[n \in 0..Len(terms)] == IF n = 0 THEN 0 ELSE sum[n - 1] + terms[n]
    IN  sum
=============================================================================
