----------------------------- MODULE Summation ------------------------------
(***************************************************************************)
(* What a loop adds up, one number after the other.                        *)
(***************************************************************************)
EXTENDS Integers, Sequences

\* The sums of the first numbers, however many.
Sums(numbers) ==
    LET sum[i \in 0 .. Len(numbers)] == IF i = 0 THEN 0 ELSE sum[i - 1] + numbers[i] IN sum

SumOf(numbers) == Sums(numbers)[Len(numbers)]
=============================================================================
