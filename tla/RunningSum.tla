--------------------------- MODULE RunningSum ---------------------------
(***************************************************************************)
(* The running sum of a loop: what it has added up before its next round.  *)
(***************************************************************************)
EXTENDS Integers, Sequences

\* The sum of the first n numbers of a sequence.
SumTo(numbers, n) ==
  LET upto[k \in 0..Len(numbers)] == IF k = 0 THEN 0 ELSE upto[k - 1] + numbers[k]
  IN upto[n]

SumOf(numbers) == SumTo(numbers, Len(numbers))

========================================================================
