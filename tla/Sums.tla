-------------------------------- MODULE Sums --------------------------------
(* Sums of numbered terms, as Iterator::sum adds them up. *)
EXTENDS Integers

(* terms[1] + ... + terms[n] *)
SumTo(terms, n) ==
  LET upto[i \in 0 .. n] == IF i = 0 THEN 0 ELSE upto[i - 1] + terms[i] IN upto[n]
=============================================================================
