----------------------------- MODULE Bisection -----------------------------
(* The binary search of lower_bound and upper_bound in src/ring_buffer.rs. *)
EXTENDS Integers

(* The half of [lo, hi) in which the bisection that goes right at the      *)
(* positions of right goes on, and where it ends from [0, top).            *)
Half(right, r) ==
  LET mid == r[1] + (r[2] - r[1]) \div 2
  IN  IF mid \in right THEN <<mid + 1, r[2]>> ELSE <<r[1], mid>>
Bisect(right, top) ==
  LET end[r \in (0 .. top) \X (0 .. top)] ==
        IF r[1] >= r[2] THEN r[1] ELSE end[Half(right, r)]
  IN  end[<<0, top>>]
=============================================================================
