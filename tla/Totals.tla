------------------------------- MODULE Totals --------------------------------
(* What the first parts of a list come to: numbers added, lists joined. *)
EXTENDS Integers, Sequences

Total(parts, n) ==
  LET sum[k \in 0..n] == IF k = 0 THEN 0 ELSE sum[k - 1] + parts[k]
  IN  sum[n]

Combined(parts, n) ==
  LET list[k \in 0..n] == IF k = 0 THEN <<>> ELSE list[k - 1] \o parts[k]
  IN  list[n]
=============================================================================
