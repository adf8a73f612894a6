-------------------------------- MODULE Sums --------------------------------
(* Sums of bytes, in a form that can be checked and proved about alike. *)
EXTENDS Naturals

\* f[1] + ... + f[n]
Total(f, n) ==
    LET sum[i \in 0..n] == IF i = 0 THEN 0 ELSE sum[i - 1] + f[i]
    IN  sum[n]
=============================================================================
