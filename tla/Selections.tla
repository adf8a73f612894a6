---------------------------- MODULE Selections ----------------------------
(***************************************************************************)
(* Selection from a sequence by position, as a recursive function: what    *)
(* SelectSeq computes, in a form whose properties can be proved.           *)
(***************************************************************************)
EXTENDS Naturals, Sequences

\* The members of the first n positions of seq that are in S, in order.
SelectedTo(seq, S, n) ==
    LET chosen[i \in 0..n] ==
            IF i = 0 THEN <<>>
            ELSE IF i \in S THEN Append(chosen[i - 1], seq[i])
            ELSE chosen[i - 1]
    IN  chosen[n]

Selected(seq, S) == SelectedTo(seq, S, Len(seq))
=============================================================================
