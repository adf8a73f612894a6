------------------------- MODULE MCBatchAccounting -------------------------
(* Instances of BatchAccounting for TLC. *)
EXTENDS BatchAccounting

\* Totals from which one, two or three batches cross 100 or 1000 bytes.
TotalsToCross == {NoTotals} \cup [payload : {9}, metadata : (40..84) \cup (940..984)]
SmallAdditions == [payload : 0..6, metadata : 0..6]

\* A head without the files, for every total; one with any of them, in any version.
SmallHeads ==
    [totals : TotalsToCross, files : {[p \in Paths |-> NoFile]}]
        \cup [totals : {[payload |-> 9, metadata |-> 78]}, files : [Paths -> Digests \cup {NoFile}]]
=============================================================================
