----------------------------- MODULE MCJournal -----------------------------
(* Instances of Journal for TLC: two artifacts that share a part and a document. *)
EXTENDS Journal

CONSTANTS t1, t2, partA, partB, partC, docD, docE, docS

MCTxns == {t1, t2}
MCFiles == {partA, partB, partC, docD, docE, docS}
MCParts == [t \in MCTxns |-> IF t = t1 THEN <<{partA}, {partB}>> ELSE <<{partB, partC}>>]
MCDocuments == [t \in MCTxns |-> IF t = t1 THEN {docD, docS} ELSE {docE, docS}]
=============================================================================
