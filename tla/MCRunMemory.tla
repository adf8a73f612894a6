----------------------------- MODULE MCRunMemory -----------------------------
(* Two threads; the one that owns the run is inside the memo's scope, the     *)
(* other is a worker outside it or has entered it too.                        *)
EXTENDS RunMemory

MCWeight == [k \in Keys |-> 1]
MCScopes == {{Owner}, Threads}
=============================================================================
