----------------------------- MODULE LedgerSize -----------------------------
(***************************************************************************)
(* advance_capacity_ledger_for_repository_batch (crates/xc-cache/src/      *)
(* managed_publication.rs): the metadata total of the new capacity ledger  *)
(* includes the ledger document itself, whose length depends on the        *)
(* decimal digits of that total.  The loop guesses the length, writes the  *)
(* document and tries again with the length it found, 16 times at most.    *)
(***************************************************************************)
EXTENDS Naturals, FiniteSets

CONSTANTS
    Totals,     \* payload and metadata totals the ledger may have before
    Additions,  \* payload and metadata bytes a batch may add, its ledger aside
    Fixed,      \* length of the document without the digits of the totals
    Capacity,   \* hard_capacity_bytes
    MaxTries    \* the 16 of the loop

ASSUME LedgerAssumption ==
    /\ Totals \subseteq [payload : Nat, metadata : Nat]
    /\ Additions \subseteq [payload : Nat, metadata : Nat]
    /\ Fixed \in Nat /\ Capacity \in Nat /\ MaxTries \in Nat /\ 4 <= MaxTries

VARIABLES
    old,     \* the totals before
    added,   \* what the batch adds, the ledger aside
    size,    \* ledger_size
    tries,   \* turns of the loop so far
    new,     \* the ledger the caller has: old until the batch is admitted
    status   \* "run", "ok" or "full"

vars == <<old, added, size, tries, new, status>>

\* 10^0 to 10^19
Power[k \in 0..19] == IF k = 0 THEN 1 ELSE 10 * Power[k - 1]

\* A u64 has 20 digits at most.
Digits(n) == CHOOSE d \in 1..20 : (d = 20 \/ n < Power[d]) /\ (d = 1 \/ Power[d - 1] <= n)

\* canonical_json_bytes(&candidate).len()
Length(totals) == Fixed + Digits(totals.payload) + Digits(totals.metadata)

Candidate ==
    [payload |-> old.payload + added.payload,
     metadata |-> old.metadata + added.metadata + size]

Init ==
    /\ old \in Totals /\ old.payload + old.metadata <= Capacity
    /\ added \in Additions
    /\ size = 0 /\ tries = 0 /\ new = old /\ status = "run"

\* Mutant: the next guess leaves the document out of its own total.
RetryWithoutOwnSize ==
    /\ status = "run" /\ tries < MaxTries
    /\ Length(Candidate) # size
    /\ size' = Length([Candidate EXCEPT !.metadata = @ - size])
    /\ tries' = tries + 1
    /\ UNCHANGED <<old, added, new, status>>

\* The length is not the one that was counted: count the one that was found.
Retry ==
    /\ status = "run" /\ tries < MaxTries
    /\ Length(Candidate) # size
    /\ size' = Length(Candidate)
    /\ tries' = tries + 1
    /\ UNCHANGED <<old, added, new, status>>

\* Mutant: the second length is taken for the last.
SettleAtOnce ==
    /\ status = "run" /\ tries < MaxTries
    /\ size # 0
    /\ IF Candidate.payload + Candidate.metadata <= Capacity
       THEN status' = "ok" /\ new' = Candidate
       ELSE status' = "full" /\ new' = new
    /\ tries' = tries + 1
    /\ UNCHANGED <<old, added, size>>

\* assess_addition decides; a refusal leaves the caller's ledger alone.
Settle ==
    /\ status = "run" /\ tries < MaxTries
    /\ Length(Candidate) = size
    /\ IF Candidate.payload + Candidate.metadata <= Capacity
       THEN status' = "ok" /\ new' = Candidate
       ELSE status' = "full" /\ new' = new
    /\ tries' = tries + 1
    /\ UNCHANGED <<old, added, size>>

Next == Retry \/ Settle

Spec == Init /\ [][Next]_vars

-----------------------------------------------------------------------------
\* Properties

\* The loop always settles: "batch ledger byte accounting did not converge" is never
\* reached, whatever digit boundary the totals cross on the way.
LengthConverges == status = "run" => tries < MaxTries

\* The ledger that is committed counts its own document to the byte.
LedgerCountsItself ==
    status = "ok" => new.metadata = old.metadata + added.metadata + Length(new)

\* An admitted batch leaves the shard within its capacity, its ledger included.
AdmittedWithinCapacity == new.payload + new.metadata <= Capacity
=============================================================================
