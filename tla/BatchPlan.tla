----------------------------- MODULE BatchPlan -----------------------------
(***************************************************************************)
(* plan_publication_batches (crates/xc-cache/src/publication.rs): cuts the *)
(* ordered parts of a publication into the batches that become commits,    *)
(* one turn of its loop per step.  BatchAccounting carries the plan out.   *)
(*                                                                         *)
(* A part has a path, a size and a digest.  FamilyPublication plans parts  *)
(* of distinct paths and size one, where the cut falls every BatchParts.   *)
(***************************************************************************)
EXTENDS Naturals, Sequences, FiniteSets, SequencesExt, FiniteSetsExt, Sums, Selections

CONSTANTS
    Paths,      \* repository paths
    Digests,    \* content digests
    Limit,      \* maximum_batch_payload_bytes
    MaxFile,    \* maximum_file_bytes_exclusive
    MaxSize,    \* bound on the sizes of parts
    MaxParts    \* bound on the number of parts

Parts == [path : Paths, size : 0..MaxSize, digest : Digests]

VARIABLES
    parts,    \* the input
    next,     \* the part the loop looks at
    current,  \* current_parts
    batches,  \* the finished batches
    status    \* "run", "ok" or "error"

vars == <<parts, next, current, batches, status>>

Bytes(batch) == Total([i \in DOMAIN batch |-> batch[i].size], Len(batch))

Init ==
    /\ parts \in UNION {[1..n -> Parts] : n \in 1..MaxParts}
    /\ next = 1 /\ current = <<>> /\ batches = <<>> /\ status = "run"

Oversized(part) == part.size = 0 \/ part.size >= MaxFile \/ part.size > Limit

\* physical_parts holds the path already.
Seen(i) == \E j \in 1..(i - 1) : parts[j].path = parts[i].path

Conflicting(i) == \E j \in 1..(i - 1) : parts[j].path = parts[i].path /\ parts[j] # parts[i]

Reject ==
    /\ status = "run" /\ next <= Len(parts)
    /\ Oversized(parts[next]) \/ Conflicting(next)
    /\ status' = "error"
    /\ UNCHANGED <<parts, next, current, batches>>

\* An identical part under the same path is stored once.
Skip ==
    /\ status = "run" /\ next <= Len(parts)
    /\ ~Oversized(parts[next]) /\ Seen(next) /\ ~Conflicting(next)
    /\ next' = next + 1
    /\ UNCHANGED <<parts, current, batches, status>>

\* Mutant: a batch is closed as soon as it could be full.
OverflowsEarly(part) == current # <<>> /\ Bytes(current) + part.size >= Limit

\* The part does not fit the current batch.
Overflows(part) == current # <<>> /\ Bytes(current) + part.size > Limit

Add ==
    /\ status = "run" /\ next <= Len(parts)
    /\ ~Oversized(parts[next]) /\ ~Seen(next)
    /\ IF Overflows(parts[next])
       THEN batches' = Append(batches, current) /\ current' = <<parts[next]>>
       ELSE current' = Append(current, parts[next]) /\ UNCHANGED batches
    /\ next' = next + 1
    /\ UNCHANGED <<parts, status>>

\* Mutant: the parts after the last cut are lost.
FinishAtCut ==
    /\ status = "run" /\ next > Len(parts)
    /\ status' = "ok"
    /\ current' = <<>>
    /\ UNCHANGED <<parts, next, batches>>

Finish ==
    /\ status = "run" /\ next > Len(parts)
    /\ status' = "ok"
    /\ batches' = IF current = <<>> THEN batches ELSE Append(batches, current)
    /\ current' = <<>>
    /\ UNCHANGED <<parts, next>>

Next == Reject \/ Skip \/ Add \/ Finish

Spec == Init /\ [][Next]_vars

-----------------------------------------------------------------------------
\* Properties

\* The parts under distinct paths, each where it first occurs.
Distinct == Selected(parts, {i \in DOMAIN parts : ~Seen(i)})

\* The plan is the input in its order, cut: nothing is lost, repeated or moved, so
\* what the caller put last (records, after indexes, after objects) is committed last.
PlanKeepsOrder == status = "ok" => FlattenSeq(batches) = Distinct

\* The ways to cut a sequence, given by the positions after which it is cut.
Cuts(seq) == SUBSET (1..(Len(seq) - 1))

Segment(seq, cut, i) == SubSeq(seq, Max({0} \cup {c \in cut : c < i}) + 1, i)

\* No batch exceeds the limit of one push, and no other way to cut the same sequence
\* within the limit takes fewer commits.
PlanIsShortest ==
    status = "ok" =>
        /\ \A i \in DOMAIN batches : Bytes(batches[i]) <= Limit
        /\ \A cut \in Cuts(Distinct) :
               \/ Cardinality(cut) + 1 >= Len(batches)
               \/ \E i \in cut \cup {Len(Distinct)} : Bytes(Segment(Distinct, cut, i)) > Limit
=============================================================================
