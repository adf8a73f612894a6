-------------------------- MODULE PublicationWaves --------------------------
(***************************************************************************)
(* A managed publication run (execute_managed_drafts_on_github_inner in    *)
(* crates/xc-cache/src/managed_publication.rs) at one destination: the     *)
(* drafts of several families, which name each other as exact parents, are *)
(* planned into waves, and in each wave the family groups publish          *)
(* concurrently, one transaction of FamilyPublication each.                *)
(*                                                                         *)
(* The two destinations of a run share nothing but the worker threads:     *)
(* their groups are distinct and a draft's parents are looked for at its   *)
(* own destination.  `graph` has the drafts and what names what; it is     *)
(* chosen by Init and never changes.                                       *)
(***************************************************************************)
EXTENDS Naturals, Sequences, FiniteSets, SequencesExt

CONSTANTS
    Drafts,       \* draft identities, in plan order
    External,     \* exact identities that no draft of the run produces
    Graphs,       \* the publications to consider
    Workers,      \* family_workers
    MaxFailures,  \* bound on failed transactions and failed rechecks
    NoEntry       \* a key without index entry

\* A publication: the family, semantic key, producer version, payload and role of
\* each draft, the exact parents it names, and what the destination has already.
GraphTypes ==
    [family : [Drafts -> Nat], key : [Drafts -> Nat], version : [Drafts -> Nat],
     content : [Drafts -> Nat], closure : [Drafts -> BOOLEAN],
     deps : [Drafts -> SUBSET (Drafts \cup External)],
     present : SUBSET (Drafts \cup External)]

\* An index belongs to a family, and so does every key in it.
ASSUME WavesAssumption ==
    /\ IsFiniteSet(Drafts) /\ Drafts \subseteq Nat /\ Drafts # {} /\ Drafts \cap External = {}
    /\ IsFiniteSet(External) /\ NoEntry \notin Drafts
    /\ \A g \in Graphs :
           /\ g \in GraphTypes
           /\ \A c, d \in Drafts : g.key[c] = g.key[d] => g.family[c] = g.family[d]
    /\ Workers \in Nat \ {0} /\ MaxFailures \in Nat

VARIABLES
    graph,      \* the publication
    phase,      \* "remap", "order", "gate", "run", "done" or "rejected"
    remaining,  \* drafts that are not yet remapped to the destination
    available,  \* in-run parents found at the destination before the run
    wave,       \* waves: the wave of each draft
    now,        \* the current wave
    published,  \* the answer for each draft: "none", "yes", "failed" or "skipped"
    runnable,   \* the transactions of the current wave
    next,       \* the next position a worker takes
    slots,      \* the state of each transaction
    dest,       \* the destination's manifests, batch records and live entries, and for
                \* each entry whether the record of its own transaction is there
    indexed,    \* drafts staged in an index that was committed
    indexOnly,  \* parents accepted for their index entry, without a batch record
    failures    \* failures so far

plan == <<graph, remaining, available, wave>>
vars == <<graph, phase, remaining, available, wave, now, published, runnable, next, slots,
          dest, indexed, indexOnly, failures>>

Groups == {graph.family[d] : d \in Drafts}
Keys == {graph.key[d] : d \in Drafts}

-----------------------------------------------------------------------------
\* The destination

\* exact_destination_dependency_exists: the manifest, with a live entry or a record
Exists(x) ==
    IF x \in External THEN x \in graph.present
    ELSE /\ x \in dest.manifests
         /\ dest.live[graph.key[x]] = x \/ \E R \in dest.records : x \in R

\* publication_requires_exact_identity
Required(d) == \E e \in Drafts : d \in graph.deps[e]

Pinned(d) == graph.closure[d] \/ Required(d)

Newer(e, d) == e # NoEntry /\ graph.version[e] > graph.version[d]

\* destination_entry_may_prove, of active entries with one assurance and reader version
\* (FamilyPublication tells these apart)
MayProve(e, d) == e # NoEntry /\ graph.version[e] >= graph.version[d]

\* destination_manifest_dominates
Dominates(e, d) ==
    /\ e # NoEntry /\ graph.content[e] = graph.content[d] /\ graph.version[e] >= graph.version[d]
    /\ graph.deps[d] \subseteq graph.deps[e]
    /\ ~Pinned(d)

\* order_family_publication_drafts, within a key
Before(c, d) ==
    LET rank(x) == <<IF graph.closure[x] THEN 0 ELSE 1, graph.version[x],
                     Cardinality(graph.deps[x]), graph.content[x], x>>
    IN  \E i \in 1..5 : /\ rank(c)[i] < rank(d)[i]
                        /\ \A j \in 1..(i - 1) : rank(c)[j] = rank(d)[j]

BatchOrder(D) ==
    CHOOSE s \in [1..Cardinality(D) -> D] : \A i, j \in DOMAIN s : i < j => Before(s[i], s[j])

\* family_draft_advances_live_index
Advance(entry, d) == IF Pinned(d) /\ MayProve(entry, d) THEN entry ELSE d

\* The live entry of a key after each of some drafts.
LiveDuring(entry, order) ==
    LET live[n \in 0..Len(order)] == IF n = 0 THEN entry ELSE Advance(live[n - 1], order[n])
    IN  live

\* The live entry of a key after the drafts of D, in batch order.
LiveAfter(entry, D) ==
    LET order == BatchOrder(D) IN LiveDuring(entry, order)[Len(order)]

OfKey(D, k) == {d \in D : graph.key[d] = k}

StagedIndex(live, D) == [k \in Keys |-> LiveAfter(live[k], OfKey(D, k))]

\* select_missing_destination_drafts
Proven(d) ==
    LET e == dest.live[graph.key[d]]
    IN  /\ MayProve(e, d)
        /\ e = d \/ Dominates(e, d)
        /\ dest.proof[graph.key[d]]

Wanted(D) == {d \in D : ~Proven(d)}

\* The staged index would let a draft take the place of a newer producer, one before it
\* in the batch included.
StagingRefused(D) ==
    \E k \in Keys :
        LET order == BatchOrder(OfKey(D, k))
            live == LiveDuring(dest.live[k], order)
        IN  \E n \in DOMAIN order : ~Pinned(order[n]) /\ Newer(live[n - 1], order[n])

\* The selection of a family transaction is refused, as an entry's manifest is missing or a
\* draft would take the place of a newer producer, or its staging is.
Refused(D) ==
    \/ \E d \in D :
          LET e == dest.live[graph.key[d]]
          IN  \/ MayProve(e, d) /\ e \notin dest.manifests
              \/ ~Pinned(d) /\ Newer(e, d)
    \/ StagingRefused(Wanted(D))

-----------------------------------------------------------------------------
\* The plan

\* The in-run producers of d's exact parents that the destination does not have.
Parents(d) == {p \in graph.deps[d] \cap Drafts : p \notin available /\ p # d}

\* Mutant: a newer producer is not asked for.
MayFollowAnyVersion(earlier, later) == graph.closure[earlier]

\* closure_member_may_follow
MayFollow(earlier, later) ==
    graph.closure[earlier] /\ graph.version[later] > graph.version[earlier]

\* Drafts of the same family and key that the batch order puts before d.
Predecessors(d) ==
    {c \in Drafts : /\ graph.family[c] = graph.family[d] /\ graph.key[c] = graph.key[d]
                    /\ Before(c, d) /\ ~MayFollow(c, d)}

\* Mutant: a parent of another family may share the wave.
EarliestWaveShared(w, d) ==
    Max({w[d]} \cup {w[p] : p \in Parents(d)} \cup {w[c] : c \in Predecessors(d)})

\* The wave d needs, given those of the others.
EarliestWave(w, d) ==
    Max({w[d]} \cup {w[c] : c \in Predecessors(d)}
            \cup {w[p] + (IF graph.family[p] = graph.family[d] THEN 0 ELSE 1) : p \in Parents(d)})

\* The numbers of S in ascending order.
Ascending(S) ==
    CHOOSE s \in [1..Cardinality(S) -> S] : \A i, j \in DOMAIN s : i < j => s[i] < s[j]

Earlier(c, d) ==
    graph.family[c] < graph.family[d] \/ (graph.family[c] = graph.family[d] /\ c < d)

\* groups in family order, drafts in plan order
PlanOrder ==
    CHOOSE s \in [1..Cardinality(Drafts) -> Drafts] :
        \A i, j \in DOMAIN s : i < j => Earlier(s[i], s[j])

\* w with the wave that d needs
Raise(w, d) == [w EXCEPT ![d] = EarliestWave(w, d)]

\* w after one pass over the drafts
Raised(w) ==
    LET order == PlanOrder
        raised[n \in 0..Len(order)] == IF n = 0 THEN w ELSE Raise(raised[n - 1], order[n])
    IN  raised[Len(order)]

\* A draft is remapped when none of its in-run parents is left in R.
Settle(R, d) == IF graph.deps[d] \cap R = {} THEN R \ {d} ELSE R

\* What is left of R after one pass in plan order.
Unsettled(R) ==
    LET order == Ascending(R)
        left[n \in 0..Len(order)] == IF n = 0 THEN R ELSE Settle(left[n - 1], order[n])
    IN  left[Len(order)]

Init ==
    /\ graph \in Graphs
    /\ phase = "remap" /\ remaining = Drafts
    /\ available = {} /\ wave = [d \in Drafts |-> 0] /\ now = 0
    /\ published = [d \in Drafts |-> "none"]
    /\ runnable = <<>> /\ next = 1 /\ slots = <<>>
    /\ LET P == graph.present \cap Drafts
       IN  dest = [manifests |-> P, records |-> {{d} : d \in P},
                   live |-> [k \in Keys |-> LiveAfter(NoEntry, OfKey(P, k))],
                   proof |-> [k \in Keys |-> TRUE]]
    /\ indexed = {} /\ indexOnly = {} /\ failures = 0

run == <<now, published, runnable, next, slots, dest, indexed, indexOnly, failures>>

Reject == phase' = "rejected" /\ UNCHANGED <<remaining, available, wave>>

\* One sweep of remap_destination_drafts_with_existing: a draft is remapped after
\* its in-run parents.  A missing external parent or a cycle ends the run.
Remap ==
    /\ phase = "remap"
    /\ LET after == Unsettled(remaining)
           missing == \E d \in remaining : \E x \in graph.deps[d] \cap External : ~Exists(x)
       IN  IF missing \/ after = remaining THEN Reject
           ELSE /\ remaining' = after
                /\ IF after # {} THEN UNCHANGED <<phase, available>>
                   ELSE /\ phase' = "order"
                        /\ available' = {p \in Drafts : Required(p) /\ Exists(p)}
                /\ UNCHANGED wave
    /\ UNCHANGED <<graph, run>>

\* Mutant: as many waves as drafts, less one.
WaveLimitLow == Cardinality(Drafts) - 1

WaveLimit == Cardinality(Drafts)

\* One sweep of the loop in publication_waves.
Order ==
    /\ phase = "order"
    /\ LET after == Raised(wave)
       IN  IF \E d \in Drafts : after[d] >= WaveLimit THEN Reject
           ELSE /\ wave' = after
                /\ phase' = IF after = wave THEN "gate" ELSE "order"
                /\ UNCHANGED <<remaining, available>>
    /\ UNCHANGED <<graph, run>>

WaveCount == Max({wave[d] + 1 : d \in Drafts})

-----------------------------------------------------------------------------
\* The waves

Members(g) == {d \in Drafts : graph.family[d] = g /\ wave[d] = now}

\* Mutant: a blocked sibling does not block.
BlockedOnce(g) ==
    {d \in Members(g) : \E p \in Parents(d) : wave[p] < now /\ published[p] # "yes"}

\* Those with an earlier parent that is not published, or a parent of the same wave in B.
BlockedBy(g, B) ==
    {d \in Members(g) : \E p \in Parents(d) :
        IF wave[p] < now THEN published[p] # "yes" ELSE p \in B}

\* gate: blocked by an earlier parent, or by a blocked parent of the same wave.
Blocked(g) ==
    LET turns[n \in 0..Cardinality(Drafts)] == IF n = 0 THEN {} ELSE BlockedBy(g, turns[n - 1])
    IN  turns[Cardinality(Drafts)]

Runs(g) == Members(g) \ Blocked(g)

\* The gates of all groups, in group order, before anything runs.
Gate ==
    /\ phase = "gate"
    /\ LET skipped == UNION {Blocked(g) : g \in Groups}
           ready == Ascending({g \in Groups : Runs(g) # {}})
       IN  /\ published' = [d \in Drafts |-> IF d \in skipped THEN "skipped" ELSE published[d]]
           /\ runnable' = [i \in DOMAIN ready |-> Runs(ready[i])]
           /\ slots' = [i \in DOMAIN ready |-> "empty"]
    /\ next' = 1
    /\ phase' = "run"
    /\ UNCHANGED <<plan, now, dest, indexed, indexOnly, failures>>

Busy == {i \in DOMAIN slots : slots[i] = "busy"}

\* run_publication_wave: a worker takes the next position.
Take ==
    /\ phase = "run" /\ next <= Len(runnable) /\ Cardinality(Busy) < Workers
    /\ slots' = [slots EXCEPT ![next] = "busy"]
    /\ next' = next + 1
    /\ UNCHANGED <<plan, phase, now, published, runnable, dest, indexed, indexOnly, failures>>

\* The index of a transaction has an entry of its own for k.
Installs(D, k) ==
    \E d \in OfKey(D, k) : ~(Pinned(d) /\ MayProve(dest.live[k], d))

\* The destination with the index, some manifests or everything of a transaction.
Committed(D, manifests, complete) ==
    [manifests |-> dest.manifests \cup manifests,
     records |-> IF complete THEN dest.records \cup {D} ELSE dest.records,
     live |-> StagedIndex(dest.live, D),
     proof |-> [k \in Keys |-> IF Installs(D, k) THEN complete ELSE dest.proof[k]]]

Succeed(i) ==
    LET D == Wanted(runnable[i])
    IN  /\ slots[i] = "busy" /\ ~Refused(runnable[i])
        /\ slots' = [slots EXCEPT ![i] = "ok"]
        /\ IF D = {} THEN UNCHANGED <<dest, indexed>>
           ELSE dest' = Committed(D, D, TRUE) /\ indexed' = indexed \cup D
        /\ UNCHANGED <<plan, phase, now, published, runnable, next, indexOnly, failures>>

\* The transaction is refused, or fails before or after one of its commits: payload,
\* index, manifests, record.
Fail(i) ==
    LET D == Wanted(runnable[i])
    IN  /\ slots[i] = "busy"
        /\ slots' = [slots EXCEPT ![i] = "failed"]
        /\ \/ Refused(runnable[i]) /\ UNCHANGED <<dest, indexed, failures>>
           \/ /\ failures < MaxFailures /\ failures' = failures + 1
              /\ \/ UNCHANGED <<dest, indexed>>
                 \/ /\ ~Refused(runnable[i]) /\ D # {}
                    /\ \/ \E M \in SUBSET D : dest' = Committed(D, M, FALSE)
                       \/ dest' = Committed(D, D, TRUE)
                    /\ indexed' = indexed \cup D
        /\ UNCHANGED <<plan, phase, now, published, runnable, next, indexOnly>>

Prerequisites == UNION {Parents(d) : d \in Drafts}

\* publication_group_members_present of what a failed transaction left
Recheck(failed) == {d \in failed : Exists(d)}

\* All workers are done.  The drafts of failed transactions that others name are
\* looked for at the destination, except for groups whose recheck fails.
EndWave ==
    /\ phase = "run" /\ next > Len(runnable) /\ Busy = {}
    /\ LET ran(state) == UNION {runnable[i] : i \in {j \in DOMAIN slots : slots[j] = state}}
           failed == ran("failed") \cap Prerequisites
       IN  \E unread \in SUBSET {graph.family[d] : d \in failed} :
               LET found == Recheck({d \in failed : graph.family[d] \notin unread})
               IN  /\ failures + Cardinality(unread) <= MaxFailures
                   /\ failures' = failures + Cardinality(unread)
                   /\ published' = [d \in Drafts |->
                          IF d \in ran("ok") \cup found THEN "yes"
                          ELSE IF d \in ran("failed") THEN "failed" ELSE published[d]]
                   /\ indexOnly' = indexOnly
                          \cup {d \in found : \A R \in dest.records : d \notin R}
    /\ now' = now + 1
    /\ phase' = IF now + 1 < WaveCount THEN "gate" ELSE "done"
    /\ runnable' = <<>> /\ next' = 1 /\ slots' = <<>>
    /\ UNCHANGED <<plan, dest, indexed>>

Next ==
    \/ Remap \/ Order \/ Gate \/ Take \/ EndWave
    \/ \E i \in DOMAIN slots : Succeed(i) \/ Fail(i)

Spec == Init /\ [][Next]_vars

-----------------------------------------------------------------------------
\* Properties

\* A draft never reaches the destination ahead of a parent of another family, whatever
\* commits of the parent's transaction failed; one whose batch record is there has its
\* parents of the same family too.  A parent whose transaction failed between manifest
\* and record counts as found when it was the live entry then.
ParentsFirst ==
    \A d \in Drafts : \A p \in graph.deps[d] \cap Drafts :
        /\ Exists(d) /\ d \notin graph.present
        /\ graph.family[p] # graph.family[d] \/ \E R \in dest.records : d \in R
        => Exists(p) \/ p \in indexOnly

\* "Only an ordering constraint that contradicts the dependencies, which no finite wave
\* assignment meets, is rejected": if a plan is refused then the parents are incomplete
\* or cyclic, or no assignment at all respects parents and batch order.
RejectsOnlyContradictions ==
    phase = "rejected" =>
        \/ \E d \in Drafts : \E x \in graph.deps[d] \cap External : ~Exists(x)
        \/ \E C \in SUBSET Drafts : C # {} /\ \A d \in C : graph.deps[d] \cap C # {}
        \/ ~\E w \in [Drafts -> 0..(Cardinality(Drafts) - 1)] :
               \A d \in Drafts :
                   /\ \A p \in Parents(d) :
                          w[p] < w[d] \/ (w[p] = w[d] /\ graph.family[p] = graph.family[d])
                   /\ \A c \in Predecessors(d) : w[c] <= w[d]

\* What publishes depends on the transaction outcomes, the destination and the graph,
\* never on the order of completion, and unaffected siblings still publish: in a
\* completed run every draft has an answer, and the drafts left out are exactly those
\* with a parent left out, or with a parent of an earlier wave that failed and was not
\* found at the destination.
LeftOutForParents ==
    phase = "done" =>
        \A d \in Drafts :
            /\ published[d] # "none"
            /\ published[d] = "skipped" <=>
                   \E p \in Parents(d) : \/ published[p] = "skipped"
                                         \/ published[p] = "failed" /\ wave[p] < wave[d]

\* The live entry of a key is the one that publishing the same drafts together, in
\* batch order, would have selected, however the waves split them.
LiveEntryAsBatch ==
    phase = "done" =>
        \A k \in Keys :
            LET P == OfKey(graph.present \cap Drafts, k)
            IN  dest.live[k] = LiveAfter(LiveAfter(NoEntry, P), OfKey(indexed, k))
=============================================================================
