------------------------ MODULE MCFamilyPublication ------------------------
(* Instances of FamilyPublication for TLC: the drafts, who publishes them, and where. *)
EXTENDS FamilyPublication, TLC

CONSTANTS p1, p2

Plain(key, version, content, objects) ==
    [key |-> key, version |-> version, content |-> content, deps |-> {}, reader |-> 1,
     assurance |-> 1, closure |-> FALSE, required |-> FALSE, objects |-> objects]

Public(drafts, work, clock, parts, size, bound) ==
    [draft |-> drafts, work |-> work, legacy |-> {}, replacing |-> {}, leased |-> FALSE,
     seconds |-> clock, batchParts |-> parts, capacity |-> size,
     maxRuns |-> 1, maxFaults |-> bound]

\* Two producers of one key with the same content, sharing an object, and a second key
\* with another reader version.
UpgradeDrafts ==
    <<Plain(1, 1, 1, {1}),
      [Plain(1, 2, 1, {1, 2}) EXCEPT !.deps = {7}],
      [Plain(2, 1, 2, {2}) EXCEPT !.reader = 2]>>
UpgradeWork == (p1 :> {1, 3}) @@ (p2 :> {2})

\* Two answers to one key from the same producer version: the first is better assured,
\* the second names more dependencies.
RivalDrafts ==
    <<[Plain(1, 1, 1, {1}) EXCEPT !.assurance = 2], [Plain(1, 1, 1, {1}) EXCEPT !.deps = {7}]>>
SoloWork == p1 :> {1}
TwinWork == (p1 :> {1}) @@ (p2 :> {1})
LegacyWork == (p1 :> {1}) @@ (p2 :> {3})
RivalWork == (p1 :> {1}) @@ (p2 :> {2})

\* An exact parent of an older producer, a closure member and a newer leaf.
ParentDrafts ==
    <<[Plain(1, 1, 1, {1}) EXCEPT !.required = TRUE],
      [Plain(1, 2, 2, {2}) EXCEPT !.closure = TRUE],
      Plain(1, 3, 3, {1})>>
ParentWork == (p1 :> {1, 2}) @@ (p2 :> {3})

\* A private shard that had no ledger, with one publisher that replaces.
PrivateShard ==
    [draft |-> UpgradeDrafts, work |-> UpgradeWork, legacy |-> {1}, replacing |-> {p2},
     leased |-> TRUE, seconds |-> {1, 2}, batchParts |-> 3, capacity |-> 100,
     maxRuns |-> 2, maxFaults |-> 1]

\* A public shard that has too little room for everything.
SmallPublicShard == Public(ParentDrafts, ParentWork, {1, 2}, 2, 16, 1)

\* The same with a publisher that replaces: its batch holds an older leaf after a closure.
RefusedShard == [SmallPublicShard EXCEPT !.replacing = {p1}, !.seconds = {1}]

\* A public shard where every file is a commit of its own.
FilewiseShard == Public(UpgradeDrafts, RivalWork, {1}, 1, 100, 1)

\* A private shard where rivals cut their batches between the index and its manifests.
RivalShard ==
    [Public(RivalDrafts, RivalWork, {1, 2}, 4, 100, 2) EXCEPT !.leased = TRUE, !.maxRuns = 2]

SafeShards == {PrivateShard, SmallPublicShard, RefusedShard, FilewiseShard, RivalShard}

\* An index and its manifests share a commit: with the record, where two publishers bring
\* the same draft; without it, where the second finds its draft published long ago.
WholeShards ==
    {Public(RivalDrafts, TwinWork, {1, 2}, 3, 100, 1),
     [Public(UpgradeDrafts, LegacyWork, {1, 2}, 5, 100, 2) EXCEPT !.legacy = {3}]}

\* The index ends a batch, its manifests begin the next.
CutShard == {Public(RivalDrafts, SoloWork, {1, 2}, 4, 100, 1)}
=============================================================================
