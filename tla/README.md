# A TLA+ model of Xcelerator cache publication and run resources

The Xcelerator toolkit computes certified high-precision numerical artifacts and
shares them through *shards*: Git repositories on GitHub that many machines
publish to. Nothing on the server runs Xcelerator code, so everything that keeps a
shard consistent is in the client: conditional pushes, a lease kept on a branch,
the order of commits, and what a publisher reads before it writes. That is the
part of the program that testing reaches least, and the first part modelled here.
The second is what the threads of one computation share: the byte ledger of a run, the
memo of validated values that spends it, and the lane that computes ahead.

## 1. The system's parts

| Part (under `crates/`) | State | Operations | What makes it correct |
|---|---|---|---|
| Private publication lease, `xc-cache/private_coordination.rs` | the coordination branch (generation, lock), the lease in memory | acquire, take over, renew, atomic batch, release | one publisher at a time moves `main`; an orphaned lock is recovered; clocks may disagree |
| Publication waves, `managed_publication.rs` | waves of the drafts, answers of the family groups, what the destination has | remap, order into waves, gate, run groups on workers, recheck | parents reach the destination first; a failure leaves out its dependents and nothing else |
| Family publisher, `managed_publication.rs`, `batch_publication.rs` | files of `main`: objects, encodings, manifests, index, batch records, capacity ledger | select, lease, initialise the ledger, stage, commit batches, release | nothing is discoverable before it is reachable; records prove what they list; the ledger counts everything; interrupted work can be repeated |
| Git transport, `git_transport.rs` | two refs, temporary session repository | compare-and-swap, create, delete, atomic pair, each retried after a fresh read | the answer is true although acknowledgements are lost |
| Batch planner, `publication.rs` | none | cut ordered parts into commits | order, limit, few commits |
| Capacity ledger, `registry.rs`, `managed_publication.rs` | totals | reconcile, advance, admit | counts itself; never above capacity |
| Shard index, `registry.rs` | partitions of live entries | insert, replace | producers are monotonic |
| Artifact journal, `publication.rs`, `publisher.rs`, `finalizer.rs`, `publication_staging.rs`, `publication_recovery.rs`, `publication_orchestrator.rs`, `coordinator.rs` | journal and checkpoints per destination | commit payload batches, records, metadata, index with ledger and receipt, each verified; abandon | every accepted mutation is recognised after a crash; what is discoverable is whole and stays |
| Production staging, `production_staging.rs`, `packaging.rs`, `bundle.rs` | draft queue on disk | record, pack, retain | a retained draft is complete |
| Rollover, `rollover.rs`, `bootstrap_topology.rs`, `registration.rs` | registry document | plan, execute | one successor, planned against the registry it replaces |
| Audit and repair, `shard_audit.rs`, `shard_repair.rs`, `managed_recovery.rs` | none of its own | reconstruct, compare, repair | repair keeps what is proved |
| Durability, `durability.rs`, `materialization.rs` | copies of artifacts | plan and execute materialization | no copy is dropped before another is proved |
| Run resources, `xc-core/run_resources.rs` | bytes retained, working and independent; owners; a condition variable | reserve, wait, release, cancel | the budget holds, nobody waits for ever |
| Validated memo, `validated_memo.rs`, and the source slot of a retained run, `xc-spectral/ccm/hp/capture_admission.rs` | entries with a recency order; eviction callbacks | look up, insert, evict, clear | optional retention never refuses required work |
| Look-ahead lane, `xc-spectral/ccm/capture_runtime.rs` | a slot per job, a background thread | start, claim, drop | a result is handed out once; nothing is lost or waits for ever |
| Ephemeral store | in-memory records under a byte budget | put, look up | the budget holds |
| Execution cache, planner, resolver | none of their own | candidate selection, layered lookup | the best valid candidate |
| Remote store and readers | none | verified reads | digests match |
| Governance, trust, validation, provenance, protocol | documents | predicates, encodings | document checks |
| GitHub sessions, metrics, acceptance drivers, CLI | credentials, counters | I/O | - |
| `xc-core`, numerics, operators, solvers, roots, certification, spectral, variational and zeta crates | numbers | numerical algorithms | error bounds |

How they interact: a publisher selects drafts against the destination's `main`
(`select_missing_destination_drafts`), takes the lease if the destination is
private, reads the head again, stages index, manifests and objects into a local
directory, plans batches, and for each batch writes a new ledger and pushes.
A private batch is one atomic push of two refs: `main` with the batch and
`xcelerator-coordination` with the renewed lock. All pushes go through
`push_with_ref_reconciliation`, which after a failed push reads the refs to find
out what happened and repeats the push up to five times.

Above the family publisher, one run publishes the drafts of many families: it remaps
them to the destination, orders them into waves by the exact parents they name, and
in each wave publishes the family groups on a few worker threads. Below, in a
computation, all threads reserve memory from one `RunResources`; on pressure they
clear the memo, whose eviction callbacks release the sources a retained run keeps,
and ask again.

What is hard here: processes on different machines interleave between any two
reads and pushes; a push may be executed although the client saw an error, and
even after the client has gone on; processes stop between commits; clocks
disagree; a publication of several gigabytes is several commits, so other
publishers and readers see its prefixes; the ledger contains its own length. In a
computation, mutexes are released between a lookup, the reservation and the insertion
that follow it, and threads wait for memory that others hold.
PROJECT.json lists each of these hazards at its line.

## 2. Modules

| Module | Models |
|---|---|
| `PrivateLease` | the lease, with time, clocks, crashes and pushes of unknown fate |
| `FencedBranch` | what the lease promises: only the holder advances `main` |
| `PrivateLeaseProofs` | proofs about `PrivateLease`, and that it implements `FencedBranch` |
| `FamilyPublication` | the family publisher, on top of `FencedBranch` (private) or compare-and-swap (public) |
| `GitTransport` | the conditional pushes and their retry loop |
| `PublicationWaves` | one run over the drafts of several families, at one destination |
| `BatchPlan` | `plan_publication_batches`, one loop turn per step |
| `LedgerSize` | the self-accounting loop of the capacity ledger |
| `BatchAccounting` | their composition: the batches of a plan are committed one by one, each with its ledger |
| `Sums`, `Selections` | the sum and the selection of parts by position, which the three share with `RunMemory` |
| `BatchAccountingProofs` | proofs about these modules |
| `FamilyPublicationProofs`, `GitTransportProofs`, `JournalProofs`, `PublicationWavesProofs` | proofs about these modules |
| `Enumerations` | lemmas: induction over numbers, recursion over an interval, enumeration of a finite set in an order, sums |
| `Journal` | the publication of single artifacts through their journals |
| `RunMemory` | the byte ledger of a run, the validated memo and their callers |
| `LookAhead` | the look-ahead lane |
| `RunResourcesProofs` | proofs about `RunMemory` and `LookAhead` |
| `MCFamilyPublication`, `MCPublicationWaves`, `MCBatchAccounting`, `MCJournal`, `MCRunMemory` | instances for TLC |

Definitions named `...Without...`, `...Only`, `...Early` and the like, marked
*Mutant*, are plausible bugs; what they change is said above them. Each property of a passing run has one that breaks it.

### PrivateLease

`coord` is the commit of the coordination branch, `Absent` when there is no
branch; a commit has an identity, the generation of `state.json` and the lock
document, valid when it was acquired not after its heartbeat and expires after it. `main` is the cache branch, `mainLog` the owners of the batches on it.
A publisher holds in memory what it read (`view`) and its lease (`lease`), and
`pc` says where in `acquire_private_publication_lease` or in the publication it
is. A push `u` names the commits it expects and the ones it installs; it is
`Accepted`, `Refused` or of `Unknown` fate. In each case a copy may stay in `late`,
to be executed whenever the refs match: this is what `GitTransport` allows to
happen. `time` is true time, and a publisher's reading of its clock is anything
in `time..time+Skew`, chosen anew each time, so a clock may go back between two
readings. `stamped` in a lock is the true time at which its owner read its clock;
the program does not have it.

An acquisition that finds no branch creates it at generation 1, so generations
start again after a release by deletion. Fencing does not rest on the generation
but on the commit identity, which `--force-with-lease` compares; the proof shows
why that is enough.

One observation, not a defect: a creation that is executed late, after its run
ended with an error, leaves a lock nobody holds. Other publishers wait for it to
expire (`OrphanRecovered`), and it may bring back a commit that an atomic push
still on its way expects. That push is then executed for the run the lock names
and stays within `FencedBranch`.

### FamilyPublication

`tree` has the files of `main`. A draft is known by its manifest, an index entry by
the draft and the batch (`txn`) it came in, a batch record by the drafts it
lists and the `second` of its run: attestations carry `event_unix_seconds`, and the
batch id covers their digests. All files have one byte and all keys share a partition. `blobs` counts the
file versions ever committed, the initial ledger aside; it is what the ledger is
compared with. `shard` is the shard, its drafts and who publishes them, chosen once by
`Init`: one run covers several kinds of shard. `Observe` is selection at the head before the lease, `Acquire` takes
the lease (any moment: that is what `FencedBranch` allows), `ReadSidecars` and
`InitializeLedger` are `ensure_managed_shard_sidecars`, `Prepare` repeats the
selection under the lease and stages, `CommitBatch` computes the ledger, checks
admission and pushes. `Interrupt` is every failure the model does not go into: the
process, the network, credentials, the disk.

Selection asks what the code asks: an entry may prove a draft when its assurance and
producer are no lower and its reader versions the same (`MayProve`; entries are active,
since publication installs no others), its manifest dominates when it has the same
payload and at least the dependencies (`Dominates`), and the entry's own batch record must
list it. Drafts of a key are applied by role, producer, number of dependencies, content
and digest (`Before`); a batch in which one would be a downgrade is refused as a whole.

Because a record is named by the second, `Prepare` returns early on a record it finds
only when the same drafts were published in the same second. A repetition in a later
second writes attestations and a record of its own for whatever selection finds missing, so
the "idempotent retry under a later lease generation" that, by the comment at
`batch_publication.rs:80`, "retains the same logical transaction identity" has another batch id
when it comes in a later second. Two
consequences: an exact parent that the live entry has left behind is recorded again by
every later run that brings it, and the ledger pays for it; and two public publishers of
the same draft whose seconds differ can make each other's pushes conflict for ever.

### GitTransport

Operations name the refs they expect and install; the server executes a push if
all refs in its scope match (`--atomic`, `--force-with-lease`). A push may be
executed and reported failed, not executed, or delayed. `Reconcile` is the read
after a failed push: desired refs mean success, other refs a conflict, unchanged
refs another attempt.

### PublicationWaves

`graph` is the publication: for each draft its family, key, producer version, payload
and role, the exact parents it names, and what the destination had before. `Remap`,
`Reject` and `Order` are the planning: drafts whose parents can be found are remapped,
then each gets the earliest wave that its parents (strictly later than another family's,
not earlier than its own family's) and the batch order of its own family allow. `Gate`
leaves out the drafts whose parents are missing, `Take` is a worker taking the next
family group, `Succeed` and `Fail` are the end of its transaction - a failed one may have
committed manifests, manifests with index, or everything - and `EndWave` is the recheck,
which looks for the members of failed groups at the destination and may fail itself. `dest.proof`
says of a live entry that the record of the transaction which installed it is there: a record
of another transaction that lists the same draft proves nothing to selection. A group in
which a draft would downgrade the entry that an earlier one of the same batch has left is
refused (`StagingRefused`).

Two observations. A family transaction that stops between its commits can leave a child
there ahead of a parent of the *same* family, although the comment on `publication_waves`
says that "the family batch commits it with or before the child"; the cause is the batch
boundary of `family_interrupted`, and `ParentsFirst` claims the order within a family
only for drafts with a batch record. And a parent that the recheck accepts because its
manifest is live, without a batch record, stops being found once another producer
supersedes it (`indexOnly`).

### BatchPlan, LedgerSize and BatchAccounting

`BatchPlan` starts from every sequence of parts and takes one step per loop turn:
reject, skip a repeated part, or add it, after a cut where it would not fit.
`LedgerSize` repeats writing the ledger document until the length it counted is the
length it has. `BatchAccounting` runs them as the publisher does: it plans, then for
each batch selects the files the head lacks (`CommitParts`), refuses an object whose
path has other content, and commits the rest with the ledger the loop settled on.

### Journal

This is the other way to publish, `publish` and `resume` of the command line: one
artifact, one transaction, no lease. `hist` has the trees of the branch, so a commit
is a position in it, and `journal[t]` is the latest checkpoint of transaction `t`,
with the states and commit ids of its batches, of their records, of the metadata and
of the discoverability commit. An action goes from one checkpoint to the next. A
crash between two actions therefore loses nothing and needs no action; a crash after
a push and before its checkpoint is the third case of `Swap`, a push without an
answer, executed at once, later (`LateApply`) or never. Where the code reads the ref and
then pushes, the branch may move in between: the conflict case of `Swap` covers it.

The index is the set of artifacts it lists, the ledger its total, the head it was
computed from and how often it counted each transaction (the program does not keep
the last of these). A receipt is the index it was committed with. Every file has
size one and the three projections count three.

`CheckpointsValid` is what `PublicationTransactionJournal::validate` demands of a checkpoint that
is read back: planned commits have no identity and no new objects and all others have an
identity, the states of a batch and of its record agree, discoverability follows verified
metadata, and its verification and the receipt come together.

What the model says about lost answers is weaker than for the rest, because the code
is. A payload batch whose answer was lost is found on the branch by the next
run and taken as reused: it has no batch record and the ledger never counts it
(`PayloadClaimed` excepts it). A discoverability commit whose answer was lost is
recognised if the branch still has exactly the planned files; if another transaction
has changed index or ledger in the meantime, or the push is executed between reading the
ref and pushing again, the projections are staged anew and the ledger counts the
transaction twice. `LedgerCountsOnce` excepts lost answers, and the run `journal_retry` shows the
double count; for it, `CommitDiscoverability` does not push on a head that has its own planned
files, since the code would have read and recognised them. Both errors concern accounting only:
`DiscoverableIsWhole`, `CompletionLasts` and `EventuallySettled` hold for all transactions.

### RunMemory

An allocation is a number; `size` has its bytes while anybody refers to it: a thread's
handle (`held`), the memo, the source slot, or a thread that took it out of the memo and
has not dropped it yet (`old`). `Reclaim` is the drop of last references: that a reservation
is released once, with the last of its clones, is the guarantee of the `Arc` that holds it and
assumed here; what is checked is which references there are, and that the memo's own
count follows them. The four
counters are those of `Usage`. A thread is between requests (`idle`), asks
(`reserve`), clears the memo (`callbacks`, `take`), asks again (`again`) or has what it
asked for (`built`); each step is what it does under one acquisition of a mutex, so
other threads look up, insert and clear between any two of them. A request is for a
value (retained; cleared and repeated on an error), a source (retained, optional), work
(waits for other threads' work, then clears and repeats) or lanes (gives up lanes
before it clears). `since` records what others retained after a thread's clear took the
memo; the program does not have it. It includes a source that another thread put into the
slot after the clear had emptied it: `RefusalNeedsOthers` is about what was retained before, and a
refusal because of such a late source is possible in the code.

`WaitersWake` says that a sleeper is woken, not that it is admitted: a woken thread may
find the memory taken by a competitor and sleep again, and the code promises no order.
In the program one thread at a time is inside the memo's scope; the model also lets
several enter it, which the interface allows.

### LookAhead

A slot per job as in the code; the outcome of a job is marked with the job that
produced it, to see that the slot which the thread finds by its state is the right one.
Two threads claim, although the program has one owner per lane. Setting the flag and
sending the wake-up are two steps of the drop.

## 3. Runs

| Run | Instance | Shows |
|---|---|---|
| `lease` | two publishers, fairness, five commits, one fault, skew equal to the grace period | `FenceNamesOwner`, `StalePublisherFenced`, `BatchesContiguous`, `NoEarlyTakeover`, `LeaseNeverShrinks`, the refinement `ImplementsFence`, and `OrphanRecovered` |
| `family` | five shards: private without ledger and with a replacing publisher (`PrivateShard`); public, too small, with an exact parent, a closure member and a newer leaf (`SmallPublicShard`); the same with a replacing publisher whose batch is refused (`RefusedShard`); public with a commit per file (`FilewiseShard`); private with rivals and a boundary between index and manifests (`RivalShard`) | index, records and ledger stay consistent, producers are monotonic, success means published |
| `family_resume` | `WholeShards`: two publishers of the same draft whose record shares a commit with the index; two publishers of different drafts, one published long ago, where it does not; fairness, faults | `EventuallyPublished` |
| `family_interrupted` | `CutShard`: one publisher, a batch boundary between index and manifests, one fault | **violated**: see below |
| `waves` | all graphs of two siblings and a draft of another family; two workers, two failures | `ParentsFirst`, `RejectsOnlyContradictions`, `LeftOutForParents`, `LiveEntryAsBatch` |
| `transport` | two callers, three operations, one delayed copy | the answers are true, `main` moves once per operation, a conflict is final, every operation is answered |
| `batches` | all sequences of three parts over three paths, two digests, sizes 0 to 2, from heads with any of the files and totals around the digit boundaries | order, shortest cut within the limit; `LengthConverges`, `LedgerCountsItself`, `AccountsWholePlan` |
| `journal` | two transactions, three batches, a shared part and a shared document, one unanswered push, one may be abandoned | checkpoints validate; the index names whole artifacts and loses none; records name the commits that introduced their parts; abandonment does not hide a receipt; `EventuallySettled` |
| `journal_reserve` | the same two, which fit the capacity singly | **violated**: see below |
| `journal_retry` | the same two with ample capacity, one unanswered push, nobody abandons | **violated**: see below |
| `memory` | two threads, one or both in the memo's scope, two bytes, two values of one byte and room for one in the memo, work of one lane, two lanes or two bytes, two of them nested, one independent task, cancellation | `ChargesMatchLife`, `RefusalNeedsOthers`, `WaitersWake` |
| `lookahead` | three jobs, two claimants, two claims each | `OneResultPerJob`, `LaneEnds` |

Runs whose processes may be done check no deadlock: a finished publisher, or
one out of runs, does nothing, and a lane that is dropped is gone.

**Bounds.** Two publishers are enough for the lease: every hazard is between one
run that is overtaken and the one that overtakes it, and the theorems hold for any
number. Five new commits allow an acquisition, a batch, a takeover and a batch of the
other side with a delayed push between. One fault is a crash, a lost answer or a delayed
push anywhere; a pair of delayed pushes is left to the theorems, which have no bound.
In `FamilyPublication` a batch has one to five files, so that the publication of a draft takes
two commits and more, and clocks show one of two seconds, so that runs fall into the same one and into
different ones (in shards where a second does not matter to what is shown, one); `MaxRuns` bounds leased runs because each has an owner of its own, public runs
are unbounded. `GitTransport` runs with two attempts of the code's five: every
attempt is the same step, and the second is where a copy of the first may still
be on its way. Three drafts in `waves` are the smallest family with two members
and a parent or child outside it; two failures are a failed group and a failed recheck, or
two failed groups. In `memory` two bytes make every second request meet pressure: a
value in the memo, one in the slot or a handle, and a workspace can not all be there;
`MaxNested` of two is the nesting of a workspace in another. `MaxClaims` of two lets a
claim follow a rejected or answered one of the same job. `LedgerSize` keeps the code's 16 turns. In `Journal` one transaction has two
batches and the other shares a part with the second, so that batches are committed, reused
and committed in part; `Capacity` has room for both with some recounting, and
one unanswered push (`MaxFaults`) falls on every commit in turn; `Unwanted` names
the transaction that may be abandoned. Nothing else is bounded.

**Fairness.** In `lease` time advances and a running publisher keeps
taking steps (a process that stops is `Crash`, which sets it idle); nothing makes
it start, crash or give up. In `family_resume` and `family_interrupted` a publisher
that has not succeeded is run again, which is what the documentation tells the
operator to do, and faults are finitely many. `EventuallyPublished` promises success unless
`main` moves for ever: the code has no order between public publishers. In `journal` a transaction is resumed as
long as it is open (`CLI.md`: re-running the request loads the progress made); nobody has to
abandon, and no late push has to arrive. In `transport` an operation that has begun is
carried on, as the loop in `push_with_ref_reconciliation` does; the network may
fail every attempt. In `memory` a thread carries its request through; a workspace is the
guard of a finite computation, so its thread drops it at some time, whatever other
requests it makes in between (strong fairness); and an independent task, which has a
ledger and a thread of its own, ends. No handle and no memo entry has to be
dropped. Strong fairness of the release assumes that **a holder of working memory never waits
for one who sleeps**. The comment at `xc-spectral/src/ccm/hp/root_execution.rs:24` states this for its own dispatch;
`ccm/arb_bridge.rs:502` makes a blocking request on Rayon worker threads, and reading its callers found
none that holds working bytes while it waits for those workers, but nothing in the code
enforces it. In `lookahead` threads that can run do and jobs end; nobody has to claim or
to drop the lane.

### Findings

* `family_interrupted`. The parts that are not payload follow in path order and are cut
  by bytes alone, so a boundary may fall between `indexes/` and `manifests/`. If the
  publisher stops there, `main` has an index entry whose manifest does not exist.
  Selection reads that manifest and fails, so the publication can not be
  repeated, though `PUBLICATION_PERFORMANCE.md` says that the publisher
  "publishes the missing pieces when invoked again". `family_resume` shows that it can
  when the boundary falls elsewhere. No artifact becomes discoverable before its objects
  (`IndexedObjectsReachable`).
* `journal_reserve`. Capacity is checked against the ledger at the expected head, and only
  the discoverability commit changes that ledger. Payload, records and metadata of a
  transaction that is under way are on the branch and not in the ledger, so two transactions
  are both admitted to the room that is left for one; `CACHE_SCHEMA.md` says that
  concurrent publishers can not both consume the same reserve.
* `journal_retry`. The push of the discoverability commit is executed and its answer lost;
  another transaction publishes completely; the retry finds index and ledger changed, does not
  recognise its own commit, discards the plan, stages again on a ledger that has its bytes
  and adds them once more. `CACHE_SCHEMA.md` says that transaction ids and batch digests make
  a retry idempotent. The index and the receipts are right all the same; the ledger
  claims more than there is.

Two more observations have no run. Two public publishers with different answers of one
version, each in several commits, can make each other's pushes conflict for ever: no
progress under contention is promised. And since replacement keeps the history of the
branch, a shard's ledger only grows.

## 4. Proofs

`PrivateLeaseProofs` proves, for every set of publishers and every bound on time, runs,
commits and faults (assumptions `LeaseAssumption` and `NoOwnerAssumption`: durations are
naturals, the lease is longer than zero, `NoOwner` owns nothing):

| Theorem | States |
|---|---|
| `TypeCorrect` | every lock on the branch, in a push and in memory is one `validate` accepts: acquired not after its heartbeat, which is before its expiry |
| `FenceNamesOwnerAlways` | a publisher whose lease is the commit in force is the owner the lock names |
| `StalePublisherAlwaysFenced` | only the run the lock names advances `main`, and keeps the lock |
| `GenerationAlwaysIncreases` | a takeover increases the generation |
| `LeaseNeverShrinksAlways` | a renewal never moves the expiry back |
| `NoTakeoverIsEarly` | with `Skew <= Grace`, no takeover before `LeaseSeconds` of true time |
| `LeaseImplementsFence` | `PrivateLease` implements `FencedBranch` |

The argument: none of these is inductive, because a push that was sent long ago may
be executed now. `FenceInv` says of everything that *could* still arrive or be used
what the properties say of the branch:

* `Names(Known, nextId)`: a commit identity determines its commit, among all commits on the
  branch, in a publisher's memory or in a push on its way, and is below `nextId`. So a
  matching identity means that the branch is exactly what the sender saw.
* `LateOK`: every push on its way is an acquisition, a renewal or a release made from
  the commit it expects: it takes over only an expired lock and raises the generation,
  or keeps the owner and does not shorten the lease, or removes the lock; only the
  second kind moves `main`.
* `ViewsOK`: a publisher about to acquire saw a lock that was free or expired then.

With it, lemma `RemoteStep` says that every step either leaves the branches alone or
applies one such push to the commit it was made from, and the action properties and
the refinement are read off that. `LeaseHeld` (a publisher has a lease exactly in
the steps that use one) makes the types inductive.

`BatchesAlwaysContiguous` (the batches of one run are next to each other on `main`) needs
more: a publisher pushes a batch on the `main` it saw, so between two batches of a run
nobody else can have pushed. `OrderInv` says that whoever still expects the present head
may follow the batches on `main` (`PushesInOrder`), that the head a push will install is
known to nobody yet (`HeadsUnseen`), and that a run has pushed nothing before it has read
the head (`NoBatchYet`).

`RunResourcesProofs` proves, for any number of threads, keys and bytes, any weights and any
nesting of workspaces (`MemoryAssumption`: a value and a source have bytes, the memo's maximum is within the run's), `ChargesMatchLifeAlways` - ledger and memo count exactly
what is alive, within their maxima - and `RefusalNeedsOthersAlways` - after a clear, optional
retention alone never refuses a request. `MemoryInv` is `ChargesMatchLife` with what its steps rely on:

* `EntriesOwn`: an entry of the memo has an allocation of its own, charged the weight of its
  key, so that evicting entries by weight frees what the ledger has;
* `RequestOK`, `Fresh`: what was reserved for a value or a source belongs to one thread and
  to nothing else until it is inserted or kept, so that an insertion neither frees nor
  shares it;
* `ClearOK`: after a thread's clear took the memo, memo and slot have only what was retained
  `since`. This is where the order callbacks, then memo, matters.

A release frees the allocations whose last reference went: the sum over the live ones is
split at them (`TotalOfBoth`), and a change of one thread's workspaces changes one summand
(`TotalOfChange`).

The same module proves `LaneDeliversOnce`, that is `OneResultPerJob`, for any number
of jobs, claimants and claims (`LaneAssumption`). `LaneInv` adds what the code relies on
when it looks for a slot by its state: a slot is running or being discarded only while the
thread runs, and then it is the slot of the job it took (`ActiveIsJob`); a finished
slot has the outcome of its own job (`DoneIsOwn`).

`BatchAccountingProofs` proves `LedgerAlwaysCountsItself` and `CapacityAlwaysRespected` about
`LedgerSize` by itself and, about the whole publication, for any parts, heads, totals, limits
and document lengths (`LedgerAssumption`, `AccountingAssumption`: the loop has at least
four turns, the limit is not zero, object paths are paths and the ledger's is none of them):

| Theorem | States |
|---|---|
| `LengthAlwaysConverges` | the loop that sizes a ledger always settles within its turns |
| `EveryLedgerCountsItself` | every ledger of the publication counts its own document |
| `PlanAlwaysKeepsOrder` | the batches, joined, are the distinct parts in their order |
| `PlanIsAlwaysShortest` | no batch exceeds the limit and no cut within the limit has fewer |
| `WholePlanAlwaysAccounted` | what was sent is what the head lacked, in order and once, and the ledger has grown by it and by the ledgers on the way |

`PublicationInv` has a part for each. `Converging` lists the lengths the loop may have counted:
zero, then `a`, `b` and `c`, each found from the one before. The first leaves the document
out of its own total; the second counts it, and the total may gain up to 19 digits; these few bytes carry it
past one more power of ten at most, and the next few past none: the fourth length is the third (`FourthIsThird`). Three
retries and a turn to settle are the `4 <= MaxTries` of the assumption; the code has 16.
`PlanInv` says that there are positions at which the distinct parts are cut into the
batches, and that each batch but the last is full: with the part after it, it would exceed
the limit. Any other cut within the limit therefore has a position of its own in every full
batch (`CutsMeet`), hence as many pieces. `AccountInv` compares the ledger and the files with
those at the beginning: after some batches, what was sent is the selection from the parts of
these batches that the first head lacked, because the paths of later batches are still as they were
there (`Booked`); the totals are the sum of what was sent.

`GitTransportProofs` proves, for any number of operations, attempts and delayed pushes
(`TransportAssumption`), that an answer `ok` means the push, or for a deletion some
deletion, was executed (`OkAlwaysExecuted`), that an operation moves the cache branch at most
once however often it is sent (`MainMovesOnce`), and that a push to the cache branch
alone is never executed after it was reported as a conflict (`ConflictsAreFinal`). `TransportInv` rests on the age of commits: `main`
is never deleted and every commit on it is younger than the one before
(`MainYoungest`), so a copy of a push whose expected commit has been left behind can
never match again (`ConflictsStale`). The coordination branch comes and goes, and the
same argument fails there: this is why these properties are about `main`.

`JournalProofs` proves the seven safety properties of the run `journal` for any artifacts,
batches and transactions over a finite set of files (`JournalAssumption`):

| Theorem | States |
|---|---|
| `CheckpointsAlwaysValid` | every checkpoint written satisfies the whole of `validate` when it is read back: identities, new objects, the states of batches and records, the order of metadata, discoverability and receipt |
| `DiscoverableAlwaysWhole` | what the index lists has its payload and documents on the branch |
| `CompletionAlwaysLasts` | what a completed transaction published stays on the branch |
| `RecordsAlwaysTellTruth` | a batch record names the commit that introduced its new parts, and its path never has two contents |
| `PayloadAlwaysClaimed` | every part on the branch is named as new by a record or a journal, lost answers aside |
| `LedgerAlwaysCountsOnce` | no transaction is counted twice by the ledger, lost answers aside |
| `AbandonNeverMisleads` | a transaction with a receipt on the branch is not recorded as abandoned, unless by a push executed after it had failed |

`JournalInv` says what each checkpoint asserts about the history (`JournalOK`: a commit is planned
and empty or has a parent and an identity up to the expected head, `Identified`, and a
batch and its record are in states that belong together, `RecordOK`), that it
stays true as the history grows (`Lasts`), and that every push still on its way builds on
a commit its sender knew, before the sender's last one (`FlyingOK`). The
history is append-only, so only the newest tree has to be looked at.

`FamilyPublicationProofs` proves, for any shards (`ShardAssumption`: finitely many drafts, of
finitely many objects, any cut into batches, any capacity), any publishers, leased or
not, and any number of conflicts, crashes and late pushes:

| Theorem | States |
|---|---|
| `IndexedAlwaysReachable` | the index names nothing whose payload objects and encoding are not on `main` |
| `RecordsAlwaysProve` | a batch record proves each draft it lists: objects, encoding, manifest and the attestation it is named by are there |
| `LedgerAlwaysCovers` | the ledger accounts for every object once and for every other file version, within the capacity |
| `SuccessAlwaysPublished` | a run that reports success has left each draft, or one that dominates it and is as assured, on `main` |
| `ProducersNeverRegress` | no step loses a live entry or gives it to an older producer |

A publisher builds on a tree it read some time ago and commits its files in several
pushes, so `FamilyInv` has to say what is true of `main`, of every tree in memory and of
every tree in a push on its way: each is well formed by itself (`TreeOK`); `main` has
grown from each tree in memory (`HeadOK`); and a push that can still be executed may
follow `main` (`LateOK`), because commit identities are not reused (`IdsOK`). What remains to
be committed is described by `JobOK`: every file of the batch is on the tree or in a
batch still to come, and the batches are in the order objects, attestations, encodings,
index, manifests, records. `LedgerAlwaysCovers` has the hypothesis that the files a shard had before its
first ledger fit the capacity: the program writes the first ledger without asking for
admission.

`PublicationWavesProofs` proves, for any finite set of drafts, any graph of parents, any number of
workers and any failures (`WavesAssumption`: finitely many drafts and external parents; a key belongs
to one family, as every index does):

| Theorem | States |
|---|---|
| `ParentsAlwaysFirst` | no draft is at the destination before its parents (of its own family: before its record) |
| `RejectionsAlwaysContradictions` | a rejected plan could not have been ordered by any assignment of waves |
| `AlwaysLeftOutForParents` | the drafts left out are exactly those that had to be, and every other one has an answer |
| `LiveEntryAlwaysAsBatch` | the live entry of a key is the one that a single batch of the same drafts would have left |

Three facts about the planning loops carry it. A pass over the drafts raises waves, and
never above those of an assignment that respects everything (`RaisedBelow`); a pass that
changes nothing has reached such an assignment (`RaisedFix`). So the waves are the least
ones, and a wave beyond the number of drafts means that there are none. A pass of the
remapping that settles nothing leaves drafts which all name each other (`UnsettledIs`).
The turns of a gate, as many as drafts, end in a fixed point (`BlockedFix`, by the size of
the sets on the way). `WavesInv` adds that a parent with the answer "yes" has a batch
record or was accepted for its index entry (`KeptOK`), and that the parents of a draft in a
transaction are published or in the same transaction (`RunOK`). That an entry with
`dest.proof` is listed by a record (`ProofOK`) is preserved only because a transaction installs
entries of its own drafts (`LiveAfterInstalls`).

`LiveEntryAlwaysAsBatch` compares several folds over parts of the drafts with one fold over all
of them. `Chosen` says without a fold what a set of drafts leaves: the last draft that
is not pinned takes the entry, and of the pinned ones after it the first with the newest
producer, if that is newer (`LiveAfterChosen`, `ChosenUnique`). A set that comes later in the batch order, or
has only closure members of older producers where it does not, can be appended (`Follows`, `ChosenJoin`);
this is exactly what `closure_member_may_follow` allows. `LiveInv` says that the entry is
the chosen one at every moment, that transactions of a wave have different families
(`FamiliesApart`) and that indexed drafts are of earlier waves or of ended transactions
(`IndexedOK`); with the waves respecting the batch order, every transaction can follow
(`IndexFollows`).

To be provable, loops over finite sets are recursive functions over an interval, applied
to an enumeration of the set that is defined by its order (`PlanOrder`, `Ascending`,
`BatchOrder`, `PathOrder`), and not folds: the provers know nothing about a fold or a sort
of the library. `Enumerations` has the inductions, with the steps and the order given as
functions and sets, because the library's induction principles have operator parameters.

The inductive invariants `FamilyInv` (shapes of the variables aside), `WavesInv`, `LiveInv`,
`MemoryInv` and the parts of `PublicationInv` were also checked by TLC on the instances of the runs `family`,
`waves`, `memory` and `batches` before they were proved.

So every invariant and every action property of the runs is a theorem, and the refinement of
`FencedBranch` too. Only model-checked are

* the liveness properties (`OrphanRecovered`, `EventuallyPublished`, `EventuallyAnswered`,
  `EventuallySettled`, `WaitersWake`, `LaneEnds`): fairness is outside the provers' reach;
* the three violations, which are facts about one instance.

## 5. Not modelled

Numerics (reals and intervals, outside TLC's reach); document validation, digests and
encodings (a digest is a name, and equal names are equal content); credentials, sessions,
metrics, the command line (I/O); shard selection when a shard is full; readers' caches.
Git objects are never missing: a commit is its files. Rollover of a registry is one
compare-and-swap against the head its plan names; production staging, audit and repair,
durability and the ephemeral store have no module yet. Most of the repository's lines are
numerics and their tests, so the models cover a small share of all lines and most of the
lines that coordinate processes or threads.

Of the family publisher: the continuation inventory of an interrupted publication, and entries
that are not active.

Of the waves: replacement of existing semantics, the coalescing of aliases while
remapping, and the second destination of a run, which shares only the worker threads. Of
run resources: the limit on workers, reservations dropped on another thread than the one
that made them, workspaces reserved inside a validator (to the ledger the same as work
asked for with a handle in hand), and the second eviction callback, which empties another
optional slot.

Of the journal: fresh permission evidence, audit evidence, the coordinator's preflight
(admission, route and policy checks before the first checkpoint), the order of two
destinations in one transaction, entries that replace others in the index, the failed
state (which only tests set), and two processes that resume the same journal at once.

## 6. Plan

1. Done: `PrivateLease` with `FencedBranch`, `FamilyPublication`, `PublicationWaves`,
   `GitTransport`, `BatchPlan`, `LedgerSize`, `BatchAccounting`, `Journal`, `RunMemory`,
   `LookAhead`, with the runs and theorems above.
2. An abstract specification for `Journal` (an artifact is committed, recorded, made
   discoverable, in this order and for good) and the refinement; both destinations of a
   transaction; the coordinator.
3. Audit and repair against the histories of `FamilyPublication`; durability; the ephemeral store;
   the staging queue; shard selection and rollover against the registry.
