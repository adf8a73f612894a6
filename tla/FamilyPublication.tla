------------------------- MODULE FamilyPublication -------------------------
(***************************************************************************)
(* The family batch publisher (execute_family_batch_publication_inner in   *)
(* crates/xc-cache/src/managed_publication.rs): publishers bring the       *)
(* drafts of one artifact family to one shard repository in a sequence of  *)
(* commits, each with its own capacity ledger.  A private shard is         *)
(* published under the lease of PrivateLease, used here through what it    *)
(* promises (FencedBranch); a public shard relies on compare-and-swap of   *)
(* `main` alone.                                                           *)
(*                                                                         *)
(* A draft is known by its manifest: key (semantic digest), version        *)
(* (producer toolkit), content (payload without dependencies), deps        *)
(* (dependencies), reader (reader versions), assurance, closure and        *)
(* required (source operation, exact parent of another draft) and its      *)
(* payload objects.  Entries are Active, as this publisher writes them.    *)
(* All files count one byte and all keys share an index partition; batches *)
(* are cut after BatchParts files.                                         *)
(***************************************************************************)
EXTENDS Naturals, Sequences, FiniteSets, Functions

CONSTANTS
    Publishers,  \* publishing processes
    Shards,      \* the destinations to consider, each with what is to be published
    NoOwner,     \* the owner of no lease
    NoEntry,     \* a key without index entry
    NoLedger     \* a shard without capacity ledger

VARIABLES
    shard,     \* the destination: chosen by Init, it never changes
    main,      \* the commit the cache branch names
    tree,      \* the files of that commit
    last,      \* the run that advanced main last
    holder,    \* the run that holds the lease
    nextId,    \* commit identities below nextId have been used
    late,      \* pushes the server may still execute
    faults,    \* faults so far
    pc,        \* where each publisher stands
    run,       \* the number of each publisher's current run
    second,    \* the second in which it started (event_unix_seconds), 0 without a run
    pending,   \* the drafts the run has found missing
    observed,  \* the commit the run selected them from
    head,      \* the commit the run builds on
    job,       \* what the run stages: its index and its remaining batches
    result     \* the outcome of the publication, and of the run once it has ended

fence == <<main, last, holder>>
remote == <<main, tree, last, holder>>
vars == <<shard, main, tree, last, holder, nextId, late, faults,
          pc, run, second, pending, observed, head, job, result>>

Draft == shard.draft            \* draft identities (ordered as manifest digests) to records
Work == shard.work              \* the drafts each publisher has to publish
Legacy == shard.legacy          \* the drafts published before there was a capacity ledger
Replacing == shard.replacing    \* the publishers that run with replace_existing_semantic
Leased == shard.leased          \* private destination
Seconds == shard.seconds        \* what a run may read from its machine's clock
BatchParts == shard.batchParts  \* files in one batch
Capacity == shard.capacity      \* hard_capacity_bytes
MaxRuns == shard.maxRuns        \* bound on the leased runs of one publisher
MaxFaults == shard.maxFaults    \* bound on failures, crashes and pushes of unknown fate

Drafts == DOMAIN Draft
Keys == {Draft[d].key : d \in Drafts}
Objects == UNION {Draft[d].objects : d \in Drafts}
Owners == Publishers \X Nat

DraftRecords ==
    [key : Nat, version : Nat, content : Nat, deps : SUBSET Nat, reader : Nat,
     assurance : Nat, closure : BOOLEAN, required : BOOLEAN, objects : SUBSET Nat]

ASSUME ShardAssumption ==
    \A s \in Shards :
        /\ DOMAIN s.draft \subseteq Nat /\ IsFiniteSet(DOMAIN s.draft)
        /\ \A d \in DOMAIN s.draft :
              /\ s.draft[d] \in DraftRecords
              /\ IsFiniteSet(s.draft[d].objects) /\ IsFiniteSet(s.draft[d].deps)
        /\ s.work \in [Publishers -> (SUBSET DOMAIN s.draft) \ {{}}]
        /\ s.legacy \subseteq DOMAIN s.draft /\ s.replacing \subseteq Publishers
        /\ s.seconds \subseteq Nat \ {0}
        /\ s.leased \in BOOLEAN /\ s.batchParts \in Nat \ {0} /\ s.capacity \in Nat
        /\ s.maxRuns \in Nat /\ s.maxFaults \in Nat

ASSUME AbsenceAssumption ==
    /\ NoEntry \notin [draft : Nat, txn : [drafts : SUBSET Nat, second : Nat]]
    /\ NoLedger \notin [payload : Nat, metadata : Nat, history : Nat]

Fence == INSTANCE FencedBranch

Self(p) == <<p, IF Leased THEN run[p] ELSE 0>>

-----------------------------------------------------------------------------
\* Files

\* Attestations carry the second of their run and are named by their digest, and
\* batch_id covers those digests: both differ between runs of different seconds.
Attestation(d, s) == [draft |-> d, second |-> s]
Batch(D, s) == [drafts |-> D, second |-> s]

\* `blobs` counts every file version committed so far, the initial ledger aside; the
\* program does not have it.
EmptyTree == [objects |-> {}, attestations |-> {}, encodings |-> {}, manifests |-> {},
              records |-> {},
              index |-> [k \in Keys |-> NoEntry], ledger |-> NoLedger, blobs |-> 0]
NoCommit == [id |-> 0, tree |-> EmptyTree]

File(kind, name) == [kind |-> kind, name |-> name]
Names(files, kind) == {f.name : f \in {g \in files : g.kind = kind}}

\* The elements of S in path order.
PathOrder(S) ==
    CHOOSE s \in [1..Cardinality(S) -> S] : \A i, j \in DOMAIN s : i < j => s[i] < s[j]

Files(kind, names) ==
    LET order == PathOrder(names)
    IN  [i \in DOMAIN order |-> File(kind, order[i])]

Attestations(batch) ==
    LET order == PathOrder(batch.drafts)
    IN  [i \in DOMAIN order |-> File("attestation", Attestation(order[i], batch.second))]

Accounted(ledger) == ledger.payload + ledger.metadata + ledger.history

\* reconciled_capacity_ledger: one more copy of what is reachable is reserved for
\* the history before the ledger.
ReconciledLedger(t) ==
    LET payload == Cardinality(t.objects)
        metadata == Cardinality(t.attestations) + Cardinality(t.encodings)
                    + Cardinality(t.manifests) + Cardinality(t.records)
                    + IF \A k \in Keys : t.index[k] = NoEntry THEN 0 ELSE 1
    IN  [payload |-> payload, metadata |-> metadata, history |-> payload + metadata]

-----------------------------------------------------------------------------
\* Selection at a tree

Version(e) == Draft[e.draft].version

Pinned(d, required) == Draft[d].closure \/ required

\* ensure_monotonic_producer
Downgrade(e, d) == e # NoEntry /\ Version(e) > Draft[d].version

\* family_draft_advances_live_index: an error, or whether d replaces the entry
Retained(e, d, required) ==
    Pinned(d, required) /\ e # NoEntry /\ Version(e) >= Draft[d].version
AdvanceFails(e, d, required) == ~Retained(e, d, required) /\ Downgrade(e, d)

\* destination_entry_may_prove, of active entries: publication installs no others
MayProve(e, d) ==
    /\ e # NoEntry
    /\ Draft[e.draft].assurance >= Draft[d].assurance
    /\ Version(e) >= Draft[d].version
    /\ Draft[e.draft].reader = Draft[d].reader

\* destination_manifest_dominates, for a draft nothing names exactly
Dominates(e, d) ==
    /\ Draft[e].key = Draft[d].key
    /\ Draft[e].content = Draft[d].content
    /\ Draft[e].reader = Draft[d].reader
    /\ Draft[e].version >= Draft[d].version
    /\ Draft[d].deps \subseteq Draft[e].deps
    /\ ~Pinned(d, Draft[d].required)

\* Mutant: the index entry alone is the proof.
ProvenByIndex(t, d) ==
    LET e == t.index[Draft[d].key]
    IN  MayProve(e, d) /\ (e.draft = d \/ Dominates(e.draft, d))

Proven(t, d) ==
    LET e == t.index[Draft[d].key]
    IN  /\ MayProve(e, d)
        /\ e.draft = d \/ Dominates(e.draft, d)
        /\ e.txn \in t.records /\ e.draft \in e.txn.drafts

\* Mutant: an entry whose batch record is not there yet is an error.
SelectionFailsWithoutRecord(t, D) ==
    \E d \in D :
        LET e == t.index[Draft[d].key]
        IN  \/ AdvanceFails(e, d, Draft[d].required)
            \/ MayProve(e, d) /\ (e.draft \notin t.manifests \/ e.txn \notin t.records)

\* select_missing_destination_drafts: an older producer is refused, and the
\* manifest of an entry that may prove a draft must be there to be read.
SelectionFails(t, D) ==
    \E d \in D :
        LET e == t.index[Draft[d].key]
        IN  \/ AdvanceFails(e, d, Draft[d].required)
            \/ MayProve(e, d) /\ e.draft \notin t.manifests

Missing(t, D) == {d \in D : ~Proven(t, d)}

-----------------------------------------------------------------------------
\* Staging at a tree

\* order_family_publication_drafts, within a key
Before(c, d) ==
    LET rank(x) == <<IF Draft[x].closure THEN 0 ELSE 1, Draft[x].version,
                     Cardinality(Draft[x].deps), Draft[x].content, x>>
    IN  \E i \in 1..5 : /\ rank(c)[i] < rank(d)[i]
                        /\ \A j \in 1..(i - 1) : rank(c)[j] = rank(d)[j]

\* The drafts of a key in that order.
BatchOrder(D, k) ==
    LET S == {d \in D : Draft[d].key = k}
    IN  CHOOSE s \in [1..Cardinality(S) -> S] :
            \A i, j \in DOMAIN s : i < j => Before(s[i], s[j])

\* One draft of a batch is applied to a live entry; a refusal is remembered.
ApplyDraft(p, batch, s, d) ==
    IF Retained(s.entry, d, p \notin Replacing /\ Draft[d].required) THEN s
    ELSE [entry |-> [draft |-> d, txn |-> batch], refused |-> s.refused \/ Downgrade(s.entry, d)]

\* The live entry after the drafts of its key have been applied in order, and
\* whether one of them was refused.
StagedEntry(p, t, batch, k) ==
    LET order == BatchOrder(batch.drafts, k)
        staged[n \in 0..Len(order)] ==
            IF n = 0 THEN [entry |-> t.index[k], refused |-> FALSE]
            ELSE ApplyDraft(p, batch, staged[n - 1], order[n])
    IN  staged[Len(order)]

StagingFails(p, t, batch) == \E k \in Keys : StagedEntry(p, t, batch, k).refused

ObjectsOf(D) == UNION {Draft[d].objects : d \in D}

\* Mutant: all files in path order.
StagedFilesByPath(batch) ==
    Attestations(batch) \o Files("encoding", batch.drafts) \o <<File("index", 0)>>
        \o Files("manifest", batch.drafts) \o Files("object", ObjectsOf(batch.drafts))
        \o <<File("record", batch)>>

\* Mutant: the batch record goes ahead of what it proves.
StagedFilesRecordFirst(batch) ==
    Files("object", ObjectsOf(batch.drafts)) \o <<File("record", batch)>>
        \o Attestations(batch) \o Files("encoding", batch.drafts) \o <<File("index", 0)>>
        \o Files("manifest", batch.drafts)

\* Payload objects first, then the other files in path order: attestations, encodings,
\* indexes, manifests, transactions.
StagedFiles(batch) ==
    Files("object", ObjectsOf(batch.drafts))
        \o Attestations(batch) \o Files("encoding", batch.drafts) \o <<File("index", 0)>>
        \o Files("manifest", batch.drafts) \o <<File("record", batch)>>

\* plan_publication_batches
Batches(files) ==
    [b \in 1..((Len(files) + BatchParts - 1) \div BatchParts) |->
        {files[i] : i \in {j \in DOMAIN files : (j - 1) \div BatchParts = b - 1}}]

\* Mutant: the index is staged from the tree read before the lease.
JobFromObserved(p, t, batch) ==
    [index |-> [k \in Keys |-> StagedEntry(p, observed[p].tree, batch, k).entry],
     batches |-> Batches(StagedFiles(batch))]

Job(p, t, batch) ==
    [index |-> [k \in Keys |-> StagedEntry(p, t, batch, k).entry],
     batches |-> Batches(StagedFiles(batch))]
NoJob == [index |-> EmptyTree.index, batches |-> <<>>]

\* The file is there, with the same content.
Has(t, f, index) ==
    CASE f.kind = "object"      -> f.name \in t.objects
      [] f.kind = "attestation" -> f.name \in t.attestations
      [] f.kind = "encoding"    -> f.name \in t.encodings
      [] f.kind = "index"       -> t.index = index
      [] f.kind = "manifest"    -> f.name \in t.manifests
      [] f.kind = "record"      -> f.name \in t.records

\* select_publication_commit_parts: identical files are left out.
NewFiles(t, files, index) == {f \in files : ~Has(t, f, index)}

\* advance_capacity_ledger_for_repository_batch, which counts the ledger file too
AdvancedLedger(ledger, files) ==
    LET objects == Cardinality(Names(files, "object"))
    IN  [ledger EXCEPT !.payload = @ + objects,
                       !.metadata = @ + (Cardinality(files) - objects) + 1]

\* Mutant: metadata is not admitted against the capacity.
AdmittedPayload(ledger) == ledger.payload <= Capacity

Admitted(ledger) == Accounted(ledger) <= Capacity

Updated(t, files, index) ==
    [objects |-> t.objects \cup Names(files, "object"),
     attestations |-> t.attestations \cup Names(files, "attestation"),
     encodings |-> t.encodings \cup Names(files, "encoding"),
     manifests |-> t.manifests \cup Names(files, "manifest"),
     records |-> t.records \cup Names(files, "record"),
     index |-> IF Names(files, "index") = {} THEN t.index ELSE index,
     ledger |-> AdvancedLedger(t.ledger, files),
     blobs |-> t.blobs + Cardinality(files) + 1]

-----------------------------------------------------------------------------
\* The remote

LegacyTree ==
    IF Legacy = {} THEN EmptyTree
    ELSE LET batch == Batch(Legacy, 0)
             files == Range(StagedFiles(batch))
             index == [k \in Keys |->
                 LET order == BatchOrder(Legacy, k)
                 IN  IF order = <<>> THEN NoEntry
                     ELSE [draft |-> order[Len(order)], txn |-> batch]]
         IN  [Updated([EmptyTree EXCEPT !.ledger = ReconciledLedger(EmptyTree)], files, index)
                 EXCEPT !.ledger = NoLedger, !.blobs = Cardinality(files)]

Init ==
    /\ shard \in Shards
    /\ Fence!Init
    /\ tree = LegacyTree
    /\ nextId = 2 /\ faults = 0 /\ late = {}
    /\ pc = [p \in Publishers |-> "idle"]
    /\ run = [p \in Publishers |-> 0] /\ second = [p \in Publishers |-> 0]
    /\ pending = [p \in Publishers |-> {}]
    /\ observed = [p \in Publishers |-> NoCommit]
    /\ head = [p \in Publishers |-> NoCommit]
    /\ job = [p \in Publishers |-> NoJob]
    /\ result = [p \in Publishers |-> "none"]

\* The commit of t on top of the run's head.
Push(p, t) == [by |-> Self(p), exp |-> head[p].id, id |-> nextId, tree |-> t]

\* compare_and_swap_commit, or commit_private_batch_atomically, which also
\* requires the lease
Matches(u) == main = u.exp /\ (Leased => holder = u.by)

Install(u) ==
    /\ main' = u.id
    /\ tree' = u.tree
    /\ IF Leased THEN Fence!Advance ELSE UNCHANGED <<last, holder>>

Accepted(u) ==
    /\ Matches(u)
    /\ Install(u)
    /\ nextId' = nextId + 1
    /\ UNCHANGED <<late, faults>>

Refused(u) == ~Matches(u) /\ UNCHANGED <<remote, nextId, late, faults>>

\* The answer is an error or lost: the server may still execute the push.
Unknown(u) ==
    /\ faults < MaxFaults
    /\ faults' = faults + 1
    /\ nextId' = nextId + 1
    /\ late' = late \cup {u}
    /\ UNCHANGED remote

LateApply(u) ==
    /\ u \in late
    /\ Matches(u)
    /\ Install(u)
    /\ late' = late \ {u}
    /\ UNCHANGED <<nextId, faults, pc, run, second, pending, observed, head, job, result>>

-----------------------------------------------------------------------------
\* One publisher

Goto(p, step) == pc' = [pc EXCEPT ![p] = step]

\* The run goes to `step` with this outcome and nothing left in memory.
Leave(p, step, outcome) ==
    /\ Goto(p, step)
    /\ result' = [result EXCEPT ![p] = outcome]
    /\ second' = [second EXCEPT ![p] = 0]
    /\ pending' = [pending EXCEPT ![p] = {}]
    /\ observed' = [observed EXCEPT ![p] = NoCommit]
    /\ head' = [head EXCEPT ![p] = NoCommit]
    /\ job' = [job EXCEPT ![p] = NoJob]

\* The publication closure returns; a private run has its lease to release.
Return(p, outcome) == Leave(p, IF Leased THEN "release" ELSE "idle", outcome)

\* preflight_producer_monotonicity of a replacing run, else the selection
Rejects(p, t, D) ==
    IF p \in Replacing THEN \E d \in D : Downgrade(t.index[Draft[d].key], d)
    ELSE SelectionFails(t, D)

Wanted(p, t, D) == IF p \in Replacing THEN D ELSE Missing(t, D)

\* The destination is read before anything is locked.
Observe(p) ==
    /\ pc[p] = "idle"
    /\ Leased => run[p] < MaxRuns
    /\ run' = IF Leased THEN [run EXCEPT ![p] = @ + 1] ELSE run
    /\ LET wanted == Wanted(p, tree, Work[p])
       IN  IF Rejects(p, tree, Work[p]) THEN Leave(p, "idle", "failed")
           ELSE IF wanted = {} THEN Leave(p, "idle", "ok")
           ELSE /\ Goto(p, IF Leased THEN "acquire" ELSE "sidecar")
                /\ \E s \in Seconds : second' = [second EXCEPT ![p] = s]
                /\ pending' = [pending EXCEPT ![p] = wanted]
                /\ observed' = [observed EXCEPT ![p] = [id |-> main, tree |-> tree]]
                /\ result' = [result EXCEPT ![p] = "none"]
                /\ UNCHANGED <<head, job>>
    /\ UNCHANGED <<remote, nextId, late, faults>>

\* acquire_private_publication_lease, whose takeover of an expired lock may come
\* at any moment
Acquire(p) ==
    /\ pc[p] = "acquire"
    /\ holder' = Self(p) /\ Fence!Acquire
    /\ Goto(p, "sidecar")
    /\ UNCHANGED <<tree, nextId, late, faults, run, second, pending, observed, head, job,
                   result>>

GiveUp(p) ==
    /\ pc[p] = "acquire"
    /\ Leave(p, "idle", "failed")
    /\ UNCHANGED <<remote, nextId, late, faults, run>>

\* ensure_managed_shard_sidecars: the head that the run will build on
ReadSidecars(p) ==
    /\ pc[p] = "sidecar"
    /\ head' = [head EXCEPT ![p] = [id |-> main, tree |-> tree]]
    /\ Goto(p, IF tree.ledger = NoLedger THEN "init" ELSE "plan")
    /\ UNCHANGED <<remote, nextId, late, faults, run, second, pending, observed, job, result>>

\* A shard without ledger gets one.  A public conflict is read again, or ends the
\* run when it was the fourth; a private one is an error.
InitializeLedger(p) ==
    /\ pc[p] = "init"
    /\ LET t == [head[p].tree EXCEPT !.ledger = ReconciledLedger(head[p].tree)]
           u == Push(p, t)
       IN  \/ /\ Accepted(u)
              /\ Goto(p, "plan")
              /\ head' = [head EXCEPT ![p] = [id |-> u.id, tree |-> u.tree]]
              /\ UNCHANGED <<second, pending, observed, job, result>>
           \/ /\ ~Leased
              /\ Refused(u)
              /\ Goto(p, "sidecar")
              /\ UNCHANGED <<second, pending, observed, head, job, result>>
           \/ (Refused(u) \/ Unknown(u)) /\ Return(p, "failed")
    /\ UNCHANGED run

\* From the re-read head to the staged batches: recheck of the selection when main
\* has moved, renewal of the lease, preflight, batch record, index.
Prepare(p) ==
    /\ pc[p] = "plan"
    /\ LET t == head[p].tree
           recheck == p \in Replacing \/ head[p].id # observed[p].id
           D == IF recheck THEN Wanted(p, t, pending[p]) ELSE pending[p]
       IN  IF recheck /\ Rejects(p, t, pending[p]) THEN Return(p, "failed")
           ELSE IF D = {} THEN Return(p, "ok")
           ELSE IF Leased /\ holder # Self(p) THEN Return(p, "failed")
           ELSE IF Batch(D, second[p]) \in t.records THEN Return(p, "ok")
           ELSE IF StagingFails(p, t, Batch(D, second[p])) THEN Return(p, "failed")
           ELSE /\ Goto(p, "commit")
                /\ pending' = [pending EXCEPT ![p] = D]
                /\ job' = [job EXCEPT ![p] = Job(p, t, Batch(D, second[p]))]
                /\ UNCHANGED <<second, observed, head, result>>
    /\ UNCHANGED <<remote, nextId, late, faults, run>>

\* The batch is done: on to the next, or the end.
Continue(p, commit) ==
    IF Len(job[p].batches) = 1 THEN Return(p, "ok")
    ELSE /\ head' = [head EXCEPT ![p] = commit]
         /\ job' = [job EXCEPT ![p].batches = Tail(@)]
         /\ UNCHANGED <<pc, second, pending, observed, result>>

\* One turn of the commit loop.  A batch the head already has is passed over.
CommitBatch(p) ==
    /\ pc[p] = "commit"
    /\ LET files == NewFiles(head[p].tree, Head(job[p].batches), job[p].index)
           u == Push(p, Updated(head[p].tree, files, job[p].index))
       IN  \/ /\ files = {}
              /\ Continue(p, head[p])
              /\ UNCHANGED <<remote, nextId, late, faults>>
           \/ /\ files # {} /\ ~Admitted(u.tree.ledger)
              /\ Return(p, "failed")
              /\ UNCHANGED <<remote, nextId, late, faults>>
           \/ /\ files # {} /\ Admitted(u.tree.ledger)
              /\ \/ Accepted(u) /\ Continue(p, [id |-> u.id, tree |-> u.tree])
                 \/ (Refused(u) \/ Unknown(u)) /\ Return(p, "failed")
    /\ UNCHANGED run

\* release_private_publication_lease: a run whose release fails has failed.
Release(p) ==
    /\ pc[p] = "release"
    /\ Goto(p, "idle")
    /\ \/ /\ holder = Self(p)
          /\ Fence!Release
          /\ UNCHANGED <<result, faults>>
       \/ /\ holder # Self(p)
          /\ result' = [result EXCEPT ![p] = "failed"]
          /\ UNCHANGED <<fence, faults>>
       \/ /\ faults < MaxFaults
          /\ faults' = faults + 1
          /\ result' = [result EXCEPT ![p] = "failed"]
          /\ UNCHANGED fence
    /\ UNCHANGED <<tree, nextId, late, run, second, pending, observed, head, job>>

\* An error of any step between two pushes (cancellation, expired session,
\* staging), or the end of the process.
Interrupt(p) ==
    /\ pc[p] \notin {"idle", "release"}
    /\ faults < MaxFaults
    /\ faults' = faults + 1
    /\ \/ pc[p] # "acquire" /\ Return(p, "failed")
       \/ Leave(p, "idle", "failed")
    /\ UNCHANGED <<remote, nextId, late, run>>

Publisher(p) ==
    \/ Observe(p) \/ Acquire(p) \/ GiveUp(p) \/ ReadSidecars(p) \/ InitializeLedger(p)
    \/ Prepare(p) \/ CommitBatch(p) \/ Release(p) \/ Interrupt(p)

Next ==
    /\ \/ \E p \in Publishers : Publisher(p)
       \/ \E u \in late : LateApply(u)
    /\ UNCHANGED shard

Spec == Init /\ [][Next]_vars

\* A publisher whose run failed is started again, and a run that has started goes
\* on.
Fairness ==
    \A p \in Publishers :
        /\ WF_vars(result[p] # "ok" /\ Observe(p) /\ UNCHANGED shard)
        /\ WF_vars(/\ \/ Acquire(p) \/ ReadSidecars(p) \/ InitializeLedger(p)
                      \/ Prepare(p) \/ CommitBatch(p) \/ Release(p)
                   /\ UNCHANGED shard)

FairSpec == Spec /\ Fairness

-----------------------------------------------------------------------------
\* Properties

\* An artifact is never discoverable before all of its payload objects and its
\* encoding are reachable, wherever the commits of concurrent publishers fall and
\* whichever of them are the last to arrive.
IndexedObjectsReachable ==
    \A k \in Keys : tree.index[k] # NoEntry =>
        /\ Draft[tree.index[k].draft].objects \subseteq tree.objects
        /\ tree.index[k].draft \in tree.encodings

\* Everything of a draft is on main.
Published(t, d) ==
    /\ Draft[d].objects \subseteq t.objects
    /\ d \in t.encodings \cap t.manifests
    /\ \E r \in t.records : d \in r.drafts

\* A batch record is the proof that selection relies on: when it is there, every
\* draft it lists is there too, with the attestation that the record was named by.
RecordProvesBatch ==
    \A r \in tree.records : \A d \in r.drafts :
        Published(tree, d) /\ Attestation(d, r.second) \in tree.attestations

\* The ledger on main accounts for every payload object once and for every other
\* file version ever committed, through retries, conflicts and pushes executed
\* late, and all of them together stay within the capacity.
LedgerCoversHistory ==
    tree.ledger # NoLedger =>
        /\ tree.ledger.payload = Cardinality(tree.objects)
        /\ tree.ledger.payload + tree.ledger.metadata = tree.blobs
        /\ tree.blobs <= Capacity

\* A live entry is neither lost nor replaced by one of an older producer, even by
\* a publisher that read the index partition long before.
LiveProducerMonotone ==
    [][\A k \in Keys : tree.index[k] # NoEntry =>
          /\ tree.index'[k] # NoEntry
          /\ Version(tree.index'[k]) >= Version(tree.index[k])]_vars

\* A run that reports success has left each of its drafts on main, or one that
\* dominates it and is at least as assured.
SuccessMeansPublished ==
    \A p \in Publishers : pc[p] = "idle" /\ result[p] = "ok" =>
        \A d \in Work[p] :
            \/ Published(tree, d)
            \/ \E e \in Drafts :
                  /\ Dominates(e, d) /\ Draft[e].assurance >= Draft[d].assurance
                  /\ Published(tree, e)

\* Publishers that are restarted until they succeed all do, unless somebody moves main
\* again and again: an interrupted publication leaves nothing behind that stops its
\* repetition.
EventuallyPublished ==
    \A p \in Publishers : <>(result[p] = "ok") \/ []<><<main' # main>>_vars
=============================================================================
