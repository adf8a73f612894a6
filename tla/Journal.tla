------------------------------ MODULE Journal ------------------------------
(***************************************************************************)
(* The publication of one artifact through its transaction journal         *)
(* (crates/xc-cache/src/publication.rs, publisher.rs, finalizer.rs,        *)
(* publication_staging.rs, publication_orchestrator.rs and                 *)
(* publication_recovery.rs): payload batches, one record per batch, the    *)
(* immutable metadata, then index, ledger and receipt in one commit.       *)
(*                                                                         *)
(* The journal in this module is its last checkpoint.  An action runs from *)
(* one checkpoint to the next, so that a crash between two actions loses   *)
(* nothing and a crash after a push and before its checkpoint is a push    *)
(* whose answer is lost.  Several transactions publish to the same branch, *)
(* which no lease protects here; each has one process at a time.           *)
(***************************************************************************)
EXTENDS Naturals, Sequences, FiniteSets

CONSTANTS
    Txns,       \* publication transactions
    Files,      \* payload parts and immutable metadata documents, by content
    Parts,      \* the parts of each planned batch of each transaction
    Documents,  \* the metadata documents of each transaction
    Capacity,   \* what a ledger may account for; every file has size 1
    Unwanted,   \* transactions that their operator may abandon
    MaxFaults   \* bound on pushes without an answer

ASSUME JournalAssumption ==
    /\ Parts \in [Txns -> Seq(SUBSET Files \ {{}}) \ {<<>>}]
    /\ Documents \in [Txns -> SUBSET Files \ {{}}]
    /\ IsFiniteSet(Files) /\ Unwanted \subseteq Txns
    /\ Capacity \in Nat /\ MaxFaults \in Nat

VARIABLES
    hist,     \* the trees of the branch; a commit is named by its position
    journal,  \* the latest checkpoint of each transaction
    flying,   \* pushes without an answer that the server may still execute
    faults,   \* pushes without an answer so far
    lost,     \* the transactions of those pushes
    landed    \* transactions one of whose pushes was executed after it had failed

vars == <<hist, journal, flying, faults, lost, landed>>

None == [state |-> "none"]
NoReceipt == {}  \* a receipt binds the index it is committed with
ProjectionFiles == {"index", "ledger", "receipt"}
Projections == 3  \* their number

Batches(t) == 1..Len(Parts[t])
Main == Len(hist)

\* PublicationCommitJournal::planned
Planned == [state |-> "planned", parent |-> 0, commit |-> 0, new |-> {}]

\* mark_committed, of a push onto the head
MarkCommitted(new) ==
    [state |-> "committed", parent |-> Main, commit |-> Main + 1, new |-> new]

\* mark_reused
MarkReused(revision) ==
    [state |-> "remote_verified", parent |-> revision, commit |-> revision, new |-> {}]

Init ==
    /\ hist = <<[files |-> {}, records |-> {}, index |-> {},
                 ledger |-> [bytes |-> 0, base |-> 0, counted |-> [t \in Txns |-> 0]],
                 receipt |-> [t \in Txns |-> NoReceipt]]>>
    /\ journal = [t \in Txns |->
          [state |-> "planned", expected |-> 1,
           batches |-> [i \in Batches(t) |->
                          [state |-> "planned", parent |-> 0, commit |-> 0, new |-> {}, record |-> None]],
           metadata |-> None, discoverability |-> None]]
    /\ flying = {} /\ faults = 0 /\ lost = {} /\ landed = {}

-----------------------------------------------------------------------------
\* The journal

Open(t) == journal[t].state \notin {"receipt_complete", "abandoned"}

\* The tree at the expected head.
Base(t) == hist[journal[t].expected]

Save(t, j) == journal' = [journal EXCEPT ![t] = j]

Remote == <<hist, flying, faults, lost, landed>>

\* The states of a batch in the order in which execute_next_payload_batch looks for them.
Rank(state) ==
    CASE state = "record_committed" -> 1 [] state = "payload_verified" -> 2
      [] state = "committed" -> 3 [] state = "planned" -> 4 [] OTHER -> 5

\* Batch i is the one the next call works on.
Current(t, i) ==
    LET rank(k) == Rank(journal[t].batches[k].state)
    IN  \A k \in Batches(t) : rank(i) < rank(k) \/ (rank(i) = rank(k) /\ i <= k)

InBatch(t, i, state) ==
    Open(t) /\ Current(t, i) /\ journal[t].batches[i].state = state

Uploaded(t) ==
    /\ Open(t)
    /\ \A i \in Batches(t) : journal[t].batches[i].state = "remote_verified"

\* build_payload_batch_record
RecordOf(t, i) ==
    LET b == journal[t].batches[i]
    IN  [txn |-> t, seq |-> i, parent |-> b.parent, commit |-> b.commit, new |-> b.new]

Recorded(t) == {i \in Batches(t) : journal[t].batches[i].record # None}

\* Payload first introduced by this transaction's commits, as far as it knows.
NewPayload(t) == UNION {journal[t].batches[i].new : i \in Batches(t)}

\* ... and the records and documents
NewMetadata(t) ==
    Cardinality({i \in Recorded(t) : journal[t].batches[i].record.new # {}})
      + Cardinality(journal[t].metadata.new)

\* revalidate_publication_capacity
Admitted(t, pending) ==
    LET j == journal[t]
    IN  Base(t).ledger.bytes + Cardinality(NewPayload(t)) + Cardinality(pending)
          + Cardinality(Recorded(t))
          + (IF j.metadata = None THEN 0 ELSE Cardinality(Documents[t]))
          + (IF j.discoverability = None THEN 0 ELSE Projections) <= Capacity

-----------------------------------------------------------------------------
\* compare_and_swap_commit

\* The push installs tree over the expected head.  It is answered, and the journal
\* continues as done, or as conflict once the branch has moved; or it fails and the
\* journal stays, whether it was executed, will be, or neither.
Swap(t, tree, done, conflict) ==
    LET moved == journal[t].expected # Main
    IN  \/ /\ ~moved
           /\ hist' = Append(hist, tree)
           /\ Save(t, done)
           /\ UNCHANGED <<flying, faults, lost, landed>>
        \/ moved /\ Save(t, conflict) /\ UNCHANGED Remote
        \/ /\ ~moved /\ faults < MaxFaults
           /\ faults' = faults + 1
           /\ lost' = lost \union {t}
           /\ \/ hist' = Append(hist, tree) /\ UNCHANGED flying
              \/ /\ flying' = flying \union {[txn |-> t, base |-> Main, tree |-> tree]}
                 /\ UNCHANGED hist
           /\ UNCHANGED <<journal, landed>>

\* The server executes a push whose sender has given up on it.
LateApply(p) ==
    /\ p \in flying
    /\ p.base = Main
    /\ hist' = Append(hist, p.tree)
    /\ flying' = flying \ {p}
    /\ landed' = landed \union {p.txn}
    /\ UNCHANGED <<journal, faults, lost>>

\* Mutant: a conflict on the record starts the batch again.
RefConflictRestarts(t) ==
    [journal[t] EXCEPT !.expected = Main, !.batches = [i \in Batches(t) |->
        IF @[i].state = "payload_verified"
        THEN [state |-> "planned", parent |-> 0, commit |-> 0, new |-> {}, record |-> None]
        ELSE @[i]]]

\* The new expected head after a conflict; the next call works from there.
\* record_ref_conflict
RefConflict(t) == [journal[t] EXCEPT !.expected = Main]

-----------------------------------------------------------------------------
\* Payload batches

\* TargetPublicationJournal::start
Start(t) ==
    \E i \in Batches(t) :
        /\ InBatch(t, i, "planned")
        /\ journal[t].state \in {"planned", "batch_verified"}
        /\ Save(t, [journal[t] EXCEPT !.state = "uploading"])
        /\ UNCHANGED Remote

\* Mutant: a batch whose first part is there is taken to be there.
MissingAllOrNone(t, i) ==
    IF Parts[t][i] \intersect Base(t).files = {} THEN Parts[t][i] ELSE {}

Missing(t, i) == Parts[t][i] \ Base(t).files

Uploading(t, i) == journal[t].state = "uploading" /\ InBatch(t, i, "planned")

\* mark_batch_reused
ReuseBatch(t) ==
    \E i \in Batches(t) :
        /\ Uploading(t, i)
        /\ Missing(t, i) = {}
        /\ Save(t, [journal[t] EXCEPT !.state = "batch_verified",
              !.batches[i] = [@ EXCEPT !.state = "remote_verified",
                    !.parent = journal[t].expected, !.commit = journal[t].expected]])
        /\ UNCHANGED Remote

\* Mutant: all parts of the batch count as new.
BatchCommittedAll(t, i, new) ==
    [journal[t] EXCEPT !.expected = Main + 1,
        !.batches[i] = [@ EXCEPT !.state = "committed", !.parent = Main,
                                 !.commit = Main + 1, !.new = Parts[t][i]]]

\* mark_batch_committed
BatchCommitted(t, i, new) ==
    [journal[t] EXCEPT !.expected = Main + 1,
        !.batches[i] = [@ EXCEPT !.state = "committed", !.parent = Main,
                                 !.commit = Main + 1, !.new = new]]

CommitBatch(t) ==
    \E i \in Batches(t) :
        /\ Uploading(t, i)
        /\ Missing(t, i) # {}
        /\ Admitted(t, Missing(t, i))
        /\ Swap(t, [Base(t) EXCEPT !.files = @ \union Missing(t, i)],
                BatchCommitted(t, i, Missing(t, i)), RefConflict(t))

\* stage_verified_payload_record, plan_verified_batch_record
StageRecord(t) ==
    \E i \in Batches(t) :
        /\ InBatch(t, i, "committed")
        /\ Parts[t][i] \subseteq hist[journal[t].batches[i].commit].files
        /\ Save(t, [journal[t] EXCEPT !.batches[i] =
              [@ EXCEPT !.state = "payload_verified", !.record = Planned]])
        /\ UNCHANGED Remote

\* The record's path at the expected head.
RecordsAt(t, i) == {r \in Base(t).records : r.txn = t /\ r.seq = i}

RecordDue(t, i) ==
    /\ InBatch(t, i, "payload_verified")
    /\ Parts[t][i] \subseteq Base(t).files

\* mark_batch_record_reused
ReuseRecord(t) ==
    \E i \in Batches(t) :
        /\ RecordDue(t, i)
        /\ RecordsAt(t, i) = {RecordOf(t, i)}
        /\ Save(t, [journal[t] EXCEPT !.state = "batch_verified",
              !.batches[i] = [@ EXCEPT !.state = "remote_verified",
                                       !.record = MarkReused(journal[t].expected)]])
        /\ UNCHANGED Remote

\* mark_batch_record_committed
RecordCommitted(t, i) ==
    [journal[t] EXCEPT !.expected = Main + 1,
        !.batches[i] = [@ EXCEPT !.state = "record_committed",
                                 !.record = MarkCommitted({RecordOf(t, i)})]]

CommitRecord(t) ==
    \E i \in Batches(t) :
        /\ RecordDue(t, i)
        /\ RecordsAt(t, i) = {}
        /\ Admitted(t, {})
        /\ Swap(t, [Base(t) EXCEPT !.records = @ \union {RecordOf(t, i)}],
                RecordCommitted(t, i), RefConflict(t))

\* mark_batch_record_verified
VerifyRecord(t) ==
    \E i \in Batches(t) :
        /\ InBatch(t, i, "record_committed")
        /\ RecordOf(t, i) \in hist[journal[t].batches[i].record.commit].records
        /\ Save(t, [journal[t] EXCEPT !.state = "batch_verified",
              !.batches[i] = [@ EXCEPT !.state = "remote_verified",
                                       !.record.state = "remote_verified"]])
        /\ UNCHANGED Remote

-----------------------------------------------------------------------------
\* Immutable metadata

\* stage_immutable_publication_metadata, plan_metadata_commit
StageMetadata(t) ==
    /\ Uploaded(t)
    /\ journal[t].state = "batch_verified"
    /\ journal[t].metadata = None
    /\ Save(t, [journal[t] EXCEPT !.metadata = Planned])
    /\ UNCHANGED Remote

InMetadata(t, state) == Uploaded(t) /\ journal[t].metadata.state = state

\* Mutant: own documents are looked for only if the branch has moved.
ReuseMetadataIfMoved(t) ==
    /\ InMetadata(t, "planned")
    /\ journal[t].expected # Main
    /\ Documents[t] \subseteq hist[Main].files
    /\ Save(t, [journal[t] EXCEPT !.state = "remote_verified", !.expected = Main,
                                  !.metadata = MarkReused(Main)])
    /\ UNCHANGED Remote

\* mark_metadata_reused
ReuseMetadata(t) ==
    /\ InMetadata(t, "planned")
    /\ Documents[t] \subseteq hist[Main].files
    /\ Save(t, [journal[t] EXCEPT !.state = "remote_verified", !.expected = Main,
                                  !.metadata = MarkReused(Main)])
    /\ UNCHANGED Remote

\* The branch has moved and the documents are not all there.
RebaseMetadata(t) ==
    /\ InMetadata(t, "planned")
    /\ journal[t].expected # Main
    /\ ~ Documents[t] \subseteq hist[Main].files
    /\ Save(t, RefConflict(t))
    /\ UNCHANGED Remote

MetadataCommitted(t, new) ==
    [journal[t] EXCEPT !.expected = Main + 1,
                       !.metadata = MarkCommitted(new)]

\* read_ref returned the expected head; the branch may move before the push.
CommitMetadata(t) ==
    LET missing == Documents[t] \ Base(t).files
    IN  /\ InMetadata(t, "planned")
        /\ missing # {}
        /\ Admitted(t, {})
        /\ Swap(t, [Base(t) EXCEPT !.files = @ \union missing],
                MetadataCommitted(t, missing), RefConflict(t))

\* mark_metadata_verified
VerifyMetadata(t) ==
    /\ InMetadata(t, "committed")
    /\ Documents[t] \subseteq hist[journal[t].metadata.commit].files
    /\ Save(t, [journal[t] EXCEPT !.state = "remote_verified",
                                  !.metadata.state = "remote_verified"])
    /\ UNCHANGED Remote

-----------------------------------------------------------------------------
\* Index, ledger and receipt

\* Each commit id once, unless other ids come between two occurrences.
Compact(ids) ==
    LET Changes == {k \in DOMAIN ids : k = 1 \/ ids[k] # ids[k - 1]}
        nth[k \in 1..Cardinality(Changes)] ==
            CHOOSE c \in Changes : Cardinality({d \in Changes : d <= c}) = k
    IN  [k \in 1..Cardinality(Changes) |-> ids[nth[k]]]

PayloadCommits(t) == Compact([i \in Batches(t) |-> journal[t].batches[i].commit])

Distinct(ids) == \A k, m \in DOMAIN ids : ids[k] = ids[m] => k = m

HasNew(batch) == batch.new # {}

RecordCommitIds(t) ==
    LET batches == SelectSeq(journal[t].batches, HasNew)
    IN  Compact([k \in DOMAIN batches |-> batches[k].record.commit])

\* PublicationReceipt::from_verified_metadata, validate
ReceiptValid(t) ==
    /\ Distinct(PayloadCommits(t))
    /\ \A i \in Batches(t) :
          journal[t].batches[i].new # {} =>
              /\ journal[t].batches[i].record # None
              /\ journal[t].batches[i].record.state = "remote_verified"
    /\ Distinct(RecordCommitIds(t))

\* build_updated_ledger
UpdatedLedger(t) ==
    [bytes |-> Base(t).ledger.bytes + Cardinality(NewPayload(t)) + NewMetadata(t) + Projections,
     base |-> journal[t].expected,
     counted |-> [Base(t).ledger.counted EXCEPT ![t] = @ + 1]]

\* stage_publication_discoverability, plan_discoverability_commit
StageDiscoverability(t) ==
    /\ InMetadata(t, "remote_verified")
    /\ journal[t].state = "remote_verified"
    /\ journal[t].discoverability = None
    /\ ReceiptValid(t)
    /\ UpdatedLedger(t).bytes <= Capacity
    /\ Save(t, [journal[t] EXCEPT !.discoverability =
          [state |-> "planned", parent |-> 0, commit |-> 0, new |-> {},
           index |-> Base(t).index \union {t}, ledger |-> UpdatedLedger(t)]])
    /\ UNCHANGED Remote

InDiscoverability(t, state) ==
    InMetadata(t, "remote_verified") /\ journal[t].discoverability.state = state

\* The planned files over a tree.
Discoverable(t, tree) ==
    LET d == journal[t].discoverability
    IN  [tree EXCEPT !.index = d.index, !.ledger = d.ledger, !.receipt[t] = d.index]

\* files_match
FilesMatch(t, commit) == Discoverable(t, hist[commit]) = hist[commit]

\* Mutant: mark_receipt_reused without complete_receipt.
ReuseReceiptOpen(t) ==
    /\ InDiscoverability(t, "planned")
    /\ FilesMatch(t, Main)
    /\ Save(t, [journal[t] EXCEPT !.expected = Main,
          !.discoverability = [@ EXCEPT !.state = "remote_verified", !.parent = Main,
                                        !.commit = Main]])
    /\ UNCHANGED Remote

\* mark_receipt_reused, complete_receipt
ReuseReceipt(t) ==
    /\ InDiscoverability(t, "planned")
    /\ FilesMatch(t, Main)
    /\ Save(t, [journal[t] EXCEPT !.state = "receipt_complete", !.expected = Main,
          !.discoverability = [@ EXCEPT !.state = "remote_verified", !.parent = Main,
                                        !.commit = Main]])
    /\ UNCHANGED Remote

\* Mutant: the planned projections are pushed onto the new head.
DiscardedHead(t) == [journal[t] EXCEPT !.expected = Main]

\* discard_planned_discoverability_after_conflict
Discarded(t) == [journal[t] EXCEPT !.expected = Main, !.discoverability = None]

DiscardDiscoverability(t) ==
    /\ InDiscoverability(t, "planned")
    /\ journal[t].expected # Main
    /\ ~ FilesMatch(t, Main)
    /\ Save(t, Discarded(t))
    /\ UNCHANGED Remote

\* Mutant: no checkpoint between the commit and its verification.
DiscoverabilityCommittedUnsaved(t) == journal[t]

DiscoverabilityCommitted(t) ==
    [journal[t] EXCEPT !.expected = Main + 1,
        !.discoverability = [@ EXCEPT !.state = "committed", !.parent = Main,
                                      !.commit = Main + 1, !.new = ProjectionFiles]]

\* read_ref returned the expected head; the branch may move before the push.  An own push
\* that was executed over that head before it failed would have been read.
CommitDiscoverability(t) ==
    /\ InDiscoverability(t, "planned")
    /\ ~ FilesMatch(t, journal[t].expected)
    /\ journal[t].expected # Main /\ t \notin landed => ~ FilesMatch(t, journal[t].expected + 1)
    /\ Admitted(t, {})
    /\ Swap(t, Discoverable(t, Base(t)), DiscoverabilityCommitted(t), Discarded(t))

\* mark_receipt_verified, complete_receipt
VerifyReceipt(t) ==
    /\ InDiscoverability(t, "committed")
    /\ FilesMatch(t, journal[t].discoverability.commit)
    /\ Save(t, [journal[t] EXCEPT !.state = "receipt_complete",
                                  !.discoverability.state = "remote_verified"])
    /\ UNCHANGED Remote

-----------------------------------------------------------------------------

\* Mutant: the branch is not searched for the receipt.
AbandonUnchecked(t) ==
    /\ t \in Unwanted
    /\ Open(t)
    /\ Save(t, [journal[t] EXCEPT !.state = "abandoned"])
    /\ UNCHANGED Remote

\* abandon_publication_target
Abandon(t) ==
    /\ t \in Unwanted
    /\ Open(t)
    /\ hist[Main].receipt[t] = NoReceipt
    /\ Save(t, [journal[t] EXCEPT !.state = "abandoned"])
    /\ UNCHANGED Remote

\* advance_publication_target
Advance(t) ==
    \/ Start(t) \/ ReuseBatch(t) \/ CommitBatch(t)
    \/ StageRecord(t) \/ ReuseRecord(t) \/ CommitRecord(t) \/ VerifyRecord(t)
    \/ StageMetadata(t) \/ ReuseMetadata(t) \/ RebaseMetadata(t)
    \/ CommitMetadata(t) \/ VerifyMetadata(t)
    \/ StageDiscoverability(t) \/ ReuseReceipt(t) \/ DiscardDiscoverability(t)
    \/ CommitDiscoverability(t) \/ VerifyReceipt(t)

Next ==
    \/ \E t \in Txns : Advance(t) \/ Abandon(t)
    \/ \E p \in flying : LateApply(p)

Spec == Init /\ [][Next]_vars

\* Whoever runs or resumes a transaction keeps advancing it.
FairSpec == Spec /\ \A t \in Txns : WF_vars(Advance(t))

-----------------------------------------------------------------------------
\* Properties

Tree == hist[Main]
PartsOf(t) == UNION {Parts[t][i] : i \in Batches(t)}
Complete(t) == journal[t].state = "receipt_complete"

Commits == 0..Main
CommitStates == {"planned", "committed", "remote_verified"}

\* PublicationCommitJournal::validate of a commit of the given files: a planned one has no
\* identity and no new objects, any other has both identities.
CommitValid(c, files) ==
    /\ c.state \in CommitStates
    /\ c.parent \in Commits /\ c.commit \in Commits
    /\ IF c.state = "planned" THEN c.parent = 0 /\ c.commit = 0 /\ c.new = {}
                              ELSE c.parent # 0 /\ c.commit # 0
    /\ c.new \subseteq files

\* PublicationBatchJournal::validate: the same of the payload commit, and the states of a
\* batch and of its record agree.
BatchValid(t, i) ==
    LET b == journal[t].batches[i]
    IN  /\ b.parent \in Commits /\ b.commit \in Commits
        /\ IF b.state = "planned" THEN b.parent = 0 /\ b.commit = 0 /\ b.new = {}
                                  ELSE b.parent # 0 /\ b.commit # 0
        /\ b.new \subseteq Parts[t][i]
        /\ b.record # None => CommitValid(b.record, {RecordOf(t, i)})
        /\ \/ b.state \in {"planned", "committed"} /\ b.record = None
           \/ /\ b.record # None
              /\ <<b.state, b.record.state>> \in {<<"payload_verified", "planned">>,
                                                  <<"record_committed", "committed">>,
                                                  <<"remote_verified", "remote_verified">>}
           \/ b.state = "remote_verified" /\ b.record = None

\* Every checkpoint satisfies PublicationTransactionJournal::validate: the batches and
\* commits it names are valid, with identities on the branch; discoverability follows
\* verified metadata, and its verification and receipt completion come together.
CheckpointsValid ==
    \A t \in Txns : LET j == journal[t] IN
        /\ j.state \in {"planned", "uploading", "batch_verified", "remote_verified",
                        "receipt_complete", "abandoned"}
        /\ j.expected \in 1..Main
        /\ \A i \in Batches(t) : BatchValid(t, i)
        /\ j.metadata # None => CommitValid(j.metadata, Documents[t])
        /\ j.discoverability # None =>
              /\ CommitValid(j.discoverability, ProjectionFiles)
              /\ j.metadata # None /\ j.metadata.state = "remote_verified"
              /\ (j.discoverability.state = "remote_verified") <=> Complete(t)
        /\ Complete(t) => j.discoverability # None

\* A reader who finds an artifact in the index finds its receipt, its documents and all
\* of its parts, whatever other transactions did and wherever this one was interrupted.
DiscoverableIsWhole ==
    \A t \in Tree.index :
        /\ PartsOf(t) \union Documents[t] \subseteq Tree.files
        /\ Tree.receipt[t] # NoReceipt

\* What a receipt-complete journal claims remains on the branch: no later projection of
\* another transaction drops the index entry, the receipt or the ledger's addition.
CompletionLasts ==
    \A t \in Txns : Complete(t) =>
        /\ t \in Tree.index
        /\ Tree.receipt[t] = journal[t].discoverability.index
        /\ Tree.ledger.counted[t] >= 1

\* A batch record on the branch names the commit that introduced its new parts, and a
\* record path never has two contents (the DigestMismatch errors are unreachable).
RecordsTellTruth ==
    \A r \in Tree.records :
        /\ r.parent + 1 = r.commit
        /\ r.new = hist[r.commit].files \ hist[r.parent].files
        /\ \A q \in Tree.records : q.txn = r.txn /\ q.seq = r.seq => q = r

\* Every part on the branch is named as new by a record or in a journal, except after an
\* unanswered push of a transaction that has this part.
PayloadClaimed ==
    \A f \in Tree.files \ UNION {Documents[t] : t \in Txns} :
        \/ \E r \in Tree.records : f \in r.new
        \/ \E t \in Txns : f \in NewPayload(t)
        \/ \E t \in lost : f \in PartsOf(t)

\* The ledger counts no transaction twice, unless one of its own pushes had no answer.
LedgerCountsOnce ==
    \A t \in Txns \ lost : Tree.ledger.counted[t] <= 1

\* docs/CACHE_SCHEMA.md: transaction ids and batch digests make retry idempotent.  The ledger
\* then counts a transaction once also when the answer to its last push was lost and another
\* transaction published before the retry.  (Not claimed of a push that the server executes
\* after the sender has given up on it.)
RetryCountsOnce ==
    \A t \in Txns \ landed : Tree.ledger.counted[t] <= 1

\* A transaction whose receipt is on the branch is not recorded as abandoned, even if the
\* answer to the push was lost; only a push executed after it had failed can do that.
NoMisleadingAbandon ==
    \A t \in Txns \ landed :
        journal[t].state = "abandoned" => Tree.receipt[t] = NoReceipt

\* What the branch holds: the ledger's measure of the immutable files and projections.
Reachable == Cardinality(Tree.files) + Cardinality(Tree.records)
                 + Projections * Cardinality(Tree.index)

\* docs/CACHE_SCHEMA.md: concurrent publishers cannot both consume the same reserve.
ReserveNotShared == Reachable <= Capacity

\* The capacity check of the next step, or that of the ledger to be staged, fails.
NoRoom(t) ==
    \/ ~ Admitted(t, {})
    \/ \E i \in Batches(t) : Uploading(t, i) /\ ~ Admitted(t, Missing(t, i))
    \/ InMetadata(t, "remote_verified") /\ UpdatedLedger(t).bytes > Capacity

\* A transaction that is resumed as often as it takes ends complete or abandoned, or the
\* ledger has no room for it: no interruption leaves a checkpoint without a next step.
EventuallySettled ==
    \A t \in Txns : <>[](~ Open(t) \/ NoRoom(t))
=============================================================================
