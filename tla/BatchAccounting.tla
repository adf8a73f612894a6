-------------------------- MODULE BatchAccounting --------------------------
(***************************************************************************)
(* The batch loop of the family publisher (managed_publication.rs): the    *)
(* staged files are planned into batches (BatchPlan), and for every batch  *)
(* the files that the head lacks are committed with a capacity ledger that *)
(* counts them and itself (LedgerSize).                                    *)
(*                                                                         *)
(* The program reads ledger and head before it plans; the plan looks at    *)
(* neither, so here they are read when it is done.                         *)
(***************************************************************************)
EXTENDS LedgerSize, Sequences, SequencesExt, FiniteSetsExt, Sums, Selections

CONSTANTS
    ObjectPaths,  \* the paths under objects/
    Heads,        \* ledger totals and files (path to digest) a head may have
    NoFile,       \* the digest of a path that is not there
    LedgerPath,   \* DEFAULT_CAPACITY_LEDGER_PATH
    Paths, Digests, Limit, MaxFile, MaxSize, MaxParts  \* as in BatchPlan

ASSUME AccountingAssumption ==
    /\ \A h \in Heads : h.totals \in Totals /\ h.files \in [Paths -> Digests \cup {NoFile}]
    /\ ObjectPaths \subseteq Paths /\ NoFile \notin Digests /\ LedgerPath \notin Paths
    /\ Limit \in Nat \ {0} /\ MaxFile \in Nat /\ MaxSize \in Nat /\ MaxParts \in Nat \ {0}

VARIABLES
    parts, next, current, batches, planned,  \* the plan
    begun,  \* the head the publication began at
    files,  \* the files of the current head
    done,   \* batches that are done
    sent    \* the parts committed, in order, ledgers included

planVars == <<parts, next, current, batches, planned>>
loopVars == <<begun, files, done, sent>>

Plan == INSTANCE BatchPlan WITH status <- planned

NoTotals == [payload |-> 0, metadata |-> 0]

BeginPlan ==
    /\ Plan!Init
    /\ old = NoTotals /\ added = NoTotals /\ size = 0 /\ tries = 0 /\ new = NoTotals
    /\ status = "plan"
    /\ files = [p \in Paths |-> NoFile] /\ begun = [totals |-> NoTotals, files |-> files]
    /\ done = 0 /\ sent = <<>>

PlanStep == Plan!Next /\ UNCHANGED <<vars, loopVars>>

Open ==
    /\ status = "plan" /\ planned = "ok"
    /\ begun' \in Heads
    /\ new' = begun'.totals /\ files' = begun'.files
    /\ status' = "open"
    /\ UNCHANGED <<planVars, old, added, size, tries, done, sent>>

\* Mutant: files that are already there are committed again.
CommitPartsAll(batch) == batch

\* select_publication_commit_parts
CommitParts(batch) ==
    Selected(batch, {i \in DOMAIN batch : files[batch[i].path] # batch[i].digest})

\* An object with other content is at the path of one of these.
ObjectConflict(batch) ==
    \E i \in DOMAIN batch : /\ batch[i].path \in ObjectPaths
                            /\ files[batch[i].path] \notin {NoFile, batch[i].digest}

BytesOf(seq, payload) ==
    Plan!Bytes(Selected(seq, {i \in DOMAIN seq : (seq[i].path \in ObjectPaths) = payload}))

MayBegin == status \in {"open", "ok"} /\ done < Len(batches)

\* The batch has nothing new.
PassOver ==
    /\ MayBegin
    /\ ~ObjectConflict(batches[done + 1]) /\ CommitParts(batches[done + 1]) = <<>>
    /\ done' = done + 1
    /\ UNCHANGED <<vars, planVars, begun, files, sent>>

Refuse ==
    /\ MayBegin
    /\ ObjectConflict(batches[done + 1])
    /\ status' = "refused"
    /\ UNCHANGED <<planVars, loopVars, old, added, size, tries, new>>

\* advance_capacity_ledger_for_repository_batch begins with the ledger of the batch before.
BeginBatch ==
    /\ MayBegin
    /\ LET chosen == CommitParts(batches[done + 1])
       IN  /\ ~ObjectConflict(batches[done + 1]) /\ chosen # <<>>
           /\ added' = [payload |-> BytesOf(chosen, TRUE), metadata |-> BytesOf(chosen, FALSE)]
           /\ old' = new /\ size' = 0 /\ tries' = 0 /\ status' = "run"
    /\ UNCHANGED <<planVars, loopVars, new>>

\* The loop of LedgerSize; an admitted batch is committed with its ledger.
CountBatch ==
    /\ Next
    /\ IF status' = "ok"
       THEN LET chosen == CommitParts(batches[done + 1])
            IN  /\ files' = [p \in Paths |->
                       IF \E i \in DOMAIN chosen : chosen[i].path = p
                       THEN chosen[CHOOSE i \in DOMAIN chosen : chosen[i].path = p].digest
                       ELSE files[p]]
                /\ sent' = Append(sent \o chosen, [path |-> LedgerPath, size |-> size])
                /\ done' = done + 1
                /\ UNCHANGED begun
       ELSE UNCHANGED loopVars
    /\ UNCHANGED planVars

NextStep == PlanStep \/ Open \/ PassOver \/ Refuse \/ BeginBatch \/ CountBatch

AccountingSpec == BeginPlan /\ [][NextStep]_<<vars, planVars, loopVars>>

-----------------------------------------------------------------------------
\* Properties

\* What the caller put last (records, after indexes, after objects) is committed last:
\* the plan is the input in its order, cut, with nothing lost, repeated or moved.
PlanKeepsOrder == Plan!PlanKeepsOrder

\* The plan respects the limit of one push, in as few commits as possible.
PlanIsShortest == Plan!PlanIsShortest

\* "Every individual commit receives its own ledger snapshot": when the publication is
\* complete it has pushed the planned files that the head lacked, in order and once, and
\* the ledger has grown by their bytes and those of all ledgers pushed on the way.
AccountsWholePlan ==
    status \in {"open", "ok"} /\ done = Len(batches) =>
        /\ Selected(sent, {i \in DOMAIN sent : sent[i].path # LedgerPath})
             = Selected(Plan!Distinct, {i \in DOMAIN Plan!Distinct :
                   begun.files[Plan!Distinct[i].path] # Plan!Distinct[i].digest})
        /\ new = [payload |-> begun.totals.payload + BytesOf(sent, TRUE),
                  metadata |-> begun.totals.metadata + BytesOf(sent, FALSE)]
=============================================================================
