---------------------------- MODULE JournalProofs ----------------------------
(***************************************************************************)
(* Safety of Journal for every set of transactions, every plan of batches  *)
(* and documents and every number of faults.                               *)
(*                                                                         *)
(* The invariant is stated of a history H and a journal j given as         *)
(* arguments, so that what a step does to either is a fact about data.     *)
(***************************************************************************)
EXTENDS Journal, SequenceTheorems, FiniteSetTheorems, TLAPS

-----------------------------------------------------------------------------
\* Types

Records == [txn : Txns, seq : Nat, parent : Nat, commit : Nat, new : SUBSET Files]
Ledgers == [bytes : Nat, base : Nat, counted : [Txns -> Nat]]
Trees == [files : SUBSET Files, records : SUBSET Records, index : SUBSET Txns,
          ledger : Ledgers, receipt : [Txns -> SUBSET Txns]]

BatchStates == {"planned", "committed", "payload_verified", "record_committed",
                "remote_verified"}
TargetStates == {"planned", "uploading", "batch_verified", "remote_verified",
                 "receipt_complete", "abandoned"}

RecordCommits == [state : CommitStates, parent : Nat, commit : Nat, new : SUBSET Records]
BatchCommits == [state : BatchStates, parent : Nat, commit : Nat, new : SUBSET Files,
                 record : RecordCommits \cup {None}]
MetadataCommits == [state : CommitStates, parent : Nat, commit : Nat, new : SUBSET Files]
FinalCommits == [state : CommitStates, parent : Nat, commit : Nat, new : SUBSET ProjectionFiles,
                 index : SUBSET Txns, ledger : Ledgers]

Journals(t) == [state : TargetStates, expected : Nat, batches : [Batches(t) -> BatchCommits],
                metadata : MetadataCommits \cup {None},
                discoverability : FinalCommits \cup {None}]

-----------------------------------------------------------------------------
\* A tree and the history it stands in

\* DiscoverableIsWhole of a tree.
Whole(tree) ==
    \A t \in tree.index :
        PartsOf(t) \cup Documents[t] \subseteq tree.files /\ tree.receipt[t] # NoReceipt

\* RecordsTellTruth of a tree.
Truthful(H, tree) ==
    \A r \in tree.records :
        /\ r.parent \in 1..Len(H) /\ r.commit \in 1..Len(H) /\ r.parent + 1 = r.commit
        /\ r.new = H[r.commit].files \ H[r.parent].files
        /\ \A q \in tree.records : q.txn = r.txn /\ q.seq = r.seq => q = r

\* What transaction u may make of the tree at commit k.
Follows(H, k, u, tree) ==
    /\ tree \in Trees
    /\ H[k].files \subseteq tree.files
    /\ tree.files \subseteq H[k].files \cup PartsOf(u) \cup Documents[u]
    /\ H[k].records \subseteq tree.records /\ H[k].index \subseteq tree.index
    /\ \A t \in Txns \ {u} : /\ tree.receipt[t] = H[k].receipt[t]
                             /\ tree.ledger.counted[t] = H[k].ledger.counted[t]
    /\ H[k].ledger.counted[u] <= tree.ledger.counted[u]
    /\ tree.ledger.base <= k
    /\ Whole(tree) /\ Truthful(H, tree)

HistoryOK(H) ==
    /\ H \in Seq(Trees) /\ Len(H) >= 1
    /\ \A k \in 1..Len(H) : Whole(H[k]) /\ Truthful(H, H[k]) /\ H[k].ledger.base < k
    /\ \A k, m \in 1..Len(H) : k <= m =>
          /\ H[k].files \subseteq H[m].files /\ H[k].index \subseteq H[m].index
          /\ \A t \in Txns : H[k].ledger.counted[t] <= H[m].ledger.counted[t]

-----------------------------------------------------------------------------
\* A journal and the history it refers to

\* A planned commit has no identity and no new objects; any other is behind the head.
Identified(c, head) ==
    /\ c.state = "planned" => c.parent = 0 /\ c.commit = 0 /\ c.new = {}
    /\ c.state # "planned" => c.parent \in 1..head /\ c.commit \in 1..head

\* RecordOf, of a batch given as argument.
RecordFrom(t, i, b) ==
    [txn |-> t, seq |-> i, parent |-> b.parent, commit |-> b.commit, new |-> b.new]

\* The record's commit and its agreement with the state of its batch.
RecordOK(t, i, b, head) ==
    /\ b.record # None => Identified(b.record, head) /\ b.record.new \subseteq {RecordFrom(t, i, b)}
    /\ b.state \in {"planned", "committed"} => b.record = None
    /\ b.state = "payload_verified" => b.record # None /\ b.record.state = "planned"
    /\ b.state = "record_committed" => b.record # None /\ b.record.state = "committed"
    /\ b.state = "remote_verified" => b.record = None \/ b.record.state = "remote_verified"

\* A batch that is not planned any more is contained in the commit it names, and the
\* record to be made of it tells what that commit introduced.
BatchOK(t, i, b, head, H) ==
    /\ Identified(b, head) /\ b.new \subseteq Parts[t][i]
    /\ b.state # "planned" => Parts[t][i] \subseteq H[b.commit].files
    /\ b.state \in {"committed", "payload_verified"} =>
          /\ b.parent + 1 = b.commit
          /\ b.new = H[b.commit].files \ H[b.parent].files
    /\ RecordOK(t, i, b, head)

MetadataOK(t, m, head, H) ==
    m # None =>
        /\ Identified(m, head) /\ m.new \subseteq Documents[t]
        /\ m.state # "planned" => Documents[t] \subseteq H[m.commit].files

Committed(j) ==
    j.discoverability # None /\ j.discoverability.state \in {"committed", "remote_verified"}

\* Planned projections are those of the expected head with this transaction added.
ProjectionsOK(t, j, H) ==
    LET d == j.discoverability
        base == H[j.expected]
    IN  /\ d # None =>
              /\ Identified(d, j.expected) /\ d.new \subseteq ProjectionFiles
              /\ j.metadata # None /\ j.metadata.state = "remote_verified"
              /\ \A i \in Batches(t) : j.batches[i].state = "remote_verified"
              /\ d.state = "remote_verified" <=> j.state = "receipt_complete"
        /\ d # None /\ d.state = "planned" =>
              /\ d.index = base.index \cup {t}
              /\ d.ledger.base = j.expected
              /\ d.ledger.counted = [base.ledger.counted EXCEPT ![t] = @ + 1]
        /\ Committed(j) => d.commit \in 1..j.expected
        /\ j.state = "receipt_complete" => d # None

JournalOK(t, j, H) ==
    /\ j \in Journals(t)
    /\ j.expected \in 1..Len(H)
    /\ \A i \in Batches(t) : BatchOK(t, i, j.batches[i], j.expected, H)
    /\ MetadataOK(t, j.metadata, j.expected, H)
    /\ ProjectionsOK(t, j, H)

\* What a transaction has committed as its last step stays on the branch.
Lasts(t, j, H) ==
    Committed(j) =>
        \A k \in j.discoverability.commit..Len(H) :
            /\ t \in H[k].index
            /\ H[k].receipt[t] = j.discoverability.index
            /\ H[k].ledger.counted[t] >= 1

\* A push without answer builds on a head its sender knew, and on none that has the
\* sender's last commit.
FlyingOK(p) ==
    /\ p.txn \in lost
    /\ p.base \in 1..journal[p.txn].expected
    /\ Follows(hist, p.base, p.txn, p.tree)
    /\ Committed(journal[p.txn]) => p.base < journal[p.txn].discoverability.commit

\* Without lost answers a transaction is counted when it commits its last step.
CountedByOwn(t) ==
    t \notin lost =>
        /\ ~Committed(journal[t]) => Tree.ledger.counted[t] = 0
        /\ Tree.ledger.counted[t] <= 1

\* The inductive invariant.
JournalInv ==
    /\ HistoryOK(hist)
    /\ journal = [t \in Txns |-> journal[t]]
    /\ lost \subseteq Txns /\ landed \subseteq Txns /\ faults \in Nat
    /\ flying \subseteq [txn : Txns, base : Nat, tree : Trees]
    /\ \A t \in Txns : JournalOK(t, journal[t], hist) /\ Lasts(t, journal[t], hist)
    /\ \A p \in flying : FlyingOK(p)
    /\ \A t \in Txns : CountedByOwn(t)
    /\ PayloadClaimed /\ NoMisleadingAbandon

-----------------------------------------------------------------------------
\* Growing histories

Prefix(H, G) == Len(H) <= Len(G) /\ \A k \in 1..Len(H) : G[k] = H[k]

\* A commit leaves the earlier ones where they are.
LEMMA AppendPrefix ==
    ASSUME NEW H \in Seq(Trees), NEW tree \in Trees
    PROVE  /\ Append(H, tree) \in Seq(Trees)
           /\ Len(Append(H, tree)) = Len(H) + 1 /\ Len(H) \in Nat
           /\ Append(H, tree)[Len(H) + 1] = tree
           /\ \A k \in 1..Len(H) : Append(H, tree)[k] = H[k]
           /\ Prefix(H, Append(H, tree))
<1> HIDE DEF Trees
<1>1. /\ Append(H, tree) \in Seq(Trees)
      /\ Len(Append(H, tree)) = Len(H) + 1 /\ Len(H) \in Nat
      /\ Append(H, tree)[Len(H) + 1] = tree
      /\ \A k \in 1..Len(H) : Append(H, tree)[k] = H[k]
  BY AppendProperties, LenProperties
<1> QED BY <1>1 DEF Prefix

\* Records stay truthful as the history grows.
LEMMA TruthfulGrows ==
    ASSUME NEW H \in Seq(Trees), NEW G \in Seq(Trees), Prefix(H, G), NEW tree \in Trees,
           Truthful(H, tree)
    PROVE  Truthful(G, tree)
<1>1. Len(H) \in Nat /\ Len(G) \in Nat
  BY LenProperties
<1> HIDE DEF Trees
<1>2. ASSUME NEW r \in tree.records
      PROVE  /\ r.parent \in 1..Len(G) /\ r.commit \in 1..Len(G) /\ r.parent + 1 = r.commit
             /\ r.new = G[r.commit].files \ G[r.parent].files
  <2>1. r.parent \in 1..Len(H) /\ r.commit \in 1..Len(H) /\ r.parent + 1 = r.commit
        /\ r.new = H[r.commit].files \ H[r.parent].files
    BY DEF Truthful
  <2>2. G[r.commit] = H[r.commit] /\ G[r.parent] = H[r.parent]
    BY <2>1 DEF Prefix
  <2> QED BY <1>1, <2>1, <2>2 DEF Prefix
<1> QED BY <1>2 DEF Truthful

\* So does what may follow a commit.
LEMMA FollowsGrows ==
    ASSUME NEW H \in Seq(Trees), NEW G \in Seq(Trees), Prefix(H, G),
           NEW k \in 1..Len(H), NEW u \in Txns, NEW tree, Follows(H, k, u, tree)
    PROVE  Follows(G, k, u, tree)
<1>1. Truthful(G, tree)
  BY TruthfulGrows DEF Follows
<1>2. G[k] = H[k]
  BY DEF Prefix
<1> QED BY <1>1, <1>2 DEF Follows

\* A tree that follows the head continues the history.
LEMMA HistoryGrows ==
    ASSUME NEW H, HistoryOK(H), NEW u \in Txns, NEW tree, Follows(H, Len(H), u, tree)
    PROVE  HistoryOK(Append(H, tree))
<1> DEFINE G == Append(H, tree)
           n == Len(H)
<1>1. H \in Seq(Trees) /\ tree \in Trees /\ n \in Nat /\ n >= 1
  BY LenProperties DEF HistoryOK, Follows
<1>2. /\ G \in Seq(Trees) /\ Len(G) = n + 1 /\ G[n + 1] = tree
      /\ \A k \in 1..n : G[k] = H[k]
      /\ Prefix(H, G)
  BY <1>1, AppendPrefix
<1> HIDE DEF G
<1>3. ASSUME NEW k \in 1..(n + 1)
      PROVE  Whole(G[k]) /\ Truthful(G, G[k]) /\ G[k].ledger.base < k
  <2>1. CASE k \in 1..n
    <3>1. G[k] = H[k] /\ H[k] \in Trees
      BY <1>1, <1>2, <2>1, ElementOfSeq
    <3>2. Whole(H[k]) /\ Truthful(H, H[k]) /\ H[k].ledger.base < k
      BY <2>1 DEF HistoryOK
    <3> QED BY <1>1, <1>2, <3>1, <3>2, TruthfulGrows
  <2>2. CASE k = n + 1
    <3>1. Whole(tree) /\ Truthful(H, tree) /\ tree.ledger.base <= n /\ tree.ledger.base \in Nat
      BY <1>1 DEF Follows, Trees, Ledgers
    <3>2. Truthful(G, tree)
      BY <1>1, <1>2, <3>1, TruthfulGrows
    <3> QED BY <1>1, <1>2, <2>2, <3>1, <3>2
  <2> QED BY <1>1, <2>1, <2>2
<1>4. /\ H[n].files \subseteq tree.files /\ H[n].index \subseteq tree.index
      /\ \A t \in Txns : H[n].ledger.counted[t] <= tree.ledger.counted[t]
  <2>1. H[n] \in Trees
    BY <1>1, ElementOfSeq
  <2>2. \A t \in Txns : H[n].ledger.counted[t] \in Nat
    BY <2>1 DEF Trees, Ledgers
  <2>3. \A t \in Txns : H[n].ledger.counted[t] <= tree.ledger.counted[t]
    BY <2>2 DEF Follows
  <2> QED BY <2>3 DEF Follows
<1>5. ASSUME NEW k \in 1..(n + 1), NEW m \in 1..(n + 1), k <= m
      PROVE  /\ G[k].files \subseteq G[m].files /\ G[k].index \subseteq G[m].index
             /\ \A t \in Txns : G[k].ledger.counted[t] <= G[m].ledger.counted[t]
  <2>0. \A a \in 1..n : \A t \in Txns : H[a].ledger.counted[t] \in Nat
    <3>1. \A a \in 1..n : H[a] \in Trees
      BY <1>1, ElementOfSeq
    <3> QED BY <3>1 DEF Trees, Ledgers
  <2>1. CASE m \in 1..n
    <3>1. k \in 1..n /\ G[k] = H[k] /\ G[m] = H[m]
      BY <1>1, <1>2, <1>5, <2>1
    <3> QED BY <1>5, <2>1, <3>1 DEF HistoryOK
  <2>2. CASE m = n + 1 /\ k \in 1..n
    <3>1. G[k] = H[k] /\ G[m] = tree /\ n \in 1..n /\ k <= n
      BY <1>1, <1>2, <2>2
    <3>2. /\ H[k].files \subseteq H[n].files /\ H[k].index \subseteq H[n].index
          /\ \A t \in Txns : H[k].ledger.counted[t] <= H[n].ledger.counted[t]
      BY <2>2, <3>1 DEF HistoryOK
    <3>3. \A t \in Txns : tree.ledger.counted[t] \in Nat
      BY <1>1 DEF Trees, Ledgers
    <3>4. \A t \in Txns : H[k].ledger.counted[t] <= tree.ledger.counted[t]
      BY <1>4, <2>0, <2>2, <3>1, <3>2, <3>3
    <3> QED BY <1>4, <3>1, <3>2, <3>4
  <2>3. CASE k = n + 1 /\ m = n + 1
    <3>1. G[k] = tree /\ G[m] = tree
      BY <1>2, <2>3
    <3>2. \A t \in Txns : tree.ledger.counted[t] \in Nat
      BY <1>1 DEF Trees, Ledgers
    <3> QED BY <3>1, <3>2
  <2> QED BY <1>1, <1>5, <2>1, <2>2, <2>3
<1> QED BY <1>1, <1>2, <1>3, <1>5 DEF HistoryOK, G

\* A batch and the metadata keep their commits when the head advances.
LEMMA CommitsGrow ==
    ASSUME NEW H \in Seq(Trees), NEW G \in Seq(Trees), Prefix(H, G), NEW t \in Txns,
           NEW e \in 1..Len(H), NEW f \in Nat, e <= f
    PROVE  /\ \A i \in Batches(t) : \A b \in BatchCommits :
                 BatchOK(t, i, b, e, H) => BatchOK(t, i, b, f, G)
           /\ \A m \in MetadataCommits \cup {None} :
                 MetadataOK(t, m, e, H) => MetadataOK(t, m, f, G)
<1>0. Len(H) \in Nat /\ 1..e \subseteq 1..f /\ 0..e \subseteq 0..f /\ \A k \in 1..e : G[k] = H[k]
  BY LenProperties DEF Prefix
<1>1. ASSUME NEW i \in Batches(t), NEW b \in BatchCommits, BatchOK(t, i, b, e, H)
      PROVE  BatchOK(t, i, b, f, G)
  <2>1. Identified(b, f) /\ RecordOK(t, i, b, f)
    BY <1>0, <1>1 DEF BatchOK, RecordOK, Identified
  <2>2. b.state # "planned" => G[b.commit] = H[b.commit] /\ G[b.parent] = H[b.parent]
    BY <1>0, <1>1 DEF BatchOK, Identified
  <2> QED BY <1>1, <2>1, <2>2 DEF BatchOK
<1>2. ASSUME NEW m \in MetadataCommits \cup {None}, MetadataOK(t, m, e, H)
      PROVE  MetadataOK(t, m, f, G)
  BY <1>0, <1>2 DEF MetadataOK, Identified
<1> QED BY <1>1, <1>2

\* A journal refers to the history behind its head, which no commit changes.
LEMMA JournalGrows ==
    ASSUME NEW H \in Seq(Trees), NEW G \in Seq(Trees), Prefix(H, G), NEW t \in Txns,
           NEW j, JournalOK(t, j, H)
    PROVE  JournalOK(t, j, G)
<1>1. /\ j \in Journals(t) /\ j.expected \in 1..Len(H) /\ j.expected \in Nat
      /\ j.metadata \in MetadataCommits \cup {None}
      /\ \A i \in Batches(t) : j.batches[i] \in BatchCommits
  BY DEF JournalOK, Journals
<1>2. /\ \A i \in Batches(t) : BatchOK(t, i, j.batches[i], j.expected, G)
      /\ MetadataOK(t, j.metadata, j.expected, G)
  BY <1>1, CommitsGrow DEF JournalOK
<1>3. j.expected \in 1..Len(G) /\ G[j.expected] = H[j.expected]
  BY <1>1, LenProperties DEF Prefix
<1>4. ProjectionsOK(t, j, G)
  BY <1>3 DEF JournalOK, ProjectionsOK
<1> QED BY <1>1, <1>2, <1>3, <1>4 DEF JournalOK

\* Another transaction's commit takes nothing back.
LEMMA LastsGrows ==
    ASSUME NEW H, HistoryOK(H), NEW u \in Txns, NEW tree, Follows(H, Len(H), u, tree),
           NEW t \in Txns, NEW j, JournalOK(t, j, H), Lasts(t, j, H),
           u # t \/ ~Committed(j)
    PROVE  Lasts(t, j, Append(H, tree))
<1> SUFFICES ASSUME Committed(j), NEW k \in j.discoverability.commit..Len(Append(H, tree))
             PROVE  /\ t \in Append(H, tree)[k].index
                    /\ Append(H, tree)[k].receipt[t] = j.discoverability.index
                    /\ Append(H, tree)[k].ledger.counted[t] >= 1
  BY DEF Lasts
<1>1. H \in Seq(Trees) /\ tree \in Trees /\ Len(H) \in Nat
  BY LenProperties DEF HistoryOK, Follows
<1>2. /\ Len(Append(H, tree)) = Len(H) + 1 /\ Append(H, tree)[Len(H) + 1] = tree
      /\ \A m \in 1..Len(H) : Append(H, tree)[m] = H[m]
  BY <1>1, AppendPrefix
<1>3. j.discoverability.commit \in 1..Len(H)
  BY <1>1 DEF JournalOK, ProjectionsOK
<1>4. \A m \in j.discoverability.commit..Len(H) :
          /\ t \in H[m].index
          /\ H[m].receipt[t] = j.discoverability.index
          /\ H[m].ledger.counted[t] >= 1
  BY DEF Lasts
<1>5. CASE k \in j.discoverability.commit..Len(H)
  BY <1>1, <1>2, <1>3, <1>4, <1>5
<1>6. CASE k = Len(H) + 1
  <2>1. Len(H) \in j.discoverability.commit..Len(H)
    BY <1>1, <1>3
  <2>2. u # t
    OBVIOUS
  <2> QED BY <1>2, <1>4, <1>6, <2>1, <2>2 DEF Follows
<1> QED BY <1>1, <1>2, <1>3, <1>5, <1>6

-----------------------------------------------------------------------------
\* The kinds of step: a checkpoint, a commit, a commit without answer, a push that is
\* left behind, and one that arrives late.

\* A checkpoint never goes back.
Advances(t, j) ==
    /\ journal[t].expected <= j.expected
    /\ \A i \in Batches(t) : journal[t].batches[i].new \subseteq j.batches[i].new
    /\ Committed(journal[t]) => Committed(j)

\* What the invariant says of the current head.
LEMMA HeadFacts ==
    ASSUME JournalInv
    PROVE  /\ hist \in Seq(Trees) /\ Main \in Nat /\ Main >= 1 /\ Main \in 1..Len(hist)
           /\ Tree \in Trees /\ Tree = hist[Len(hist)]
           /\ \A t \in Txns : journal[t].expected \in 1..Len(hist)
  BY LenProperties, ElementOfSeq DEF JournalInv, HistoryOK, JournalOK, Main, Tree

\* No payload that a transaction names as new is forgotten.
LEMMA NewPayloadGrows ==
    ASSUME NEW t \in Txns, NEW j, Advances(t, j), JournalInv,
           journal' = [journal EXCEPT ![t] = j]
    PROVE  \A u \in Txns : NewPayload(u) \subseteq NewPayload(u)'
<1>1. journal'[t] = j /\ \A u \in Txns \ {t} : journal'[u] = journal[u]
  BY DEF JournalInv
<1> QED BY <1>1 DEF Advances, NewPayload, Batches

\* A checkpoint without a push.
LEMMA SaveKeeps ==
    ASSUME JournalInv, NEW t \in Txns, NEW j, Save(t, j), UNCHANGED Remote,
           JournalOK(t, j, hist), Advances(t, j), Lasts(t, j, hist),
           Committed(j) => \A p \in flying : p.txn = t => p.base < j.discoverability.commit,
           j.state = "abandoned" => t \in landed \/ Tree.receipt[t] = NoReceipt
    PROVE  JournalInv'
<1>1. /\ journal' = [journal EXCEPT ![t] = j]
      /\ hist' = hist /\ flying' = flying /\ faults' = faults /\ lost' = lost /\ landed' = landed
  BY DEF Save, Remote
<1>2. /\ journal'[t] = j /\ \A u \in Txns \ {t} : journal'[u] = journal[u]
      /\ journal' = [u \in Txns |-> journal'[u]]
  BY <1>1 DEF JournalInv
<1>3. Tree' = Tree
  BY <1>1 DEF Tree, Main
<1>4. \A u \in Txns : JournalOK(u, journal'[u], hist') /\ Lasts(u, journal'[u], hist')
  BY <1>1, <1>2 DEF JournalInv
<1>5. \A p \in flying' : FlyingOK(p)'
  <2> SUFFICES ASSUME NEW p \in flying PROVE FlyingOK(p)'
    BY <1>1
  <2>1. FlyingOK(p) /\ p.txn \in Txns
    BY DEF JournalInv
  <2>2. CASE p.txn # t
    BY <1>1, <1>2, <2>1, <2>2 DEF FlyingOK
  <2>3. CASE p.txn = t
    <3>1. p.base \in 1..journal[t].expected /\ p.txn \in lost
          /\ Follows(hist, p.base, p.txn, p.tree)
      BY <2>1, <2>3 DEF FlyingOK
    <3>2. journal[t].expected \in Nat /\ j.expected \in Nat /\ journal[t].expected <= j.expected
      BY DEF JournalInv, JournalOK, Journals, Advances
    <3>3. p.base \in 1..j.expected
      BY <3>1, <3>2
    <3> QED BY <1>1, <1>2, <2>3, <3>1, <3>3 DEF FlyingOK
  <2> QED BY <2>2, <2>3
<1>6. \A u \in Txns : CountedByOwn(u)'
  BY <1>1, <1>2, <1>3 DEF JournalInv, CountedByOwn, Advances
<1>7. PayloadClaimed'
  BY <1>1, <1>3, NewPayloadGrows DEF JournalInv, PayloadClaimed
<1>8. NoMisleadingAbandon'
  BY <1>1, <1>2, <1>3 DEF JournalInv, NoMisleadingAbandon
<1> QED BY <1>1, <1>2, <1>4, <1>5, <1>6, <1>7, <1>8 DEF JournalInv

\* What any commit by u on the head leaves true, the journals aside.
LEMMA HistoryStep ==
    ASSUME JournalInv, NEW u \in Txns, NEW tree, Follows(hist, Main, u, tree),
           hist' = Append(hist, tree)
    PROVE  /\ HistoryOK(hist') /\ Prefix(hist, hist') /\ hist' \in Seq(Trees)
           /\ Len(hist') = Len(hist) + 1 /\ Tree' = tree
           /\ \A t \in Txns : JournalOK(t, journal[t], hist')
           /\ \A t \in Txns : t # u \/ ~Committed(journal[t]) => Lasts(t, journal[t], hist')
           /\ \A p \in flying : Follows(hist', p.base, p.txn, p.tree)
           /\ \A t \in Txns \ {u} : /\ tree.receipt[t] = Tree.receipt[t]
                                    /\ tree.ledger.counted[t] = Tree.ledger.counted[t]
<1>1. hist \in Seq(Trees) /\ Main = Len(hist) /\ tree \in Trees /\ Tree = hist[Main]
  BY HeadFacts DEF Main, Follows, Tree
<1>2. /\ Prefix(hist, hist') /\ hist' \in Seq(Trees) /\ Len(hist') = Len(hist) + 1
      /\ hist'[Len(hist) + 1] = tree
  BY <1>1, AppendPrefix
<1>3. HistoryOK(hist')
  BY <1>1, HistoryGrows DEF JournalInv
<1>4. Tree' = tree
  BY <1>2 DEF Tree, Main
<1>5. \A t \in Txns : JournalOK(t, journal[t], hist')
  BY <1>1, <1>2, JournalGrows DEF JournalInv
<1>6. \A t \in Txns : t # u \/ ~Committed(journal[t]) => Lasts(t, journal[t], hist')
  BY <1>1, LastsGrows DEF JournalInv
<1>7. ASSUME NEW p \in flying PROVE Follows(hist', p.base, p.txn, p.tree)
  <2>1. /\ p.base \in 1..journal[p.txn].expected /\ Follows(hist, p.base, p.txn, p.tree)
        /\ p.txn \in Txns
    BY DEF JournalInv, FlyingOK
  <2>2. journal[p.txn].expected \in 1..Len(hist) /\ Len(hist) \in Nat
    BY <2>1, HeadFacts, LenProperties
  <2>3. p.base \in 1..Len(hist)
    BY <2>1, <2>2
  <2> QED BY <1>1, <1>2, <2>1, <2>3, FollowsGrows
<1> QED BY <1>1, <1>2, <1>3, <1>4, <1>5, <1>6, <1>7 DEF Follows

\* A commit whose answer arrives.
LEMMA CommitKeeps ==
    ASSUME JournalInv, NEW t \in Txns, NEW tree, NEW j,
           hist' = Append(hist, tree), Save(t, j), UNCHANGED <<flying, faults, lost, landed>>,
           Follows(hist, Main, t, tree), JournalOK(t, j, hist'), Advances(t, j),
           j.expected = Main + 1, j.state # "abandoned",
           ~Committed(journal[t]), Lasts(t, j, hist'),
           Committed(j) => j.discoverability.commit = Main + 1,
           ~Committed(j) => tree.ledger.counted[t] = Tree.ledger.counted[t],
           tree.ledger.counted[t] <= Tree.ledger.counted[t] + 1,
           \A f \in tree.files \ Tree.files :
               f \in Documents[t] \/ \E i \in Batches(t) : f \in j.batches[i].new
    PROVE  JournalInv'
<1>1. /\ HistoryOK(hist') /\ Prefix(hist, hist') /\ Tree' = tree
      /\ \A u \in Txns : JournalOK(u, journal[u], hist')
      /\ \A u \in Txns \ {t} : Lasts(u, journal[u], hist')
      /\ \A p \in flying : Follows(hist', p.base, p.txn, p.tree)
      /\ \A u \in Txns \ {t} : /\ tree.receipt[u] = Tree.receipt[u]
                               /\ tree.ledger.counted[u] = Tree.ledger.counted[u]
  BY HistoryStep
<1>2. journal' = [journal EXCEPT ![t] = j]
  BY DEF Save
<1>3. /\ journal'[t] = j /\ \A u \in Txns \ {t} : journal'[u] = journal[u]
      /\ journal' = [u \in Txns |-> journal'[u]]
  BY <1>2 DEF JournalInv
<1>4. \A u \in Txns : JournalOK(u, journal'[u], hist') /\ Lasts(u, journal'[u], hist')
  BY <1>1, <1>3
<1>5. \A p \in flying' : FlyingOK(p)'
  <2> SUFFICES ASSUME NEW p \in flying PROVE FlyingOK(p)'
    OBVIOUS
  <2>1. FlyingOK(p) /\ p.txn \in Txns
    BY DEF JournalInv
  <2>2. CASE p.txn # t
    BY <1>1, <1>3, <2>1, <2>2 DEF FlyingOK
  <2>3. CASE p.txn = t
    <3>1. p.base \in 1..journal[t].expected /\ p.txn \in lost
      BY <2>1, <2>3 DEF FlyingOK
    <3>2. journal[t].expected \in 1..Main /\ Main \in Nat
      BY HeadFacts DEF Main
    <3>3. p.base \in 1..j.expected /\ p.base < Main + 1
      BY <3>1, <3>2
    <3> QED BY <1>1, <1>3, <2>3, <3>1, <3>3 DEF FlyingOK
  <2> QED BY <2>2, <2>3
<1>6. \A u \in Txns : CountedByOwn(u)'
  <2> SUFFICES ASSUME NEW u \in Txns, u \notin lost
               PROVE  /\ ~Committed(journal'[u]) => tree.ledger.counted[u] = 0
                      /\ tree.ledger.counted[u] <= 1
    BY <1>1 DEF CountedByOwn
  <2>1. CountedByOwn(u)
    BY DEF JournalInv
  <2>2. CASE u # t
    BY <1>1, <1>3, <2>1, <2>2 DEF CountedByOwn
  <2>3. CASE u = t
    BY <1>3, <2>1, <2>3 DEF CountedByOwn
  <2> QED BY <2>2, <2>3
<1>7. PayloadClaimed'
  <2> SUFFICES ASSUME NEW f \in tree.files \ UNION {Documents[u] : u \in Txns}
               PROVE  \/ \E r \in tree.records : f \in r.new
                      \/ \E u \in Txns : f \in NewPayload(u)'
                      \/ \E u \in lost : f \in PartsOf(u)
    BY <1>1 DEF PayloadClaimed
  <2>1. CASE f \in Tree.files
    <3>1. Tree.records \subseteq tree.records
      BY HeadFacts DEF Follows, Tree
    <3> QED BY <1>2, <2>1, <3>1, NewPayloadGrows DEF JournalInv, PayloadClaimed
  <2>2. CASE f \notin Tree.files
    BY <1>3, <2>2 DEF NewPayload
  <2> QED BY <2>1, <2>2
<1>8. NoMisleadingAbandon'
  BY <1>1, <1>3 DEF JournalInv, NoMisleadingAbandon
<1> QED BY <1>1, <1>3, <1>4, <1>5, <1>6, <1>7, <1>8 DEF JournalInv

\* A commit by u while no journal moves: u is known to have lost an answer, and what
\* it commits has either been checked for an abandoned journal or is noted as late.
LEMMA UnansweredCommitKeeps ==
    ASSUME JournalInv, NEW u \in Txns, NEW tree, Follows(hist, Main, u, tree),
           hist' = Append(hist, tree), journal' = journal,
           faults' \in Nat, lost' = lost \cup {u}, landed \subseteq landed',
           landed' \subseteq Txns, flying' \subseteq flying,
           ~Committed(journal[u]),
           u \in landed' \/ journal[u].state # "abandoned"
    PROVE  JournalInv'
<1>1. /\ HistoryOK(hist') /\ Prefix(hist, hist') /\ Tree' = tree
      /\ \A t \in Txns : JournalOK(t, journal[t], hist')
      /\ \A t \in Txns : Lasts(t, journal[t], hist')
      /\ \A p \in flying : Follows(hist', p.base, p.txn, p.tree)
      /\ \A t \in Txns \ {u} : /\ tree.receipt[t] = Tree.receipt[t]
                               /\ tree.ledger.counted[t] = Tree.ledger.counted[t]
  BY HistoryStep
<1>2. \A p \in flying' : FlyingOK(p)'
  BY <1>1 DEF JournalInv, FlyingOK
<1>3. \A t \in Txns : CountedByOwn(t)'
  BY <1>1 DEF JournalInv, CountedByOwn
<1>4. PayloadClaimed'
  <2> SUFFICES ASSUME NEW f \in tree.files \ UNION {Documents[t] : t \in Txns}
               PROVE  \/ \E r \in tree.records : f \in r.new
                      \/ \E t \in Txns : f \in NewPayload(t)'
                      \/ \E t \in lost' : f \in PartsOf(t)
    BY <1>1 DEF PayloadClaimed
  <2>1. /\ Tree.records \subseteq tree.records
        /\ tree.files \subseteq Tree.files \cup PartsOf(u) \cup Documents[u]
    BY HeadFacts DEF Follows, Tree
  <2>2. \A t \in Txns : NewPayload(t)' = NewPayload(t)
    BY DEF NewPayload
  <2>3. CASE f \in Tree.files
    BY <2>1, <2>2, <2>3 DEF JournalInv, PayloadClaimed
  <2>4. CASE f \in PartsOf(u)
    BY <2>4
  <2> QED BY <2>1, <2>3, <2>4
<1>5. NoMisleadingAbandon'
  BY <1>1 DEF JournalInv, NoMisleadingAbandon
<1> QED BY <1>1, <1>2, <1>3, <1>4, <1>5 DEF JournalInv

\* A push that is left behind.
LEMMA FlyKeeps ==
    ASSUME JournalInv, NEW t \in Txns, NEW tree, Follows(hist, Main, t, tree),
           journal[t].expected = Main, ~Committed(journal[t]),
           flying' = flying \cup {[txn |-> t, base |-> Main, tree |-> tree]},
           faults' \in Nat, lost' = lost \cup {t}, UNCHANGED <<hist, journal, landed>>
    PROVE  JournalInv'
<1> DEFINE p == [txn |-> t, base |-> Main, tree |-> tree]
<1>1. Main \in Nat /\ Main >= 1 /\ tree \in Trees
  BY HeadFacts DEF Follows
<1>2. Tree' = Tree
  BY DEF Tree, Main
<1>3. \A q \in flying : FlyingOK(q)'
  BY DEF JournalInv, FlyingOK
<1>4. /\ t \in lost' /\ Main \in 1..journal'[t].expected
      /\ Follows(hist', Main, t, tree) /\ ~Committed(journal'[t])
  BY <1>1
<1>5. flying' \subseteq [txn : Txns, base : Nat, tree : Trees]
  BY <1>1 DEF JournalInv
<1>6. \A q \in flying' : FlyingOK(q)'
  BY <1>3, <1>4 DEF FlyingOK
<1>7. \A u \in Txns : CountedByOwn(u)'
  BY <1>2 DEF JournalInv, CountedByOwn
<1>8. PayloadClaimed' /\ NoMisleadingAbandon'
  BY <1>2 DEF JournalInv, PayloadClaimed, NewPayload, NoMisleadingAbandon
<1> QED BY <1>5, <1>6, <1>7, <1>8 DEF JournalInv

\* One that arrives late.  Its base is the head, so its sender has not committed its
\* last step by another push.
LEMMA LateApplyKeeps ==
    ASSUME JournalInv, NEW p \in flying, LateApply(p) PROVE JournalInv'
<1>1. /\ p.base = Main /\ hist' = Append(hist, p.tree) /\ flying' = flying \ {p}
      /\ landed' = landed \cup {p.txn} /\ UNCHANGED <<journal, faults, lost>>
  BY DEF LateApply
<1>2. FlyingOK(p) /\ p.txn \in Txns
  BY DEF JournalInv
<1>3. Follows(hist, Main, p.txn, p.tree) /\ lost' = lost \cup {p.txn}
  BY <1>1, <1>2 DEF FlyingOK
<1>4. ~Committed(journal[p.txn])
  <2> SUFFICES ASSUME Committed(journal[p.txn]) PROVE FALSE
    OBVIOUS
  <2>1. journal[p.txn].discoverability.commit \in 1..journal[p.txn].expected
    BY <1>2 DEF JournalInv, JournalOK, ProjectionsOK
  <2>2. journal[p.txn].expected \in 1..Main /\ Main \in Nat
    BY <1>2, HeadFacts DEF Main
  <2>3. p.base < journal[p.txn].discoverability.commit
    BY <1>2 DEF FlyingOK
  <2> QED BY <1>1, <2>1, <2>2, <2>3
<1>5. faults' \in Nat /\ landed' \subseteq Txns
  BY <1>1, <1>2 DEF JournalInv
<1> QED BY <1>1, <1>2, <1>3, <1>4, <1>5, UnansweredCommitKeeps

\* A conflict: the journal continues from the head.
LEMMA ConflictKeeps ==
    ASSUME JournalInv, NEW t \in Txns, Open(t), NEW j, Save(t, j), UNCHANGED Remote,
           \/ j = RefConflict(t) /\ journal[t].discoverability = None
           \/ j = Discarded(t) /\ ~Committed(journal[t])
    PROVE  JournalInv'
<1>1. /\ JournalOK(t, journal[t], hist) /\ journal[t] \in Journals(t)
      /\ journal[t].expected \in 1..Main /\ Main \in Nat /\ Main \in 1..Len(hist)
      /\ hist \in Seq(Trees) /\ journal[t].state \notin {"receipt_complete", "abandoned"}
  BY HeadFacts DEF JournalInv, JournalOK, Main, Open
<1>2. /\ j.state = journal[t].state /\ j.expected = Main /\ j.batches = journal[t].batches
      /\ j.metadata = journal[t].metadata /\ j.discoverability = None
      /\ j \in Journals(t)
  BY <1>1 DEF RefConflict, Discarded, Journals
<1>3. ~Committed(j) /\ ~Committed(journal[t])
  BY <1>2 DEF Committed
<1>4. /\ \A i \in Batches(t) : j.batches[i] \in BatchCommits
      /\ j.metadata \in MetadataCommits \cup {None}
  BY <1>2 DEF Journals
<1>5. /\ \A i \in Batches(t) : BatchOK(t, i, j.batches[i], Main, hist)
      /\ MetadataOK(t, j.metadata, Main, hist)
  <2>1. Prefix(hist, hist)
    BY <1>1, LenProperties DEF Prefix
  <2>2. journal[t].expected \in 1..Len(hist) /\ journal[t].expected <= Main
    BY <1>1 DEF Main
  <2> QED BY <1>1, <1>2, <1>4, <2>1, <2>2, CommitsGrow DEF JournalOK
<1>6. ProjectionsOK(t, j, hist)
  BY <1>1, <1>2, <1>3 DEF ProjectionsOK
<1>7. JournalOK(t, j, hist)
  BY <1>1, <1>2, <1>5, <1>6 DEF JournalOK
<1>8. Advances(t, j) /\ Lasts(t, j, hist)
  BY <1>1, <1>2, <1>3 DEF Advances, Lasts
<1> QED BY <1>1, <1>2, <1>3, <1>7, <1>8, SaveKeeps

\* Every outcome of a push.
LEMMA SwapKeeps ==
    ASSUME JournalInv, NEW t \in Txns, Open(t), ~Committed(journal[t]),
           NEW tree, NEW done, NEW conflict, Swap(t, tree, done, conflict),
           \/ conflict = RefConflict(t) /\ journal[t].discoverability = None
           \/ conflict = Discarded(t),
           journal[t].expected = Main =>
               /\ Follows(hist, Main, t, tree)
               /\ JournalOK(t, done, Append(hist, tree)) /\ Advances(t, done)
               /\ done.expected = Main + 1 /\ done.state # "abandoned"
               /\ Lasts(t, done, Append(hist, tree))
               /\ Committed(done) => done.discoverability.commit = Main + 1
               /\ ~Committed(done) => tree.ledger.counted[t] = Tree.ledger.counted[t]
               /\ tree.ledger.counted[t] <= Tree.ledger.counted[t] + 1
               /\ \A f \in tree.files \ Tree.files :
                      f \in Documents[t] \/ \E i \in Batches(t) : f \in done.batches[i].new
    PROVE  JournalInv'
<1>1. CASE /\ journal[t].expected = Main
           /\ hist' = Append(hist, tree) /\ Save(t, done)
           /\ UNCHANGED <<flying, faults, lost, landed>>
  BY <1>1, CommitKeeps
<1>2. CASE Save(t, conflict) /\ UNCHANGED Remote
  BY <1>2, ConflictKeeps
<1>3. CASE /\ journal[t].expected = Main /\ faults' = faults + 1 /\ lost' = lost \cup {t}
           /\ hist' = Append(hist, tree) /\ UNCHANGED flying
           /\ UNCHANGED <<journal, landed>>
  <2>1. faults' \in Nat /\ journal[t].state # "abandoned" /\ landed \subseteq Txns
    BY <1>3 DEF JournalInv, Open
  <2> QED BY <1>3, <2>1, UnansweredCommitKeeps
<1>4. CASE /\ journal[t].expected = Main /\ faults' = faults + 1 /\ lost' = lost \cup {t}
           /\ flying' = flying \cup {[txn |-> t, base |-> Main, tree |-> tree]}
           /\ UNCHANGED hist /\ UNCHANGED <<journal, landed>>
  <2>1. faults' \in Nat
    BY <1>4 DEF JournalInv
  <2> QED BY <1>4, <2>1, FlyKeeps
<1> QED BY <1>1, <1>2, <1>3, <1>4 DEF Swap

-----------------------------------------------------------------------------
\* Updates of a checkpoint, written out

Checkpoint(s, e, b, m, d) ==
    [state |-> s, expected |-> e, batches |-> b, metadata |-> m, discoverability |-> d]

BatchCommit(s, p, c, n, r) == [state |-> s, parent |-> p, commit |-> c, new |-> n, record |-> r]

\* The updates that the actions make, as operators of what they set.
SetBatch(j, i, x) == [j EXCEPT !.batches[i] = x]
SetStateBatch(j, v, i, x) == [j EXCEPT !.state = v, !.batches[i] = x]
SetHeadBatch(j, v, i, x) == [j EXCEPT !.expected = v, !.batches[i] = x]
SetCommit(c, s, p, q) == [c EXCEPT !.state = s, !.parent = p, !.commit = q]
SetNew(c, s, p, q, n) == [c EXCEPT !.state = s, !.parent = p, !.commit = q, !.new = n]
SetRecord(c, s, r) == [c EXCEPT !.state = s, !.record = r]

LEMMA JournalUpdates ==
    ASSUME NEW t, NEW j \in Journals(t), NEW i \in Batches(t), NEW x, NEW v
    PROVE  /\ SetBatch(j, i, x)
                = Checkpoint(j.state, j.expected, [j.batches EXCEPT ![i] = x],
                             j.metadata, j.discoverability)
           /\ SetStateBatch(j, v, i, x)
                = Checkpoint(v, j.expected, [j.batches EXCEPT ![i] = x],
                             j.metadata, j.discoverability)
           /\ SetHeadBatch(j, v, i, x)
                = Checkpoint(j.state, v, [j.batches EXCEPT ![i] = x],
                             j.metadata, j.discoverability)
<1> DEFINE b == [j.batches EXCEPT ![i] = x]
<1>1. /\ SetBatch(j, i, x) = [j EXCEPT !.batches = b]
      /\ SetStateBatch(j, v, i, x) = [[j EXCEPT !.batches = b] EXCEPT !.state = v]
      /\ SetHeadBatch(j, v, i, x) = [[j EXCEPT !.batches = b] EXCEPT !.expected = v]
  BY DEF Journals, SetBatch, SetStateBatch, SetHeadBatch
<1> HIDE DEF b
<1>2. [j EXCEPT !.batches = b]
        = Checkpoint(j.state, j.expected, b, j.metadata, j.discoverability)
  BY DEF Journals, Checkpoint
<1>3. [Checkpoint(j.state, j.expected, b, j.metadata, j.discoverability) EXCEPT !.state = v]
        = Checkpoint(v, j.expected, b, j.metadata, j.discoverability)
  BY DEF Checkpoint
<1>4. [Checkpoint(j.state, j.expected, b, j.metadata, j.discoverability) EXCEPT !.expected = v]
        = Checkpoint(j.state, v, b, j.metadata, j.discoverability)
  BY DEF Checkpoint
<1> QED BY <1>1, <1>2, <1>3, <1>4 DEF b

LEMMA HeadUpdate ==
    ASSUME NEW t, NEW j \in Journals(t), NEW i \in Batches(t), NEW x, NEW v
    PROVE  SetHeadBatch(j, v, i, x)
             = Checkpoint(j.state, v, [j.batches EXCEPT ![i] = x], j.metadata, j.discoverability)
  BY JournalUpdates

LEMMA BatchUpdates ==
    ASSUME NEW c \in BatchCommits, NEW s, NEW p, NEW q, NEW n, NEW r
    PROVE  /\ SetNew(c, s, p, q, n) = BatchCommit(s, p, q, n, c.record)
           /\ SetCommit(c, s, p, q) = BatchCommit(s, p, q, c.new, c.record)
           /\ SetRecord(c, s, r) = BatchCommit(s, c.parent, c.commit, c.new, r)
<1>1. [c EXCEPT !.state = s] = BatchCommit(s, c.parent, c.commit, c.new, c.record)
  BY DEF BatchCommits, BatchCommit
<1>2. [BatchCommit(s, c.parent, c.commit, c.new, c.record) EXCEPT !.parent = p]
        = BatchCommit(s, p, c.commit, c.new, c.record)
  BY DEF BatchCommit
<1>3. [BatchCommit(s, p, c.commit, c.new, c.record) EXCEPT !.commit = q]
        = BatchCommit(s, p, q, c.new, c.record)
  BY DEF BatchCommit
<1>4. [BatchCommit(s, p, q, c.new, c.record) EXCEPT !.new = n]
        = BatchCommit(s, p, q, n, c.record)
  BY DEF BatchCommit
<1>5. [BatchCommit(s, c.parent, c.commit, c.new, c.record) EXCEPT !.record = r]
        = BatchCommit(s, c.parent, c.commit, c.new, r)
  BY DEF BatchCommit
<1>6. /\ SetNew(c, s, p, q, n)
           = [[[[c EXCEPT !.state = s] EXCEPT !.parent = p] EXCEPT !.commit = q] EXCEPT !.new = n]
      /\ SetCommit(c, s, p, q) = [[[c EXCEPT !.state = s] EXCEPT !.parent = p] EXCEPT !.commit = q]
      /\ SetRecord(c, s, r) = [[c EXCEPT !.state = s] EXCEPT !.record = r]
  BY DEF SetNew, SetCommit, SetRecord
<1> QED BY <1>1, <1>2, <1>3, <1>4, <1>5, <1>6

-----------------------------------------------------------------------------
\* Payload batches

OpenStates == {"planned", "uploading", "batch_verified", "remote_verified"}

\* The journal with another state and another batch i.
WithBatch(t, state, head, i, b) ==
    Checkpoint(state, head, [journal[t].batches EXCEPT ![i] = b],
               journal[t].metadata, journal[t].discoverability)

\* While a batch is unfinished nothing is projected.
LEMMA UnfinishedFacts ==
    ASSUME JournalInv, NEW t \in Txns, Open(t), NEW i \in Batches(t),
           journal[t].batches[i].state # "remote_verified"
    PROVE  /\ journal[t] \in Journals(t) /\ journal[t].batches[i] \in BatchCommits
           /\ journal[t].discoverability = None /\ ~Committed(journal[t])
           /\ journal[t].expected \in 1..Main /\ journal[t].state \in OpenStates
           /\ BatchOK(t, i, journal[t].batches[i], journal[t].expected, hist)
<1>1. JournalOK(t, journal[t], hist) /\ journal[t] \in Journals(t)
  BY DEF JournalInv, JournalOK
<1>2. journal[t].discoverability = None
  BY <1>1 DEF JournalOK, ProjectionsOK
<1>3. journal[t].state \in OpenStates
  BY <1>1 DEF Journals, TargetStates, OpenStates, Open
<1>4. journal[t].batches[i] \in BatchCommits
  BY <1>1 DEF Journals
<1> QED BY <1>1, <1>2, <1>3, <1>4 DEF JournalOK, Committed, Main

\* Changing one batch of a journal, over the same or a longer history.
LEMMA BatchChange ==
    ASSUME JournalInv, NEW t \in Txns, Open(t), NEW i \in Batches(t),
           journal[t].batches[i].state # "remote_verified",
           NEW b \in BatchCommits, journal[t].batches[i].new \subseteq b.new,
           NEW state \in OpenStates, NEW H \in Seq(Trees), Prefix(hist, H),
           NEW head \in 1..Len(H), journal[t].expected <= head,
           BatchOK(t, i, b, head, H)
    PROVE  /\ JournalOK(t, WithBatch(t, state, head, i, b), H)
           /\ Advances(t, WithBatch(t, state, head, i, b))
           /\ Lasts(t, WithBatch(t, state, head, i, b), H)
           /\ ~Committed(WithBatch(t, state, head, i, b))
<1> DEFINE j == WithBatch(t, state, head, i, b)
<1>1. /\ journal[t] \in Journals(t) /\ journal[t].discoverability = None
      /\ JournalOK(t, journal[t], hist) /\ journal[t].expected \in 1..Len(hist)
  BY UnfinishedFacts DEF JournalInv, JournalOK
<1>2. /\ j.state = state /\ j.expected = head /\ j.metadata = journal[t].metadata
      /\ j.discoverability = None
      /\ j.batches = [journal[t].batches EXCEPT ![i] = b]
  BY <1>1 DEF WithBatch, Checkpoint
<1>3. /\ journal[t].batches \in [Batches(t) -> BatchCommits]
      /\ journal[t].metadata \in MetadataCommits \cup {None}
  BY <1>1 DEF Journals
<1>4. /\ j.batches \in [Batches(t) -> BatchCommits] /\ j.batches[i] = b
      /\ \A k \in Batches(t) : k # i => j.batches[k] = journal[t].batches[k]
  BY <1>2, <1>3
<1>5. head \in Nat /\ Len(H) \in Nat /\ hist \in Seq(Trees)
  BY LenProperties, HeadFacts
<1>6. j \in Journals(t)
  <2>1. state \in TargetStates
    BY DEF OpenStates, TargetStates
  <2> QED BY <1>1, <1>3, <1>4, <1>5, <2>1 DEF WithBatch, Checkpoint, Journals
<1>7. /\ \A k \in Batches(t) : BatchOK(t, k, j.batches[k], head, H)
      /\ MetadataOK(t, j.metadata, head, H)
  <2>1. \A k \in Batches(t) : journal[t].batches[k] \in BatchCommits
    BY <1>3
  <2>2. /\ \A k \in Batches(t) : BatchOK(t, k, journal[t].batches[k], journal[t].expected, hist)
        /\ MetadataOK(t, journal[t].metadata, journal[t].expected, hist)
    BY <1>1 DEF JournalOK
  <2>3. /\ \A k \in Batches(t) : BatchOK(t, k, journal[t].batches[k], head, H)
        /\ MetadataOK(t, journal[t].metadata, head, H)
    BY <1>1, <1>3, <1>5, <2>1, <2>2, CommitsGrow
  <2> QED BY <1>2, <1>4, <2>3
<1>8. ~Committed(j)
  BY <1>2 DEF Committed
<1>9. ProjectionsOK(t, j, H)
  BY <1>2, <1>8 DEF ProjectionsOK, OpenStates
<1>10. Advances(t, j)
  BY <1>1, <1>2, <1>4 DEF Advances, Committed
<1>11. Lasts(t, j, H)
  BY <1>8 DEF Lasts
<1> HIDE DEF j
<1>12. JournalOK(t, j, H)
  BY <1>2, <1>6, <1>7, <1>9 DEF JournalOK
<1> QED BY <1>8, <1>10, <1>11, <1>12 DEF j

\* A checkpoint of one batch.
LEMMA BatchSaveKeeps ==
    ASSUME JournalInv, NEW t \in Txns, Open(t), NEW i \in Batches(t),
           journal[t].batches[i].state # "remote_verified",
           NEW b \in BatchCommits, journal[t].batches[i].new \subseteq b.new,
           NEW state \in OpenStates, BatchOK(t, i, b, journal[t].expected, hist),
           Save(t, WithBatch(t, state, journal[t].expected, i, b)), UNCHANGED Remote
    PROVE  JournalInv'
<1> DEFINE j == WithBatch(t, state, journal[t].expected, i, b)
<1>1. /\ hist \in Seq(Trees) /\ Prefix(hist, hist) /\ journal[t].expected \in 1..Len(hist)
      /\ Len(hist) \in Nat
  BY HeadFacts, LenProperties DEF Prefix
<1>2. JournalOK(t, j, hist) /\ Advances(t, j) /\ Lasts(t, j, hist) /\ ~Committed(j)
  BY <1>1, BatchChange
<1>3. j.state # "abandoned"
  BY DEF WithBatch, Checkpoint, OpenStates
<1> QED BY <1>2, <1>3, SaveKeeps

\* The begin of an upload changes the target's state only.
LEMMA StartKeeps == ASSUME JournalInv, NEW t \in Txns, Start(t) PROVE JournalInv'
<1>1. PICK i \in Batches(t) : /\ InBatch(t, i, "planned")
                             /\ Save(t, [journal[t] EXCEPT !.state = "uploading"])
                             /\ UNCHANGED Remote
  BY DEF Start
<1>2. Open(t) /\ journal[t].batches[i].state = "planned"
  BY <1>1 DEF InBatch
<1> DEFINE b == journal[t].batches[i]
<1>3. journal[t] \in Journals(t) /\ b \in BatchCommits
      /\ BatchOK(t, i, b, journal[t].expected, hist)
  BY <1>2, UnfinishedFacts
<1>4. [journal[t] EXCEPT !.state = "uploading"]
        = WithBatch(t, "uploading", journal[t].expected, i, b)
  BY <1>3 DEF WithBatch, Checkpoint, Journals
<1> QED BY <1>1, <1>2, <1>3, <1>4, BatchSaveKeeps DEF OpenStates

\* A batch that the head contains.
LEMMA ReuseBatchKeeps == ASSUME JournalInv, NEW t \in Txns, ReuseBatch(t) PROVE JournalInv'
<1> DEFINE head == journal[t].expected
<1>1. PICK i \in Batches(t) :
        /\ Uploading(t, i) /\ Missing(t, i) = {}
        /\ Save(t, SetStateBatch(journal[t], "batch_verified", i,
                      SetCommit(journal[t].batches[i], "remote_verified", head, head)))
        /\ UNCHANGED Remote
  BY DEF ReuseBatch, SetStateBatch, SetCommit
<1>2. Open(t) /\ journal[t].batches[i].state = "planned"
  BY <1>1 DEF Uploading, InBatch
<1> DEFINE c == journal[t].batches[i]
           b == BatchCommit("remote_verified", head, head, c.new, c.record)
<1>3. /\ journal[t] \in Journals(t) /\ c \in BatchCommits /\ BatchOK(t, i, c, head, hist)
      /\ head \in 1..Main /\ head \in Nat /\ Main \in Nat
  BY <1>2, UnfinishedFacts, HeadFacts
<1>4. b \in BatchCommits
  BY <1>3 DEF BatchCommits, BatchStates, BatchCommit
<1>5. Save(t, WithBatch(t, "batch_verified", head, i, b))
  BY <1>1, <1>3, JournalUpdates, BatchUpdates DEF WithBatch
<1>6. BatchOK(t, i, b, head, hist)
  <2>1. Parts[t][i] \subseteq hist[head].files
    BY <1>1 DEF Missing, Base
  <2>2. c.new = {} /\ c.record = None
    BY <1>2, <1>3 DEF BatchOK, Identified, RecordOK
  <2>3. head \in 1..head
    BY <1>3
  <2> QED BY <2>1, <2>2, <2>3 DEF BatchOK, BatchCommit, Identified, RecordOK
<1>7. c.new \subseteq b.new
  BY DEF BatchCommit
<1> HIDE DEF b
<1> QED BY <1>1, <1>2, <1>4, <1>5, <1>6, <1>7, BatchSaveKeeps DEF OpenStates

\* The record of a committed batch is staged.
LEMMA StageRecordKeeps == ASSUME JournalInv, NEW t \in Txns, StageRecord(t) PROVE JournalInv'
<1>1. PICK i \in Batches(t) :
        /\ InBatch(t, i, "committed")
        /\ Save(t, SetBatch(journal[t], i,
                      SetRecord(journal[t].batches[i], "payload_verified", Planned)))
        /\ UNCHANGED Remote
  BY DEF StageRecord, SetBatch, SetRecord
<1>2. Open(t) /\ journal[t].batches[i].state = "committed"
  BY <1>1 DEF InBatch
<1> DEFINE c == journal[t].batches[i]
           b == BatchCommit("payload_verified", c.parent, c.commit, c.new, Planned)
<1>3. /\ journal[t] \in Journals(t) /\ c \in BatchCommits
      /\ BatchOK(t, i, c, journal[t].expected, hist) /\ journal[t].state \in OpenStates
      /\ journal[t].expected \in Nat
  BY <1>2, UnfinishedFacts, HeadFacts
<1>4. /\ Planned \in RecordCommits /\ Planned # None /\ Planned.state = "planned"
      /\ Planned.parent = 0 /\ Planned.commit = 0 /\ Planned.new = {}
  BY DEF Planned, RecordCommits, CommitStates, None
<1>5. b \in BatchCommits
  BY <1>3, <1>4 DEF BatchCommits, BatchStates, BatchCommit
<1>6. Save(t, WithBatch(t, journal[t].state, journal[t].expected, i, b))
  BY <1>1, <1>3, JournalUpdates, BatchUpdates DEF WithBatch
<1>7. BatchOK(t, i, b, journal[t].expected, hist)
  <2>1. RecordOK(t, i, b, journal[t].expected)
    BY <1>4 DEF RecordOK, Identified, BatchCommit
  <2> QED BY <1>2, <1>3, <2>1 DEF BatchOK, BatchCommit, Identified
<1>8. c.new \subseteq b.new
  BY DEF BatchCommit
<1> HIDE DEF b
<1> QED BY <1>1, <1>2, <1>3, <1>5, <1>6, <1>7, <1>8, BatchSaveKeeps

\* A record that the head contains.
LEMMA ReuseRecordKeeps == ASSUME JournalInv, NEW t \in Txns, ReuseRecord(t) PROVE JournalInv'
<1> DEFINE head == journal[t].expected
           record == MarkReused(head)
<1>1. PICK i \in Batches(t) :
        /\ RecordDue(t, i)
        /\ Save(t, SetStateBatch(journal[t], "batch_verified", i,
                      SetRecord(journal[t].batches[i], "remote_verified", record)))
        /\ UNCHANGED Remote
  BY DEF ReuseRecord, SetStateBatch, SetRecord
<1>2. Open(t) /\ journal[t].batches[i].state = "payload_verified"
  BY <1>1 DEF RecordDue, InBatch
<1> DEFINE c == journal[t].batches[i]
           b == BatchCommit("remote_verified", c.parent, c.commit, c.new, record)
<1>3. /\ journal[t] \in Journals(t) /\ c \in BatchCommits /\ BatchOK(t, i, c, head, hist)
      /\ head \in 1..Main /\ head \in Nat /\ Main \in Nat
  BY <1>2, UnfinishedFacts, HeadFacts
<1>4. /\ record \in RecordCommits /\ record # None /\ record.state = "remote_verified"
      /\ record.parent = head /\ record.commit = head /\ record.new = {}
  BY <1>3 DEF RecordCommits, CommitStates, None, MarkReused
<1> HIDE DEF record
<1>5. b \in BatchCommits
  BY <1>3, <1>4 DEF BatchCommits, BatchStates, BatchCommit
<1>6. Save(t, WithBatch(t, "batch_verified", head, i, b))
  BY <1>1, <1>3, JournalUpdates, BatchUpdates DEF WithBatch
<1>7. BatchOK(t, i, b, head, hist)
  <2>1. head \in 1..head
    BY <1>3
  <2>2. RecordOK(t, i, b, head)
    BY <1>4, <2>1 DEF RecordOK, Identified, BatchCommit
  <2> QED BY <1>2, <1>3, <2>2 DEF BatchOK, BatchCommit, Identified
<1>8. c.new \subseteq b.new
  BY DEF BatchCommit
<1> HIDE DEF b
<1> QED BY <1>1, <1>2, <1>5, <1>6, <1>7, <1>8, BatchSaveKeeps DEF OpenStates

\* A record that was committed is verified.
LEMMA VerifyRecordKeeps == ASSUME JournalInv, NEW t \in Txns, VerifyRecord(t) PROVE JournalInv'
<1>1. PICK i \in Batches(t) :
        /\ InBatch(t, i, "record_committed")
        /\ Save(t, SetStateBatch(journal[t], "batch_verified", i,
                      [journal[t].batches[i] EXCEPT !.state = "remote_verified",
                                                    !.record.state = "remote_verified"]))
        /\ UNCHANGED Remote
  BY DEF VerifyRecord, SetStateBatch
<1>2. Open(t) /\ journal[t].batches[i].state = "record_committed"
  BY <1>1 DEF InBatch
<1> DEFINE c == journal[t].batches[i]
           head == journal[t].expected
           record == [c.record EXCEPT !.state = "remote_verified"]
           b == BatchCommit("remote_verified", c.parent, c.commit, c.new, record)
<1>3. /\ journal[t] \in Journals(t) /\ c \in BatchCommits /\ BatchOK(t, i, c, head, hist)
      /\ head \in Nat
  BY <1>2, UnfinishedFacts, HeadFacts
<1>4. /\ c.record \in RecordCommits /\ c.record # None
      /\ c.record.parent \in 1..head /\ c.record.commit \in 1..head
      /\ c.record.new \subseteq {RecordFrom(t, i, c)}
  <2>1. c.record # None /\ c.record.state = "committed" /\ RecordOK(t, i, c, head)
    BY <1>2, <1>3 DEF BatchOK, RecordOK
  <2>2. c.record \in RecordCommits \cup {None}
    BY <1>3 DEF BatchCommits
  <2> QED BY <2>1, <2>2 DEF RecordOK, Identified
<1>5. /\ record \in RecordCommits /\ record # None /\ record.state = "remote_verified"
      /\ record.parent = c.record.parent /\ record.commit = c.record.commit
      /\ record.new = c.record.new
  BY <1>4 DEF RecordCommits, CommitStates, None
<1>6. [c EXCEPT !.state = "remote_verified", !.record.state = "remote_verified"]
        = SetRecord(c, "remote_verified", record)
  BY DEF SetRecord
<1> HIDE DEF record
<1>7. b \in BatchCommits
  BY <1>3, <1>5 DEF BatchCommits, BatchStates, BatchCommit
<1>8. Save(t, WithBatch(t, "batch_verified", head, i, b))
  BY <1>1, <1>3, <1>6, JournalUpdates, BatchUpdates DEF WithBatch
<1>9. BatchOK(t, i, b, head, hist)
  <2>1. RecordFrom(t, i, b) = RecordFrom(t, i, c)
    BY DEF RecordFrom, BatchCommit
  <2>2. RecordOK(t, i, b, head)
    BY <1>4, <1>5, <2>1 DEF RecordOK, Identified, BatchCommit
  <2> QED BY <1>2, <1>3, <2>2 DEF BatchOK, BatchCommit, Identified
<1>10. c.new \subseteq b.new
  BY DEF BatchCommit
<1> HIDE DEF b
<1> QED BY <1>1, <1>2, <1>7, <1>8, <1>9, <1>10, BatchSaveKeeps DEF OpenStates

\* Files of a transaction added to the head.
LEMMA FilesFollow ==
    ASSUME JournalInv, NEW t \in Txns, NEW X, X \subseteq PartsOf(t) \cup Documents[t],
           X \subseteq Files, NEW tree, tree = [Tree EXCEPT !.files = Tree.files \cup X]
    PROVE  /\ Follows(hist, Main, t, tree) /\ tree.files = Tree.files \cup X
           /\ tree.ledger = Tree.ledger
<1>1. Tree \in Trees /\ Tree = hist[Main] /\ Main \in 1..Len(hist) /\ Main \in Nat
  BY HeadFacts DEF Tree, Main
<1>2. /\ tree \in Trees /\ tree.files = Tree.files \cup X
      /\ tree.records = Tree.records /\ tree.index = Tree.index
      /\ tree.ledger = Tree.ledger /\ tree.receipt = Tree.receipt
  BY <1>1 DEF Trees
<1>3. Whole(Tree) /\ Truthful(hist, Tree) /\ Tree.ledger.base < Main
  BY <1>1 DEF JournalInv, HistoryOK
<1>4. Whole(tree) /\ Truthful(hist, tree)
  BY <1>2, <1>3 DEF Whole, Truthful
<1>5. Tree.ledger.counted[t] \in Nat /\ Tree.ledger.base \in Nat
  BY <1>1 DEF Trees, Ledgers
<1> QED BY <1>1, <1>2, <1>3, <1>4, <1>5 DEF Follows

\* The payload of a transaction is made of files.
LEMMA PlanTypes ==
    ASSUME NEW t \in Txns
    PROVE  /\ \A i \in Batches(t) : Parts[t][i] \subseteq Files /\ Parts[t][i] \subseteq PartsOf(t)
           /\ Documents[t] \subseteq Files /\ Batches(t) \subseteq Nat
<1>1. Parts[t] \in Seq(SUBSET Files)
  BY JournalAssumption
<1>2. \A i \in 1..Len(Parts[t]) : Parts[t][i] \in SUBSET Files
  BY <1>1, ElementOfSeq
<1>3. Documents[t] \subseteq Files
  BY JournalAssumption
<1> QED BY <1>2, <1>3 DEF Batches, PartsOf

\* A commit that changes one batch.
LEMMA BatchSwapKeeps ==
    ASSUME JournalInv, NEW t \in Txns, Open(t), NEW i \in Batches(t),
           journal[t].batches[i].state # "remote_verified",
           NEW b \in BatchCommits, journal[t].batches[i].new \subseteq b.new, NEW tree,
           Swap(t, tree, WithBatch(t, journal[t].state, Main + 1, i, b), RefConflict(t)),
           journal[t].expected = Main =>
               /\ Follows(hist, Main, t, tree) /\ tree.ledger = Tree.ledger
               /\ tree.files \ Tree.files \subseteq b.new
               /\ BatchOK(t, i, b, Main + 1, Append(hist, tree))
    PROVE  JournalInv'
<1> DEFINE H == Append(hist, tree)
           j == WithBatch(t, journal[t].state, Main + 1, i, b)
<1>1. /\ ~Committed(journal[t]) /\ journal[t].discoverability = None
      /\ journal[t].state \in OpenStates /\ journal[t] \in Journals(t)
  BY UnfinishedFacts
<1>2. ASSUME journal[t].expected = Main
      PROVE  /\ JournalOK(t, j, H) /\ Advances(t, j) /\ Lasts(t, j, H) /\ ~Committed(j)
             /\ j.expected = Main + 1 /\ j.state # "abandoned"
             /\ tree.ledger.counted[t] <= Tree.ledger.counted[t] + 1
             /\ \A f \in tree.files \ Tree.files : \E k \in Batches(t) : f \in j.batches[k].new
  <2>1. hist \in Seq(Trees) /\ Main = Len(hist) /\ Main \in Nat /\ tree \in Trees /\ Tree \in Trees
    BY <1>2, HeadFacts DEF Follows, Main
  <2>2. H \in Seq(Trees) /\ Prefix(hist, H) /\ Len(H) = Main + 1
    BY <2>1, AppendPrefix
  <2>3. Main + 1 \in 1..Len(H) /\ journal[t].expected <= Main + 1
    BY <1>2, <2>1, <2>2
  <2>4. BatchOK(t, i, b, Main + 1, H)
    BY <1>2
  <2> HIDE DEF H
  <2>5. JournalOK(t, j, H) /\ Advances(t, j) /\ Lasts(t, j, H) /\ ~Committed(j)
    BY <1>1, <2>2, <2>3, <2>4, BatchChange
  <2>6. /\ j.expected = Main + 1 /\ j.state # "abandoned"
        /\ j.batches = [journal[t].batches EXCEPT ![i] = b]
    BY <1>1 DEF WithBatch, Checkpoint, OpenStates
  <2>7. j.batches[i] = b
    BY <1>1, <2>6 DEF Journals
  <2>8. Tree.ledger.counted[t] \in Nat
    BY <2>1 DEF Trees, Ledgers
  <2>9. tree.ledger.counted[t] <= Tree.ledger.counted[t] + 1
    BY <1>2, <2>8
  <2> QED BY <1>2, <2>5, <2>6, <2>7, <2>9
<1> HIDE DEF H, j
<1>3. journal[t].expected = Main =>
          Follows(hist, Main, t, tree) /\ tree.ledger.counted[t] = Tree.ledger.counted[t]
  OBVIOUS
<1>4. Swap(t, tree, j, RefConflict(t))
  BY DEF j
<1> QED BY <1>1, <1>2, <1>3, <1>4, SwapKeeps DEF H

\* The push of the missing parts of a batch.
LEMMA CommitBatchKeeps == ASSUME JournalInv, NEW t \in Txns, CommitBatch(t) PROVE JournalInv'
<1>1. PICK i \in Batches(t) :
        /\ Uploading(t, i)
        /\ Swap(t, [Base(t) EXCEPT !.files = Base(t).files \cup Missing(t, i)],
                SetHeadBatch(journal[t], Main + 1, i,
                    SetNew(journal[t].batches[i], "committed", Main, Main + 1, Missing(t, i))),
                RefConflict(t))
  BY DEF CommitBatch, BatchCommitted, SetHeadBatch, SetNew
<1>2. Open(t) /\ journal[t].batches[i].state = "planned"
  BY <1>1 DEF Uploading, InBatch
<1> DEFINE c == journal[t].batches[i]
           X == Missing(t, i)
           b == BatchCommit("committed", Main, Main + 1, X, c.record)
<1>3. PICK tree : tree = [Base(t) EXCEPT !.files = Base(t).files \cup X]
  OBVIOUS
<1>4. /\ journal[t] \in Journals(t) /\ c \in BatchCommits
      /\ BatchOK(t, i, c, journal[t].expected, hist)
      /\ Main \in Nat /\ Main >= 1 /\ Main \in 1..Len(hist) /\ journal[t].expected \in 1..Main
      /\ hist \in Seq(Trees)
  BY <1>2, UnfinishedFacts, HeadFacts
<1>5. X \subseteq Parts[t][i] /\ X \subseteq Files /\ X \subseteq PartsOf(t)
  BY PlanTypes DEF Missing
<1>6. b \in BatchCommits /\ c.new \subseteq b.new
  BY <1>2, <1>4, <1>5 DEF BatchCommits, BatchStates, BatchCommit, BatchOK, Identified
<1>7. Swap(t, tree, WithBatch(t, journal[t].state, Main + 1, i, b), RefConflict(t))
  <2>1. SetNew(c, "committed", Main, Main + 1, X) = b
    BY <1>4, BatchUpdates
  <2> HIDE DEF b
  <2>2. \A n : SetHeadBatch(journal[t], n, i, b) = WithBatch(t, journal[t].state, n, i, b)
    BY <1>4, HeadUpdate DEF WithBatch
  <2> QED BY <1>1, <1>3, <2>1, <2>2
<1>8. ASSUME journal[t].expected = Main
      PROVE  /\ Follows(hist, Main, t, tree) /\ tree.ledger = Tree.ledger
             /\ tree.files \ Tree.files \subseteq b.new
             /\ BatchOK(t, i, b, Main + 1, Append(hist, tree))
  <2>1. Base(t) = Tree /\ Tree = hist[Main]
    BY <1>8 DEF Base, Tree
  <2>2. /\ Follows(hist, Main, t, tree) /\ tree.ledger = Tree.ledger
        /\ tree.files = Tree.files \cup X
    BY <1>3, <1>5, <2>1, FilesFollow
  <2>3. /\ Append(hist, tree)[Main + 1] = tree /\ Append(hist, tree)[Main] = hist[Main]
    BY <1>4, <2>2, AppendPrefix DEF Follows, Main
  <2>4. X = tree.files \ Tree.files /\ Parts[t][i] \subseteq tree.files
    BY <2>1, <2>2 DEF Missing
  <2>5. Main + 1 \in 1..(Main + 1) /\ Main \in 1..(Main + 1)
    BY <1>4
  <2>6. c.record = None
    BY <1>2, <1>4 DEF BatchOK, RecordOK
  <2>7. BatchOK(t, i, b, Main + 1, Append(hist, tree))
    BY <1>5, <2>1, <2>3, <2>4, <2>5, <2>6 DEF BatchOK, BatchCommit, Identified, RecordOK
  <2> QED BY <2>2, <2>4, <2>7 DEF BatchCommit
<1> HIDE DEF b
<1> QED BY <1>2, <1>6, <1>7, <1>8, BatchSwapKeeps

\* The push of a batch's record.
LEMMA CommitRecordKeeps == ASSUME JournalInv, NEW t \in Txns, CommitRecord(t) PROVE JournalInv'
<1>1. PICK i \in Batches(t) :
        /\ RecordDue(t, i) /\ RecordsAt(t, i) = {}
        /\ Swap(t, [Base(t) EXCEPT !.records = Base(t).records \cup {RecordOf(t, i)}],
                SetHeadBatch(journal[t], Main + 1, i,
                    SetRecord(journal[t].batches[i], "record_committed",
                        MarkCommitted({RecordOf(t, i)}))),
                RefConflict(t))
  BY DEF CommitRecord, RecordCommitted, SetHeadBatch, SetRecord
<1>2. Open(t) /\ journal[t].batches[i].state = "payload_verified"
  BY <1>1 DEF RecordDue, InBatch
<1> DEFINE c == journal[t].batches[i]
           r == RecordOf(t, i)
           record == MarkCommitted({r})
           b == BatchCommit("record_committed", c.parent, c.commit, c.new, record)
<1>3. PICK tree : tree = [Base(t) EXCEPT !.records = Base(t).records \cup {r}]
  OBVIOUS
<1>4. /\ journal[t] \in Journals(t) /\ c \in BatchCommits
      /\ BatchOK(t, i, c, journal[t].expected, hist)
      /\ Main \in Nat /\ Main >= 1 /\ Main \in 1..Len(hist) /\ journal[t].expected \in 1..Main
      /\ hist \in Seq(Trees) /\ Tree \in Trees
  BY <1>2, UnfinishedFacts, HeadFacts
<1>5. /\ r \in Records /\ r.txn = t /\ r.seq = i /\ r.parent = c.parent
      /\ r.commit = c.commit /\ r.new = c.new
  BY <1>4, PlanTypes DEF RecordOf, Records, BatchCommits
<1> HIDE DEF r
<1>6. /\ record \in RecordCommits /\ record # None /\ record.state = "committed"
      /\ record.parent = Main /\ record.commit = Main + 1 /\ record.new = {r}
  BY <1>4, <1>5 DEF RecordCommits, CommitStates, None, MarkCommitted
<1>7. Swap(t, tree, WithBatch(t, journal[t].state, Main + 1, i, b), RefConflict(t))
  <2>1. SetRecord(c, "record_committed", record) = b
    BY <1>4, BatchUpdates
  <2> HIDE DEF b
  <2>2. \A n : SetHeadBatch(journal[t], n, i, b) = WithBatch(t, journal[t].state, n, i, b)
    BY <1>4, HeadUpdate DEF WithBatch
  <2> QED BY <1>1, <1>3, <2>1, <2>2 DEF r
<1> HIDE DEF record
<1>8. b \in BatchCommits /\ c.new \subseteq b.new
  BY <1>4, <1>6 DEF BatchCommits, BatchStates, BatchCommit
<1>9. ASSUME journal[t].expected = Main
      PROVE  /\ Follows(hist, Main, t, tree) /\ tree.ledger = Tree.ledger
             /\ tree.files \ Tree.files \subseteq b.new
             /\ BatchOK(t, i, b, Main + 1, Append(hist, tree))
  <2>1. Base(t) = Tree /\ Tree = hist[Main]
    BY <1>9 DEF Base, Tree
  <2>2. /\ tree \in Trees /\ tree.records = Tree.records \cup {r}
        /\ tree.files = Tree.files /\ tree.index = Tree.index
        /\ tree.ledger = Tree.ledger /\ tree.receipt = Tree.receipt
    BY <1>3, <1>4, <1>5, <2>1 DEF Trees
  <2>3. Whole(Tree) /\ Truthful(hist, Tree) /\ Tree.ledger.base < Main
    BY <1>4, <2>1 DEF JournalInv, HistoryOK
  <2>4. /\ r.parent \in 1..Len(hist) /\ r.commit \in 1..Len(hist) /\ r.parent + 1 = r.commit
        /\ r.new = hist[r.commit].files \ hist[r.parent].files
    BY <1>2, <1>4, <1>5, <1>9 DEF BatchOK, Identified, Main
  <2>5. \A q \in Tree.records : ~(q.txn = t /\ q.seq = i)
    BY <1>1, <2>1 DEF RecordsAt
  <2>6. Truthful(hist, tree)
    BY <1>5, <2>2, <2>3, <2>4, <2>5 DEF Truthful
  <2>7. Whole(tree)
    BY <2>2, <2>3 DEF Whole
  <2>8. Tree.ledger.counted[t] \in Nat /\ Tree.ledger.base \in Nat
    BY <1>4 DEF Trees, Ledgers
  <2>9. Follows(hist, Main, t, tree)
    BY <1>4, <2>1, <2>2, <2>3, <2>6, <2>7, <2>8 DEF Follows
  <2>10. c.commit \in 1..Main /\ Append(hist, tree)[c.commit] = hist[c.commit]
    BY <1>2, <1>4, <1>9, <2>2, AppendPrefix DEF BatchOK, Identified, Main
  <2>11. /\ 1..Main \subseteq 1..(Main + 1) /\ Main + 1 \in 1..(Main + 1)
         /\ Main \in 1..(Main + 1)
    BY <1>4
  <2>12. c.parent \in 1..Main
    BY <1>2, <1>4, <1>9 DEF BatchOK, Identified
  <2>13. r = RecordFrom(t, i, b)
    BY DEF r, RecordOf, RecordFrom, BatchCommit
  <2>14. RecordOK(t, i, b, Main + 1)
    BY <1>6, <2>11, <2>13 DEF RecordOK, Identified, BatchCommit
  <2>15. BatchOK(t, i, b, Main + 1, Append(hist, tree))
    BY <1>2, <1>4, <2>10, <2>11, <2>12, <2>14 DEF BatchOK, BatchCommit, Identified
  <2> QED BY <2>2, <2>9, <2>15
<1> HIDE DEF b
<1> QED BY <1>2, <1>7, <1>8, <1>9, BatchSwapKeeps

-----------------------------------------------------------------------------
\* Metadata and projections

SetMetadata(j, m) == [j EXCEPT !.metadata = m]
SetStateMetadata(j, s, m) == [j EXCEPT !.state = s, !.metadata = m]
SetHeadMetadata(j, e, m) == [j EXCEPT !.expected = e, !.metadata = m]
SetAllMetadata(j, s, e, m) == [j EXCEPT !.state = s, !.expected = e, !.metadata = m]

LEMMA MetadataUpdates ==
    ASSUME NEW t, NEW j \in Journals(t), NEW s, NEW e, NEW m
    PROVE  /\ SetMetadata(j, m)
                = Checkpoint(j.state, j.expected, j.batches, m, j.discoverability)
           /\ SetStateMetadata(j, s, m)
                = Checkpoint(s, j.expected, j.batches, m, j.discoverability)
           /\ SetHeadMetadata(j, e, m) = Checkpoint(j.state, e, j.batches, m, j.discoverability)
           /\ SetAllMetadata(j, s, e, m) = Checkpoint(s, e, j.batches, m, j.discoverability)
<1>1. [j EXCEPT !.metadata = m]
        = Checkpoint(j.state, j.expected, j.batches, m, j.discoverability)
  BY DEF Journals, Checkpoint
<1>2. [Checkpoint(j.state, j.expected, j.batches, m, j.discoverability) EXCEPT !.state = s]
        = Checkpoint(s, j.expected, j.batches, m, j.discoverability)
  BY DEF Checkpoint
<1>3. [Checkpoint(j.state, j.expected, j.batches, m, j.discoverability) EXCEPT !.expected = e]
        = Checkpoint(j.state, e, j.batches, m, j.discoverability)
  BY DEF Checkpoint
<1>4. [Checkpoint(s, j.expected, j.batches, m, j.discoverability) EXCEPT !.expected = e]
        = Checkpoint(s, e, j.batches, m, j.discoverability)
  BY DEF Checkpoint
<1>5. /\ SetMetadata(j, m) = [j EXCEPT !.metadata = m]
      /\ SetStateMetadata(j, s, m) = [[j EXCEPT !.metadata = m] EXCEPT !.state = s]
      /\ SetHeadMetadata(j, e, m) = [[j EXCEPT !.metadata = m] EXCEPT !.expected = e]
      /\ SetAllMetadata(j, s, e, m)
           = [[[j EXCEPT !.metadata = m] EXCEPT !.state = s] EXCEPT !.expected = e]
  BY DEF Journals, SetMetadata, SetStateMetadata, SetHeadMetadata, SetAllMetadata
<1> QED BY <1>1, <1>2, <1>3, <1>4, <1>5

SetFinal(j, d) == [j EXCEPT !.discoverability = d]
SetStateFinal(j, s, d) == [j EXCEPT !.state = s, !.discoverability = d]
SetHeadFinal(j, e, d) == [j EXCEPT !.expected = e, !.discoverability = d]
SetAllFinal(j, s, e, d) == [j EXCEPT !.state = s, !.expected = e, !.discoverability = d]

LEMMA FinalUpdates ==
    ASSUME NEW t, NEW j \in Journals(t), NEW s, NEW e, NEW d
    PROVE  /\ SetFinal(j, d) = Checkpoint(j.state, j.expected, j.batches, j.metadata, d)
           /\ SetStateFinal(j, s, d) = Checkpoint(s, j.expected, j.batches, j.metadata, d)
           /\ SetHeadFinal(j, e, d) = Checkpoint(j.state, e, j.batches, j.metadata, d)
           /\ SetAllFinal(j, s, e, d) = Checkpoint(s, e, j.batches, j.metadata, d)
<1>1. [j EXCEPT !.discoverability = d]
        = Checkpoint(j.state, j.expected, j.batches, j.metadata, d)
  BY DEF Journals, Checkpoint
<1>2. [Checkpoint(j.state, j.expected, j.batches, j.metadata, d) EXCEPT !.state = s]
        = Checkpoint(s, j.expected, j.batches, j.metadata, d)
  BY DEF Checkpoint
<1>3. [Checkpoint(j.state, j.expected, j.batches, j.metadata, d) EXCEPT !.expected = e]
        = Checkpoint(j.state, e, j.batches, j.metadata, d)
  BY DEF Checkpoint
<1>4. [Checkpoint(s, j.expected, j.batches, j.metadata, d) EXCEPT !.expected = e]
        = Checkpoint(s, e, j.batches, j.metadata, d)
  BY DEF Checkpoint
<1>5. /\ SetFinal(j, d) = [j EXCEPT !.discoverability = d]
      /\ SetStateFinal(j, s, d) = [[j EXCEPT !.discoverability = d] EXCEPT !.state = s]
      /\ SetHeadFinal(j, e, d) = [[j EXCEPT !.discoverability = d] EXCEPT !.expected = e]
      /\ SetAllFinal(j, s, e, d)
           = [[[j EXCEPT !.discoverability = d] EXCEPT !.state = s] EXCEPT !.expected = e]
  BY DEF Journals, SetFinal, SetStateFinal, SetHeadFinal, SetAllFinal
<1> QED BY <1>1, <1>2, <1>3, <1>4, <1>5

LEMMA HeadFinalUpdate ==
    ASSUME NEW t, NEW j \in Journals(t), NEW e, NEW d
    PROVE  SetHeadFinal(j, e, d) = Checkpoint(j.state, e, j.batches, j.metadata, d)
  BY FinalUpdates

LEMMA StateFinalUpdate ==
    ASSUME NEW t, NEW j \in Journals(t), NEW s, NEW d
    PROVE  SetStateFinal(j, s, d) = Checkpoint(s, j.expected, j.batches, j.metadata, d)
  BY FinalUpdates

SetProjections(d, s, p, c) == [d EXCEPT !.state = s, !.parent = p, !.commit = c]
SetProjectionsNew(d, s, p, c, n) ==
    [d EXCEPT !.state = s, !.parent = p, !.commit = c, !.new = n]
SetProjectionsState(d, s) == [d EXCEPT !.state = s]

\* e differs from d only as a commit.
Recommitted(d, e, s, p, c, n) ==
    /\ e \in FinalCommits /\ e.state = s /\ e.parent = p /\ e.commit = c /\ e.new = n
    /\ e.index = d.index /\ e.ledger = d.ledger

LEMMA ProjectionUpdates ==
    ASSUME NEW d \in FinalCommits, NEW s \in CommitStates, NEW p \in Nat, NEW c \in Nat,
           NEW n \in SUBSET ProjectionFiles
    PROVE  /\ Recommitted(d, SetProjections(d, s, p, c), s, p, c, d.new)
           /\ Recommitted(d, SetProjectionsNew(d, s, p, c, n), s, p, c, n)
           /\ Recommitted(d, SetProjectionsState(d, s), s, d.parent, d.commit, d.new)
<1> HIDE DEF CommitStates, ProjectionFiles
<1>1. Recommitted(d, SetProjections(d, s, p, c), s, p, c, d.new)
  BY DEF SetProjections, FinalCommits, Recommitted
<1>2. Recommitted(d, SetProjectionsNew(d, s, p, c, n), s, p, c, n)
  BY DEF SetProjectionsNew, FinalCommits, Recommitted
<1>3. Recommitted(d, SetProjectionsState(d, s), s, d.parent, d.commit, d.new)
  BY DEF SetProjectionsState, FinalCommits, Recommitted
<1> QED BY <1>1, <1>2, <1>3

\* A checkpoint that keeps its batches, over the same or a longer history.
LEMMA RestChange ==
    ASSUME JournalInv, NEW t \in Txns, NEW H \in Seq(Trees), Prefix(hist, H), NEW j,
           j = Checkpoint(j.state, j.expected, journal[t].batches, j.metadata, j.discoverability),
           j.state \in TargetStates, j.expected \in 1..Len(H),
           journal[t].expected <= j.expected,
           j.metadata \in MetadataCommits \cup {None},
           j.discoverability \in FinalCommits \cup {None},
           MetadataOK(t, j.metadata, j.expected, H), ProjectionsOK(t, j, H),
           Committed(journal[t]) => Committed(j)
    PROVE  JournalOK(t, j, H) /\ Advances(t, j)
<1>1. /\ journal[t] \in Journals(t) /\ JournalOK(t, journal[t], hist)
      /\ journal[t].expected \in 1..Len(hist)
  BY DEF JournalInv, JournalOK
<1>2. j.batches = journal[t].batches
  BY DEF Checkpoint
<1>3. /\ journal[t].batches \in [Batches(t) -> BatchCommits]
      /\ \A k \in Batches(t) : journal[t].batches[k] \in BatchCommits
      /\ \A k \in Batches(t) : BatchOK(t, k, journal[t].batches[k], journal[t].expected, hist)
  BY <1>1 DEF Journals, JournalOK
<1>4. j.expected \in Nat /\ Len(H) \in Nat /\ hist \in Seq(Trees)
  BY LenProperties, HeadFacts
<1>5. j \in Journals(t)
  BY <1>3, <1>4 DEF Checkpoint, Journals
<1>6. \A k \in Batches(t) : BatchOK(t, k, j.batches[k], j.expected, H)
  BY <1>1, <1>2, <1>3, <1>4, CommitsGrow
<1>7. JournalOK(t, j, H)
  BY <1>2, <1>5, <1>6 DEF JournalOK
<1>8. Advances(t, j)
  BY <1>2 DEF Advances
<1> QED BY <1>7, <1>8

\* Nothing is projected before the metadata are verified.
LEMMA MetadataFacts ==
    ASSUME JournalInv, NEW t \in Txns, Uploaded(t),
           journal[t].metadata = None \/ journal[t].metadata.state # "remote_verified"
    PROVE  /\ Open(t) /\ journal[t] \in Journals(t) /\ journal[t].state \in OpenStates
           /\ journal[t].discoverability = None /\ ~Committed(journal[t])
           /\ journal[t].expected \in 1..Main /\ journal[t].expected \in Nat
           /\ MetadataOK(t, journal[t].metadata, journal[t].expected, hist)
           /\ journal[t].metadata \in MetadataCommits \cup {None}
           /\ hist \in Seq(Trees) /\ Main \in Nat /\ Main \in 1..Len(hist) /\ Prefix(hist, hist)
<1>1. JournalOK(t, journal[t], hist) /\ journal[t] \in Journals(t)
  BY DEF JournalInv, JournalOK
<1>2. journal[t].discoverability = None
  BY <1>1 DEF JournalOK, ProjectionsOK
<1>3. journal[t].state \in OpenStates
  BY <1>1 DEF Journals, TargetStates, OpenStates, Open, Uploaded
<1>4. /\ hist \in Seq(Trees) /\ Main \in Nat /\ Main \in 1..Len(hist) /\ Main = Len(hist)
      /\ journal[t].expected \in 1..Main
  BY HeadFacts DEF Main
<1>5. Prefix(hist, hist)
  BY <1>4 DEF Prefix
<1>6. journal[t].metadata \in MetadataCommits \cup {None}
  BY <1>1 DEF Journals
<1> QED BY <1>1, <1>2, <1>3, <1>4, <1>5, <1>6 DEF JournalOK, Committed, Uploaded

\* A checkpoint of the metadata, over the same or a longer history.
LEMMA MetadataChange ==
    ASSUME JournalInv, NEW t \in Txns, Uploaded(t),
           journal[t].metadata = None \/ journal[t].metadata.state # "remote_verified",
           NEW state \in OpenStates, NEW H \in Seq(Trees), Prefix(hist, H),
           NEW head \in 1..Len(H), journal[t].expected <= head,
           NEW m \in MetadataCommits, MetadataOK(t, m, head, H), NEW j,
           j = Checkpoint(state, head, journal[t].batches, m, journal[t].discoverability)
    PROVE  /\ JournalOK(t, j, H) /\ Advances(t, j) /\ Lasts(t, j, H) /\ ~Committed(j)
           /\ j.state # "abandoned" /\ j.expected = head
<1>1. ~Committed(journal[t]) /\ journal[t].discoverability = None
  BY MetadataFacts
<1>2. j.discoverability = None /\ j.state = state
  BY <1>1 DEF Checkpoint
<1>3. ~Committed(j) /\ state \in TargetStates /\ state # "abandoned"
  BY <1>2 DEF Committed, OpenStates, TargetStates
<1>4. ProjectionsOK(t, j, H)
  BY <1>2, <1>3 DEF ProjectionsOK, OpenStates
<1>5. JournalOK(t, j, H) /\ Advances(t, j) /\ j.expected = head
  <2>1. /\ j.state = state /\ j.expected = head /\ j.metadata = m
        /\ j = Checkpoint(j.state, j.expected, journal[t].batches, j.metadata,
                          j.discoverability)
    BY DEF Checkpoint
  <2>2. j.metadata \in MetadataCommits \cup {None} /\ j.discoverability \in FinalCommits \cup {None}
    BY <1>2, <2>1
  <2> QED BY <1>1, <1>3, <1>4, <2>1, <2>2, RestChange
<1> QED BY <1>2, <1>3, <1>5 DEF Lasts

\* The metadata are planned.
LEMMA StageMetadataKeeps == ASSUME JournalInv, NEW t \in Txns, StageMetadata(t) PROVE JournalInv'
<1>1. /\ Uploaded(t) /\ journal[t].metadata = None
      /\ Save(t, SetMetadata(journal[t], Planned)) /\ UNCHANGED Remote
  BY DEF StageMetadata, SetMetadata
<1>2. /\ journal[t] \in Journals(t) /\ journal[t].state \in OpenStates
      /\ journal[t].expected \in 1..Len(hist) /\ journal[t].expected \in Nat
      /\ hist \in Seq(Trees) /\ Prefix(hist, hist)
  BY <1>1, MetadataFacts DEF Main
<1>3. Planned \in MetadataCommits /\ MetadataOK(t, Planned, journal[t].expected, hist)
  BY DEF Planned, MetadataCommits, CommitStates, MetadataOK, Identified
<1>4. PICK j : j = SetMetadata(journal[t], Planned)
  OBVIOUS
<1>5. j = Checkpoint(journal[t].state, journal[t].expected, journal[t].batches, Planned,
                     journal[t].discoverability)
  BY <1>2, <1>4, MetadataUpdates
<1>6. JournalOK(t, j, hist) /\ Advances(t, j) /\ Lasts(t, j, hist) /\ ~Committed(j)
      /\ j.state # "abandoned"
  BY <1>1, <1>2, <1>3, <1>5, MetadataChange
<1> QED BY <1>1, <1>4, <1>6, SaveKeeps

\* The metadata are found at the head.
LEMMA ReuseMetadataKeeps == ASSUME JournalInv, NEW t \in Txns, ReuseMetadata(t) PROVE JournalInv'
<1> DEFINE m == MarkReused(Main)
<1>1. /\ Uploaded(t) /\ journal[t].metadata.state = "planned"
      /\ Documents[t] \subseteq hist[Main].files
      /\ Save(t, SetAllMetadata(journal[t], "remote_verified", Main, m)) /\ UNCHANGED Remote
  BY DEF ReuseMetadata, InMetadata, SetAllMetadata
<1>2. /\ journal[t] \in Journals(t) /\ journal[t].expected \in 1..Main
      /\ hist \in Seq(Trees) /\ Prefix(hist, hist) /\ Main \in Nat /\ Main \in 1..Len(hist)
  BY <1>1, MetadataFacts
<1>3. m \in MetadataCommits /\ MetadataOK(t, m, Main, hist)
  <2>1. /\ m.state = "remote_verified" /\ m.parent = Main /\ m.commit = Main /\ m.new = {}
        /\ m \in MetadataCommits /\ Main \in 1..Main
    BY <1>2 DEF MetadataCommits, CommitStates, MarkReused
  <2> HIDE DEF m
  <2> QED BY <1>1, <2>1 DEF MetadataOK, Identified
<1> HIDE DEF m
<1>4. PICK j : j = SetAllMetadata(journal[t], "remote_verified", Main, m)
  OBVIOUS
<1>5. j = Checkpoint("remote_verified", Main, journal[t].batches, m, journal[t].discoverability)
  BY <1>2, <1>4, MetadataUpdates
<1>6. JournalOK(t, j, hist) /\ Advances(t, j) /\ Lasts(t, j, hist) /\ ~Committed(j)
      /\ j.state # "abandoned"
  BY <1>1, <1>2, <1>3, <1>5, MetadataChange DEF OpenStates
<1> QED BY <1>1, <1>4, <1>6, SaveKeeps

\* The head has moved without them.
LEMMA RebaseMetadataKeeps == ASSUME JournalInv, NEW t \in Txns, RebaseMetadata(t) PROVE JournalInv'
<1>1. /\ Uploaded(t) /\ journal[t].metadata.state = "planned"
      /\ Save(t, RefConflict(t)) /\ UNCHANGED Remote
  BY DEF RebaseMetadata, InMetadata
<1>2. Open(t) /\ journal[t].discoverability = None
  BY <1>1, MetadataFacts
<1> QED BY <1>1, <1>2, ConflictKeeps

\* The push of the missing documents.
LEMMA CommitMetadataKeeps == ASSUME JournalInv, NEW t \in Txns, CommitMetadata(t) PROVE JournalInv'
<1> DEFINE X == Documents[t] \ Base(t).files
           m == MarkCommitted(X)
<1>1. /\ Uploaded(t) /\ journal[t].metadata.state = "planned"
      /\ Swap(t, [Base(t) EXCEPT !.files = Base(t).files \cup X],
              SetHeadMetadata(journal[t], Main + 1, m), RefConflict(t))
  BY DEF CommitMetadata, InMetadata, MetadataCommitted, SetHeadMetadata
<1>2. /\ Open(t) /\ journal[t] \in Journals(t) /\ journal[t].expected \in 1..Main
      /\ journal[t].state \in OpenStates
      /\ hist \in Seq(Trees) /\ Main \in Nat /\ Main \in 1..Len(hist)
      /\ ~Committed(journal[t]) /\ journal[t].discoverability = None
  BY <1>1, MetadataFacts
<1>3. PICK tree : tree = [Base(t) EXCEPT !.files = Base(t).files \cup X]
  OBVIOUS
<1>4. PICK j : j = SetHeadMetadata(journal[t], Main + 1, m)
  OBVIOUS
<1>5. X \subseteq Documents[t] /\ X \subseteq Files
  BY PlanTypes
<1>6. /\ m \in MetadataCommits /\ m # None
      /\ m.state = "committed" /\ m.parent = Main /\ m.commit = Main + 1 /\ m.new = X
  BY <1>2, <1>5 DEF MetadataCommits, CommitStates, None, MarkCommitted
<1>7. Swap(t, tree, j, RefConflict(t))
  BY <1>1, <1>3, <1>4
<1> HIDE DEF m, X
<1>8. ASSUME journal[t].expected = Main
      PROVE  /\ Follows(hist, Main, t, tree)
             /\ JournalOK(t, j, Append(hist, tree)) /\ Advances(t, j)
             /\ j.expected = Main + 1 /\ j.state # "abandoned"
             /\ Lasts(t, j, Append(hist, tree)) /\ ~Committed(j)
             /\ tree.ledger.counted[t] = Tree.ledger.counted[t]
             /\ tree.ledger.counted[t] <= Tree.ledger.counted[t] + 1
             /\ \A f \in tree.files \ Tree.files : f \in Documents[t]
  <2>1. Base(t) = Tree /\ Tree = hist[Main] /\ Tree \in Trees
    BY <1>8, HeadFacts DEF Base, Tree
  <2>2. /\ Follows(hist, Main, t, tree) /\ tree.ledger = Tree.ledger
        /\ tree.files = Tree.files \cup X
    BY <1>3, <1>5, <2>1, FilesFollow
  <2>3. PICK H : H = Append(hist, tree)
    OBVIOUS
  <2>4. /\ H \in Seq(Trees) /\ Len(H) = Main + 1 /\ H[Main + 1] = tree /\ Prefix(hist, H)
    BY <1>2, <2>2, <2>3, AppendPrefix DEF Follows, Main
  <2>5. Documents[t] \subseteq tree.files
    BY <2>1, <2>2 DEF X
  <2>6. /\ Main \in 1..(Main + 1) /\ Main + 1 \in 1..(Main + 1) /\ Main + 1 # 0
        /\ journal[t].expected <= Main + 1
    BY <1>2, <1>8
  <2>7. MetadataOK(t, m, Main + 1, H)
    BY <1>5, <1>6, <2>4, <2>5, <2>6 DEF MetadataOK, Identified
  <2>8. j = Checkpoint(journal[t].state, Main + 1, journal[t].batches, m,
                       journal[t].discoverability)
    BY <1>2, <1>4, MetadataUpdates
  <2>9. /\ JournalOK(t, j, H) /\ Advances(t, j) /\ Lasts(t, j, H) /\ ~Committed(j)
        /\ j.state # "abandoned" /\ j.expected = Main + 1
    BY <1>1, <1>2, <1>6, <2>4, <2>6, <2>7, <2>8, MetadataChange
  <2>10. Tree.ledger.counted[t] \in Nat
    BY <2>1 DEF Trees, Ledgers
  <2> QED BY <1>5, <2>1, <2>2, <2>3, <2>9, <2>10
<1> QED BY <1>2, <1>7, <1>8, SwapKeeps

\* The committed documents are verified.
LEMMA VerifyMetadataKeeps == ASSUME JournalInv, NEW t \in Txns, VerifyMetadata(t) PROVE JournalInv'
<1> DEFINE m == [journal[t].metadata EXCEPT !.state = "remote_verified"]
<1>1. /\ Uploaded(t) /\ journal[t].metadata.state = "committed"
      /\ Save(t, SetStateMetadata(journal[t], "remote_verified", m)) /\ UNCHANGED Remote
  BY DEF VerifyMetadata, InMetadata, SetStateMetadata
<1>2. /\ journal[t] \in Journals(t) /\ journal[t].expected \in 1..Len(hist)
      /\ journal[t].expected \in Nat
      /\ hist \in Seq(Trees) /\ Prefix(hist, hist)
      /\ MetadataOK(t, journal[t].metadata, journal[t].expected, hist)
      /\ journal[t].metadata \in MetadataCommits \cup {None}
  BY <1>1, MetadataFacts DEF Main
<1>3. journal[t].metadata # None /\ journal[t].metadata \in MetadataCommits
  BY <1>1, <1>2 DEF None
<1>4. /\ m \in MetadataCommits /\ m.parent = journal[t].metadata.parent
      /\ m.commit = journal[t].metadata.commit
      /\ m.new = journal[t].metadata.new /\ m.state = "remote_verified"
  BY <1>3 DEF MetadataCommits, CommitStates
<1>5. MetadataOK(t, m, journal[t].expected, hist)
  <2> HIDE DEF m
  <2> QED BY <1>1, <1>2, <1>3, <1>4 DEF MetadataOK, Identified
<1> HIDE DEF m
<1>6. PICK j : j = SetStateMetadata(journal[t], "remote_verified", m)
  OBVIOUS
<1>7. j = Checkpoint("remote_verified", journal[t].expected, journal[t].batches, m,
                     journal[t].discoverability)
  BY <1>2, <1>6, MetadataUpdates
<1>8. JournalOK(t, j, hist) /\ Advances(t, j) /\ Lasts(t, j, hist) /\ ~Committed(j)
      /\ j.state # "abandoned"
  BY <1>1, <1>2, <1>4, <1>5, <1>7, MetadataChange DEF OpenStates
<1> QED BY <1>1, <1>6, <1>8, SaveKeeps

\* A transaction whose metadata are verified and which is still open.
LEMMA FinalFacts ==
    ASSUME JournalInv, NEW t \in Txns, InMetadata(t, "remote_verified")
    PROVE  /\ Open(t) /\ journal[t] \in Journals(t) /\ journal[t].state \in OpenStates
           /\ journal[t].metadata # None /\ journal[t].metadata \in MetadataCommits
           /\ journal[t].metadata.state = "remote_verified"
           /\ \A i \in Batches(t) : journal[t].batches[i].state = "remote_verified"
           /\ MetadataOK(t, journal[t].metadata, journal[t].expected, hist)
           /\ ProjectionsOK(t, journal[t], hist)
           /\ journal[t].discoverability \in FinalCommits \cup {None}
           /\ journal[t].expected \in 1..Main /\ journal[t].expected \in Nat
           /\ journal[t].expected \in 1..Len(hist)
           /\ hist \in Seq(Trees) /\ Main \in Nat /\ Main \in 1..Len(hist) /\ Prefix(hist, hist)
<1>1. /\ Uploaded(t) /\ Open(t) /\ journal[t].metadata.state = "remote_verified"
      /\ \A i \in Batches(t) : journal[t].batches[i].state = "remote_verified"
  BY DEF InMetadata, Uploaded
<1>2. JournalOK(t, journal[t], hist) /\ journal[t] \in Journals(t)
  BY DEF JournalInv, JournalOK
<1>3. /\ journal[t].state \in OpenStates
      /\ journal[t].discoverability \in FinalCommits \cup {None}
  BY <1>1, <1>2 DEF Journals, TargetStates, OpenStates, Open
<1>4. journal[t].metadata # None
  BY <1>1 DEF None
<1>5. journal[t].metadata \in MetadataCommits
  BY <1>2, <1>4 DEF Journals
<1>6. /\ hist \in Seq(Trees) /\ Main \in Nat /\ Main \in 1..Len(hist) /\ Main = Len(hist)
      /\ journal[t].expected \in 1..Main /\ journal[t].expected \in 1..Len(hist)
  BY HeadFacts DEF Main
<1>7. Prefix(hist, hist)
  BY <1>6 DEF Prefix
<1> QED BY <1>1, <1>2, <1>3, <1>4, <1>5, <1>6, <1>7 DEF JournalOK

\* Planned projections at the expected head.
LEMMA PlannedFacts ==
    ASSUME JournalInv, NEW t \in Txns, InDiscoverability(t, "planned")
    PROVE  LET d == journal[t].discoverability
               base == hist[journal[t].expected] IN
           /\ d # None /\ d \in FinalCommits /\ d.state = "planned" /\ ~Committed(journal[t])
           /\ d.index = base.index \cup {t} /\ d.ledger.base = journal[t].expected
           /\ d.ledger.counted = [base.ledger.counted EXCEPT ![t] = base.ledger.counted[t] + 1]
           /\ base \in Trees /\ d.ledger.counted[t] = base.ledger.counted[t] + 1
           /\ base.ledger.counted[t] \in Nat
           /\ \A u \in Txns \ {t} : d.ledger.counted[u] = base.ledger.counted[u]
<1> DEFINE d == journal[t].discoverability
           base == hist[journal[t].expected]
<1>1. InMetadata(t, "remote_verified") /\ d.state = "planned"
  BY DEF InDiscoverability
<1>2. /\ ProjectionsOK(t, journal[t], hist) /\ d \in FinalCommits \cup {None}
      /\ journal[t].expected \in 1..Len(hist) /\ hist \in Seq(Trees)
  BY <1>1, FinalFacts
<1>3. d # None
  BY <1>1 DEF None
<1>4. /\ d.index = base.index \cup {t} /\ d.ledger.base = journal[t].expected
      /\ d.ledger.counted = [base.ledger.counted EXCEPT ![t] = base.ledger.counted[t] + 1]
  BY <1>1, <1>2, <1>3 DEF ProjectionsOK
<1>5. base \in Trees
  BY <1>2, ElementOfSeq
<1>6. base.ledger.counted \in [Txns -> Nat]
  BY <1>5 DEF Trees, Ledgers
<1>7. /\ d.ledger.counted[t] = base.ledger.counted[t] + 1 /\ base.ledger.counted[t] \in Nat
      /\ \A u \in Txns \ {t} : d.ledger.counted[u] = base.ledger.counted[u]
  BY <1>4, <1>6
<1> QED BY <1>1, <1>2, <1>3, <1>4, <1>5, <1>7 DEF Committed

\* The additions to a ledger are numbers.
LEMMA LedgerType ==
    ASSUME JournalInv, NEW t \in Txns, InMetadata(t, "remote_verified")
    PROVE  UpdatedLedger(t) \in Ledgers
<1> DEFINE new == {i \in Recorded(t) : journal[t].batches[i].record.new # {}}
<1>1. /\ journal[t] \in Journals(t) /\ journal[t].metadata \in MetadataCommits
      /\ journal[t].expected \in 1..Len(hist) /\ hist \in Seq(Trees) /\ journal[t].expected \in Nat
  BY FinalFacts
<1>2. Base(t) \in Trees
  BY <1>1, ElementOfSeq DEF Base
<1>3. Base(t).ledger.bytes \in Nat /\ Base(t).ledger.counted \in [Txns -> Nat]
  BY <1>2 DEF Trees, Ledgers
<1>4. Cardinality(NewPayload(t)) \in Nat
  <2>1. \A i \in Batches(t) : journal[t].batches[i].new \subseteq Files
    BY <1>1 DEF Journals, BatchCommits
  <2>2. NewPayload(t) \subseteq Files
    BY <2>1 DEF NewPayload
  <2> QED BY <2>2, JournalAssumption, FS_Subset, FS_CardinalityType
<1>5. Cardinality(new) \in Nat
  <2>1. new \subseteq 1..Len(Parts[t])
    BY DEF Recorded, Batches
  <2>2. Len(Parts[t]) \in Nat
    BY JournalAssumption, LenProperties
  <2>3. IsFiniteSet(1..Len(Parts[t]))
    BY <2>2, FS_Interval
  <2> QED BY <2>1, <2>3, FS_Subset, FS_CardinalityType
<1>6. Cardinality(journal[t].metadata.new) \in Nat
  <2>1. journal[t].metadata.new \subseteq Files
    BY <1>1 DEF MetadataCommits
  <2> QED BY <2>1, JournalAssumption, FS_Subset, FS_CardinalityType
<1>7. NewMetadata(t) \in Nat
  BY <1>5, <1>6 DEF NewMetadata
<1>8. Base(t).ledger.bytes + Cardinality(NewPayload(t)) + NewMetadata(t) + Projections \in Nat
  BY <1>3, <1>4, <1>7 DEF Projections
<1>9. [Base(t).ledger.counted EXCEPT ![t] = Base(t).ledger.counted[t] + 1] \in [Txns -> Nat]
  BY <1>3
<1> QED BY <1>1, <1>8, <1>9 DEF UpdatedLedger, Ledgers

\* Index, ledger and receipt are planned over the expected head.
LEMMA StageDiscoverabilityKeeps ==
    ASSUME JournalInv, NEW t \in Txns, StageDiscoverability(t) PROVE JournalInv'
<1> DEFINE d == [state |-> "planned", parent |-> 0, commit |-> 0, new |-> {},
                 index |-> Base(t).index \cup {t}, ledger |-> UpdatedLedger(t)]
<1>1. /\ InMetadata(t, "remote_verified") /\ journal[t].discoverability = None
      /\ Save(t, SetFinal(journal[t], d)) /\ UNCHANGED Remote
  BY DEF StageDiscoverability, SetFinal
<1>2. /\ journal[t] \in Journals(t) /\ journal[t].metadata # None
      /\ journal[t].metadata \in MetadataCommits
      /\ journal[t].metadata.state = "remote_verified" /\ journal[t].state \in OpenStates
      /\ \A i \in Batches(t) : journal[t].batches[i].state = "remote_verified"
      /\ MetadataOK(t, journal[t].metadata, journal[t].expected, hist)
      /\ journal[t].expected \in 1..Len(hist) /\ journal[t].expected \in Nat
      /\ hist \in Seq(Trees) /\ Prefix(hist, hist)
  BY <1>1, FinalFacts
<1>3. UpdatedLedger(t) \in Ledgers
  BY <1>1, LedgerType
<1>4. Base(t).index \subseteq Txns
  <2>1. Base(t) \in Trees
    BY <1>2, ElementOfSeq DEF Base
  <2> QED BY <2>1 DEF Trees
<1>5. /\ d \in FinalCommits /\ d # None /\ d.state = "planned"
      /\ d.parent = 0 /\ d.commit = 0 /\ d.new = {}
      /\ d.index = Base(t).index \cup {t} /\ d.ledger = UpdatedLedger(t)
  BY <1>3, <1>4 DEF FinalCommits, CommitStates, None
<1> HIDE DEF d
<1>6. /\ d.ledger.base = journal[t].expected
      /\ d.ledger.counted = [Base(t).ledger.counted EXCEPT ![t] = Base(t).ledger.counted[t] + 1]
  BY <1>5 DEF UpdatedLedger
<1>7. PICK j : j = SetFinal(journal[t], d)
  OBVIOUS
<1>8. j = Checkpoint(journal[t].state, journal[t].expected, journal[t].batches,
                     journal[t].metadata, d)
  BY <1>2, <1>7, FinalUpdates
<1>9. /\ j.state = journal[t].state /\ j.expected = journal[t].expected
      /\ j.batches = journal[t].batches /\ j.metadata = journal[t].metadata
      /\ j.discoverability = d
      /\ j = Checkpoint(j.state, j.expected, journal[t].batches, j.metadata, j.discoverability)
  BY <1>8 DEF Checkpoint
<1>10. ~Committed(j) /\ ~Committed(journal[t])
  BY <1>1, <1>5, <1>9 DEF Committed
<1>11. j.state \in TargetStates /\ j.state # "receipt_complete" /\ j.state # "abandoned"
  BY <1>2, <1>9 DEF OpenStates, TargetStates
<1>12. ProjectionsOK(t, j, hist)
  BY <1>2, <1>5, <1>6, <1>9, <1>10, <1>11 DEF ProjectionsOK, Base, Identified
<1>13. JournalOK(t, j, hist) /\ Advances(t, j)
  BY <1>2, <1>5, <1>9, <1>10, <1>11, <1>12, RestChange
<1>14. Lasts(t, j, hist)
  BY <1>10 DEF Lasts
<1> QED BY <1>1, <1>7, <1>10, <1>11, <1>13, <1>14, SaveKeeps

\* Projections over a tree.
LEMMA DiscoverableFields ==
    ASSUME NEW t \in Txns, NEW T \in Trees, journal[t].discoverability \in FinalCommits
    PROVE  LET d == journal[t].discoverability
               D == Discoverable(t, T) IN
           /\ D \in Trees /\ D.files = T.files /\ D.records = T.records
           /\ D.index = d.index /\ D.ledger = d.ledger
           /\ D.receipt[t] = d.index /\ \A u \in Txns \ {t} : D.receipt[u] = T.receipt[u]
<1> DEFINE d == journal[t].discoverability
           x == [T.receipt EXCEPT ![t] = d.index]
           T1 == [T EXCEPT !.index = d.index]
           T2 == [T1 EXCEPT !.ledger = d.ledger]
<1>1. d.index \in SUBSET Txns /\ d.ledger \in Ledgers
  BY DEF FinalCommits
<1>2. x \in [Txns -> SUBSET Txns] /\ x[t] = d.index /\ \A u \in Txns \ {t} : x[u] = T.receipt[u]
  BY <1>1 DEF Trees
<1>3. Discoverable(t, T) = [T2 EXCEPT !.receipt = x]
  BY DEF Discoverable, Trees
<1> HIDE DEF x
<1>4. /\ T1 \in Trees /\ T1.files = T.files /\ T1.records = T.records
      /\ T1.index = d.index
  BY <1>1 DEF Trees
<1> HIDE DEF T1
<1>5. /\ T2 \in Trees /\ T2.files = T1.files /\ T2.records = T1.records
      /\ T2.index = T1.index /\ T2.ledger = d.ledger
  BY <1>1, <1>4 DEF Trees
<1> HIDE DEF T2
<1>6. PICK D : D = [T2 EXCEPT !.receipt = x]
  OBVIOUS
<1>7. /\ D \in Trees /\ D.files = T2.files /\ D.records = T2.records
      /\ D.index = T2.index /\ D.ledger = T2.ledger /\ D.receipt = x
  BY <1>2, <1>5, <1>6 DEF Trees
<1> QED BY <1>2, <1>3, <1>4, <1>5, <1>6, <1>7

\* The projections are found at the head: an unanswered push was executed.
LEMMA ReuseReceiptKeeps == ASSUME JournalInv, NEW t \in Txns, ReuseReceipt(t) PROVE JournalInv'
<1> DEFINE d == journal[t].discoverability
           e == SetProjections(d, "remote_verified", Main, Main)
           base == hist[journal[t].expected]
<1>1. /\ InDiscoverability(t, "planned") /\ FilesMatch(t, Main)
      /\ Save(t, SetAllFinal(journal[t], "receipt_complete", Main, e)) /\ UNCHANGED Remote
  BY DEF ReuseReceipt, SetAllFinal, SetProjections
<1>2. /\ InMetadata(t, "remote_verified") /\ d \in FinalCommits /\ ~Committed(journal[t])
      /\ d.index = base.index \cup {t} /\ d.ledger.base = journal[t].expected
      /\ d.ledger.counted[t] = base.ledger.counted[t] + 1 /\ base.ledger.counted[t] \in Nat
  BY <1>1, PlannedFacts DEF InDiscoverability
<1>3. /\ journal[t] \in Journals(t) /\ journal[t].metadata # None
      /\ journal[t].metadata \in MetadataCommits
      /\ journal[t].metadata.state = "remote_verified"
      /\ \A i \in Batches(t) : journal[t].batches[i].state = "remote_verified"
      /\ MetadataOK(t, journal[t].metadata, journal[t].expected, hist)
      /\ journal[t].expected \in 1..Main /\ journal[t].expected \in 1..Len(hist)
      /\ hist \in Seq(Trees) /\ Prefix(hist, hist) /\ Main \in Nat /\ Main \in 1..Len(hist)
  BY <1>2, FinalFacts
<1>4. /\ e \in FinalCommits /\ e.state = "remote_verified"
      /\ e.parent = Main /\ e.commit = Main /\ e.new = d.new
      /\ e.index = d.index /\ e.ledger = d.ledger
  <2>1. Main \in Nat /\ "remote_verified" \in CommitStates /\ d \in FinalCommits
    BY <1>2, <1>3 DEF CommitStates
  <2> HIDE DEF d
  <2> QED BY <2>1, ProjectionUpdates DEF Recommitted
<1> HIDE DEF e
<1>5. e # None
  BY <1>4 DEF None
<1>6. hist[Main].index = d.index /\ hist[Main].ledger = d.ledger /\ hist[Main].receipt[t] = d.index
  <2>1. hist[Main] \in Trees /\ Discoverable(t, hist[Main]) = hist[Main]
    BY <1>1, <1>3, ElementOfSeq DEF FilesMatch
  <2> QED BY <1>2, <2>1, DiscoverableFields
<1>7. journal[t].expected < Main
  BY <1>2, <1>3, <1>6 DEF JournalInv, HistoryOK
<1>8. PICK j : j = SetAllFinal(journal[t], "receipt_complete", Main, e)
  OBVIOUS
<1>9. j = Checkpoint("receipt_complete", Main, journal[t].batches, journal[t].metadata, e)
  BY <1>3, <1>8, FinalUpdates
<1>10. /\ j.state = "receipt_complete" /\ j.expected = Main
       /\ j.batches = journal[t].batches /\ j.metadata = journal[t].metadata
       /\ j.discoverability = e
       /\ j = Checkpoint(j.state, j.expected, journal[t].batches, j.metadata, j.discoverability)
  BY <1>9 DEF Checkpoint
<1>11. Committed(j)
  BY <1>4, <1>5, <1>10 DEF Committed
<1>12. Main \in 1..Main
  BY <1>3
<1>13. ProjectionsOK(t, j, hist)
  <2>1. e.new \subseteq ProjectionFiles
    BY <1>4 DEF FinalCommits
  <2> QED BY <1>3, <1>4, <1>5, <1>10, <1>12, <2>1 DEF ProjectionsOK, Identified
<1>14. MetadataOK(t, j.metadata, Main, hist)
  <2>1. journal[t].expected <= Main /\ journal[t].metadata \in MetadataCommits \cup {None}
    BY <1>3, <1>7
  <2> QED BY <1>3, <1>10, <2>1, CommitsGrow
<1>15. JournalOK(t, j, hist) /\ Advances(t, j)
  <2>1. /\ j.state \in TargetStates /\ j.metadata \in MetadataCommits \cup {None}
        /\ j.discoverability \in FinalCommits \cup {None} /\ journal[t].expected <= j.expected
        /\ j.expected \in 1..Len(hist)
    BY <1>3, <1>4, <1>7, <1>10 DEF TargetStates
  <2> QED BY <1>3, <1>10, <1>11, <1>13, <1>14, <2>1, RestChange
<1>16. Lasts(t, j, hist)
  <2> SUFFICES ASSUME NEW k \in Main..Len(hist)
               PROVE  /\ t \in hist[k].index /\ hist[k].receipt[t] = e.index
                      /\ hist[k].ledger.counted[t] >= 1
    BY <1>4, <1>10 DEF Lasts
  <2>1. k = Main
    BY <1>3 DEF Main
  <2>2. d.ledger.counted[t] >= 1 /\ t \in d.index
    BY <1>2
  <2> QED BY <1>4, <1>6, <2>1, <2>2
<1>17. \A p \in flying : p.txn = t => p.base < j.discoverability.commit
  <2> SUFFICES ASSUME NEW p \in flying, p.txn = t PROVE p.base < Main
    BY <1>4, <1>10
  <2>1. p.base \in 1..journal[t].expected
    BY DEF JournalInv, FlyingOK
  <2> QED BY <1>3, <1>7, <2>1
<1>18. j.state # "abandoned"
  BY <1>10
<1> QED BY <1>1, <1>8, <1>15, <1>16, <1>17, <1>18, SaveKeeps

\* Another commit came between: the projections are planned again.
LEMMA DiscardDiscoverabilityKeeps ==
    ASSUME JournalInv, NEW t \in Txns, DiscardDiscoverability(t) PROVE JournalInv'
<1>1. InDiscoverability(t, "planned") /\ Save(t, Discarded(t)) /\ UNCHANGED Remote
  BY DEF DiscardDiscoverability
<1>2. ~Committed(journal[t]) /\ Open(t)
  BY <1>1, PlannedFacts, FinalFacts DEF InDiscoverability
<1> QED BY <1>1, <1>2, ConflictKeeps

\* A whole artifact is made discoverable.
LEMMA DiscoverableFollows ==
    ASSUME JournalInv, NEW t \in Txns, InDiscoverability(t, "planned"),
           journal[t].expected = Main
    PROVE  /\ Follows(hist, Main, t, Discoverable(t, Tree))
           /\ Discoverable(t, Tree).files = Tree.files
<1> DEFINE d == journal[t].discoverability
           D == Discoverable(t, Tree)
<1>1. Tree \in Trees /\ Tree = hist[Main] /\ Main \in 1..Len(hist) /\ Main \in Nat /\ Main = Len(hist)
  BY HeadFacts DEF Tree, Main
<1>2. /\ InMetadata(t, "remote_verified") /\ d \in FinalCommits
      /\ d.index = Tree.index \cup {t} /\ d.ledger.base = Main
      /\ d.ledger.counted[t] = Tree.ledger.counted[t] + 1 /\ Tree.ledger.counted[t] \in Nat
      /\ \A u \in Txns \ {t} : d.ledger.counted[u] = Tree.ledger.counted[u]
  BY <1>1, PlannedFacts DEF InDiscoverability
<1>3. /\ D \in Trees /\ D.files = Tree.files /\ D.records = Tree.records
      /\ D.index = d.index /\ D.ledger = d.ledger
      /\ D.receipt[t] = d.index /\ \A u \in Txns \ {t} : D.receipt[u] = Tree.receipt[u]
  BY <1>1, <1>2, DiscoverableFields
<1> HIDE DEF D
<1>4. Whole(Tree) /\ Truthful(hist, Tree)
  BY <1>1 DEF JournalInv, HistoryOK
<1>5. \A k \in 1..Main : hist[k].files \subseteq Tree.files
  BY <1>1 DEF JournalInv, HistoryOK
<1>6. PartsOf(t) \subseteq Tree.files
  <2> SUFFICES ASSUME NEW i \in Batches(t) PROVE Parts[t][i] \subseteq Tree.files
    BY DEF PartsOf
  <2>1. BatchOK(t, i, journal[t].batches[i], Main, hist)
    BY DEF JournalInv, JournalOK
  <2>2. journal[t].batches[i].state = "remote_verified"
    BY <1>2, FinalFacts
  <2> QED BY <1>5, <2>1, <2>2 DEF BatchOK, Identified
<1>7. Documents[t] \subseteq Tree.files
  <2>1. /\ MetadataOK(t, journal[t].metadata, Main, hist) /\ journal[t].metadata # None
        /\ journal[t].metadata.state = "remote_verified"
    BY <1>2, FinalFacts
  <2> QED BY <1>5, <2>1 DEF MetadataOK, Identified
<1>8. Whole(D)
  <2> SUFFICES ASSUME NEW u \in D.index
               PROVE  PartsOf(u) \cup Documents[u] \subseteq D.files /\ D.receipt[u] # NoReceipt
    BY DEF Whole
  <2>1. CASE u = t
    BY <1>2, <1>3, <1>6, <1>7, <2>1 DEF NoReceipt
  <2>2. CASE u # t
    <3>1. u \in Tree.index /\ u \in Txns
      BY <1>1, <1>2, <1>3, <2>2 DEF Trees
    <3> QED BY <1>3, <1>4, <2>2, <3>1 DEF Whole
  <2> QED BY <2>1, <2>2
<1>9. Truthful(hist, D)
  BY <1>3, <1>4 DEF Truthful
<1>10. Follows(hist, Main, t, D)
  BY <1>1, <1>2, <1>3, <1>8, <1>9 DEF Follows
<1> QED BY <1>3, <1>10 DEF D

\* The push of index, ledger and receipt.
LEMMA CommitDiscoverabilityKeeps ==
    ASSUME JournalInv, NEW t \in Txns, CommitDiscoverability(t) PROVE JournalInv'
<1>0. PICK n : n = Main + 1
  OBVIOUS
<1> DEFINE d == journal[t].discoverability
           e == SetProjectionsNew(d, "committed", Main, n, ProjectionFiles)
<1>1. /\ InDiscoverability(t, "planned")
      /\ Swap(t, Discoverable(t, Base(t)), SetHeadFinal(journal[t], n, e), Discarded(t))
  BY <1>0 DEF CommitDiscoverability, DiscoverabilityCommitted, SetHeadFinal, SetProjectionsNew
<1>2. /\ InMetadata(t, "remote_verified") /\ d \in FinalCommits /\ ~Committed(journal[t])
      /\ d.index = hist[journal[t].expected].index \cup {t}
      /\ d.ledger.counted[t] = hist[journal[t].expected].ledger.counted[t] + 1
      /\ hist[journal[t].expected].ledger.counted[t] \in Nat
  BY <1>1, PlannedFacts DEF InDiscoverability
<1>3. /\ journal[t] \in Journals(t) /\ journal[t].metadata # None /\ Open(t)
      /\ journal[t].metadata \in MetadataCommits /\ journal[t].state \in OpenStates
      /\ journal[t].metadata.state = "remote_verified"
      /\ \A i \in Batches(t) : journal[t].batches[i].state = "remote_verified"
      /\ MetadataOK(t, journal[t].metadata, journal[t].expected, hist)
      /\ hist \in Seq(Trees) /\ Main \in Nat /\ Main \in 1..Len(hist)
  BY <1>2, FinalFacts
<1>4. /\ e \in FinalCommits /\ e.state = "committed"
      /\ e.parent = Main /\ e.commit = n /\ e.new = ProjectionFiles
      /\ e.index = d.index /\ e.ledger = d.ledger
  <2>1. n \in Nat /\ Main \in Nat /\ "committed" \in CommitStates
    BY <1>0, <1>3 DEF CommitStates
  <2>2. d \in FinalCommits
    BY <1>2
  <2>3. PICK files : files = ProjectionFiles /\ files \in SUBSET ProjectionFiles
    OBVIOUS
  <2> HIDE DEF d
  <2> QED BY <2>1, <2>2, <2>3, ProjectionUpdates DEF Recommitted
<1> HIDE DEF e
<1>5. e # None
  BY <1>4 DEF None
<1>6. PICK tree : tree = Discoverable(t, Base(t))
  OBVIOUS
<1>7. PICK j : j = SetHeadFinal(journal[t], n, e)
  OBVIOUS
<1>8. Swap(t, tree, j, Discarded(t))
  BY <1>1, <1>6, <1>7
<1>9. j = Checkpoint(journal[t].state, n, journal[t].batches, journal[t].metadata, e)
  BY <1>3, <1>7, HeadFinalUpdate
<1>10. /\ j.state = journal[t].state /\ j.expected = n
       /\ j.batches = journal[t].batches /\ j.metadata = journal[t].metadata
       /\ j.discoverability = e
       /\ j = Checkpoint(j.state, j.expected, journal[t].batches, j.metadata, j.discoverability)
  BY <1>9 DEF Checkpoint
<1>11. Committed(j)
  BY <1>4, <1>5, <1>10 DEF Committed
<1>12. j.state \in TargetStates /\ j.state # "receipt_complete" /\ j.state # "abandoned"
  BY <1>3, <1>10 DEF OpenStates, TargetStates
<1>13. ASSUME journal[t].expected = Main
       PROVE  /\ Follows(hist, Main, t, tree)
              /\ JournalOK(t, j, Append(hist, tree)) /\ Advances(t, j)
              /\ Lasts(t, j, Append(hist, tree))
              /\ tree.ledger.counted[t] <= Tree.ledger.counted[t] + 1
              /\ tree.files = Tree.files
  <2>1. tree = Discoverable(t, Tree) /\ Tree = hist[Main] /\ Tree \in Trees
    BY <1>6, <1>13, HeadFacts DEF Base, Tree
  <2>2. Follows(hist, Main, t, tree) /\ tree.files = Tree.files
    BY <1>1, <1>13, <2>1, DiscoverableFollows
  <2>3. /\ tree.index = d.index /\ tree.ledger = d.ledger /\ tree.receipt[t] = d.index
    BY <1>2, <2>1, DiscoverableFields
  <2>4. PICK H : H = Append(hist, tree)
    OBVIOUS
  <2>5. /\ H \in Seq(Trees) /\ Len(H) = Main + 1 /\ H[Main + 1] = tree /\ Prefix(hist, H)
    BY <1>3, <2>2, <2>4, AppendPrefix DEF Follows, Main
  <2>6. /\ Main + 1 \in 1..(Main + 1) /\ Main <= Main + 1 /\ Main + 1 \in Nat
        /\ Main \in 1..(Main + 1)
    BY <1>3
  <2>7. ProjectionsOK(t, j, H)
    BY <1>0, <1>3, <1>4, <1>5, <1>10, <1>12, <2>6 DEF ProjectionsOK, Identified
  <2>8. MetadataOK(t, j.metadata, Main + 1, H)
    <3>1. journal[t].metadata \in MetadataCommits \cup {None}
      BY <1>3
    <3> QED BY <1>3, <1>10, <1>13, <2>5, <2>6, <3>1, CommitsGrow
  <2>9. JournalOK(t, j, H) /\ Advances(t, j)
    <3>1. /\ j.metadata \in MetadataCommits \cup {None}
          /\ j.discoverability \in FinalCommits \cup {None} /\ journal[t].expected <= j.expected
          /\ j.expected \in 1..Len(H)
      BY <1>0, <1>3, <1>4, <1>10, <1>13, <2>5, <2>6
    <3>2. MetadataOK(t, j.metadata, j.expected, H)
      BY <1>0, <1>10, <2>8
    <3> QED BY <1>10, <1>11, <1>12, <2>5, <2>7, <3>1, <3>2, RestChange
  <2>10. Lasts(t, j, H)
    <3> SUFFICES ASSUME NEW k \in (Main + 1)..Len(H)
                 PROVE  /\ t \in H[k].index /\ H[k].receipt[t] = e.index
                        /\ H[k].ledger.counted[t] >= 1
      BY <1>0, <1>4, <1>10 DEF Lasts
    <3>1. k = Main + 1
      BY <1>3, <2>5
    <3>2. d.ledger.counted[t] >= 1 /\ t \in d.index
      BY <1>2
    <3> QED BY <1>4, <2>3, <2>5, <3>1, <3>2
  <2>11. tree.ledger.counted[t] <= Tree.ledger.counted[t] + 1
    BY <1>2, <1>13, <2>1, <2>3
  <2> QED BY <2>2, <2>4, <2>9, <2>10, <2>11
<1> QED BY <1>0, <1>2, <1>3, <1>4, <1>8, <1>10, <1>11, <1>12, <1>13, SwapKeeps

\* The committed projections are verified.
LEMMA VerifyReceiptKeeps == ASSUME JournalInv, NEW t \in Txns, VerifyReceipt(t) PROVE JournalInv'
<1> DEFINE d == journal[t].discoverability
           e == SetProjectionsState(d, "remote_verified")
<1>1. /\ InMetadata(t, "remote_verified") /\ d.state = "committed"
      /\ Save(t, SetStateFinal(journal[t], "receipt_complete", e)) /\ UNCHANGED Remote
  BY DEF VerifyReceipt, InDiscoverability, SetStateFinal, SetProjectionsState
<1>2. /\ journal[t] \in Journals(t) /\ journal[t].metadata # None
      /\ journal[t].metadata \in MetadataCommits
      /\ journal[t].metadata.state = "remote_verified"
      /\ \A i \in Batches(t) : journal[t].batches[i].state = "remote_verified"
      /\ MetadataOK(t, journal[t].metadata, journal[t].expected, hist)
      /\ ProjectionsOK(t, journal[t], hist) /\ d \in FinalCommits \cup {None}
      /\ journal[t].expected \in 1..Len(hist) /\ journal[t].expected \in Nat
      /\ hist \in Seq(Trees) /\ Prefix(hist, hist)
  BY <1>1, FinalFacts
<1>3. d # None /\ d \in FinalCommits
  BY <1>1, <1>2 DEF None
<1>4. Committed(journal[t]) /\ d.commit \in 1..journal[t].expected /\ d.commit \in Nat
  BY <1>1, <1>2, <1>3 DEF Committed, ProjectionsOK
<1>5. /\ e \in FinalCommits /\ e.state = "remote_verified"
      /\ e.parent = d.parent /\ e.commit = d.commit /\ e.new = d.new /\ e.index = d.index
  <2>1. "remote_verified" \in CommitStates /\ d.parent \in Nat /\ d.new \in SUBSET ProjectionFiles
    BY <1>3 DEF CommitStates, FinalCommits
  <2> HIDE DEF d
  <2> QED BY <1>3, <1>4, <2>1, ProjectionUpdates DEF Recommitted
<1> HIDE DEF e
<1>6. e # None
  BY <1>5 DEF None
<1>7. PICK j : j = SetStateFinal(journal[t], "receipt_complete", e)
  OBVIOUS
<1>8. j = Checkpoint("receipt_complete", journal[t].expected, journal[t].batches,
                     journal[t].metadata, e)
  BY <1>2, <1>7, StateFinalUpdate
<1>9. /\ j.state = "receipt_complete" /\ j.expected = journal[t].expected
      /\ j.batches = journal[t].batches /\ j.metadata = journal[t].metadata
      /\ j.discoverability = e
      /\ j = Checkpoint(j.state, j.expected, journal[t].batches, j.metadata, j.discoverability)
  BY <1>8 DEF Checkpoint
<1>10. Committed(j)
  BY <1>5, <1>6, <1>9 DEF Committed
<1>11. ProjectionsOK(t, j, hist)
  <2>1. d.parent \in 1..journal[t].expected /\ d.new \subseteq ProjectionFiles
    BY <1>1, <1>2, <1>3 DEF ProjectionsOK, Identified
  <2> QED BY <1>2, <1>4, <1>5, <1>6, <1>9, <2>1 DEF ProjectionsOK, Identified
<1>12. JournalOK(t, j, hist) /\ Advances(t, j)
  <2>1. /\ j.state \in TargetStates /\ j.metadata \in MetadataCommits \cup {None}
        /\ j.discoverability \in FinalCommits \cup {None} /\ journal[t].expected <= j.expected
        /\ j.expected \in 1..Len(hist) /\ MetadataOK(t, j.metadata, j.expected, hist)
    BY <1>2, <1>5, <1>9 DEF TargetStates
  <2> QED BY <1>2, <1>9, <1>10, <1>11, <2>1, RestChange
<1>13. Lasts(t, j, hist)
  <2>1. Lasts(t, journal[t], hist)
    BY DEF JournalInv
  <2> QED BY <1>4, <1>5, <1>9, <2>1 DEF Lasts
<1>14. \A p \in flying : p.txn = t => p.base < j.discoverability.commit
  BY <1>4, <1>5, <1>9 DEF JournalInv, FlyingOK
<1>15. j.state # "abandoned"
  BY <1>9
<1> QED BY <1>1, <1>7, <1>12, <1>13, <1>14, <1>15, SaveKeeps

\* The operator gives up; the branch has no receipt.
LEMMA AbandonKeeps == ASSUME JournalInv, NEW t \in Txns, Abandon(t) PROVE JournalInv'
<1>1. PICK j : /\ j = [journal[t] EXCEPT !.state = "abandoned"]
               /\ Save(t, j) /\ UNCHANGED Remote
  BY DEF Abandon
<1>2. Open(t) /\ Tree.receipt[t] = NoReceipt
  BY DEF Abandon, Tree
<1>3. /\ journal[t] \in Journals(t) /\ JournalOK(t, journal[t], hist)
      /\ journal[t].state \in TargetStates
  BY DEF JournalInv, JournalOK, Journals
<1>4. /\ j.state = "abandoned" /\ j.expected = journal[t].expected
      /\ j.batches = journal[t].batches /\ j.metadata = journal[t].metadata
      /\ j.discoverability = journal[t].discoverability /\ j \in Journals(t)
  BY <1>1, <1>3 DEF Journals, TargetStates
<1>5. Committed(j) <=> Committed(journal[t])
  BY <1>4 DEF Committed
<1>6. ProjectionsOK(t, j, hist)
  BY <1>2, <1>3, <1>4, <1>5 DEF JournalOK, ProjectionsOK, Open
<1>7. JournalOK(t, j, hist)
  BY <1>3, <1>4, <1>6 DEF JournalOK
<1>8. Advances(t, j)
  <2>1. journal[t].expected \in Nat
    BY <1>3 DEF Journals
  <2> QED BY <1>4, <1>5, <2>1 DEF Advances
<1>9. Lasts(t, j, hist)
  <2>1. Lasts(t, journal[t], hist)
    BY DEF JournalInv
  <2> QED BY <1>4, <1>5, <2>1 DEF Lasts
<1>10. Committed(j) => \A p \in flying : p.txn = t => p.base < j.discoverability.commit
  BY <1>4, <1>5 DEF JournalInv, FlyingOK
<1> QED BY <1>1, <1>2, <1>7, <1>8, <1>9, <1>10, SaveKeeps

-----------------------------------------------------------------------------
\* The invariant and what follows from it

LEMMA JournalInvInit == Init => JournalInv
<1> SUFFICES ASSUME Init PROVE JournalInv
  OBVIOUS
<1> DEFINE tree == [files |-> {}, records |-> {}, index |-> {},
                    ledger |-> [bytes |-> 0, base |-> 0, counted |-> [t \in Txns |-> 0]],
                    receipt |-> [t \in Txns |-> NoReceipt]]
           batch == [state |-> "planned", parent |-> 0, commit |-> 0, new |-> {}, record |-> None]
<1>1. /\ hist = <<tree>> /\ flying = {} /\ faults = 0 /\ lost = {} /\ landed = {}
      /\ journal = [t \in Txns |->
            [state |-> "planned", expected |-> 1, batches |-> [i \in Batches(t) |-> batch],
             metadata |-> None, discoverability |-> None]]
  BY DEF Init
<1>2. /\ tree \in Trees /\ tree.files = {} /\ tree.records = {} /\ tree.index = {}
      /\ tree.ledger.base = 0 /\ tree.ledger.counted = [t \in Txns |-> 0]
      /\ tree.receipt = [t \in Txns |-> NoReceipt]
  BY DEF Trees, Ledgers, NoReceipt
<1> HIDE DEF tree
<1>3. /\ hist \in Seq(Trees) /\ Len(hist) = 1 /\ hist[1] = tree /\ Tree = tree /\ Main = 1
  BY <1>1, <1>2 DEF Tree, Main
<1>4. HistoryOK(hist)
  <2>1. \A t \in Txns : tree.ledger.counted[t] = 0
    BY <1>2
  <2>2. Whole(tree) /\ Truthful(hist, tree)
    BY <1>2 DEF Whole, Truthful
  <2> QED BY <1>2, <1>3, <2>1, <2>2 DEF HistoryOK
<1>5. batch \in BatchCommits /\ batch.state = "planned"
      /\ batch.parent = 0 /\ batch.commit = 0 /\ batch.new = {} /\ batch.record = None
  BY DEF BatchCommits, BatchStates
<1> HIDE DEF batch
<1>6. ASSUME NEW t \in Txns
      PROVE  JournalOK(t, journal[t], hist) /\ ~Committed(journal[t])
             /\ journal[t].state # "abandoned"
  <2>1. /\ journal[t].state = "planned" /\ journal[t].expected = 1
        /\ journal[t].metadata = None /\ journal[t].discoverability = None
        /\ journal[t].batches = [i \in Batches(t) |-> batch] /\ journal[t] \in Journals(t)
    BY <1>1, <1>5 DEF Journals, TargetStates
  <2>2. ~Committed(journal[t])
    BY <2>1 DEF Committed
  <2>3. ProjectionsOK(t, journal[t], hist) /\ MetadataOK(t, None, 1, hist)
    BY <2>1, <2>2 DEF ProjectionsOK, MetadataOK
  <2>4. \A i \in Batches(t) : BatchOK(t, i, batch, 1, hist)
    BY <1>5 DEF BatchOK, Identified, RecordOK
  <2> QED BY <1>3, <2>1, <2>2, <2>3, <2>4 DEF JournalOK
<1>7. \A t \in Txns : Lasts(t, journal[t], hist) /\ CountedByOwn(t)
  BY <1>2, <1>3, <1>6 DEF Lasts, CountedByOwn
<1>8. PayloadClaimed /\ NoMisleadingAbandon
  BY <1>2, <1>3, <1>6 DEF PayloadClaimed, NoMisleadingAbandon
<1>9. journal = [t \in Txns |-> journal[t]]
  BY <1>1
<1> QED BY <1>1, <1>4, <1>6, <1>7, <1>8, <1>9 DEF JournalInv

LEMMA JournalInvNext == JournalInv /\ [Next]_vars => JournalInv'
<1> SUFFICES ASSUME JournalInv, [Next]_vars PROVE JournalInv'
  OBVIOUS
<1>1. ASSUME NEW t \in Txns, Advance(t) PROVE JournalInv'
  BY <1>1, StartKeeps, ReuseBatchKeeps, CommitBatchKeeps, StageRecordKeeps, ReuseRecordKeeps,
     CommitRecordKeeps, VerifyRecordKeeps, StageMetadataKeeps, ReuseMetadataKeeps,
     RebaseMetadataKeeps, CommitMetadataKeeps, VerifyMetadataKeeps, StageDiscoverabilityKeeps,
     ReuseReceiptKeeps, DiscardDiscoverabilityKeeps, CommitDiscoverabilityKeeps,
     VerifyReceiptKeeps DEF Advance
<1>2. ASSUME NEW t \in Txns, Abandon(t) PROVE JournalInv'
  BY <1>2, AbandonKeeps
<1>3. ASSUME NEW p \in flying, LateApply(p) PROVE JournalInv'
  BY <1>3, LateApplyKeeps
<1>4. CASE UNCHANGED vars
  <2>1. Tree' = Tree
    BY <1>4 DEF vars, Tree, Main
  <2> QED BY <1>4, <2>1 DEF vars, JournalInv, FlyingOK, CountedByOwn, PayloadClaimed, NewPayload,
             NoMisleadingAbandon
<1> QED BY <1>1, <1>2, <1>3, <1>4 DEF Next

LEMMA JournalSafe == Spec => []JournalInv
  BY JournalInvInit, JournalInvNext, PTL DEF Spec

\* Every checkpoint passes PublicationTransactionJournal::validate, at whatever point a
\* run was interrupted and whatever answer was lost.
THEOREM CheckpointsAlwaysValid == Spec => []CheckpointsValid
<1>1. JournalInv => CheckpointsValid
  <2> SUFFICES ASSUME JournalInv, NEW t \in Txns
               PROVE  LET j == journal[t] IN
        /\ j.state \in TargetStates
        /\ j.expected \in 1..Main
        /\ \A i \in Batches(t) : BatchValid(t, i)
        /\ j.metadata # None => CommitValid(j.metadata, Documents[t])
        /\ j.discoverability # None =>
              /\ CommitValid(j.discoverability, ProjectionFiles)
              /\ j.metadata # None /\ j.metadata.state = "remote_verified"
              /\ (j.discoverability.state = "remote_verified") <=> Complete(t)
        /\ Complete(t) => j.discoverability # None
    BY DEF CheckpointsValid, TargetStates
  <2> DEFINE j == journal[t]
  <2>1. /\ JournalOK(t, j, hist) /\ j \in Journals(t) /\ j.expected \in 1..Main /\ Main \in Nat
    BY HeadFacts DEF JournalInv, JournalOK, Main
  <2>2. j.state \in TargetStates /\ j.metadata \in MetadataCommits \cup {None}
        /\ j.discoverability \in FinalCommits \cup {None}
        /\ \A i \in Batches(t) : j.batches[i] \in BatchCommits
    BY <2>1 DEF Journals
  <2>3. 1..j.expected \subseteq Commits /\ 0 \notin 1..j.expected /\ 0 \in Commits
    BY <2>1 DEF Commits
  <2>4. ASSUME NEW c, c.state \in CommitStates, NEW files, c.new \subseteq files,
               Identified(c, j.expected)
        PROVE  CommitValid(c, files)
    BY <2>3, <2>4 DEF CommitValid, Identified
  <2>5. ASSUME NEW i \in Batches(t) PROVE BatchValid(t, i)
    <3> DEFINE b == j.batches[i]
    <3>1. BatchOK(t, i, b, j.expected, hist) /\ b \in BatchCommits
      BY <2>1, <2>2 DEF JournalOK
    <3>2. b.state \in BatchStates /\ b.record \in RecordCommits \cup {None}
      BY <3>1 DEF BatchCommits
    <3>3. /\ b.parent \in Commits /\ b.commit \in Commits
          /\ IF b.state = "planned" THEN b.parent = 0 /\ b.commit = 0 /\ b.new = {}
                                    ELSE b.parent # 0 /\ b.commit # 0
          /\ b.new \subseteq Parts[t][i]
      BY <2>3, <3>1 DEF BatchOK, Identified
    <3>4. RecordOf(t, i) = RecordFrom(t, i, b)
      BY DEF RecordOf, RecordFrom
    <3>5. b.record # None => CommitValid(b.record, {RecordOf(t, i)})
      <4>1. b.record # None => b.record.state \in CommitStates
        BY <3>2 DEF RecordCommits
      <4>2. b.record # None => /\ Identified(b.record, j.expected)
                               /\ b.record.new \subseteq {RecordOf(t, i)}
        BY <3>1, <3>4 DEF BatchOK, RecordOK
      <4> QED BY <2>4, <4>1, <4>2
    <3>6. \/ b.state \in {"planned", "committed"} /\ b.record = None
          \/ /\ b.record # None
             /\ <<b.state, b.record.state>> \in {<<"payload_verified", "planned">>,
                                                 <<"record_committed", "committed">>,
                                                 <<"remote_verified", "remote_verified">>}
          \/ b.state = "remote_verified" /\ b.record = None
      BY <3>1, <3>2 DEF BatchOK, RecordOK, BatchStates
    <3> QED BY <3>3, <3>5, <3>6 DEF BatchValid
  <2>6. j.metadata # None => CommitValid(j.metadata, Documents[t])
    <3>1. j.metadata # None => j.metadata.state \in CommitStates
      BY <2>2 DEF MetadataCommits
    <3>2. j.metadata # None => Identified(j.metadata, j.expected) /\ j.metadata.new \subseteq Documents[t]
      BY <2>1 DEF JournalOK, MetadataOK
    <3> QED BY <2>4, <3>1, <3>2
  <2>7. /\ j.discoverability # None =>
              /\ CommitValid(j.discoverability, ProjectionFiles)
              /\ j.metadata # None /\ j.metadata.state = "remote_verified"
              /\ (j.discoverability.state = "remote_verified") <=> Complete(t)
        /\ Complete(t) => j.discoverability # None
    <3>1. j.discoverability # None => j.discoverability.state \in CommitStates
      BY <2>2 DEF FinalCommits
    <3>2. j.discoverability # None => /\ Identified(j.discoverability, j.expected)
                                      /\ j.discoverability.new \subseteq ProjectionFiles
      BY <2>1 DEF JournalOK, ProjectionsOK
    <3>3. j.discoverability # None => CommitValid(j.discoverability, ProjectionFiles)
      BY <2>4, <3>1, <3>2
    <3> QED BY <2>1, <3>3 DEF JournalOK, ProjectionsOK, Complete
  <2> QED BY <2>1, <2>2, <2>5, <2>6, <2>7
<1> QED BY <1>1, JournalSafe, PTL

\* An artifact in the index at the head is there with all its parts, its documents and a
\* receipt.
THEOREM DiscoverableAlwaysWhole == Spec => []DiscoverableIsWhole
<1>1. JournalInv => DiscoverableIsWhole
  BY HeadFacts DEF JournalInv, HistoryOK, Whole, DiscoverableIsWhole
<1> QED BY <1>1, JournalSafe, PTL

\* What a complete journal claims stays at the head, whoever commits later.
THEOREM CompletionAlwaysLasts == Spec => []CompletionLasts
<1>1. JournalInv => CompletionLasts
  <2> SUFFICES ASSUME JournalInv, NEW t \in Txns, Complete(t)
               PROVE  /\ t \in Tree.index
                      /\ Tree.receipt[t] = journal[t].discoverability.index
                      /\ Tree.ledger.counted[t] >= 1
    BY DEF CompletionLasts
  <2>1. JournalOK(t, journal[t], hist) /\ Lasts(t, journal[t], hist)
    BY DEF JournalInv
  <2>2. Committed(journal[t])
    BY <2>1 DEF JournalOK, ProjectionsOK, Complete, Committed
  <2>3. Len(hist) \in journal[t].discoverability.commit..Len(hist)
    <3>1. /\ journal[t].discoverability.commit \in 1..journal[t].expected
          /\ journal[t].expected \in 1..Len(hist) /\ Len(hist) \in Nat
      BY <2>1, <2>2, LenProperties, HeadFacts DEF JournalOK, ProjectionsOK
    <3> QED BY <3>1
  <2> QED BY <2>1, <2>2, <2>3, HeadFacts DEF Lasts
<1> QED BY <1>1, JournalSafe, PTL

\* A record names the commit that introduced its parts, and no other content has its path.
THEOREM RecordsAlwaysTellTruth == Spec => []RecordsTellTruth
<1>1. JournalInv => RecordsTellTruth
  BY HeadFacts DEF JournalInv, HistoryOK, Truthful, RecordsTellTruth
<1> QED BY <1>1, JournalSafe, PTL

\* No part on the branch is unaccounted for, unless the answer to its push was lost.
THEOREM PayloadAlwaysClaimed == Spec => []PayloadClaimed
<1>1. JournalInv => PayloadClaimed
  BY DEF JournalInv
<1> QED BY <1>1, JournalSafe, PTL

\* Without a lost answer no transaction is counted twice.
THEOREM LedgerAlwaysCountsOnce == Spec => []LedgerCountsOnce
<1>1. JournalInv => LedgerCountsOnce
  BY DEF JournalInv, CountedByOwn, LedgerCountsOnce
<1> QED BY <1>1, JournalSafe, PTL

\* A journal is abandoned with a receipt on the branch only if a push is executed after it
\* had failed.
THEOREM AbandonNeverMisleads == Spec => []NoMisleadingAbandon
<1>1. JournalInv => NoMisleadingAbandon
  BY DEF JournalInv
<1> QED BY <1>1, JournalSafe, PTL
=============================================================================
