------------------------ MODULE FamilyPublicationProofs ------------------------
(***************************************************************************)
(* Proofs about FamilyPublication for every destination: any drafts, any   *)
(* publishers, any cut into batches, any number of faults.                 *)
(***************************************************************************)
EXTENDS FamilyPublication, Enumerations, SequenceTheorems

-----------------------------------------------------------------------------
\* Trees, with the destination s as a parameter: what holds of a tree holds of it
\* wherever it is (on main, in a publisher's memory or in a push).

KeysOf(s) == {s.draft[d].key : d \in DOMAIN s.draft}
BatchesOf(s) == [drafts : SUBSET DOMAIN s.draft, second : Nat]
Entries(s) == [draft : DOMAIN s.draft, txn : BatchesOf(s)]
Indexes(s) == [KeysOf(s) -> Entries(s) \cup {NoEntry}]
Ledgers == [payload : Nat, metadata : Nat, history : Nat]
Trees(s) ==
    [objects : SUBSET Nat, attestations : SUBSET [draft : Nat, second : Nat],
     encodings : SUBSET Nat, manifests : SUBSET Nat,
     records : SUBSET [drafts : SUBSET Nat, second : Nat], index : Indexes(s), ledger : Ledgers \cup {NoLedger},
     blobs : Nat]

\* The payload objects and the encoding of d are there.
Stored(s, t, d) == s.draft[d].objects \subseteq t.objects /\ d \in t.encodings

\* Published(t, d)
Complete(s, t, d) ==
    Stored(s, t, d) /\ d \in t.manifests /\ \E r \in t.records : d \in r.drafts

\* d is published, with its attestation in the batch B.
Certified(s, t, B, d) == Complete(s, t, d) /\ Attestation(d, B.second) \in t.attestations

\* The files of a batch.
FilesOf(s, B) ==
    {File("object", o) : o \in UNION {s.draft[d].objects : d \in B.drafts}}
        \cup {File("attestation", Attestation(d, B.second)) : d \in B.drafts}
        \cup {File("encoding", d) : d \in B.drafts} \cup {File("index", 0)}
        \cup {File("manifest", d) : d \in B.drafts} \cup {File("record", B)}

\* The files that were there before there was a ledger fit.
LegacyFits(s) == s.legacy = {} \/ Cardinality(FilesOf(s, Batch(s.legacy, 0))) <= s.capacity

\* IndexedObjectsReachable, RecordProvesBatch and LedgerCoversHistory of one tree;
\* a tree without ledger can be given one.
Reachable(s, t) ==
    \A k \in KeysOf(s) : t.index[k] # NoEntry => Stored(s, t, t.index[k].draft)
Proves(s, t) == \A B \in t.records : \A d \in B.drafts : Certified(s, t, B, d)
Covers(s, t) ==
    LET metadata == Cardinality(t.attestations) + Cardinality(t.encodings)
                    + Cardinality(t.manifests) + Cardinality(t.records)
                    + IF \A k \in KeysOf(s) : t.index[k] = NoEntry THEN 0 ELSE 1
    IN  /\ LegacyFits(s) => t.blobs <= s.capacity
        /\ IF t.ledger = NoLedger
           THEN Cardinality(t.objects) + metadata = t.blobs /\ metadata \in Nat
           ELSE /\ t.ledger.payload = Cardinality(t.objects)
                /\ t.ledger.payload + t.ledger.metadata = t.blobs

TreeOK(s, t) ==
    /\ t \in Trees(s) /\ IsFiniteSet(t.objects)
    /\ Reachable(s, t) /\ Proves(s, t) /\ Covers(s, t)

\* f may take the place of the live entry e.
Follows(s, e, f) ==
    e # NoEntry => f # NoEntry /\ s.draft[f.draft].version >= s.draft[e.draft].version

\* u may follow t on main.
Grows(s, t, u) ==
    /\ t.objects \subseteq u.objects /\ t.attestations \subseteq u.attestations
    /\ t.encodings \subseteq u.encodings /\ t.manifests \subseteq u.manifests
    /\ t.records \subseteq u.records
    /\ \A k \in KeysOf(s) : Follows(s, t.index[k], u.index[k])

\* Dominates(e, d), with an assurance that is at least that of d
Outranks(s, e, d) ==
    /\ s.draft[e].key = s.draft[d].key /\ s.draft[e].content = s.draft[d].content
    /\ s.draft[e].reader = s.draft[d].reader
    /\ s.draft[e].version >= s.draft[d].version
    /\ s.draft[d].deps \subseteq s.draft[e].deps
    /\ ~(s.draft[d].closure \/ s.draft[d].required)
    /\ s.draft[e].assurance >= s.draft[d].assurance

\* d is on main, or one that dominates it and is as assured.
Kept(s, t, d) ==
    \/ Complete(s, t, d)
    \/ \E e \in DOMAIN s.draft : Complete(s, t, e) /\ Outranks(s, e, d)

\* The place of a file in a publication.
Rank(f) ==
    CASE f.kind = "object" -> 1 [] f.kind = "attestation" -> 2 [] f.kind = "encoding" -> 3
      [] f.kind = "index" -> 4 [] f.kind = "manifest" -> 5 [] f.kind = "record" -> 6

\* What remains to be committed of B on top of t: the index may follow that of t and
\* names only drafts of B or what is stored, every file is there or in a commit's part,
\* and the parts are in order.
JobOK(s, B, t, j) ==
    /\ B \in BatchesOf(s)
    /\ j = [index |-> j.index, batches |-> j.batches] /\ j.index \in Indexes(s)
    /\ j.batches \in Seq(SUBSET FilesOf(s, B)) /\ j.batches # <<>>
    /\ \A k \in KeysOf(s) :
          /\ Follows(s, t.index[k], j.index[k])
          /\ j.index[k] # NoEntry =>
                j.index[k].draft \in B.drafts \/ Stored(s, t, j.index[k].draft)
    /\ \A i \in DOMAIN j.batches : IsFiniteSet(j.batches[i])
    /\ \A f \in FilesOf(s, B) :
          Has(t, f, j.index) \/ \E i \in DOMAIN j.batches : f \in j.batches[i]
    /\ \A i, m \in DOMAIN j.batches : i < m =>
          \A f \in j.batches[i], g \in j.batches[m] : Rank(f) <= Rank(g)

-----------------------------------------------------------------------------
\* Growth

\* What the assumption on a destination says about its drafts.
LEMMA DraftsTyped ==
    ASSUME NEW s \in Shards
    PROVE  /\ DOMAIN s.draft \in SUBSET Nat /\ IsFiniteSet(DOMAIN s.draft)
           /\ \A d \in DOMAIN s.draft :
                 /\ s.draft[d].key \in KeysOf(s) /\ s.draft[d].version \in Nat
                 /\ s.draft[d].content \in Nat /\ Cardinality(s.draft[d].deps) \in Nat
                 /\ s.draft[d].objects \in SUBSET Nat /\ IsFiniteSet(s.draft[d].objects)
           /\ s.capacity \in Nat /\ s.batchParts \in Nat \ {0}
<1>1. /\ DOMAIN s.draft \in SUBSET Nat /\ IsFiniteSet(DOMAIN s.draft)
      /\ \A d \in DOMAIN s.draft :
            /\ s.draft[d] \in DraftRecords
            /\ IsFiniteSet(s.draft[d].objects) /\ IsFiniteSet(s.draft[d].deps)
      /\ s.capacity \in Nat /\ s.batchParts \in Nat \ {0}
  BY ShardAssumption
<1>2. \A d \in DOMAIN s.draft : Cardinality(s.draft[d].deps) \in Nat
  BY <1>1, FS_CardinalityType
<1>3. QED
  BY <1>1, <1>2 DEF KeysOf, DraftRecords

\* An entry of an index names a draft.
LEMMA EntryTyped ==
    ASSUME NEW s, NEW i \in Indexes(s), NEW k \in KeysOf(s), i[k] # NoEntry
    PROVE  i[k] \in Entries(s) /\ i[k].draft \in DOMAIN s.draft
  BY DEF Indexes, Entries

\* It is not the absent one.
LEMMA EntryPresent ==
    ASSUME NEW s \in Shards, NEW e \in Entries(s)
    PROVE  e # NoEntry
<1>1. DOMAIN s.draft \in SUBSET Nat
  BY DraftsTyped
<1>2. e \in [draft : Nat, txn : [drafts : SUBSET Nat, second : Nat]]
  BY <1>1 DEF Entries, BatchesOf
<1>3. QED
  BY <1>2, AbsenceAssumption

\* An entry may stay.
LEMMA FollowsItself ==
    ASSUME NEW s \in Shards, NEW e \in Entries(s) \cup {NoEntry}
    PROVE  Follows(s, e, e)
  BY DraftsTyped DEF Follows, Entries

\* Successors of successors.
LEMMA FollowsOn ==
    ASSUME NEW s \in Shards, NEW e \in Entries(s) \cup {NoEntry},
           NEW f \in Entries(s) \cup {NoEntry}, NEW g \in Entries(s) \cup {NoEntry},
           Follows(s, e, f), Follows(s, f, g)
    PROVE  Follows(s, e, g)
<1> SUFFICES ASSUME e # NoEntry PROVE g # NoEntry /\ s.draft[g.draft].version >= s.draft[e.draft].version
  BY DEF Follows
<1>1. f # NoEntry /\ g # NoEntry
  BY DEF Follows
<1>2. e.draft \in DOMAIN s.draft /\ f.draft \in DOMAIN s.draft /\ g.draft \in DOMAIN s.draft
  BY <1>1 DEF Entries
<1>3. /\ s.draft[e.draft].version \in Nat /\ s.draft[f.draft].version \in Nat
      /\ s.draft[g.draft].version \in Nat
  BY <1>2, DraftsTyped
<1>4. QED
  BY <1>1, <1>3 DEF Follows

\* A tree may stay.
LEMMA GrowsItself ==
    ASSUME NEW s \in Shards, NEW t, t \in Trees(s)
    PROVE  Grows(s, t, t)
<1>1. \A k \in KeysOf(s) : t.index[k] \in Entries(s) \cup {NoEntry}
  BY DEF Trees, Indexes
<1>2. QED
  BY <1>1, FollowsItself DEF Grows

\* Growth adds up.
LEMMA GrowsOn ==
    ASSUME NEW s \in Shards, NEW t, t \in Trees(s), NEW u, u \in Trees(s), NEW v, v \in Trees(s),
           Grows(s, t, u), Grows(s, u, v)
    PROVE  Grows(s, t, v)
<1>1. \A k \in KeysOf(s) : /\ t.index[k] \in Entries(s) \cup {NoEntry}
                           /\ u.index[k] \in Entries(s) \cup {NoEntry}
                           /\ v.index[k] \in Entries(s) \cup {NoEntry}
  BY DEF Trees, Indexes
<1>2. \A k \in KeysOf(s) : Follows(s, t.index[k], v.index[k])
  BY <1>1, FollowsOn DEF Grows
<1>3. QED
  BY <1>2 DEF Grows

\* Nothing is lost by growth.
LEMMA GrowsKeeps ==
    ASSUME NEW s, NEW t, NEW u, Grows(s, t, u), NEW d
    PROVE  /\ Stored(s, t, d) => Stored(s, u, d)
           /\ Complete(s, t, d) => Complete(s, u, d)
           /\ Kept(s, t, d) => Kept(s, u, d)
           /\ \A B : Certified(s, t, B, d) => Certified(s, u, B, d)
<1>1. Stored(s, t, d) => Stored(s, u, d)
  BY DEF Grows, Stored
<1>2. \A e : Complete(s, t, e) => Complete(s, u, e)
  BY DEF Grows, Stored, Complete
<1>3. Kept(s, t, d) => Kept(s, u, d)
  BY <1>2 DEF Kept
<1>4. \A B : Certified(s, t, B, d) => Certified(s, u, B, d)
  BY <1>2 DEF Grows, Certified
<1>5. QED
  BY <1>1, <1>2, <1>3, <1>4

-----------------------------------------------------------------------------
\* One commit

\* The names of the files of one kind.
LEMMA NamesOfKind ==
    ASSUME NEW files, NEW kind, NEW n
    PROVE  n \in Names(files, kind) <=> \E f \in files : f.kind = kind /\ f.name = n
  BY DEF Names

\* The files of a batch, kind by kind.
LEMMA FilesOfKinds ==
    ASSUME NEW s, NEW B, NEW f \in FilesOf(s, B)
    PROVE  \/ f.kind = "object" /\ \E d \in B.drafts : f.name \in s.draft[d].objects
           \/ f.kind = "attestation" /\ \E d \in B.drafts : f.name = Attestation(d, B.second)
           \/ f.kind = "encoding" /\ f.name \in B.drafts
           \/ f.kind = "index" /\ f.name = 0
           \/ f.kind = "manifest" /\ f.name \in B.drafts
           \/ f.kind = "record" /\ f.name = B
  BY DEF FilesOf, File

\* Every file of a draft in the batch is a file of the batch.
LEMMA FilesOfDraft ==
    ASSUME NEW s, NEW B, NEW d \in B.drafts
    PROVE  /\ \A o \in s.draft[d].objects :
                 File("object", o) \in FilesOf(s, B) /\ File("object", o).kind = "object"
                 /\ File("object", o).name = o
           /\ File("attestation", Attestation(d, B.second)) \in FilesOf(s, B)
           /\ File("attestation", Attestation(d, B.second)).kind = "attestation"
           /\ File("attestation", Attestation(d, B.second)).name = Attestation(d, B.second)
           /\ File("encoding", d) \in FilesOf(s, B) /\ File("encoding", d).kind = "encoding"
           /\ File("encoding", d).name = d
           /\ File("manifest", d) \in FilesOf(s, B) /\ File("manifest", d).kind = "manifest"
           /\ File("manifest", d).name = d
           /\ File("record", B) \in FilesOf(s, B) /\ File("record", B).kind = "record"
           /\ File("record", B).name = B
<1>1. \A kind, n : File(kind, n).kind = kind /\ File(kind, n).name = n
  BY DEF File
<1>2. \A o \in s.draft[d].objects : File("object", o) \in FilesOf(s, B)
  BY DEF FilesOf
<1>3. File("attestation", Attestation(d, B.second)) \in FilesOf(s, B)
  BY DEF FilesOf
<1>4. /\ File("encoding", d) \in FilesOf(s, B) /\ File("manifest", d) \in FilesOf(s, B)
      /\ File("record", B) \in FilesOf(s, B)
  BY DEF FilesOf
<1>5. QED
  BY <1>1, <1>2, <1>3, <1>4

\* A file, by its kind.
LEMMA HasOfKind ==
    ASSUME NEW t, NEW f, NEW index
    PROVE  /\ f.kind = "object" => (Has(t, f, index) <=> f.name \in t.objects)
           /\ f.kind = "attestation" => (Has(t, f, index) <=> f.name \in t.attestations)
           /\ f.kind = "encoding" => (Has(t, f, index) <=> f.name \in t.encodings)
           /\ f.kind = "index" => (Has(t, f, index) <=> t.index = index)
           /\ f.kind = "manifest" => (Has(t, f, index) <=> f.name \in t.manifests)
           /\ f.kind = "record" => (Has(t, f, index) <=> f.name \in t.records)
  BY DEF Has

\* A commit has its files, and what was there before.
LEMMA HasAfter ==
    ASSUME NEW s, NEW B, NEW t, NEW files, NEW index, NEW f \in FilesOf(s, B),
           f \in files \/ Has(t, f, index)
    PROVE  Has(Updated(t, files, index), f, index)
<1>1. CASE f \in files
  <2>1. f.name \in Names(files, f.kind)
    BY <1>1, NamesOfKind
  <2>2. QED
    BY <2>1, FilesOfKinds, HasOfKind DEF Updated
<1>2. CASE Has(t, f, index)
  BY <1>2, FilesOfKinds, HasOfKind DEF Updated
<1>3. QED
  BY <1>1, <1>2

\* When every file of a batch is there, every draft is certified.
LEMMA AllFilesComplete ==
    ASSUME NEW s, NEW B, NEW t, NEW index, \A f \in FilesOf(s, B) : Has(t, f, index),
           NEW d \in B.drafts
    PROVE  Certified(s, t, B, d)
<1>1. ASSUME NEW o \in s.draft[d].objects PROVE o \in t.objects
  <2>1. PICK f \in FilesOf(s, B) : f.kind = "object" /\ f.name = o
    <3>1. /\ File("object", o) \in FilesOf(s, B) /\ File("object", o).kind = "object"
          /\ File("object", o).name = o
      BY FilesOfDraft
    <3>2. QED
      BY <3>1
  <2>2. QED
    BY <2>1, HasOfKind
<1>2. d \in t.encodings /\ d \in t.manifests /\ B \in t.records
  BY FilesOfDraft, HasOfKind
<1>3. Attestation(d, B.second) \in t.attestations
  BY FilesOfDraft, HasOfKind
<1>4. QED
  BY <1>1, <1>2, <1>3 DEF Certified, Complete, Stored

\* The ranks of the kinds.
LEMMA RankOfKind ==
    ASSUME NEW f
    PROVE  /\ f.kind = "object" => Rank(f) = 1
           /\ f.kind = "attestation" => Rank(f) = 2
           /\ f.kind = "encoding" => Rank(f) = 3
           /\ f.kind = "index" => Rank(f) = 4
           /\ f.kind = "manifest" => Rank(f) = 5
           /\ f.kind = "record" => Rank(f) = 6
  BY DEF Rank

\* The files of lower rank than one in the first batch are there or in that batch.
LEMMA LowerRanksFirst ==
    ASSUME NEW s, NEW B, NEW t, NEW j, JobOK(s, B, t, j), NEW f \in Head(j.batches),
           NEW g \in FilesOf(s, B), Rank(g) < Rank(f)
    PROVE  Has(t, g, j.index) \/ g \in Head(j.batches)
<1>1. /\ Head(j.batches) = j.batches[1] /\ 1 \in DOMAIN j.batches
      /\ \A i \in DOMAIN j.batches : i \in Nat /\ (i = 1 \/ 1 < i)
      /\ \A i \in DOMAIN j.batches : j.batches[i] \subseteq FilesOf(s, B)
  BY DEF JobOK
<1>2. f \in FilesOf(s, B)
  BY <1>1
<1>3. Rank(f) \in Nat /\ Rank(g) \in Nat
  BY <1>2, FilesOfKinds, RankOfKind
<1>4. SUFFICES ASSUME NEW i \in DOMAIN j.batches, g \in j.batches[i], 1 < i PROVE FALSE
  BY <1>1 DEF JobOK
<1>5. Rank(f) <= Rank(g)
  BY <1>1, <1>4 DEF JobOK
<1>6. QED
  BY <1>3, <1>5

\* u is t with the next part of the job j committed.
Extended(s, B, t, j, u) ==
    /\ Grows(s, t, u)
    /\ u.index = t.index \/ u.index = j.index
    /\ \A f \in FilesOf(s, B) : Has(t, f, j.index) => Has(u, f, j.index)
    /\ \A f \in Head(j.batches) : Has(u, f, j.index)

\* A commit only adds, and every file of the batch is in its tree.
LEMMA CommitGrows ==
    ASSUME NEW s \in Shards, NEW B, NEW t, t \in Trees(s), NEW j, JobOK(s, B, t, j),
           NEW files, files = NewFiles(t, Head(j.batches), j.index),
           NEW u, u = Updated(t, files, j.index)
    PROVE  Extended(s, B, t, j, u)
<1>1. u.index = t.index \/ u.index = j.index
  BY DEF Updated
<1>2. Grows(s, t, u)
  <2>1. \A k \in KeysOf(s) : t.index[k] \in Entries(s) \cup {NoEntry}
    BY DEF Trees, Indexes
  <2>2. \A k \in KeysOf(s) : Follows(s, t.index[k], u.index[k])
    BY <1>1, <2>1, FollowsItself DEF JobOK
  <2>3. /\ t.objects \subseteq u.objects /\ t.attestations \subseteq u.attestations
        /\ t.encodings \subseteq u.encodings /\ t.manifests \subseteq u.manifests
        /\ t.records \subseteq u.records
    BY DEF Updated
  <2>4. QED
    BY <2>2, <2>3 DEF Grows
<1>3. Head(j.batches) \subseteq FilesOf(s, B)
  BY DEF JobOK
<1>4. \A f \in FilesOf(s, B) : Has(t, f, j.index) => Has(u, f, j.index)
  BY HasAfter
<1>5. \A f \in Head(j.batches) : f \in files \/ Has(t, f, j.index)
  BY DEF NewFiles
<1>6. \A f \in Head(j.batches) : Has(u, f, j.index)
  BY <1>3, <1>5, HasAfter
<1>7. QED
  BY <1>1, <1>2, <1>4, <1>6 DEF Extended

\* The tree of a commit that fits is as good as the one it is built on: the index
\* comes after the files of the drafts it names, the batch record after all of them,
\* and the ledger counts what is new.
LEMMA CommitTree ==
    ASSUME NEW s \in Shards, NEW B, NEW t, TreeOK(s, t), t.ledger # NoLedger,
           NEW j, JobOK(s, B, t, j),
           NEW files, files = NewFiles(t, Head(j.batches), j.index),
           NEW u, u = Updated(t, files, j.index), Accounted(u.ledger) <= s.capacity
    PROVE  TreeOK(s, u) /\ u.ledger # NoLedger
<1>1. /\ Grows(s, t, u)
      /\ u.index = t.index \/ u.index = j.index
      /\ \A f \in FilesOf(s, B) : Has(t, f, j.index) => Has(u, f, j.index)
      /\ \A f \in Head(j.batches) : Has(u, f, j.index)
  <2>1. t \in Trees(s)
    BY DEF TreeOK
  <2>2. Extended(s, B, t, j, u)
    BY <2>1, CommitGrows
  <2>3. QED
    BY <2>2 DEF Extended
<1>2. files \subseteq Head(j.batches) /\ Head(j.batches) \subseteq FilesOf(s, B)
      /\ IsFiniteSet(Head(j.batches)) /\ B \in BatchesOf(s)
  BY DEF JobOK, NewFiles
<1>3. IsFiniteSet(files)
  BY <1>2, FS_Subset
<1> DEFINE new == Names(files, "object")
<1>4. new \subseteq Nat /\ new \cap t.objects = {}
  <2>1. \A f \in files : f.kind = "object" => f.name \in Nat /\ f.name \notin t.objects
    <3> SUFFICES ASSUME NEW f \in files, f.kind = "object"
                 PROVE  f.name \in Nat /\ f.name \notin t.objects
      OBVIOUS
    <3>1. \E d \in B.drafts : f.name \in s.draft[d].objects
      BY <1>2, FilesOfKinds
    <3>2. f.name \in Nat
      BY <1>2, <3>1, DraftsTyped DEF BatchesOf
    <3>3. ~Has(t, f, j.index)
      BY DEF NewFiles
    <3>4. QED
      BY <3>2, <3>3, HasOfKind
  <2>2. QED
    BY <2>1, NamesOfKind
<1>5. IsFiniteSet(new) /\ Cardinality(new) \in Nat /\ Cardinality(files) \in Nat
      /\ Cardinality(new) <= Cardinality(files)
  <2>1. PICK T : T = {g \in files : g.kind = "object"}
    OBVIOUS
  <2>2. IsFiniteSet(T) /\ Cardinality(T) <= Cardinality(files)
    BY <1>3, <2>1, FS_Subset
  <2>3. PICK h : h = [f \in T |-> f.name]
    OBVIOUS
  <2>4. h \in Surjection(T, new)
    BY <2>1, <2>3 DEF Surjection, Names
  <2>5. IsFiniteSet(new) /\ Cardinality(new) <= Cardinality(T)
    <3> HIDE DEF new
    <3> QED BY <2>2, <2>4, FS_Surjection
  <2>6. Cardinality(new) \in Nat /\ Cardinality(T) \in Nat /\ Cardinality(files) \in Nat
    BY <1>3, <2>2, <2>5, FS_CardinalityType
  <2>7. QED
    BY <2>2, <2>5, <2>6
<1>6. u.objects = t.objects \cup new /\ IsFiniteSet(u.objects)
      /\ Cardinality(u.objects) = Cardinality(t.objects) + Cardinality(new)
  <2>1. u.objects = t.objects \cup new
    BY DEF Updated
  <2>2. IsFiniteSet(t.objects) /\ Cardinality(t.objects) \in Nat
    BY FS_CardinalityType DEF TreeOK
  <2> HIDE DEF new
  <2>3. /\ IsFiniteSet(t.objects \cup new) /\ t.objects \cap new = {}
        /\ Cardinality(t.objects \cup new)
              = Cardinality(t.objects) + Cardinality(new) - Cardinality(t.objects \cap new)
    BY <1>4, <1>5, <2>2, FS_Union
  <2>4. Cardinality(t.objects \cap new) = 0
    BY <2>3, FS_EmptySet
  <2>5. Cardinality(new) \in Nat
    BY <1>5
  <2>6. Cardinality(t.objects \cup new) = Cardinality(t.objects) + Cardinality(new)
    BY <2>2, <2>3, <2>4, <2>5
  <2>7. QED
    BY <2>1, <2>3, <2>6
<1>7. /\ t.ledger \in Ledgers /\ t.blobs \in Nat
      /\ t.ledger.payload = Cardinality(t.objects)
      /\ t.ledger.payload + t.ledger.metadata = t.blobs
  BY DEF TreeOK, Trees, Covers
<1>8. /\ u.ledger \in Ledgers /\ u.blobs \in Nat
      /\ u.ledger.payload = Cardinality(u.objects)
      /\ u.ledger.payload + u.ledger.metadata = u.blobs
      /\ u.blobs <= Accounted(u.ledger)
  <2>1. PICK n \in Nat, m \in Nat : n = Cardinality(new) /\ m = Cardinality(files) /\ n <= m
    BY <1>5
  <2>2. u.blobs = t.blobs + m + 1
    BY <2>1 DEF Updated
  <2>3. u.ledger = [t.ledger EXCEPT !.payload = @ + n, !.metadata = @ + (m - n) + 1]
    BY <2>1 DEF Updated, AdvancedLedger
  <2>4. u.ledger = [payload |-> t.ledger.payload + n, metadata |-> t.ledger.metadata + (m - n) + 1,
                    history |-> t.ledger.history]
    BY <1>7, <2>3 DEF Ledgers
  <2>5. /\ t.ledger.payload \in Nat /\ t.ledger.metadata \in Nat /\ t.ledger.history \in Nat
        /\ m - n \in Nat
    BY <1>7, <2>1 DEF Ledgers
  <2>6. QED
    BY <1>6, <1>7, <2>1, <2>2, <2>4, <2>5 DEF Ledgers, Accounted
<1>9. u.ledger # NoLedger
  BY <1>8, AbsenceAssumption DEF Ledgers
<1>10. Covers(s, u)
  <2>1. u.blobs <= s.capacity
    <3>1. u.blobs \in Nat /\ Accounted(u.ledger) \in Nat /\ s.capacity \in Nat
      BY <1>8, DraftsTyped DEF Ledgers, Accounted
    <3>2. QED
      BY <1>8, <3>1
  <2>2. QED
    BY <1>8, <1>9, <2>1 DEF Covers
<1>11. Reachable(s, u)
  <2> SUFFICES ASSUME NEW k \in KeysOf(s), u.index[k] # NoEntry
               PROVE  Stored(s, u, u.index[k].draft)
    BY DEF Reachable
  <2>1. CASE u.index = t.index
    <3>1. Stored(s, t, t.index[k].draft)
      BY <2>1 DEF TreeOK, Reachable
    <3>2. QED
      BY <1>1, <2>1, <3>1, GrowsKeeps
  <2>2. CASE u.index # t.index
    <3>1. u.index = j.index /\ Names(files, "index") # {}
      BY <1>1, <2>2 DEF Updated
    <3>2. PICK f \in files : f.kind = "index"
      BY <3>1, NamesOfKind
    <3>3. Rank(f) = 4 /\ f \in Head(j.batches)
      BY <1>2, <3>2, RankOfKind
    <3>4. CASE Stored(s, t, j.index[k].draft)
      BY <1>1, <3>1, <3>4, GrowsKeeps
    <3>5. CASE j.index[k].draft \in B.drafts
      <4>1. PICK d \in B.drafts : d = j.index[k].draft
        BY <3>5
      <4>2. ASSUME NEW g \in FilesOf(s, B), Rank(g) < 4 PROVE Has(u, g, j.index)
        BY <1>1, <3>3, <4>2, LowerRanksFirst
      <4>3. ASSUME NEW o \in s.draft[d].objects PROVE o \in u.objects
        <5>1. PICK g \in FilesOf(s, B) : g.kind = "object" /\ g.name = o
          BY FilesOfDraft
        <5>2. Has(u, g, j.index)
          BY <4>2, <5>1, RankOfKind
        <5>3. QED
          BY <5>1, <5>2, HasOfKind
      <4>4. d \in u.encodings
        <5>1. PICK g \in FilesOf(s, B) : g.kind = "encoding" /\ g.name = d
          BY FilesOfDraft
        <5>2. Has(u, g, j.index)
          BY <4>2, <5>1, RankOfKind
        <5>3. QED
          BY <5>1, <5>2, HasOfKind
      <4>5. QED
        BY <3>1, <4>1, <4>3, <4>4 DEF Stored
    <3>6. QED
      BY <2>2, <3>1, <3>4, <3>5 DEF JobOK
  <2>3. QED
    BY <2>1, <2>2
<1>12. Proves(s, u)
  <2> SUFFICES ASSUME NEW E \in u.records, NEW d \in E.drafts PROVE Certified(s, u, E, d)
    BY DEF Proves
  <2>1. CASE E \in t.records
    <3>1. Certified(s, t, E, d)
      BY <2>1 DEF TreeOK, Proves
    <3>2. QED
      BY <1>1, <3>1, GrowsKeeps
  <2>2. CASE E \notin t.records
    <3>1. E \in Names(files, "record")
      BY <2>2 DEF Updated
    <3>2. PICK f \in files : f.kind = "record" /\ f.name = E
      BY <3>1, NamesOfKind
    <3>3. f \in FilesOf(s, B) /\ f \in Head(j.batches) /\ E = B /\ Rank(f) = 6
      BY <1>2, <3>2, FilesOfKinds, RankOfKind
    <3>4. ASSUME NEW g \in FilesOf(s, B) PROVE Has(u, g, j.index)
      <4>1. CASE Rank(g) < 6
        BY <1>1, <3>3, <4>1, LowerRanksFirst
      <4>2. CASE g.kind = "record"
        <5>1. g.name = B
          BY <4>2, FilesOfKinds
        <5>2. B \in u.records
          BY <3>3
        <5>3. QED
          BY <4>2, <5>1, <5>2, HasOfKind
      <4>3. QED
        BY <4>1, <4>2, FilesOfKinds, RankOfKind
    <3>5. QED
      BY <3>3, <3>4, AllFilesComplete
  <2>3. QED
    BY <2>1, <2>2
<1>13. u \in Trees(s)
  <2>1. B \in [drafts : SUBSET Nat, second : Nat]
    BY <1>2, DraftsTyped DEF BatchesOf
  <2>2. /\ Names(files, "encoding") \subseteq Nat /\ Names(files, "manifest") \subseteq Nat
        /\ Names(files, "record") \subseteq [drafts : SUBSET Nat, second : Nat]
        /\ Names(files, "attestation") \subseteq [draft : Nat, second : Nat]
    <3>1. \A f \in files :
             /\ f.kind \in {"encoding", "manifest"} => f.name \in B.drafts
             /\ f.kind = "attestation" => \E d \in B.drafts : f.name = Attestation(d, B.second)
             /\ f.kind = "record" => f.name = B
      BY <1>2, FilesOfKinds
    <3>2. /\ \A n \in Names(files, "encoding") : n \in B.drafts
          /\ \A n \in Names(files, "manifest") : n \in B.drafts
          /\ \A n \in Names(files, "attestation") :
                \E d \in B.drafts : n = Attestation(d, B.second)
          /\ \A n \in Names(files, "record") : n = B
      BY <3>1, NamesOfKind
    <3>3. \A d \in B.drafts : Attestation(d, B.second) \in [draft : Nat, second : Nat]
      BY <2>1 DEF Attestation
    <3>4. QED
      BY <2>1, <3>2, <3>3
  <2>3. u.index \in Indexes(s)
    BY <1>1 DEF TreeOK, Trees, JobOK
  <2>4. /\ u.encodings \in SUBSET Nat /\ u.manifests \in SUBSET Nat
        /\ u.records \in SUBSET [drafts : SUBSET Nat, second : Nat]
        /\ u.attestations \in SUBSET [draft : Nat, second : Nat]
        /\ u.objects \in SUBSET Nat
    BY <1>4, <1>6, <2>2 DEF Updated, TreeOK, Trees
  <2>5. u = [objects |-> u.objects, attestations |-> u.attestations, encodings |-> u.encodings,
             manifests |-> u.manifests, records |-> u.records, index |-> u.index,
             ledger |-> u.ledger, blobs |-> u.blobs]
    BY DEF Updated
  <2>6. QED
    BY <1>8, <2>3, <2>4, <2>5 DEF Trees
<1>14. QED
  BY <1>6, <1>9, <1>10, <1>11, <1>12, <1>13 DEF TreeOK

\* After a batch comes the next one.
LEMMA NextBatch ==
    ASSUME NEW s \in Shards, NEW B, NEW t, t \in Trees(s), NEW j, JobOK(s, B, t, j),
           NEW u, u \in Trees(s), Grows(s, t, u), u.index = t.index \/ u.index = j.index,
           \A f \in FilesOf(s, B) : Has(t, f, j.index) => Has(u, f, j.index),
           \A f \in Head(j.batches) : Has(u, f, j.index),
           Len(j.batches) # 1
    PROVE  JobOK(s, B, u, [j EXCEPT !.batches = Tail(@)])
<1>1. PICK r : r = Tail(j.batches)
  OBVIOUS
<1>2. PICK i : i = [j EXCEPT !.batches = Tail(@)]
  OBVIOUS
<1>3. i = [index |-> j.index, batches |-> r]
  BY <1>1, <1>2 DEF JobOK
<1>4. j.batches \in Seq(SUBSET FilesOf(s, B)) /\ j.batches # <<>>
  BY DEF JobOK
<1>5. /\ r \in Seq(SUBSET FilesOf(s, B)) /\ r # <<>>
      /\ Len(r) = Len(j.batches) - 1 /\ Len(j.batches) \in Nat
      /\ \A m \in DOMAIN r : r[m] = j.batches[m + 1] /\ m + 1 \in DOMAIN j.batches /\ m \in Nat
  <2>1. PICK q \in Seq(SUBSET FilesOf(s, B)) : q = j.batches /\ q # <<>> /\ Len(q) # 1
    BY <1>4
  <2>2. Len(q) \in Nat /\ Len(q) >= 2 /\ DOMAIN q = 1..Len(q)
    <3>1. Len(q) \in Nat /\ DOMAIN q = 1..Len(q) /\ Len(q) # 0
      BY <2>1, EmptySeq, LenProperties
    <3>2. Len(q) # 1
      BY <2>1
    <3>3. Len(q) >= 2
      BY <3>1, <3>2
    <3>4. QED
      BY <3>1, <3>3
  <2>3. r = Tail(q) /\ r \in Seq(SUBSET FilesOf(s, B)) /\ Len(r) = Len(q) - 1
    BY <1>1, <2>1, <2>2
  <2>4. r # <<>> /\ DOMAIN r = 1..(Len(q) - 1)
    <3>1. DOMAIN r = 1..Len(r) /\ Len(r) # 0
      BY <2>2, <2>3, LenProperties
    <3>2. QED
      BY <2>3, <3>1
  <2>5. \A m \in DOMAIN r : r[m] = q[m + 1] /\ m + 1 \in DOMAIN q /\ m \in Nat
    BY <2>2, <2>3, <2>4
  <2>6. QED
    BY <2>1, <2>2, <2>3, <2>4, <2>5
<1>6. \A k \in KeysOf(s) :
         /\ Follows(s, u.index[k], j.index[k])
         /\ j.index[k] # NoEntry =>
               j.index[k].draft \in B.drafts \/ Stored(s, u, j.index[k].draft)
  <2>1. \A k \in KeysOf(s) : j.index[k] \in Entries(s) \cup {NoEntry}
    BY DEF JobOK, Indexes
  <2>2. \A k \in KeysOf(s) : Follows(s, u.index[k], j.index[k])
    BY <2>1, FollowsItself DEF JobOK
  <2>3. QED
    BY <2>2, GrowsKeeps DEF JobOK
<1>7. \A m \in DOMAIN r : IsFiniteSet(r[m])
  BY <1>5 DEF JobOK
<1>8. ASSUME NEW f \in FilesOf(s, B)
      PROVE  Has(u, f, j.index) \/ \E m \in DOMAIN r : f \in r[m]
  <2> SUFFICES ASSUME NEW m \in DOMAIN j.batches, f \in j.batches[m], ~Has(u, f, j.index)
               PROVE  \E n \in DOMAIN r : f \in r[n]
    BY DEF JobOK
  <2>1. m # 1
    BY <1>4
  <2>2. m - 1 \in DOMAIN r /\ r[m - 1] = j.batches[m]
    BY <1>1, <1>4, <2>1
  <2>3. QED
    BY <2>2
<1>9. \A a, b \in DOMAIN r : a < b => \A f \in r[a], g \in r[b] : Rank(f) <= Rank(g)
  <2> SUFFICES ASSUME NEW a \in DOMAIN r, NEW b \in DOMAIN r, a < b,
                      NEW f \in r[a], NEW g \in r[b]
               PROVE  Rank(f) <= Rank(g)
    OBVIOUS
  <2>1. a + 1 < b + 1
    BY <1>5
  <2>2. QED
    BY <1>5, <2>1 DEF JobOK
<1>10. JobOK(s, B, u, i)
  BY <1>3, <1>5, <1>6, <1>7, <1>8, <1>9 DEF JobOK
<1>11. QED
  BY <1>2, <1>10

\* After the last batch every draft is complete.
LEMMA LastBatch ==
    ASSUME NEW s, NEW B, NEW t, NEW j, JobOK(s, B, t, j), NEW u,
           \A f \in FilesOf(s, B) : Has(t, f, j.index) => Has(u, f, j.index),
           \A f \in Head(j.batches) : Has(u, f, j.index),
           Len(j.batches) = 1
    PROVE  \A d \in B.drafts : Complete(s, u, d)
<1>1. \A f \in FilesOf(s, B) : Has(u, f, j.index)
  <2>1. DOMAIN j.batches = {1} /\ Head(j.batches) = j.batches[1]
    BY DEF JobOK
  <2>2. QED
    BY <2>1 DEF JobOK
<1>2. \A d \in B.drafts : Certified(s, u, B, d)
  BY <1>1, AllFilesComplete
<1>3. QED
  BY <1>2 DEF Certified

-----------------------------------------------------------------------------
\* Selection

\* A draft that selection leaves out is on main, or one that dominates it.
LEMMA ProvenKept ==
    ASSUME shard \in Shards, NEW t, TreeOK(shard, t), NEW d \in Drafts, Proven(t, d)
    PROVE  Kept(shard, t, d)
<1>1. PICK e : e = t.index[Draft[d].key]
  OBVIOUS
<1>2. /\ e # NoEntry /\ (e.draft = d \/ Dominates(e.draft, d))
      /\ e.txn \in t.records /\ e.draft \in e.txn.drafts
      /\ Draft[e.draft].assurance >= Draft[d].assurance
  BY <1>1 DEF Proven, MayProve
<1>3. Complete(shard, t, e.draft)
  BY <1>2 DEF TreeOK, Proves, Certified
<1>4. e.draft \in DOMAIN shard.draft
  <2>1. shard.draft[d].key \in KeysOf(shard)
    BY DEF Drafts, Draft, KeysOf
  <2>2. e # NoEntry
    BY <1>1 DEF Proven, MayProve
  <2>3. QED
    BY <1>1, <2>1, <2>2, EntryTyped DEF TreeOK, Trees, Draft
<1>5. QED
  BY <1>2, <1>3, <1>4 DEF Kept, Outranks, Dominates, Pinned, Draft

-----------------------------------------------------------------------------
\* The staged index

\* The order of drafts, place by place.
LEMMA BeforeMeans ==
    ASSUME shard \in Shards, NEW c \in Drafts, NEW d \in Drafts,
           NEW b, b = (IF Draft[c].closure THEN 0 ELSE 1),
           NEW e, e = (IF Draft[d].closure THEN 0 ELSE 1),
           NEW m, m = Cardinality(Draft[c].deps), NEW n, n = Cardinality(Draft[d].deps)
    PROVE  Before(c, d) <=>
              \/ b < e
              \/ b = e /\ Draft[c].version < Draft[d].version
              \/ b = e /\ Draft[c].version = Draft[d].version /\ m < n
              \/ /\ b = e /\ Draft[c].version = Draft[d].version /\ m = n
                 /\ Draft[c].content < Draft[d].content
              \/ /\ b = e /\ Draft[c].version = Draft[d].version /\ m = n
                 /\ Draft[c].content = Draft[d].content /\ c < d
<1>1. PICK x : x = <<b, Draft[c].version, m, Draft[c].content, c>>
  OBVIOUS
<1>2. PICK y : y = <<e, Draft[d].version, n, Draft[d].content, d>>
  OBVIOUS
<1>3. Before(c, d) <=> \E i \in 1..5 : x[i] < y[i] /\ \A j \in 1..(i - 1) : x[j] = y[j]
  BY <1>1, <1>2 DEF Before
<1>4. /\ x[1] = b /\ x[2] = Draft[c].version /\ x[3] = m /\ x[4] = Draft[c].content /\ x[5] = c
      /\ y[1] = e /\ y[2] = Draft[d].version /\ y[3] = n /\ y[4] = Draft[d].content /\ y[5] = d
  BY <1>1, <1>2
<1>5. (\E i \in 1..5 : x[i] < y[i] /\ \A j \in 1..(i - 1) : x[j] = y[j]) <=>
         \/ x[1] < y[1]
         \/ x[1] = y[1] /\ x[2] < y[2]
         \/ x[1] = y[1] /\ x[2] = y[2] /\ x[3] < y[3]
         \/ x[1] = y[1] /\ x[2] = y[2] /\ x[3] = y[3] /\ x[4] < y[4]
         \/ x[1] = y[1] /\ x[2] = y[2] /\ x[3] = y[3] /\ x[4] = y[4] /\ x[5] < y[5]
  OBVIOUS
<1>6. QED
  BY <1>3, <1>4, <1>5, Zenon

\* It is a strict order.
LEMMA BeforeOrders ==
    ASSUME shard \in Shards, NEW S \in SUBSET Drafts
    PROVE  StrictOrder({r \in S \X S : Before(r[1], r[2])}, S)
<1> DEFINE c(x) == IF Draft[x].closure THEN 0 ELSE 1
           m(x) == Cardinality(Draft[x].deps)
           R == {r \in S \X S : Before(r[1], r[2])}
<1>1. \A x \in S : /\ c(x) \in Nat /\ Draft[x].version \in Nat /\ Draft[x].content \in Nat
                   /\ m(x) \in Nat /\ x \in Nat /\ x \in Drafts
  BY DraftsTyped DEF Draft, Drafts
<1>2. \A x, y \in S : Before(x, y) <=>
         \/ c(x) < c(y)
         \/ c(x) = c(y) /\ Draft[x].version < Draft[y].version
         \/ c(x) = c(y) /\ Draft[x].version = Draft[y].version /\ m(x) < m(y)
         \/ /\ c(x) = c(y) /\ Draft[x].version = Draft[y].version /\ m(x) = m(y)
            /\ Draft[x].content < Draft[y].content
         \/ /\ c(x) = c(y) /\ Draft[x].version = Draft[y].version /\ m(x) = m(y)
            /\ Draft[x].content = Draft[y].content /\ x < y
  BY <1>1, BeforeMeans
<1>3. \A x, y \in S : <<x, y>> \in R <=> Before(x, y)
  OBVIOUS
<1> HIDE DEF c, m, R
<1>4. \A x \in S : <<x, x>> \notin R
  BY <1>1, <1>2, <1>3
<1>5. \A x, y \in S : x # y => <<x, y>> \in R \/ <<y, x>> \in R
  BY <1>1, <1>2, <1>3
<1>6. \A x, y, z \in S : <<x, y>> \in R /\ <<y, z>> \in R => <<x, z>> \in R
  BY <1>1, <1>2, <1>3
<1>7. StrictOrder(R, S)
  BY <1>4, <1>5, <1>6 DEF StrictOrder
<1>8. QED
  BY <1>7 DEF R

\* The drafts of a key, each once.
LEMMA BatchOrderTyped ==
    ASSUME shard \in Shards, NEW D \in SUBSET Drafts, NEW k,
           NEW S, S = {d \in D : Draft[d].key = k}
    PROVE  /\ IsFiniteSet(S) /\ Cardinality(S) \in Nat
           /\ BatchOrder(D, k) \in [1..Cardinality(S) -> S]
           /\ Len(BatchOrder(D, k)) = Cardinality(S)
<1>1. IsFiniteSet(S) /\ Cardinality(S) \in Nat
  <2>1. IsFiniteSet(Drafts) /\ S \subseteq Drafts
    BY DraftsTyped DEF Drafts, Draft
  <2>2. QED
    BY <2>1, FS_Subset, FS_CardinalityType
<1>2. PICK R : R = {r \in S \X S : Before(r[1], r[2])}
  OBVIOUS
<1>3. StrictOrder(R, S)
  BY <1>2, BeforeOrders
<1>4. PICK s \in [1..Cardinality(S) -> S] : SortedBy(s, R)
  BY <1>1, <1>3, SortExists
<1>5. \A i, j \in DOMAIN s : i < j => Before(s[i], s[j])
  BY <1>2, <1>4 DEF SortedBy
<1>6. BatchOrder(D, k) \in [1..Cardinality(S) -> S]
  BY <1>5 DEF BatchOrder
<1>7. QED
  BY <1>1, <1>6

\* The staged entry is the last of a run over the drafts of its key.
LEMMA StagedDef ==
    ASSUME NEW p, NEW t, NEW B, NEW k, NEW n \in Nat, NEW order, order = BatchOrder(B.drafts, k),
           Len(order) = n, NEW V,
           [entry |-> t.index[k], refused |-> FALSE] \in V,
           \A s \in V, i \in 1..n : ApplyDraft(p, B, s, order[i]) \in V
    PROVE  \E g \in [0..n -> V] :
              /\ g[0] = [entry |-> t.index[k], refused |-> FALSE]
              /\ \A i \in 1..n : g[i] = ApplyDraft(p, B, g[i - 1], order[i])
              /\ StagedEntry(p, t, B, k) = g[n]
<1> DEFINE base == [entry |-> t.index[k], refused |-> FALSE]
           f == [i \in 1..n |-> [x \in V |-> ApplyDraft(p, B, x, order[i])]]
           F(g) == [i \in 0..n |-> IF i = 0 THEN base ELSE ApplyDraft(p, B, g[i - 1], order[i])]
<1>1. f \in [1..n -> [V -> V]]
  OBVIOUS
<1>2. PICK g \in [0..n -> V] : g[0] = base /\ \A i \in 1..n : g[i] = f[i][g[i - 1]]
  <2>1. PICK b \in V, ff \in [1..n -> [V -> V]] : b = base /\ ff = f
    BY <1>1
  <2> HIDE DEF f, base, F
  <2>2. \E g \in [0..n -> V] : IsFold(g, n, b, ff)
    BY FoldExists
  <2>3. QED
    BY <2>1, <2>2 DEF IsFold
<1>3. g = F(g)
  <2>1. \A i \in 1..n : g[i - 1] \in V
    OBVIOUS
  <2>2. \A i \in 1..n : g[i] = ApplyDraft(p, B, g[i - 1], order[i])
    BY <1>2, <2>1
  <2>3. PICK G : G = F(g)
    OBVIOUS
  <2>4. DOMAIN G = 0..n /\ G = [i \in DOMAIN G |-> G[i]] /\ \A i \in 0..n : G[i] = g[i]
    BY <1>2, <2>2, <2>3
  <2>5. G = g
    BY <2>4
  <2>6. QED
    BY <2>3, <2>5
<1>4. PICK h : h = (CHOOSE x : x = F(x))
  OBVIOUS
<1>5. h = F(h)
  BY <1>3, <1>4
<1>6. StagedEntry(p, t, B, k) = h[n]
  BY <1>4 DEF StagedEntry
<1>7. \A i \in 0..n : h[i] = IF i = 0 THEN base ELSE ApplyDraft(p, B, h[i - 1], order[i])
  BY <1>5
<1>8. h[0] = base /\ \A i \in 1..n : h[i] = ApplyDraft(p, B, h[i - 1], order[i])
  <2>1. 0 \in 0..n /\ \A i \in 1..n : i \in 0..n /\ i # 0
    OBVIOUS
  <2> HIDE DEF base
  <2>2. QED
    BY <1>7, <2>1, Zenon
<1> HIDE DEF F
<1>10. \A i \in Nat : i <= n => h[i] \in V
  <2> DEFINE Done == {i \in Nat : i <= n => h[i] \in V}
  <2>1. 0 \in Done
    BY <1>8
  <2>2. ASSUME NEW i \in Nat, i \in Done PROVE i + 1 \in Done
    <3> SUFFICES ASSUME i + 1 <= n PROVE h[i + 1] \in V
      OBVIOUS
    <3>1. h[i] \in V /\ i + 1 \in 1..n /\ (i + 1) - 1 = i
      BY <2>2
    <3>2. h[i + 1] = ApplyDraft(p, B, h[i], order[i + 1])
      BY <1>8, <3>1
    <3>3. QED
      BY <3>1, <3>2
  <2>3. Nat \subseteq Done
    <3> HIDE DEF Done
    <3> QED BY <2>1, <2>2, SetInduction
  <2>4. QED
    BY <2>3
<1>11. DOMAIN h = 0..n /\ h = [i \in DOMAIN h |-> h[i]]
  BY <1>5 DEF F
<1>12. h \in [0..n -> V]
  BY <1>10, <1>11
<1>13. QED
  BY <1>6, <1>8, <1>12

\* An entry that is staged without refusal may follow the live one, and names the
\* same draft or one of the batch.
LEMMA StagedFollows ==
    ASSUME shard \in Shards, NEW p, NEW t, t.index \in Indexes(shard), NEW B \in BatchesOf(shard),
           NEW k \in Keys, NEW e, e = StagedEntry(p, t, B, k).entry,
           ~StagedEntry(p, t, B, k).refused
    PROVE  /\ e \in Entries(shard) \cup {NoEntry}
           /\ Follows(shard, t.index[k], e)
           /\ e # NoEntry => e.draft \in B.drafts \/ e = t.index[k]
<1> DEFINE E == Entries(shard) \cup {NoEntry}
           V == [entry : E, refused : BOOLEAN]
<1>1. PICK S : S = {d \in B.drafts : Draft[d].key = k}
  OBVIOUS
<1>2. PICK n, order : /\ n \in Nat /\ order \in [1..n -> S]
                      /\ order = BatchOrder(B.drafts, k) /\ Len(order) = n
  <2>1. B.drafts \in SUBSET Drafts
    BY DEF BatchesOf, Drafts, Draft
  <2>2. QED
    BY <1>1, <2>1, BatchOrderTyped
<1>3. PICK base : base = t.index[k]
  OBVIOUS
<1>4. base \in E
  BY <1>3 DEF Indexes, Keys, KeysOf, Draft, Drafts
<1>5. \A s \in V, d \in S : ApplyDraft(p, B, s, d) \in V
  <2> SUFFICES ASSUME NEW s \in V, NEW d \in S PROVE ApplyDraft(p, B, s, d) \in V
    OBVIOUS
  <2>1. [draft |-> d, txn |-> B] \in E
    BY <1>1 DEF Entries, BatchesOf
  <2>2. (s.refused \/ Downgrade(s.entry, d)) \in BOOLEAN
    OBVIOUS
  <2>3. QED
    BY <2>1, <2>2 DEF ApplyDraft
<1>6. PICK g \in [0..n -> V] :
         /\ g[0] = [entry |-> base, refused |-> FALSE]
         /\ \A i \in 1..n : g[i] = ApplyDraft(p, B, g[i - 1], order[i])
         /\ StagedEntry(p, t, B, k) = g[n]
  <2>1. [entry |-> base, refused |-> FALSE] \in V
    BY <1>4
  <2>2. \A s \in V, i \in 1..n : ApplyDraft(p, B, s, order[i]) \in V
    BY <1>2, <1>5
  <2> HIDE DEF V
  <2>3. QED
    BY <1>2, <1>3, <2>1, <2>2, StagedDef
<1> DEFINE Good(x) == /\ x.refused \/ Follows(shard, base, x.entry)
                      /\ x.entry # NoEntry => x.entry.draft \in B.drafts \/ x.entry = base
           Done == {i \in Nat : i <= n => Good(g[i])}
<1>7. 0 \in Done
  <2>1. Good(g[0])
    BY <1>4, <1>6, FollowsItself
  <2>2. QED
    BY <2>1
<1>8. ASSUME NEW i \in Nat, i \in Done, i + 1 <= n PROVE Good(g[i + 1])
  <2>1. PICK x \in V, d \in S : x = g[i] /\ d = order[i + 1] /\ Good(x)
    <3>1. i \in 0..n /\ i + 1 \in 1..n
      BY <1>2, <1>8
    <3>2. g[i] \in V /\ order[i + 1] \in S /\ Good(g[i])
      BY <1>2, <1>8, <3>1
    <3> HIDE DEF V, Good
    <3>3. QED
      BY <3>2
  <2>2. i + 1 \in 1..n /\ (i + 1) - 1 = i
    BY <1>8
  <2>3. g[i + 1] = ApplyDraft(p, B, x, d)
    BY <1>6, <2>1, <2>2
  <2>4. CASE g[i + 1] = x
    BY <2>1, <2>4
  <2>5. CASE g[i + 1] # x
    <3>1. PICK f : f = [draft |-> d, txn |-> B]
      OBVIOUS
    <3>2. g[i + 1] = [entry |-> f, refused |-> x.refused \/ Downgrade(x.entry, d)]
      BY <2>3, <2>5, <3>1 DEF ApplyDraft
    <3>3. f \in Entries(shard) /\ f.draft = d /\ d \in B.drafts /\ d \in Drafts /\ x.entry \in E
      BY <1>1, <2>1, <3>1 DEF Entries, BatchesOf, Drafts, Draft
    <3>4. f # NoEntry
      BY <3>3, EntryPresent
    <3>5. ASSUME ~x.refused, ~Downgrade(x.entry, d) PROVE Follows(shard, base, f)
      <4>1. Follows(shard, base, x.entry)
        BY <2>1, <3>5
      <4>2. Follows(shard, x.entry, f)
        <5> SUFFICES ASSUME x.entry # NoEntry
                     PROVE  shard.draft[f.draft].version >= shard.draft[x.entry.draft].version
          BY <3>4 DEF Follows
        <5>1. x.entry.draft \in Drafts /\ ~(shard.draft[x.entry.draft].version > shard.draft[d].version)
          BY <3>3, <3>5 DEF Downgrade, Version, Draft, Drafts, Entries
        <5>2. QED
          BY <3>3, <5>1, DraftsTyped DEF Drafts, Draft
      <4>3. QED
        BY <1>4, <3>3, <4>1, <4>2, FollowsOn
    <3>6. g[i + 1].entry = f /\ (g[i + 1].refused <=> x.refused \/ Downgrade(x.entry, d))
      <4>1. PICK b \in BOOLEAN : b = (x.refused \/ Downgrade(x.entry, d))
        OBVIOUS
      <4>2. g[i + 1] = [entry |-> f, refused |-> b]
        BY <3>2, <4>1
      <4>3. g[i + 1].entry = f /\ g[i + 1].refused = b
        BY <4>2
      <4>4. QED
        BY <4>1, <4>3, Zenon
    <3>7. QED
      BY <3>3, <3>5, <3>6
  <2>6. QED
    BY <2>4, <2>5
<1>9. n \in Done
  <2>1. \A i \in Nat : i \in Done => i + 1 \in Done
    BY <1>8
  <2> HIDE DEF Done
  <2>2. QED
    BY <1>2, <1>7, <2>1, SetInduction
<1>10. Good(g[n]) /\ g[n] \in V
  BY <1>9
<1>11. e = g[n].entry /\ ~g[n].refused
  BY <1>6
<1>12. QED
  BY <1>3, <1>10, <1>11

-----------------------------------------------------------------------------
\* The staged files and their batches

\* q consists of files of S with ranks from lo to hi, in order of rank.
Ranked(q, S, lo, hi) ==
    /\ q \in Seq(S)
    /\ \A i \in DOMAIN q : Rank(q[i]) \in Nat /\ lo <= Rank(q[i]) /\ Rank(q[i]) <= hi
    /\ \A i, j \in DOMAIN q : i < j => Rank(q[i]) <= Rank(q[j])

Occurs(f, q) == \E i \in DOMAIN q : q[i] = f

\* One ranked sequence after another.
LEMMA RankedConcat ==
    ASSUME NEW S, NEW a, NEW b, NEW l \in Nat, NEW m \in Nat, NEW n \in Nat, NEW h \in Nat,
           Ranked(a, S, l, m), Ranked(b, S, n, h), m < n, l <= m, n <= h
    PROVE  /\ Ranked(a \o b, S, l, h)
           /\ \A f : Occurs(f, a) \/ Occurs(f, b) => Occurs(f, a \o b)
<1>1. a \in Seq(S) /\ b \in Seq(S)
  BY DEF Ranked
<1>2. PICK c : c = a \o b
  OBVIOUS
<1>3. PICK x \in Nat, y \in Nat : x = Len(a) /\ y = Len(b)
  BY <1>1, LenProperties
<1>4. DOMAIN a = 1..x /\ DOMAIN b = 1..y
  BY <1>1, <1>3, LenProperties
<1>5. c \in Seq(S) /\ DOMAIN c = 1..(x + y)
  BY <1>1, <1>2, <1>3, ConcatProperties, LenProperties
<1>6. \A i \in 1..(x + y) : c[i] = IF i <= x THEN a[i] ELSE b[i - x]
  BY <1>1, <1>2, <1>3, ConcatProperties
<1>7. ASSUME NEW i \in DOMAIN c
      PROVE  \/ i \in DOMAIN a /\ c[i] = a[i] /\ i <= x
             \/ i - x \in DOMAIN b /\ c[i] = b[i - x] /\ x < i
  BY <1>4, <1>5, <1>6
<1>8. ASSUME NEW i \in DOMAIN c
      PROVE  Rank(c[i]) \in Nat /\ l <= Rank(c[i]) /\ Rank(c[i]) <= h
  <2>1. CASE i \in DOMAIN a /\ c[i] = a[i]
    BY <2>1 DEF Ranked
  <2>2. CASE i - x \in DOMAIN b /\ c[i] = b[i - x]
    BY <2>2 DEF Ranked
  <2>3. QED
    BY <1>7, <2>1, <2>2
<1>9. ASSUME NEW i \in DOMAIN c, NEW j \in DOMAIN c, i < j PROVE Rank(c[i]) <= Rank(c[j])
  <2>1. CASE j \in DOMAIN a /\ c[j] = a[j] /\ j <= x
    <3>1. i \in DOMAIN a /\ c[i] = a[i]
      BY <1>5, <1>7, <1>9, <2>1
    <3>2. QED
      BY <1>9, <2>1, <3>1 DEF Ranked
  <2>2. CASE j - x \in DOMAIN b /\ c[j] = b[j - x] /\ x < j
    <3>1. CASE i \in DOMAIN a /\ c[i] = a[i]
      <4>1. /\ Rank(c[i]) \in Nat /\ Rank(c[i]) <= m
            /\ Rank(c[j]) \in Nat /\ n <= Rank(c[j])
        BY <2>2, <3>1 DEF Ranked
      <4>2. QED
        BY <4>1
    <3>2. CASE i - x \in DOMAIN b /\ c[i] = b[i - x]
      <4>1. i - x < j - x
        BY <1>5, <1>9
      <4>2. QED
        BY <2>2, <3>2, <4>1 DEF Ranked
    <3>3. QED
      BY <1>7, <3>1, <3>2
  <2>3. QED
    BY <1>7, <2>1, <2>2
<1>10. Ranked(c, S, l, h)
  BY <1>5, <1>8, <1>9 DEF Ranked
<1>11. ASSUME NEW f, Occurs(f, a) \/ Occurs(f, b) PROVE Occurs(f, c)
  <2>1. CASE Occurs(f, a)
    <3>1. PICK i \in DOMAIN a : a[i] = f
      BY <2>1 DEF Occurs
    <3>2. i \in DOMAIN c /\ c[i] = f
      BY <1>4, <1>5, <1>6, <3>1
    <3>3. QED
      BY <3>2 DEF Occurs
  <2>2. CASE Occurs(f, b)
    <3>1. PICK i \in DOMAIN b : b[i] = f
      BY <2>2 DEF Occurs
    <3>2. i + x \in DOMAIN c /\ (i + x) - x = i /\ ~(i + x <= x)
      BY <1>4, <1>5, <3>1
    <3>3. c[i + x] = f
      BY <1>5, <1>6, <3>1, <3>2
    <3>4. QED
      BY <3>2, <3>3 DEF Occurs
  <2>3. QED
    BY <1>11, <2>1, <2>2
<1>12. QED
  BY <1>2, <1>10, <1>11

\* The path order has every name.
LEMMA PathOrderCovers ==
    ASSUME NEW names \in SUBSET Nat, IsFiniteSet(names)
    PROVE  \E n, o : /\ n \in Nat /\ o = PathOrder(names) /\ o \in [1..n -> names]
                     /\ \A x \in names : \E i \in 1..n : o[i] = x
<1>1. PICK R : R = {x \in names \X names : x[1] < x[2]}
  OBVIOUS
<1>2. StrictOrder(R, names)
  <2>1. \A x, y \in names : <<x, y>> \in R <=> x < y
    BY <1>1
  <2>2. QED
    BY <2>1 DEF StrictOrder
<1>3. PICK n \in Nat : n = Cardinality(names)
  BY FS_CardinalityType
<1>4. PICK o : o = PathOrder(names)
  OBVIOUS
<1>5. PICK s \in [1..n -> names] : SortedBy(s, R)
  BY <1>2, <1>3, SortExists
<1>6. \A i, j \in DOMAIN s : i < j => s[i] < s[j]
  BY <1>1, <1>5 DEF SortedBy
<1>7. o \in [1..n -> names] /\ \A i, j \in DOMAIN o : i < j => o[i] < o[j]
  BY <1>3, <1>4, <1>6 DEF PathOrder
<1>8. SortedBy(o, R)
  BY <1>1, <1>7 DEF SortedBy
<1>9. \A x \in names : \E i \in 1..n : o[i] = x
  BY <1>2, <1>3, <1>7, <1>8, SortCovers
<1>10. QED
  BY <1>4, <1>7, <1>9

\* The files of one kind are all there, in path order.
LEMMA FilesRanked ==
    ASSUME NEW S, NEW kind, NEW names \in SUBSET Nat, IsFiniteSet(names), NEW r \in Nat,
           \A n \in names : File(kind, n) \in S /\ Rank(File(kind, n)) = r
    PROVE  /\ Ranked(Files(kind, names), S, r, r)
           /\ \A n \in names : Occurs(File(kind, n), Files(kind, names))
<1>1. PICK n, o : /\ n \in Nat /\ o = PathOrder(names) /\ o \in [1..n -> names]
                  /\ \A x \in names : \E i \in 1..n : o[i] = x
  BY PathOrderCovers
<1>2. PICK q : q = [i \in 1..n |-> File(kind, o[i])]
  OBVIOUS
<1>3. q = Files(kind, names)
  BY <1>1, <1>2 DEF Files
<1>4. q \in Seq(S) /\ DOMAIN q = 1..n /\ \A i \in 1..n : q[i] = File(kind, o[i])
  <2>1. \A i \in 1..n : File(kind, o[i]) \in S
    BY <1>1
  <2>2. q \in [1..n -> S]
    BY <1>2, <2>1
  <2>3. QED
    BY <1>1, <1>2, <2>2, SeqDef
<1>5. Ranked(q, S, r, r)
  <2>1. \A i \in 1..n : o[i] \in names
    BY <1>1
  <2>2. \A i \in DOMAIN q : Rank(q[i]) = r
    BY <1>4, <2>1
  <2>3. QED
    BY <1>4, <2>2 DEF Ranked
<1>6. \A x \in names : Occurs(File(kind, x), q)
  BY <1>1, <1>4 DEF Occurs
<1>7. QED
  BY <1>3, <1>5, <1>6

\* So are the attestations of a batch.
LEMMA AttestationsRanked ==
    ASSUME NEW S, NEW B, B.drafts \in SUBSET Nat, IsFiniteSet(B.drafts), NEW r \in Nat,
           \A d \in B.drafts : /\ File("attestation", Attestation(d, B.second)) \in S
                              /\ Rank(File("attestation", Attestation(d, B.second))) = r
    PROVE  /\ Ranked(Attestations(B), S, r, r)
           /\ \A d \in B.drafts :
                 Occurs(File("attestation", Attestation(d, B.second)), Attestations(B))
<1>1. PICK n, o : /\ n \in Nat /\ o = PathOrder(B.drafts) /\ o \in [1..n -> B.drafts]
                  /\ \A x \in B.drafts : \E i \in 1..n : o[i] = x
  BY PathOrderCovers
<1>2. PICK q : q = [i \in 1..n |-> File("attestation", Attestation(o[i], B.second))]
  OBVIOUS
<1>3. q = Attestations(B)
  BY <1>1, <1>2 DEF Attestations
<1>4. /\ q \in Seq(S) /\ DOMAIN q = 1..n
      /\ \A i \in 1..n : q[i] = File("attestation", Attestation(o[i], B.second))
  <2>1. \A i \in 1..n : File("attestation", Attestation(o[i], B.second)) \in S
    BY <1>1
  <2>2. q \in [1..n -> S]
    BY <1>2, <2>1
  <2>3. QED
    BY <1>1, <1>2, <2>2, SeqDef
<1>5. Ranked(q, S, r, r)
  <2>1. \A i \in 1..n : o[i] \in B.drafts
    BY <1>1
  <2>2. \A i \in DOMAIN q : Rank(q[i]) = r
    BY <1>4, <2>1
  <2>3. QED
    BY <1>4, <2>2 DEF Ranked
<1>6. \A x \in B.drafts : Occurs(File("attestation", Attestation(x, B.second)), q)
  BY <1>1, <1>4 DEF Occurs
<1>7. QED
  BY <1>3, <1>5, <1>6

\* One file is ranked.
LEMMA FileRanked ==
    ASSUME NEW S, NEW f \in S, Rank(f) \in Nat
    PROVE  Ranked(<<f>>, S, Rank(f), Rank(f)) /\ Occurs(f, <<f>>)
<1>1. PICK q : q = <<f>>
  OBVIOUS
<1>2. q \in Seq(S) /\ DOMAIN q = {1} /\ q[1] = f
  BY <1>1
<1>3. QED
  BY <1>1, <1>2 DEF Ranked, Occurs

\* A set of drafts has finitely many payload objects.
LEMMA ObjectsFinite ==
    ASSUME shard \in Shards, NEW D \in SUBSET Drafts,
           NEW objs, objs = UNION {shard.draft[d].objects : d \in D}
    PROVE  IsFiniteSet(objs) /\ objs \in SUBSET Nat
<1>1. IsFiniteSet(D)
  BY DraftsTyped, FS_Subset DEF Draft, Drafts
<1>2. \A x \in D : IsFiniteSet(shard.draft[x].objects) /\ shard.draft[x].objects \subseteq Nat
  BY DraftsTyped DEF Draft, Drafts
<1>3. PICK O : O = {shard.draft[x].objects : x \in D}
  OBVIOUS
<1>4. IsFiniteSet(O)
  <2>1. PICK h : h = [x \in D |-> shard.draft[x].objects]
    OBVIOUS
  <2>2. h \in Surjection(D, O)
    BY <1>3, <2>1 DEF Surjection
  <2>3. QED
    BY <1>1, <2>2, FS_Surjection
<1>5. \A o \in O : IsFiniteSet(o)
  BY <1>2, <1>3
<1>6. IsFiniteSet(UNION O)
  BY <1>4, <1>5, FS_UNION
<1>7. QED
  BY <1>2, <1>3, <1>6

\* The files of a batch, all of them, in order of rank.
LEMMA StagedFilesRanked ==
    ASSUME shard \in Shards, NEW B \in BatchesOf(shard)
    PROVE  /\ Ranked(StagedFiles(B), FilesOf(shard, B), 1, 6)
           /\ \A f \in FilesOf(shard, B) : Occurs(f, StagedFiles(B))
<1> DEFINE S == FilesOf(shard, B)
           objs == ObjectsOf(B.drafts)
           o == Files("object", objs)
           a == Attestations(B)
           b == Files("encoding", B.drafts)
           c == <<File("index", 0)>>
           d == Files("manifest", B.drafts)
           e == <<File("record", B)>>
           stamp(n) == File("attestation", Attestation(n, B.second))
<1>1. IsFiniteSet(B.drafts) /\ B.drafts \in SUBSET Nat /\ B.drafts \in SUBSET Drafts
  BY DraftsTyped, FS_Subset DEF Draft, Drafts, BatchesOf
<1>2. IsFiniteSet(objs) /\ objs \in SUBSET Nat
  BY <1>1, ObjectsFinite DEF Draft, ObjectsOf
<1>3. /\ \A n : /\ Rank(File("object", n)) = 1 /\ Rank(File("attestation", n)) = 2
                /\ Rank(File("encoding", n)) = 3 /\ Rank(File("index", n)) = 4
                /\ Rank(File("manifest", n)) = 5 /\ Rank(File("record", n)) = 6
  BY DEF Rank, File
<1>4. /\ \A n \in objs : File("object", n) \in S
      /\ \A n \in B.drafts :
            stamp(n) \in S /\ File("encoding", n) \in S /\ File("manifest", n) \in S
      /\ File("index", 0) \in S /\ File("record", B) \in S
  BY DEF FilesOf, Draft, ObjectsOf
<1>5. \A f \in S : \/ \E n \in objs : f = File("object", n)
                   \/ \E n \in B.drafts : f = stamp(n)
                   \/ \E n \in B.drafts : f = File("encoding", n)
                   \/ f = File("index", 0)
                   \/ \E n \in B.drafts : f = File("manifest", n)
                   \/ f = File("record", B)
  BY DEF FilesOf, Draft, ObjectsOf
<1> HIDE DEF S, objs
<1>6. Ranked(o, S, 1, 1) /\ \A n \in objs : Occurs(File("object", n), o)
  BY <1>2, <1>3, <1>4, FilesRanked
<1>7. Ranked(a, S, 2, 2) /\ \A n \in B.drafts : Occurs(stamp(n), a)
  BY <1>1, <1>3, <1>4, AttestationsRanked
<1>8. Ranked(b, S, 3, 3) /\ \A n \in B.drafts : Occurs(File("encoding", n), b)
  <2>1. \A n \in B.drafts : File("encoding", n) \in S /\ Rank(File("encoding", n)) = 3
    BY <1>3, <1>4
  <2>2. QED
    BY <1>1, <2>1, FilesRanked
<1>9. Ranked(c, S, 4, 4) /\ Occurs(File("index", 0), c)
  BY <1>3, <1>4, FileRanked
<1>10. Ranked(d, S, 5, 5) /\ \A n \in B.drafts : Occurs(File("manifest", n), d)
  <2>1. \A n \in B.drafts : File("manifest", n) \in S /\ Rank(File("manifest", n)) = 5
    BY <1>3, <1>4
  <2>2. QED
    BY <1>1, <2>1, FilesRanked
<1>11. Ranked(e, S, 6, 6) /\ Occurs(File("record", B), e)
  BY <1>3, <1>4, FileRanked
<1> HIDE DEF o, a, b, c, d, e, stamp
<1>12. PICK oa : oa = o \o a
  OBVIOUS
<1>13. Ranked(oa, S, 1, 2) /\ \A f : Occurs(f, o) \/ Occurs(f, a) => Occurs(f, oa)
  <2>1. Ranked(o, S, 1, 1) /\ Ranked(a, S, 2, 2)
    BY <1>6, <1>7
  <2>2. /\ Ranked(o \o a, S, 1, 2)
        /\ \A f : Occurs(f, o) \/ Occurs(f, a) => Occurs(f, o \o a)
    BY <2>1, RankedConcat
  <2>3. QED
    BY <1>12, <2>2
<1>14. PICK oab : oab = oa \o b
  OBVIOUS
<1>15. Ranked(oab, S, 1, 3) /\ \A f : Occurs(f, oa) \/ Occurs(f, b) => Occurs(f, oab)
  <2>1. Ranked(oa, S, 1, 2) /\ Ranked(b, S, 3, 3)
    BY <1>13, <1>8
  <2>2. /\ Ranked(oa \o b, S, 1, 3)
        /\ \A f : Occurs(f, oa) \/ Occurs(f, b) => Occurs(f, oa \o b)
    BY <2>1, RankedConcat
  <2>3. QED
    BY <1>14, <2>2
<1>16. PICK oabc : oabc = oab \o c
  OBVIOUS
<1>17. Ranked(oabc, S, 1, 4) /\ \A f : Occurs(f, oab) \/ Occurs(f, c) => Occurs(f, oabc)
  <2>1. Ranked(oab, S, 1, 3) /\ Ranked(c, S, 4, 4)
    BY <1>15, <1>9
  <2>2. /\ Ranked(oab \o c, S, 1, 4)
        /\ \A f : Occurs(f, oab) \/ Occurs(f, c) => Occurs(f, oab \o c)
    BY <2>1, RankedConcat
  <2>3. QED
    BY <1>16, <2>2
<1>18. PICK oabcd : oabcd = oabc \o d
  OBVIOUS
<1>19. Ranked(oabcd, S, 1, 5) /\ \A f : Occurs(f, oabc) \/ Occurs(f, d) => Occurs(f, oabcd)
  <2>1. Ranked(oabc, S, 1, 4) /\ Ranked(d, S, 5, 5)
    BY <1>17, <1>10
  <2>2. /\ Ranked(oabc \o d, S, 1, 5)
        /\ \A f : Occurs(f, oabc) \/ Occurs(f, d) => Occurs(f, oabc \o d)
    BY <2>1, RankedConcat
  <2>3. QED
    BY <1>18, <2>2
<1>20. PICK all : all = oabcd \o e
  OBVIOUS
<1>21. Ranked(all, S, 1, 6) /\ \A f : Occurs(f, oabcd) \/ Occurs(f, e) => Occurs(f, all)
  <2>1. Ranked(oabcd, S, 1, 5) /\ Ranked(e, S, 6, 6)
    BY <1>19, <1>11
  <2>2. /\ Ranked(oabcd \o e, S, 1, 6)
        /\ \A f : Occurs(f, oabcd) \/ Occurs(f, e) => Occurs(f, oabcd \o e)
    BY <2>1, RankedConcat
  <2>3. QED
    BY <1>20, <2>2
<1>22. StagedFiles(B) = all
  BY <1>12, <1>14, <1>16, <1>18, <1>20 DEF StagedFiles, o, a, b, c, d, e, objs
<1>23. \A f \in S : Occurs(f, all)
  <2>1. \A f : \/ Occurs(f, o) \/ Occurs(f, a) \/ Occurs(f, b) \/ Occurs(f, c)
              \/ Occurs(f, d) \/ Occurs(f, e)
           => Occurs(f, all)
    BY <1>13, <1>15, <1>17, <1>19, <1>21
  <2>2. QED
    BY <1>5, <1>6, <1>7, <1>8, <1>9, <1>10, <1>11, <2>1
<1>24. QED
  BY <1>21, <1>22, <1>23 DEF S

\* Division keeps the order: a file of an earlier batch comes earlier.
LEMMA QuotientsOrdered ==
    ASSUME NEW x \in Nat, NEW y \in Nat, NEW n \in Nat \ {0}, x \div n < y \div n
    PROVE  x < y
  OBVIOUS

\* The batch of a file is one of the batches.
LEMMA QuotientNext ==
    ASSUME NEW x \in Nat, NEW y \in Nat, NEW n \in Nat \ {0}, x < y
    PROVE  /\ (x \div n) + 1 <= (y + n - 1) \div n
           /\ (y + n - 1) \div n \in Nat
  OBVIOUS

\* The batches of ranked files: finite, in order, with every file.
LEMMA BatchesRanked ==
    ASSUME shard \in Shards, NEW S, NEW q, Ranked(q, S, 1, 6), q # <<>>
    PROVE  /\ Batches(q) \in Seq(SUBSET S) /\ Batches(q) # <<>>
           /\ \A b \in DOMAIN Batches(q) : IsFiniteSet(Batches(q)[b])
           /\ \A f : Occurs(f, q) => \E b \in DOMAIN Batches(q) : f \in Batches(q)[b]
           /\ \A b, c \in DOMAIN Batches(q) : b < c =>
                 \A f \in Batches(q)[b], g \in Batches(q)[c] : Rank(f) <= Rank(g)
<1>1. PICK n \in Nat \ {0} : n = BatchParts
  BY DraftsTyped DEF BatchParts
<1>2. PICK l \in Nat \ {0} : l = Len(q) /\ DOMAIN q = 1..l
  BY LenProperties, EmptySeq DEF Ranked
<1>3. PICK m \in Nat : m = (l + n - 1) \div n /\ 1 <= m
  <2>1. (0 \div n) + 1 <= (l + n - 1) \div n /\ (l + n - 1) \div n \in Nat
    BY <1>1, <1>2, QuotientNext
  <2>2. 0 \div n \in Nat
    BY <1>1
  <2>3. QED
    BY <2>1, <2>2
<1> DEFINE Part(b) == {q[i] : i \in {j \in 1..l : (j - 1) \div n = b - 1}}
<1>4. PICK r : r = [b \in 1..m |-> Part(b)]
  OBVIOUS
<1>5. r = Batches(q)
  BY <1>1, <1>2, <1>3, <1>4 DEF Batches
<1>6. DOMAIN r = 1..m /\ \A b \in 1..m : r[b] = Part(b)
  BY <1>4
<1>7. \A b \in 1..m : Part(b) \subseteq S
  <2>1. \A i \in 1..l : q[i] \in S
    BY <1>2 DEF Ranked
  <2>2. QED
    BY <2>1
<1>8. r \in Seq(SUBSET S) /\ r # <<>>
  <2>1. r \in [1..m -> SUBSET S]
    BY <1>4, <1>7
  <2>2. r \in Seq(SUBSET S)
    BY <1>3, <2>1, SeqDef
  <2>3. 1 \in DOMAIN r
    BY <1>3, <1>6
  <2>4. QED
    BY <2>2, <2>3
<1>9. ASSUME NEW b \in 1..m PROVE IsFiniteSet(r[b])
  <2>1. PICK T : T = {j \in 1..l : (j - 1) \div n = b - 1}
    OBVIOUS
  <2>2. IsFiniteSet(T)
    <3>1. IsFiniteSet(1..l) /\ T \subseteq 1..l
      BY <1>2, <2>1, FS_Interval
    <3>2. QED
      BY <3>1, FS_Subset
  <2>3. PICK h : h = [i \in T |-> q[i]]
    OBVIOUS
  <2>4. h \in Surjection(T, r[b])
    BY <1>6, <2>1, <2>3 DEF Surjection
  <2>5. QED
    BY <2>2, <2>4, FS_Surjection
<1>10. ASSUME NEW f, Occurs(f, q) PROVE \E b \in DOMAIN r : f \in r[b]
  <2>1. PICK i \in 1..l : q[i] = f
    BY <1>2, <1>10 DEF Occurs
  <2>2. PICK x \in Nat : x = i - 1 /\ x < l
    BY <2>1
  <2>3. (x \div n) + 1 <= m /\ x \div n \in Nat
    BY <1>3, <2>2, QuotientNext
  <2>4. PICK b \in 1..m : b = (x \div n) + 1
    <3>1. PICK y \in Nat : y = x \div n /\ y + 1 <= m
      BY <2>3
    <3>2. y + 1 \in 1..m
      BY <3>1
    <3>3. QED
      BY <3>1, <3>2
  <2>5. (i - 1) \div n = b - 1
    BY <2>2, <2>3, <2>4
  <2>6. f \in r[b]
    BY <1>6, <2>1, <2>5
  <2>7. QED
    BY <1>6, <2>6
<1>11. ASSUME NEW b \in 1..m, NEW c \in 1..m, b < c, NEW f \in r[b], NEW g \in r[c]
       PROVE  Rank(f) <= Rank(g)
  <2>1. PICK i \in 1..l : f = q[i] /\ (i - 1) \div n = b - 1
    BY <1>6
  <2>2. PICK j \in 1..l : g = q[j] /\ (j - 1) \div n = c - 1
    BY <1>6
  <2>3. PICK x \in Nat, y \in Nat : x = i - 1 /\ y = j - 1
    OBVIOUS
  <2>4. x \div n < y \div n
    BY <1>11, <2>1, <2>2, <2>3
  <2>5. i < j
    BY <2>3, <2>4, QuotientsOrdered
  <2>6. QED
    BY <1>2, <2>1, <2>2, <2>5 DEF Ranked
<1>12. QED
  BY <1>5, <1>6, <1>8, <1>9, <1>10, <1>11

\* What a run prepares is a job on top of the tree that it is staged from.
LEMMA StagedJob ==
    ASSUME shard \in Shards, NEW p, NEW t, TreeOK(shard, t), NEW B \in BatchesOf(shard),
           ~StagingFails(p, t, B)
    PROVE  JobOK(shard, B, t, Job(p, t, B))
<1>1. PICK j : j = Job(p, t, B)
  OBVIOUS
<1>2. PICK x, q, b : /\ x = [k \in Keys |-> StagedEntry(p, t, B, k).entry]
                     /\ q = StagedFiles(B) /\ b = Batches(q)
  OBVIOUS
<1>3. j = [index |-> x, batches |-> b]
  BY <1>1, <1>2 DEF Job
<1>4. Keys = KeysOf(shard) /\ t.index \in Indexes(shard)
  BY DEF Keys, KeysOf, Draft, Drafts, TreeOK, Trees
<1>5. \A k \in KeysOf(shard) :
         /\ x[k] \in Entries(shard) \cup {NoEntry}
         /\ Follows(shard, t.index[k], x[k])
         /\ x[k] # NoEntry => x[k].draft \in B.drafts \/ x[k] = t.index[k]
  <2> SUFFICES ASSUME NEW k \in Keys
               PROVE  /\ x[k] \in Entries(shard) \cup {NoEntry}
                      /\ Follows(shard, t.index[k], x[k])
                      /\ x[k] # NoEntry => x[k].draft \in B.drafts \/ x[k] = t.index[k]
    BY <1>4
  <2>1. ~StagedEntry(p, t, B, k).refused
    BY DEF StagingFails
  <2>2. x[k] = StagedEntry(p, t, B, k).entry
    BY <1>2
  <2>3. QED
    BY <1>4, <2>1, <2>2, StagedFollows
<1>6. x \in Indexes(shard)
  BY <1>2, <1>4, <1>5 DEF Indexes
<1>7. \A k \in KeysOf(shard) :
         x[k] # NoEntry => x[k].draft \in B.drafts \/ Stored(shard, t, x[k].draft)
  BY <1>5 DEF TreeOK, Reachable
<1>8. /\ Ranked(q, FilesOf(shard, B), 1, 6)
      /\ \A f \in FilesOf(shard, B) : Occurs(f, q)
  BY <1>2, StagedFilesRanked
<1>9. q # <<>>
  <2>1. File("index", 0) \in FilesOf(shard, B)
    BY DEF FilesOf
  <2>2. DOMAIN q # {}
    BY <1>8, <2>1 DEF Occurs
  <2>3. QED
    BY <2>2
<1>10. /\ b \in Seq(SUBSET FilesOf(shard, B)) /\ b # <<>>
       /\ \A i \in DOMAIN b : IsFiniteSet(b[i])
       /\ \A f \in FilesOf(shard, B) : \E i \in DOMAIN b : f \in b[i]
       /\ \A i, m \in DOMAIN b : i < m => \A f \in b[i], g \in b[m] : Rank(f) <= Rank(g)
  <2>1. PICK S : S = FilesOf(shard, B)
    OBVIOUS
  <2>2. Ranked(q, S, 1, 6) /\ b = Batches(q)
    BY <1>2, <1>8, <2>1
  <2>3. /\ b \in Seq(SUBSET S) /\ b # <<>>
        /\ \A i \in DOMAIN b : IsFiniteSet(b[i])
        /\ \A f : Occurs(f, q) => \E i \in DOMAIN b : f \in b[i]
        /\ \A i, m \in DOMAIN b : i < m => \A f \in b[i], g \in b[m] : Rank(f) <= Rank(g)
    BY <1>9, <2>2, BatchesRanked
  <2>4. QED
    BY <1>8, <2>1, <2>3
<1>11. JobOK(shard, B, t, j)
  BY <1>3, <1>5, <1>6, <1>7, <1>10 DEF JobOK
<1>12. QED
  BY <1>1, <1>11

-----------------------------------------------------------------------------
\* The tree before there was a ledger

\* There are as many files of a kind as names.
LEMMA FilesOfNames ==
    ASSUME NEW kind, NEW N, IsFiniteSet(N)
    PROVE  /\ IsFiniteSet({File(kind, n) : n \in N})
           /\ Cardinality({File(kind, n) : n \in N}) = Cardinality(N)
<1>1. PICK T : T = {File(kind, n) : n \in N}
  OBVIOUS
<1>2. PICK h : h = [n \in N |-> File(kind, n)]
  OBVIOUS
<1>3. \A n \in N : File(kind, n).name = n
  BY DEF File
<1>4. h \in Bijection(N, T)
  <2>1. h \in [N -> T] /\ \A n \in N : h[n] = File(kind, n)
    BY <1>1, <1>2
  <2>2. \A n, m \in N : h[n] = h[m] => n = m
    BY <1>3, <2>1
  <2>3. \A f \in T : \E n \in N : h[n] = f
    BY <1>1, <2>1
  <2>4. QED
    BY <2>1, <2>2, <2>3 DEF Bijection, Injection, IsInjective, Surjection
<1>5. ExistsBijection(N, T)
  BY <1>4 DEF ExistsBijection
<1>6. QED
  BY <1>1, <1>5, FS_Bijection

\* The size of a union of disjoint sets.
LEMMA DisjointUnion ==
    ASSUME NEW A, NEW B, IsFiniteSet(A), IsFiniteSet(B), A \cap B = {}
    PROVE  /\ IsFiniteSet(A \cup B)
           /\ Cardinality(A \cup B) = Cardinality(A) + Cardinality(B)
           /\ Cardinality(A) \in Nat /\ Cardinality(B) \in Nat
<1>1. Cardinality(A) \in Nat /\ Cardinality(B) \in Nat
  BY FS_CardinalityType
<1>2. /\ IsFiniteSet(A \cup B)
      /\ Cardinality(A \cup B) = Cardinality(A) + Cardinality(B) - Cardinality(A \cap B)
  BY FS_Union
<1>3. Cardinality(A \cap B) = 0
  BY FS_EmptySet
<1>4. Cardinality(A \cup B) = Cardinality(A) + Cardinality(B)
  BY <1>1, <1>2, <1>3
<1>5. QED
  BY <1>1, <1>2, <1>4

\* There are as many attestations as drafts.
LEMMA AttestationsCount ==
    ASSUME NEW D, IsFiniteSet(D), NEW x
    PROVE  /\ IsFiniteSet({Attestation(d, x) : d \in D})
           /\ Cardinality({Attestation(d, x) : d \in D}) = Cardinality(D)
<1>1. PICK T : T = {Attestation(d, x) : d \in D}
  OBVIOUS
<1>2. PICK h : h = [d \in D |-> Attestation(d, x)]
  OBVIOUS
<1>3. \A d \in D : Attestation(d, x).draft = d
  BY DEF Attestation
<1>4. h \in Bijection(D, T)
  <2>1. h \in [D -> T] /\ \A d \in D : h[d] = Attestation(d, x)
    BY <1>1, <1>2
  <2>2. \A d, e \in D : h[d] = h[e] => d = e
    BY <1>3, <2>1
  <2>3. \A f \in T : \E d \in D : h[d] = f
    BY <1>1, <2>1
  <2>4. QED
    BY <2>1, <2>2, <2>3 DEF Bijection, Injection, IsInjective, Surjection
<1>5. ExistsBijection(D, T)
  BY <1>4 DEF ExistsBijection
<1>6. QED
  BY <1>1, <1>5, FS_Bijection

\* The number of files of a batch.
LEMMA FilesOfCount ==
    ASSUME NEW s, NEW B, NEW D, D = B.drafts, IsFiniteSet(D), NEW objs, IsFiniteSet(objs),
           objs = UNION {s.draft[d].objects : d \in D}
    PROVE  /\ Cardinality(FilesOf(s, B))
                 = Cardinality(objs) + (Cardinality(D) + Cardinality(D) + Cardinality(D) + 1 + 1)
           /\ Cardinality(objs) \in Nat /\ Cardinality(D) \in Nat
<1> DEFINE stamps == {Attestation(x, B.second) : x \in D}
           o == {File("object", x) : x \in objs}
           a == {File("attestation", x) : x \in stamps}
           b == {File("encoding", x) : x \in D}
           c == {File("index", 0)}
           d == {File("manifest", x) : x \in D}
           e == {File("record", B)}
<1>1. /\ IsFiniteSet(o) /\ Cardinality(o) = Cardinality(objs)
      /\ IsFiniteSet(a) /\ Cardinality(a) = Cardinality(D)
      /\ IsFiniteSet(b) /\ Cardinality(b) = Cardinality(D)
      /\ IsFiniteSet(c) /\ Cardinality(c) = 1
      /\ IsFiniteSet(d) /\ Cardinality(d) = Cardinality(D)
      /\ IsFiniteSet(e) /\ Cardinality(e) = 1
  <2>1. IsFiniteSet(o) /\ Cardinality(o) = Cardinality(objs)
    BY FilesOfNames
  <2>2. IsFiniteSet(stamps) /\ Cardinality(stamps) = Cardinality(D)
    BY AttestationsCount
  <2>3. IsFiniteSet(a) /\ Cardinality(a) = Cardinality(stamps)
    <3> HIDE DEF stamps
    <3> QED BY <2>2, FilesOfNames
  <2>4. IsFiniteSet(b) /\ Cardinality(b) = Cardinality(D)
    BY FilesOfNames
  <2>5. IsFiniteSet(d) /\ Cardinality(d) = Cardinality(D)
    BY FilesOfNames
  <2>6. IsFiniteSet(c) /\ Cardinality(c) = 1 /\ IsFiniteSet(e) /\ Cardinality(e) = 1
    BY FS_Singleton
  <2> HIDE DEF stamps, o, a, b, c, d, e
  <2>7. QED
    BY <2>1, <2>2, <2>3, <2>4, <2>5, <2>6
<1>2. /\ \A f \in o : f.kind = "object"
      /\ \A f \in a : f.kind = "attestation"
      /\ \A f \in b : f.kind = "encoding"
      /\ \A f \in c : f.kind = "index"
      /\ \A f \in d : f.kind = "manifest"
      /\ \A f \in e : f.kind = "record"
  BY DEF File
<1>3. a = {File("attestation", Attestation(x, B.second)) : x \in D}
  OBVIOUS
<1>4. FilesOf(s, B) = ((((o \cup a) \cup b) \cup c) \cup d) \cup e
  <2> HIDE DEF a
  <2> QED BY <1>3 DEF FilesOf
<1> HIDE DEF stamps, o, a, b, c, d, e
<1>5. /\ o \cap a = {} /\ (o \cup a) \cap b = {} /\ ((o \cup a) \cup b) \cap c = {}
      /\ (((o \cup a) \cup b) \cup c) \cap d = {}
      /\ ((((o \cup a) \cup b) \cup c) \cup d) \cap e = {}
  BY <1>2
<1>6. /\ IsFiniteSet(o \cup a) /\ Cardinality(o \cup a) = Cardinality(o) + Cardinality(a)
      /\ Cardinality(o) \in Nat /\ Cardinality(a) \in Nat
  BY <1>1, <1>5, DisjointUnion
<1>7. /\ IsFiniteSet((o \cup a) \cup b)
      /\ Cardinality((o \cup a) \cup b) = Cardinality(o \cup a) + Cardinality(b)
  BY <1>1, <1>5, <1>6, DisjointUnion
<1>8. /\ IsFiniteSet(((o \cup a) \cup b) \cup c)
      /\ Cardinality(((o \cup a) \cup b) \cup c) = Cardinality((o \cup a) \cup b) + Cardinality(c)
  BY <1>1, <1>5, <1>7, DisjointUnion
<1>9. /\ IsFiniteSet((((o \cup a) \cup b) \cup c) \cup d)
      /\ Cardinality((((o \cup a) \cup b) \cup c) \cup d)
            = Cardinality(((o \cup a) \cup b) \cup c) + Cardinality(d)
  BY <1>1, <1>5, <1>8, DisjointUnion
<1>10. Cardinality(((((o \cup a) \cup b) \cup c) \cup d) \cup e)
         = Cardinality((((o \cup a) \cup b) \cup c) \cup d) + Cardinality(e)
  BY <1>1, <1>5, <1>9, DisjointUnion
<1>11. QED
  BY <1>1, <1>4, <1>6, <1>7, <1>8, <1>9, <1>10

\* The legacy batch and index.
LegacyBatch == Batch(Legacy, 0)
LegacyIndex ==
    [k \in Keys |-> LET order == BatchOrder(Legacy, k)
                    IN  IF order = <<>> THEN NoEntry
                        ELSE [draft |-> order[Len(order)], txn |-> LegacyBatch]]

\* It names legacy drafts, and at least one.
LEMMA LegacyIndexTyped ==
    ASSUME shard \in Shards, Legacy # {}
    PROVE  /\ LegacyIndex \in Indexes(shard)
           /\ \A k \in KeysOf(shard) : LegacyIndex[k] # NoEntry => LegacyIndex[k].draft \in Legacy
           /\ \E k \in KeysOf(shard) : LegacyIndex[k] # NoEntry
<1>1. Legacy \in SUBSET Drafts /\ Keys = KeysOf(shard)
  BY ShardAssumption DEF Legacy, Drafts, Draft, Keys, KeysOf
<1>2. \A d \in Legacy : [draft |-> d, txn |-> LegacyBatch] \in Entries(shard)
  <2>1. LegacyBatch \in BatchesOf(shard)
    BY <1>1 DEF LegacyBatch, Batch, BatchesOf, Drafts, Draft
  <2>2. QED
    BY <1>1, <2>1 DEF Entries, Drafts, Draft
<1>3. \A d \in Legacy : [draft |-> d, txn |-> LegacyBatch] # NoEntry
  BY <1>2, EntryPresent
<1>4. ASSUME NEW k \in Keys
      PROVE  /\ LegacyIndex[k] = NoEntry
                \/ \E d \in Legacy : LegacyIndex[k] = [draft |-> d, txn |-> LegacyBatch]
             /\ (\E d \in Legacy : Draft[d].key = k) =>
                   \E d \in Legacy : LegacyIndex[k] = [draft |-> d, txn |-> LegacyBatch]
  <2>1. PICK S : S = {d \in Legacy : Draft[d].key = k}
    OBVIOUS
  <2>2. PICK n, order : /\ n = Cardinality(S) /\ n \in Nat /\ order \in [1..n -> S]
                        /\ order = BatchOrder(Legacy, k) /\ Len(order) = n /\ IsFiniteSet(S)
    BY <1>1, <2>1, BatchOrderTyped
  <2>3. LegacyIndex[k] = IF order = <<>> THEN NoEntry ELSE [draft |-> order[n], txn |-> LegacyBatch]
    BY <2>2 DEF LegacyIndex
  <2>4. order \in Seq(S)
    BY <2>2, SeqDef
  <2>5. ASSUME order # <<>> PROVE order[n] \in Legacy
    <3>1. n \in Nat \ {0}
      BY <2>2, <2>4, <2>5, EmptySeq
    <3>2. QED
      BY <2>1, <2>2, <3>1
  <2>6. ASSUME NEW d \in Legacy, Draft[d].key = k PROVE order # <<>>
    <3>1. S # {}
      BY <2>1, <2>6
    <3>2. n # 0
      BY <2>2, <3>1, FS_EmptySet
    <3>3. QED
      BY <2>2, <3>2, EmptySeq
  <2>7. QED
    BY <2>3, <2>5, <2>6
<1>5. LegacyIndex \in Indexes(shard)
  <2>1. \A k \in Keys : LegacyIndex[k] \in Entries(shard) \cup {NoEntry}
    BY <1>2, <1>4
  <2>2. LegacyIndex = [k \in Keys |-> LegacyIndex[k]]
    BY DEF LegacyIndex
  <2>3. QED
    BY <1>1, <2>1, <2>2 DEF Indexes
<1>6. \A k \in KeysOf(shard) : LegacyIndex[k] # NoEntry => LegacyIndex[k].draft \in Legacy
  <2> SUFFICES ASSUME NEW k \in Keys, LegacyIndex[k] # NoEntry PROVE LegacyIndex[k].draft \in Legacy
    BY <1>1
  <2>1. PICK d \in Legacy : LegacyIndex[k] = [draft |-> d, txn |-> LegacyBatch]
    BY <1>4
  <2>2. QED
    BY <2>1
<1>7. \E k \in KeysOf(shard) : LegacyIndex[k] # NoEntry
  <2>1. PICK d \in Legacy : TRUE
    OBVIOUS
  <2>2. Draft[d].key \in Keys
    BY <1>1 DEF Keys
  <2>3. \E c \in Legacy : LegacyIndex[Draft[d].key] = [draft |-> c, txn |-> LegacyBatch]
    BY <1>4, <2>2
  <2>4. QED
    BY <1>1, <1>3, <2>2, <2>3
<1>8. QED
  BY <1>5, <1>6, <1>7

\* A shard may start with it.
LEMMA LegacyTreeOK ==
    ASSUME shard \in Shards
    PROVE  TreeOK(shard, LegacyTree)
<1>1. PICK t : t = LegacyTree
  OBVIOUS
<1>2. Keys = KeysOf(shard)
  BY DEF Keys, KeysOf, Drafts, Draft
<1>3. shard.capacity \in Nat
  BY DraftsTyped
<1>4. CASE Legacy = {}
  <2>1. t = EmptyTree
    BY <1>1, <1>4 DEF LegacyTree
  <2>2. /\ t.objects = {} /\ t.attestations = {} /\ t.encodings = {} /\ t.manifests = {} /\ t.records = {}
        /\ t.index = [k \in KeysOf(shard) |-> NoEntry] /\ t.ledger = NoLedger /\ t.blobs = 0
    BY <1>2, <2>1 DEF EmptyTree
  <2>3. t \in Trees(shard)
    BY <1>2, <2>1 DEF EmptyTree, Trees, Indexes
  <2>4. Cardinality({}) = 0 /\ IsFiniteSet({})
    BY FS_EmptySet
  <2>5. Covers(shard, t)
    BY <1>3, <2>2, <2>4 DEF Covers
  <2>6. Reachable(shard, t) /\ Proves(shard, t)
    BY <2>2 DEF Reachable, Proves
  <2>7. QED
    BY <1>1, <2>2, <2>3, <2>4, <2>5, <2>6 DEF TreeOK
<1>5. CASE Legacy # {}
  <2>1. PICK L : L = Legacy
    OBVIOUS
  <2>2. L \in SUBSET Drafts /\ L \in SUBSET Nat /\ IsFiniteSet(L)
    <3>1. L \in SUBSET Drafts
      BY <2>1, ShardAssumption DEF Legacy, Drafts, Draft
    <3>2. QED
      BY <3>1, DraftsTyped, FS_Subset DEF Drafts, Draft
  <2> DEFINE B == LegacyBatch
  <2>0. B \in BatchesOf(shard) /\ B.drafts = L /\ B.second = 0
    BY <2>1, <2>2 DEF LegacyBatch, Batch, BatchesOf, Drafts, Draft
  <2> HIDE DEF B
  <2>3. PICK objs : objs = UNION {shard.draft[d].objects : d \in L}
    OBVIOUS
  <2>4. PICK files : files = FilesOf(shard, B)
    OBVIOUS
  <2>5. files = Range(StagedFiles(B))
    <3>1. PICK q : q = StagedFiles(B)
      OBVIOUS
    <3>2. Ranked(q, files, 1, 6) /\ \A f \in files : Occurs(f, q)
      BY <2>0, <2>4, <3>1, StagedFilesRanked
    <3>3. \A i \in DOMAIN q : q[i] \in files
      BY <3>2, LenProperties, ElementOfSeq DEF Ranked
    <3>4. QED
      BY <3>1, <3>2, <3>3 DEF Range, Occurs
  <2> DEFINE stamps == {Attestation(d, 0) : d \in L}
  <2>6. /\ Names(files, "attestation") = stamps
        /\ Names(files, "object") = objs /\ Names(files, "encoding") = L
        /\ Names(files, "manifest") = L /\ Names(files, "record") = {B}
        /\ Names(files, "index") # {}
    <3>1. ASSUME NEW o \in objs PROVE \E f \in files : f.kind = "object" /\ f.name = o
      <4>1. PICK d \in L : o \in shard.draft[d].objects
        BY <2>3
      <4>2. File("object", o) \in files /\ File("object", o).kind = "object"
            /\ File("object", o).name = o
        BY <2>0, <2>4, <4>1, FilesOfDraft
      <4>3. QED
        BY <4>2
    <3>2. ASSUME NEW d \in L
          PROVE  /\ \E f \in files : f.kind = "encoding" /\ f.name = d
                 /\ \E f \in files : f.kind = "manifest" /\ f.name = d
      <4>1. File("encoding", d) \in files /\ File("encoding", d).kind = "encoding"
            /\ File("encoding", d).name = d
        BY <2>0, <2>4, FilesOfDraft
      <4>2. File("manifest", d) \in files /\ File("manifest", d).kind = "manifest"
            /\ File("manifest", d).name = d
        BY <2>0, <2>4, FilesOfDraft
      <4>3. QED
        BY <4>1, <4>2
    <3>3. ASSUME NEW d \in L
          PROVE  \E f \in files : f.kind = "attestation" /\ f.name = Attestation(d, 0)
      <4>1. d \in B.drafts
        BY <2>0
      <4>2. \E f \in FilesOf(shard, B) : f.kind = "attestation" /\ f.name = Attestation(d, B.second)
        <5>1. PICK f : f = File("attestation", Attestation(d, B.second))
          OBVIOUS
        <5>2. f \in FilesOf(shard, B) /\ f.kind = "attestation" /\ f.name = Attestation(d, B.second)
          BY <4>1, <5>1, FilesOfDraft
        <5>3. QED
          BY <5>2
      <4>3. QED
        BY <2>0, <2>4, <4>2
    <3>4. \E f \in files : f.kind = "record" /\ f.name = B
      BY <1>5, <2>0, <2>1, <2>4, FilesOfDraft
    <3>5. \E f \in files : f.kind = "index"
      <4>1. File("index", 0) \in files
        BY <2>4 DEF FilesOf
      <4>2. File("index", 0).kind = "index"
        BY DEF File
      <4>3. QED
        BY <4>1, <4>2
    <3>6. \A f \in files : /\ f.kind = "object" => f.name \in objs
                           /\ f.kind \in {"encoding", "manifest"} => f.name \in L
                           /\ f.kind = "attestation" => f.name \in stamps
                           /\ f.kind = "record" => f.name = B
      BY <2>0, <2>3, <2>4, FilesOfKinds
    <3>7. Names(files, "object") = objs
      <4>1. \A n \in Names(files, "object") : n \in objs
        BY <3>6, NamesOfKind
      <4>2. \A n \in objs : n \in Names(files, "object")
        BY <3>1, NamesOfKind
      <4>3. QED
        BY <4>1, <4>2
    <3>8. Names(files, "encoding") = L
      <4>1. \A n \in Names(files, "encoding") : n \in L
        BY <3>6, NamesOfKind
      <4>2. \A n \in L : n \in Names(files, "encoding")
        BY <3>2, NamesOfKind
      <4>3. QED
        BY <4>1, <4>2
    <3>9. Names(files, "manifest") = L
      <4>1. \A n \in Names(files, "manifest") : n \in L
        BY <3>6, NamesOfKind
      <4>2. \A n \in L : n \in Names(files, "manifest")
        BY <3>2, NamesOfKind
      <4>3. QED
        BY <4>1, <4>2
    <3>10. Names(files, "record") = {B}
      BY <3>4, <3>6, NamesOfKind
    <3>11. Names(files, "index") # {}
      BY <3>5, NamesOfKind
    <3>12. Names(files, "attestation") = stamps
      <4>1. \A n \in Names(files, "attestation") : n \in stamps
        BY <3>6, NamesOfKind
      <4>2. \A n \in stamps : \E f \in files : f.kind = "attestation" /\ f.name = n
        BY <3>3
      <4>3. \A n \in stamps : n \in Names(files, "attestation")
        <5> HIDE DEF stamps
        <5> QED BY <4>2, NamesOfKind
      <4>4. QED
        BY <4>1, <4>3
    <3>13. QED
      BY <3>7, <3>8, <3>9, <3>10, <3>11, <3>12
  <2> HIDE DEF stamps
  <2>7. /\ t.objects = objs /\ t.attestations = stamps
        /\ t.encodings = L /\ t.manifests = L /\ t.records = {B}
        /\ t.index = LegacyIndex /\ t.ledger = NoLedger /\ t.blobs = Cardinality(files)
        /\ t = [objects |-> t.objects, attestations |-> t.attestations,
                encodings |-> t.encodings, manifests |-> t.manifests,
                records |-> t.records, index |-> t.index, ledger |-> t.ledger, blobs |-> t.blobs]
    <3>1. PICK x : x = Updated([EmptyTree EXCEPT !.ledger = ReconciledLedger(EmptyTree)],
                               files, LegacyIndex)
      OBVIOUS
    <3>2. t = [x EXCEPT !.ledger = NoLedger, !.blobs = Cardinality(files)]
      BY <1>1, <1>5, <2>1, <2>5, <3>1 DEF LegacyTree, LegacyIndex, LegacyBatch, B
    <3>3. /\ x = [objects |-> x.objects, attestations |-> x.attestations,
                  encodings |-> x.encodings, manifests |-> x.manifests,
                  records |-> x.records, index |-> x.index, ledger |-> x.ledger, blobs |-> x.blobs]
          /\ x.objects = objs /\ x.attestations = stamps
          /\ x.encodings = L /\ x.manifests = L /\ x.records = {B}
          /\ x.index = LegacyIndex
      BY <2>6, <3>1 DEF Updated, EmptyTree
    <3>4. t = [objects |-> x.objects, attestations |-> x.attestations,
               encodings |-> x.encodings, manifests |-> x.manifests,
               records |-> x.records, index |-> x.index, ledger |-> NoLedger,
               blobs |-> Cardinality(files)]
      BY <3>2, <3>3
    <3>5. QED
      BY <3>3, <3>4
  <2>8. objs \in SUBSET Nat /\ IsFiniteSet(objs)
    BY <2>2, <2>3, ObjectsFinite
  <2>9. /\ Cardinality(files)
              = Cardinality(objs) + (Cardinality(L) + Cardinality(L) + Cardinality(L) + 1 + 1)
        /\ Cardinality(objs) \in Nat /\ Cardinality(L) \in Nat /\ Cardinality(stamps) = Cardinality(L)
    <3>1. Cardinality(stamps) = Cardinality(L)
      BY <2>2, AttestationsCount DEF stamps
    <3>2. L = B.drafts /\ IsFiniteSet(L) /\ IsFiniteSet(objs)
      BY <2>0, <2>2, <2>8
    <3>3. /\ Cardinality(FilesOf(shard, B))
                = Cardinality(objs) + (Cardinality(L) + Cardinality(L) + Cardinality(L) + 1 + 1)
          /\ Cardinality(objs) \in Nat /\ Cardinality(L) \in Nat
      BY <2>3, <3>2, FilesOfCount
    <3>4. QED
      BY <2>4, <3>1, <3>3
  <2>10. t \in Trees(shard)
    <3>1. t.index \in Indexes(shard)
      BY <1>5, <2>7, LegacyIndexTyped
    <3>2. t.blobs \in Nat
      BY <2>7, <2>9
    <3>3. B \in [drafts : SUBSET Nat, second : Nat]
      BY <2>0, <2>2 DEF BatchesOf
    <3>4. stamps \in SUBSET [draft : Nat, second : Nat]
      BY <2>2 DEF stamps, Attestation
    <3>5. QED
      BY <2>2, <2>7, <2>8, <3>1, <3>2, <3>3, <3>4 DEF Trees
  <2>11. \A d \in L : Certified(shard, t, B, d)
    <3>1. \A d \in L : Complete(shard, t, d)
      BY <2>0, <2>3, <2>7 DEF Complete, Stored
    <3>2. \A d \in L : Attestation(d, 0) \in t.attestations
      BY <2>7 DEF stamps
    <3>3. QED
      BY <2>0, <3>1, <3>2 DEF Certified
  <2>12. Reachable(shard, t) /\ Proves(shard, t)
    <3>1. Proves(shard, t)
      BY <2>0, <2>7, <2>11 DEF Proves
    <3>2. Reachable(shard, t)
      BY <1>5, <2>1, <2>7, <2>11, LegacyIndexTyped DEF Reachable, Certified, Complete
    <3>3. QED
      BY <3>1, <3>2
  <2>13. Covers(shard, t)
    <3>1. Cardinality({B}) = 1
      BY FS_Singleton
    <3>2. ~(\A k \in KeysOf(shard) : t.index[k] = NoEntry)
      BY <1>5, <2>7, LegacyIndexTyped
    <3>3. LegacyFits(shard) => t.blobs <= shard.capacity
      BY <1>5, <2>1, <2>4, <2>7 DEF LegacyFits, Legacy, LegacyBatch, B
    <3>4. QED
      BY <2>7, <2>9, <3>1, <3>2, <3>3 DEF Covers
  <2>14. QED
    BY <1>1, <2>7, <2>8, <2>10, <2>12, <2>13 DEF TreeOK
<1>6. QED
  BY <1>4, <1>5

-----------------------------------------------------------------------------
\* The inductive invariant

Building == {"init", "plan", "commit"}

\* A commit that is on its way is known to nobody.
IdsOK ==
    /\ main < nextId
    /\ \A p \in Publishers : pc[p] \in Building => head[p].id < nextId
    /\ \A u \in late :
          /\ u.id < nextId /\ u.exp < nextId /\ u.id # main
          /\ \A p \in Publishers : pc[p] \in Building => head[p].id # u.id
          /\ \A w \in late : w.exp # u.id /\ (w.id = u.id => w = u)

\* A push that can still be executed may follow main.
LateOK ==
    \A u \in late : TreeOK(shard, u.tree) /\ (u.exp = main => Grows(shard, tree, u.tree))

\* A publisher builds on a tree that main has grown from, with a ledger once it plans.
HeadOK(p) ==
    /\ TreeOK(shard, head[p].tree) /\ Grows(shard, head[p].tree, tree)
    /\ head[p].id = main => head[p].tree = tree
    /\ head[p].tree.ledger = NoLedger <=> pc[p] = "init"

\* The drafts that are not pending are on main.
PendingOK(p) ==
    /\ pending[p] \subseteq shard.work[p]
    /\ \A d \in shard.work[p] \ pending[p] : Kept(shard, tree, d)

PublisherOK(p) ==
    /\ pc[p] \in Building => HeadOK(p)
    /\ pc[p] = "commit" => JobOK(shard, Batch(pending[p], second[p]), head[p].tree, job[p])
    /\ pc[p] \notin {"idle", "release"} => PendingOK(p) /\ result[p] # "ok"
    /\ result[p] = "ok" => \A d \in shard.work[p] : Kept(shard, tree, d)

\* The variables are functions of the publishers and identities are numbers.
ShapesOK ==
    /\ shard \in Shards /\ main \in Nat /\ nextId \in Nat
    /\ pc = [p \in Publishers |-> pc[p]] /\ pending = [p \in Publishers |-> pending[p]]
    /\ head = [p \in Publishers |-> head[p]] /\ job = [p \in Publishers |-> job[p]]
    /\ result = [p \in Publishers |-> result[p]] /\ second \in [Publishers -> Nat]
    /\ \A p \in Publishers : pc[p] \in Building => head[p].id \in Nat
    /\ \A u \in late : u.id \in Nat /\ u.exp \in Nat

FamilyInv ==
    /\ ShapesOK /\ TreeOK(shard, tree) /\ IdsOK /\ LateOK
    /\ \A p \in Publishers : PublisherOK(p)

-----------------------------------------------------------------------------
\* Steps, as they look to the invariant

\* Only p moves.
Alone(p) ==
    /\ pc' = [q \in Publishers |-> pc'[q]] /\ pending' = [q \in Publishers |-> pending'[q]]
    /\ head' = [q \in Publishers |-> head'[q]] /\ job' = [q \in Publishers |-> job'[q]]
    /\ result' = [q \in Publishers |-> result'[q]] /\ second' \in [Publishers -> Nat]
    /\ \A q \in Publishers \ {p} :
          /\ pc'[q] = pc[q] /\ pending'[q] = pending[q] /\ head'[q] = head[q]
          /\ job'[q] = job[q] /\ result'[q] = result[q] /\ second'[q] = second[q]

\* The server has accepted a commit on top of p's head.
Accepts(p) ==
    /\ pc[p] \in Building /\ main = head[p].id /\ main' = nextId
    /\ TreeOK(shard, tree') /\ Grows(shard, head[p].tree, tree')
    /\ nextId' = nextId + 1 /\ late' = late

\* It may still execute one.
Delays(p) ==
    /\ pc[p] \in Building
    /\ \E u : /\ late' = late \cup {u} /\ u.exp = head[p].id /\ u.id = nextId
              /\ TreeOK(shard, u.tree) /\ Grows(shard, head[p].tree, u.tree)
    /\ nextId' = nextId + 1 /\ UNCHANGED <<main, tree>>

Nothing == UNCHANGED <<main, tree, nextId, late>>

\* p's head is main, or the one it had.
HeadKnown(p) ==
    pc'[p] \in Building =>
        head'[p].id = main' \/ (pc[p] \in Building /\ head'[p].id = head[p].id)

\* What main may do under a publisher that does not move.
Advances(q) ==
    /\ TreeOK(shard, tree') /\ Grows(shard, tree, tree')
    /\ (main' = main /\ tree' = tree) \/ (pc[q] \in Building => head[q].id # main')

\* The invariant is preserved, and main has only grown.
Preserved == FamilyInv' /\ Grows(shard, tree, tree')

\* A publisher that does not move is not disturbed.
LEMMA OthersKept ==
    ASSUME FamilyInv, shard' = shard, NEW q \in Publishers, Advances(q),
           pc'[q] = pc[q], pending'[q] = pending[q], head'[q] = head[q], job'[q] = job[q],
           result'[q] = result[q], second'[q] = second[q]
    PROVE  PublisherOK(q)'
<1>1. shard \in Shards /\ PublisherOK(q) /\ TreeOK(shard, tree)
  BY DEF FamilyInv, ShapesOK
<1>2. \A d : Kept(shard, tree, d) => Kept(shard, tree', d)
  BY GrowsKeeps DEF Advances
<1>3. ASSUME pc[q] \in Building PROVE HeadOK(q)'
  <2>1. HeadOK(q)
    BY <1>1, <1>3 DEF PublisherOK
  <2>2. Grows(shard, head[q].tree, tree')
    BY <1>1, <2>1, GrowsOn DEF HeadOK, Advances, TreeOK
  <2>3. head[q].id = main' => head[q].tree = tree'
    BY <1>3, <2>1 DEF HeadOK, Advances
  <2>4. QED
    BY <2>1, <2>2, <2>3 DEF HeadOK
<1>4. pc[q] = "commit" => JobOK(shard, Batch(pending[q], second[q]), head[q].tree, job[q])
  BY <1>1 DEF PublisherOK
<1>5. pc[q] \notin {"idle", "release"} => PendingOK(q)' /\ result[q] # "ok"
  BY <1>1, <1>2 DEF PublisherOK, PendingOK
<1>6. result[q] = "ok" => \A d \in shard.work[q] : Kept(shard, tree', d)
  BY <1>1, <1>2 DEF PublisherOK
<1>7. QED
  BY <1>3, <1>4, <1>5, <1>6 DEF PublisherOK

\* The remote after a step.
LEMMA RemoteKept ==
    ASSUME FamilyInv, shard' = shard, NEW p \in Publishers, Alone(p), HeadKnown(p),
           Nothing \/ Accepts(p) \/ Delays(p)
    PROVE  /\ IdsOK' /\ LateOK' /\ TreeOK(shard', tree')
           /\ \A q \in Publishers : Advances(q)
           /\ main' \in Nat /\ nextId' \in Nat
           /\ \A u \in late' : u.id \in Nat /\ u.exp \in Nat
<1>1. /\ shard \in Shards /\ main \in Nat /\ nextId \in Nat /\ TreeOK(shard, tree)
      /\ IdsOK /\ LateOK /\ \A u \in late : u.id \in Nat /\ u.exp \in Nat
      /\ \A q \in Publishers : pc[q] \in Building => head[q].id \in Nat /\ HeadOK(q)
  BY DEF FamilyInv, ShapesOK, PublisherOK
<1>2. Grows(shard, tree, tree)
  BY <1>1, GrowsItself DEF TreeOK
<1>3. \A q \in Publishers : pc'[q] \in Building =>
         head'[q].id = main' \/ (pc[q] \in Building /\ head'[q].id = head[q].id)
  BY DEF Alone, HeadKnown
<1>4. CASE Nothing
  <2>1. \A q \in Publishers : Advances(q)
    BY <1>1, <1>2, <1>4 DEF Nothing, Advances
  <2>2. IdsOK'
    BY <1>1, <1>3, <1>4 DEF Nothing, IdsOK
  <2>3. LateOK'
    BY <1>1, <1>4 DEF Nothing, LateOK
  <2>4. QED
    BY <1>1, <1>4, <2>1, <2>2, <2>3 DEF Nothing
<1>5. CASE Accepts(p)
  <2>1. Grows(shard, tree, tree') /\ TreeOK(shard, tree')
    BY <1>1, <1>5 DEF Accepts, HeadOK
  <2>2. \A q \in Publishers : Advances(q)
    BY <1>1, <1>5, <2>1 DEF Accepts, Advances, IdsOK
  <2>3. IdsOK'
    BY <1>1, <1>3, <1>5 DEF Accepts, IdsOK
  <2>4. LateOK'
    BY <1>1, <1>5 DEF Accepts, LateOK, IdsOK
  <2>5. QED
    BY <1>1, <1>5, <2>1, <2>2, <2>3, <2>4 DEF Accepts
<1>6. CASE Delays(p)
  <2>1. \A q \in Publishers : Advances(q)
    BY <1>1, <1>2, <1>6 DEF Delays, Advances
  <2>2. PICK u : /\ late' = late \cup {u} /\ u.exp = head[p].id /\ u.id = nextId
                 /\ TreeOK(shard, u.tree) /\ Grows(shard, head[p].tree, u.tree)
    BY <1>6 DEF Delays
  <2>3. pc[p] \in Building /\ nextId' = nextId + 1 /\ main' = main /\ tree' = tree
    BY <1>6 DEF Delays
  <2>4. IdsOK'
    BY <1>1, <1>3, <2>2, <2>3 DEF IdsOK
  <2>5. u.exp = main => Grows(shard, tree, u.tree)
    BY <1>1, <2>2, <2>3 DEF HeadOK
  <2>6. LateOK'
    BY <1>1, <2>2, <2>3, <2>5 DEF LateOK
  <2>7. QED
    BY <1>1, <2>1, <2>2, <2>3, <2>4, <2>6
<1>7. QED
  BY <1>4, <1>5, <1>6

\* A step of p keeps the invariant if p is left in order.
LEMMA StepKept ==
    ASSUME FamilyInv, shard' = shard, NEW p \in Publishers, Alone(p), HeadKnown(p),
           Nothing \/ Accepts(p) \/ Delays(p), PublisherOK(p)'
    PROVE  Preserved
<1>1. /\ IdsOK' /\ LateOK' /\ TreeOK(shard', tree')
      /\ \A q \in Publishers : Advances(q)
      /\ main' \in Nat /\ nextId' \in Nat
      /\ \A u \in late' : u.id \in Nat /\ u.exp \in Nat
  BY RemoteKept
<1>2. ASSUME NEW q \in Publishers PROVE PublisherOK(q)'
  <2>1. CASE q = p
    BY <2>1
  <2>2. CASE q # p
    BY <1>1, <2>2, OthersKept DEF Alone
  <2>3. QED
    BY <2>1, <2>2
<1>3. ShapesOK'
  <2>1. ShapesOK
    BY DEF FamilyInv
  <2>2. \A q \in Publishers : pc'[q] \in Building => head'[q].id \in Nat
    BY <1>1, <2>1 DEF Alone, HeadKnown, ShapesOK
  <2>3. QED
    BY <1>1, <2>1, <2>2 DEF ShapesOK, Alone
<1>4. Grows(shard, tree, tree')
  BY <1>1 DEF Advances
<1>5. QED
  BY <1>1, <1>2, <1>3, <1>4 DEF FamilyInv, Preserved

-----------------------------------------------------------------------------
\* The actions

\* A publisher that leaves keeps nothing, and a success needs all of its drafts.
LEMMA LeaveKept ==
    ASSUME FamilyInv, shard' = shard, NEW p \in Publishers, NEW step \in {"idle", "release"},
           NEW outcome, Leave(p, step, outcome), Nothing \/ Accepts(p) \/ Delays(p),
           outcome = "ok" => \A d \in shard.work[p] : Kept(shard, tree', d)
    PROVE  Preserved
<1>1. ShapesOK
  BY DEF FamilyInv
<1>2. Alone(p) /\ pc'[p] = step /\ result'[p] = outcome
  BY <1>1 DEF Leave, Goto, Alone, ShapesOK
<1>3. HeadKnown(p)
  BY <1>2 DEF HeadKnown, Building
<1>4. PublisherOK(p)'
  BY <1>2 DEF PublisherOK, Building
<1>5. QED
  BY <1>2, <1>3, <1>4, StepKept

\* The closure returns.
LEMMA ReturnKept ==
    ASSUME FamilyInv, shard' = shard, NEW p \in Publishers,
           NEW outcome, Return(p, outcome), Nothing \/ Accepts(p) \/ Delays(p),
           outcome = "ok" => \A d \in shard.work[p] : Kept(shard, tree', d)
    PROVE  Preserved
<1>1. PICK step \in {"idle", "release"} : Leave(p, step, outcome)
  BY DEF Return
<1>2. QED
  BY <1>1, LeaveKept

\* What the invariant says about a publisher's drafts.
LEMMA WorkTyped ==
    ASSUME shard \in Shards, NEW p \in Publishers
    PROVE  Work[p] = shard.work[p] /\ Work[p] \in SUBSET Drafts /\ Work[p] # {}
  BY ShardAssumption DEF Work, Drafts, Draft

\* Clocks show numbers.
LEMMA SecondsTyped ==
    ASSUME shard \in Shards
    PROVE  Seconds \in SUBSET Nat
  BY ShardAssumption DEF Seconds

\* What is not wanted is there.
LEMMA WantedKept ==
    ASSUME shard \in Shards, NEW p, NEW t, TreeOK(shard, t), NEW D \in SUBSET Drafts
    PROVE  /\ Wanted(p, t, D) \subseteq D
           /\ \A d \in D \ Wanted(p, t, D) : Kept(shard, t, d)
           /\ p \in Replacing => Wanted(p, t, D) = D
<1>1. \A d \in D : Proven(t, d) => Kept(shard, t, d)
  BY ProvenKept
<1>2. QED
  BY <1>1 DEF Wanted, Missing

LEMMA ObserveKept ==
    ASSUME FamilyInv, shard' = shard, NEW p \in Publishers, Observe(p)
    PROVE  Preserved
<1>1. shard \in Shards /\ ShapesOK /\ TreeOK(shard, tree)
  BY DEF FamilyInv, ShapesOK
<1>2. Nothing /\ tree' = tree
  BY DEF Observe, Nothing, remote
<1>3. PICK W : W = Work[p]
  OBVIOUS
<1>4. W = shard.work[p] /\ W \in SUBSET Drafts /\ W # {}
  BY <1>1, <1>3, WorkTyped
<1>5. PICK wanted : wanted = Wanted(p, tree, W)
  OBVIOUS
<1>6. wanted \subseteq W /\ \A d \in W \ wanted : Kept(shard, tree, d)
  BY <1>1, <1>4, <1>5, WantedKept
<1>7. CASE Leave(p, "idle", "failed")
  BY <1>2, <1>7, LeaveKept
<1>8. CASE wanted = {} /\ Leave(p, "idle", "ok")
  BY <1>2, <1>4, <1>6, <1>8, LeaveKept
<1>9. CASE /\ Goto(p, IF Leased THEN "acquire" ELSE "sidecar")
           /\ \E s \in Seconds : second' = [second EXCEPT ![p] = s]
           /\ pending' = [pending EXCEPT ![p] = wanted]
           /\ result' = [result EXCEPT ![p] = "none"]
           /\ UNCHANGED <<head, job>>
  <2>1. /\ Alone(p) /\ pc'[p] \in {"acquire", "sidecar"} /\ pending'[p] = wanted
        /\ result'[p] = "none"
    BY <1>1, <1>9, SecondsTyped DEF Goto, Alone, ShapesOK
  <2>2. HeadKnown(p)
    BY <2>1 DEF HeadKnown, Building
  <2>3. PublisherOK(p)'
    BY <1>2, <1>4, <1>6, <2>1 DEF PublisherOK, PendingOK, Building
  <2>4. QED
    BY <1>2, <2>1, <2>2, <2>3, StepKept
<1>10. QED
  BY <1>3, <1>5, <1>7, <1>8, <1>9 DEF Observe

LEMMA AcquireKept ==
    ASSUME FamilyInv, shard' = shard, NEW p \in Publishers, Acquire(p)
    PROVE  Preserved
<1>1. ShapesOK /\ PublisherOK(p)
  BY DEF FamilyInv
<1>2. Nothing /\ tree' = tree
  BY DEF Acquire, Nothing, Fence!Acquire
<1>3. Alone(p) /\ pc'[p] = "sidecar" /\ pc[p] = "acquire" /\ pending' = pending /\ result' = result
  BY <1>1 DEF Acquire, Goto, Alone, ShapesOK
<1>4. HeadKnown(p)
  BY <1>3 DEF HeadKnown, Building
<1>5. PublisherOK(p)'
  BY <1>1, <1>2, <1>3 DEF PublisherOK, PendingOK, Building
<1>6. QED
  BY <1>2, <1>3, <1>4, <1>5, StepKept

LEMMA GiveUpKept ==
    ASSUME FamilyInv, shard' = shard, NEW p \in Publishers, GiveUp(p)
    PROVE  Preserved
<1>1. Nothing
  BY DEF GiveUp, Nothing, remote
<1>2. QED
  BY <1>1, LeaveKept DEF GiveUp

LEMMA ReadSidecarsKept ==
    ASSUME FamilyInv, shard' = shard, NEW p \in Publishers, ReadSidecars(p)
    PROVE  Preserved
<1>1. ShapesOK /\ PublisherOK(p) /\ shard \in Shards /\ TreeOK(shard, tree)
  BY DEF FamilyInv, ShapesOK
<1>2. Nothing /\ tree' = tree /\ main' = main
  BY DEF ReadSidecars, Nothing, remote
<1>3. /\ Alone(p) /\ pc[p] = "sidecar" /\ pending' = pending /\ result' = result
      /\ pc'[p] = IF tree.ledger = NoLedger THEN "init" ELSE "plan"
      /\ head'[p] = [id |-> main, tree |-> tree]
  BY <1>1 DEF ReadSidecars, Goto, Alone, ShapesOK
<1>4. HeadKnown(p)
  BY <1>2, <1>3 DEF HeadKnown
<1>5. head'[p].id = main /\ head'[p].tree = tree
  BY <1>3
<1>6. HeadOK(p)'
  <2>1. Grows(shard, tree, tree)
    BY <1>1, GrowsItself DEF TreeOK
  <2>2. QED
    BY <1>1, <1>2, <1>3, <1>5, <2>1 DEF HeadOK
<1>7. PublisherOK(p)'
  BY <1>1, <1>2, <1>3, <1>6 DEF PublisherOK, PendingOK, Building
<1>8. QED
  BY <1>2, <1>3, <1>4, <1>7, StepKept

LEMMA ReleaseKept ==
    ASSUME FamilyInv, shard' = shard, NEW p \in Publishers, Release(p)
    PROVE  Preserved
<1>1. ShapesOK /\ PublisherOK(p)
  BY DEF FamilyInv
<1>2. Nothing /\ tree' = tree
  BY DEF Release, Nothing, fence, Fence!Release
<1>3. /\ pc' = [pc EXCEPT ![p] = "idle"]
      /\ second' = second /\ pending' = pending /\ head' = head /\ job' = job
      /\ result' = result \/ result' = [result EXCEPT ![p] = "failed"]
  BY DEF Release, Goto
<1>4. result'[p] = result[p] \/ result'[p] = "failed"
  BY <1>1, <1>3 DEF ShapesOK
<1>5. pc'[p] = "idle"
  BY <1>1, <1>3 DEF ShapesOK
<1>6. HeadKnown(p)
  BY <1>5 DEF HeadKnown, Building
<1>7. PublisherOK(p)'
  BY <1>1, <1>2, <1>4, <1>5 DEF PublisherOK, Building
<1>8. Alone(p)
  BY <1>1, <1>3 DEF Alone, ShapesOK
<1>9. QED
  BY <1>2, <1>6, <1>7, <1>8, StepKept

LEMMA InterruptKept ==
    ASSUME FamilyInv, shard' = shard, NEW p \in Publishers, Interrupt(p)
    PROVE  Preserved
<1>1. Nothing
  BY DEF Interrupt, Nothing, remote
<1>2. CASE Return(p, "failed")
  BY <1>1, <1>2, ReturnKept
<1>3. CASE Leave(p, "idle", "failed")
  BY <1>1, <1>3, LeaveKept
<1>4. QED
  BY <1>2, <1>3 DEF Interrupt

\* A tree without ledger is given one.
LEMMA LedgerTree ==
    ASSUME shard \in Shards, NEW t, TreeOK(shard, t), t.ledger = NoLedger,
           NEW u, u = [t EXCEPT !.ledger = ReconciledLedger(t)]
    PROVE  TreeOK(shard, u) /\ Grows(shard, t, u) /\ u.ledger # NoLedger
<1>1. Keys = KeysOf(shard)
  BY DEF Keys, KeysOf, Drafts, Draft
<1>2. PICK m : m = Cardinality(t.attestations) + Cardinality(t.encodings)
                   + Cardinality(t.manifests) + Cardinality(t.records)
                   + IF \A k \in KeysOf(shard) : t.index[k] = NoEntry THEN 0 ELSE 1
  OBVIOUS
<1>3. PICK l : l = ReconciledLedger(t)
  OBVIOUS
<1>4. PICK n \in Nat : n = Cardinality(t.objects)
  BY FS_CardinalityType DEF TreeOK
<1>5. l = [payload |-> n, metadata |-> m, history |-> n + m]
  BY <1>1, <1>2, <1>3, <1>4 DEF ReconciledLedger
<1>6. m \in Nat /\ n + m = t.blobs /\ (LegacyFits(shard) => t.blobs <= shard.capacity)
  BY <1>2, <1>4 DEF TreeOK, Covers
<1>7. l \in Ledgers /\ l.payload = n /\ l.metadata = m
  BY <1>5, <1>6 DEF Ledgers
<1>8. l # NoLedger
  BY <1>7, AbsenceAssumption DEF Ledgers
<1>9. /\ u.objects = t.objects /\ u.attestations = t.attestations /\ u.encodings = t.encodings /\ u.manifests = t.manifests
      /\ u.records = t.records /\ u.index = t.index /\ u.blobs = t.blobs /\ u.ledger = l
      /\ u \in Trees(shard)
  BY <1>3, <1>7 DEF TreeOK, Trees
<1>10. Covers(shard, u)
  BY <1>4, <1>6, <1>7, <1>8, <1>9 DEF Covers
<1>11. Reachable(shard, u) /\ Proves(shard, u)
  BY <1>9 DEF TreeOK, Reachable, Proves, Certified, Complete, Stored
<1>12. Grows(shard, t, u)
  <2>1. Grows(shard, t, t)
    BY GrowsItself DEF TreeOK
  <2>2. QED
    BY <1>9, <2>1 DEF Grows
<1>13. QED
  BY <1>8, <1>9, <1>10, <1>11, <1>12 DEF TreeOK

\* The answers to a push, as they look to the invariant.
LEMMA AcceptedAccepts ==
    ASSUME NEW p, pc[p] \in Building, NEW v, TreeOK(shard, v), Grows(shard, head[p].tree, v),
           NEW u, u = Push(p, v), Accepted(u)
    PROVE  Accepts(p) /\ tree' = v /\ main' = nextId /\ u.id = nextId /\ u.tree = v
<1>1. u.exp = head[p].id /\ u.id = nextId /\ u.tree = v
  BY DEF Push
<1>2. main = u.exp /\ main' = u.id /\ tree' = u.tree /\ nextId' = nextId + 1 /\ late' = late
  BY DEF Accepted, Matches, Install
<1>3. QED
  BY <1>1, <1>2 DEF Accepts

LEMMA RefusedNothing ==
    ASSUME NEW u, Refused(u)
    PROVE  Nothing
  BY DEF Refused, Nothing, remote

LEMMA UnknownDelays ==
    ASSUME NEW p, pc[p] \in Building, NEW v, TreeOK(shard, v), Grows(shard, head[p].tree, v),
           NEW u, u = Push(p, v), Unknown(u)
    PROVE  Delays(p)
<1>1. u.exp = head[p].id /\ u.id = nextId /\ u.tree = v
  BY DEF Push
<1>2. late' = late \cup {u} /\ nextId' = nextId + 1 /\ main' = main /\ tree' = tree
  BY DEF Unknown, remote
<1>3. QED
  BY <1>1, <1>2 DEF Delays

LEMMA InitializeLedgerKept ==
    ASSUME FamilyInv, shard' = shard, NEW p \in Publishers, InitializeLedger(p)
    PROVE  Preserved
<1>1. ShapesOK /\ PublisherOK(p) /\ shard \in Shards /\ pc[p] = "init" /\ pc[p] \in Building
  BY DEF FamilyInv, ShapesOK, InitializeLedger, Building
<1>2. HeadOK(p) /\ PendingOK(p) /\ result[p] # "ok"
  BY <1>1 DEF PublisherOK
<1>3. PICK t : t = head[p].tree
  OBVIOUS
<1>4. PICK v : v = [t EXCEPT !.ledger = ReconciledLedger(t)]
  OBVIOUS
<1>5. TreeOK(shard, v) /\ Grows(shard, t, v) /\ v.ledger # NoLedger
  BY <1>1, <1>2, <1>3, <1>4, LedgerTree DEF HeadOK
<1>6. PICK u : u = Push(p, v)
  OBVIOUS
<1>7. CASE /\ Accepted(u)
           /\ Goto(p, "plan")
           /\ head' = [head EXCEPT ![p] = [id |-> u.id, tree |-> u.tree]]
           /\ UNCHANGED <<second, pending, observed, job, result>>
  <2>1. Accepts(p) /\ tree' = v /\ main' = nextId /\ u.id = nextId /\ u.tree = v
    BY <1>1, <1>3, <1>5, <1>6, <1>7, AcceptedAccepts
  <2>2. /\ Alone(p) /\ pc'[p] = "plan" /\ head'[p] = [id |-> u.id, tree |-> u.tree]
        /\ pending' = pending /\ result' = result
    BY <1>1, <1>7 DEF Goto, Alone, ShapesOK
  <2>3. head'[p].id = main' /\ head'[p].tree = tree'
    BY <2>1, <2>2
  <2>4. HeadKnown(p)
    BY <2>3 DEF HeadKnown
  <2>5. Grows(shard, tree', tree') /\ TreeOK(shard, tree')
    BY <1>1, <1>5, <2>1, GrowsItself DEF TreeOK
  <2>6. HeadOK(p)'
    BY <1>5, <2>1, <2>2, <2>3, <2>5 DEF HeadOK
  <2>7. \A d : Kept(shard, tree, d) => Kept(shard, tree', d)
    <3>1. Advances(p)
      BY <2>1, <2>2, <2>4, RemoteKept
    <3>2. QED
      BY <3>1, GrowsKeeps DEF Advances
  <2>8. PublisherOK(p)'
    BY <1>2, <2>2, <2>6, <2>7 DEF PublisherOK, PendingOK
  <2>9. QED
    BY <2>1, <2>2, <2>4, <2>8, StepKept
<1>8. CASE /\ Refused(u) /\ Goto(p, "sidecar")
           /\ UNCHANGED <<second, pending, observed, head, job, result>>
  <2>1. Nothing /\ tree' = tree
    BY <1>8, RefusedNothing DEF Nothing
  <2>2. Alone(p) /\ pc'[p] = "sidecar" /\ pending' = pending /\ result' = result
    BY <1>1, <1>8 DEF Goto, Alone, ShapesOK
  <2>3. HeadKnown(p)
    BY <2>2 DEF HeadKnown, Building
  <2>4. PublisherOK(p)'
    BY <1>2, <2>1, <2>2 DEF PublisherOK, PendingOK, Building
  <2>5. QED
    BY <2>1, <2>2, <2>3, <2>4, StepKept
<1>9. CASE (Refused(u) \/ Unknown(u)) /\ Return(p, "failed")
  <2>1. Nothing \/ Delays(p)
    BY <1>1, <1>3, <1>5, <1>6, <1>9, RefusedNothing, UnknownDelays
  <2>2. QED
    BY <1>9, <2>1, ReturnKept
<1>10. QED
  BY <1>3, <1>4, <1>6, <1>7, <1>8, <1>9 DEF InitializeLedger

LEMMA PrepareKept ==
    ASSUME FamilyInv, shard' = shard, NEW p \in Publishers, Prepare(p)
    PROVE  Preserved
<1>1. ShapesOK /\ PublisherOK(p) /\ shard \in Shards /\ pc[p] = "plan" /\ pc[p] \in Building
  BY DEF FamilyInv, ShapesOK, Prepare, Building
<1>2. HeadOK(p) /\ PendingOK(p) /\ result[p] # "ok"
  BY <1>1 DEF PublisherOK
<1>3. Nothing /\ tree' = tree /\ main' = main
  BY DEF Prepare, Nothing, remote
<1>4. PICK t : t = head[p].tree
  OBVIOUS
<1>5. TreeOK(shard, t) /\ Grows(shard, t, tree)
  BY <1>2, <1>4 DEF HeadOK
<1>6. PICK W : W = pending[p]
  OBVIOUS
<1>7. /\ W \in SUBSET Drafts /\ W \subseteq shard.work[p]
      /\ \A d \in shard.work[p] \ W : Kept(shard, tree, d)
  BY <1>1, <1>2, <1>6, WorkTyped DEF PendingOK
<1>8. PICK recheck : recheck = (p \in Replacing \/ head[p].id # observed[p].id)
  OBVIOUS
<1>9. PICK D : D = IF recheck THEN Wanted(p, t, W) ELSE W
  OBVIOUS
<1>10. D \subseteq W /\ \A d \in shard.work[p] \ D : Kept(shard, tree, d)
  <2>1. D \subseteq W /\ \A d \in W \ D : Kept(shard, t, d)
    BY <1>1, <1>5, <1>7, <1>9, WantedKept
  <2>2. QED
    BY <1>5, <1>7, <2>1, GrowsKeeps
<1>11. CASE Return(p, "failed")
  BY <1>3, <1>11, ReturnKept
<1>12. CASE D = {} /\ Return(p, "ok")
  BY <1>3, <1>10, <1>12, ReturnKept
<1> DEFINE B == Batch(D, second[p])
<1>0. B \in BatchesOf(shard) /\ B.drafts = D
  <2>1. D \in SUBSET DOMAIN shard.draft /\ second[p] \in Nat
    BY <1>1, <1>7, <1>10 DEF ShapesOK, Drafts, Draft
  <2>2. QED
    BY <2>1 DEF Batch, BatchesOf
<1> HIDE DEF B
<1>13. CASE B \in t.records /\ Return(p, "ok")
  <2>1. \A d \in D : Complete(shard, t, d)
    BY <1>0, <1>5, <1>13 DEF TreeOK, Proves, Certified
  <2>2. \A d \in D : Kept(shard, tree, d)
    BY <1>5, <2>1, GrowsKeeps DEF Kept
  <2>3. QED
    BY <1>3, <1>10, <1>13, <2>2, ReturnKept
<1>14. CASE /\ ~StagingFails(p, t, B)
            /\ Goto(p, "commit")
            /\ pending' = [pending EXCEPT ![p] = D]
            /\ job' = [job EXCEPT ![p] = Job(p, t, B)]
            /\ UNCHANGED <<second, observed, head, result>>
  <2>1. JobOK(shard, B, t, Job(p, t, B))
    BY <1>0, <1>1, <1>5, <1>14, StagedJob
  <2>2. /\ Alone(p) /\ pc'[p] = "commit" /\ pending'[p] = D /\ job'[p] = Job(p, t, B)
        /\ second' = second /\ head' = head /\ result' = result
    BY <1>1, <1>14 DEF Goto, Alone, ShapesOK
  <2>3. HeadKnown(p)
    BY <1>1, <2>2 DEF HeadKnown
  <2>4. HeadOK(p)'
    BY <1>1, <1>2, <1>3, <2>2 DEF HeadOK
  <2>5. PendingOK(p)'
    BY <1>3, <1>7, <1>10, <2>2 DEF PendingOK
  <2>6. JobOK(shard', Batch(pending'[p], second'[p]), head'[p].tree, job'[p])
    BY <1>4, <2>1, <2>2 DEF B
  <2>7. PublisherOK(p)'
    BY <1>2, <2>2, <2>4, <2>5, <2>6 DEF PublisherOK
  <2>8. QED
    BY <1>3, <2>2, <2>3, <2>7, StepKept
<1>15. QED
  BY <1>4, <1>6, <1>8, <1>9, <1>11, <1>12, <1>13, <1>14 DEF Prepare, B

\* On to the next batch, or the end: with every file of this one in the tree v that
\* is the publisher's new head.
LEMMA ContinueKept ==
    ASSUME FamilyInv, shard' = shard, NEW p \in Publishers, pc[p] = "commit",
           NEW c, NEW v, v = c.tree, Continue(p, c),
           \/ Nothing /\ c = head[p]
           \/ Accepts(p) /\ c.id = main' /\ v = tree',
           TreeOK(shard, v), v.ledger # NoLedger, Grows(shard, head[p].tree, v),
           v.index = head[p].tree.index \/ v.index = job[p].index,
           \A f \in FilesOf(shard, Batch(pending[p], second[p])) :
               Has(head[p].tree, f, job[p].index) => Has(v, f, job[p].index),
           \A f \in Head(job[p].batches) : Has(v, f, job[p].index)
    PROVE  Preserved
<1>1. ShapesOK /\ PublisherOK(p) /\ shard \in Shards /\ pc[p] \in Building
  BY DEF FamilyInv, ShapesOK, Building
<1>2. /\ HeadOK(p) /\ PendingOK(p) /\ result[p] # "ok"
      /\ JobOK(shard, Batch(pending[p], second[p]), head[p].tree, job[p])
  BY <1>1 DEF PublisherOK
<1>3. Grows(shard, v, tree') /\ (c.id = main' => v = tree')
  <2>1. Grows(shard, v, v)
    BY <1>1, GrowsItself DEF TreeOK
  <2>2. CASE Nothing /\ c = head[p]
    BY <1>2, <2>2 DEF Nothing, HeadOK
  <2>3. CASE Accepts(p) /\ c.id = main' /\ v = tree'
    BY <2>1, <2>3
  <2>4. QED
    BY <2>2, <2>3
<1>4. Grows(shard, tree, tree')
  <2>1. CASE Nothing
    <3>1. TreeOK(shard, tree) /\ tree' = tree
      BY <2>1 DEF Nothing, FamilyInv
    <3>2. QED
      BY <1>1, <3>1, GrowsItself DEF TreeOK
  <2>2. CASE Accepts(p)
    BY <1>2, <2>2 DEF Accepts, HeadOK
  <2>3. QED
    BY <2>1, <2>2
<1>5. \A d \in shard.work[p] \ pending[p] : Kept(shard, tree', d)
  BY <1>2, <1>4, GrowsKeeps DEF PendingOK
<1>6. CASE Len(job[p].batches) = 1
  <2>1. Return(p, "ok")
    BY <1>6 DEF Continue
  <2>2. \A d \in pending[p] : Complete(shard, v, d)
    <3>1. PICK B : B = Batch(pending[p], second[p]) /\ B.drafts = pending[p]
      BY DEF Batch
    <3>2. QED
      BY <1>2, <1>6, <3>1, LastBatch
  <2>3. \A d \in pending[p] : Kept(shard, tree', d)
    BY <1>3, <2>2, GrowsKeeps DEF Kept
  <2>4. QED
    BY <1>5, <2>1, <2>3, ReturnKept
<1>7. CASE Len(job[p].batches) # 1
  <2>1. /\ head' = [head EXCEPT ![p] = c]
        /\ job' = [job EXCEPT ![p].batches = Tail(@)]
        /\ UNCHANGED <<pc, second, pending, observed, result>>
    BY <1>7 DEF Continue
  <2>2. /\ Alone(p) /\ head'[p] = c /\ job'[p] = [job[p] EXCEPT !.batches = Tail(@)]
        /\ pc'[p] = "commit" /\ second' = second /\ pending' = pending /\ result' = result
    BY <1>1, <2>1 DEF Alone, ShapesOK
  <2>3. JobOK(shard, Batch(pending[p], second[p]), v, [job[p] EXCEPT !.batches = Tail(@)])
    BY <1>1, <1>2, <1>7, NextBatch DEF HeadOK, TreeOK
  <2>4. HeadKnown(p)
    BY <1>1, <2>2 DEF HeadKnown
  <2>5. HeadOK(p)'
    BY <1>3, <2>2 DEF HeadOK
  <2>6. PendingOK(p)'
    BY <1>2, <1>5, <2>2 DEF PendingOK
  <2>7. JobOK(shard', Batch(pending'[p], second'[p]), head'[p].tree, job'[p])
    BY <2>2, <2>3
  <2>8. PublisherOK(p)'
    BY <1>2, <2>2, <2>5, <2>6, <2>7 DEF PublisherOK
  <2>9. QED
    BY <2>2, <2>4, <2>8, StepKept
<1>8. QED
  BY <1>6, <1>7

LEMMA CommitBatchKept ==
    ASSUME FamilyInv, shard' = shard, NEW p \in Publishers, CommitBatch(p)
    PROVE  Preserved
<1>1. ShapesOK /\ PublisherOK(p) /\ shard \in Shards /\ pc[p] = "commit" /\ pc[p] \in Building
  BY DEF FamilyInv, ShapesOK, CommitBatch, Building
<1>2. /\ HeadOK(p) /\ JobOK(shard, Batch(pending[p], second[p]), head[p].tree, job[p])
  BY <1>1 DEF PublisherOK
<1>3. PICK t, j, B : t = head[p].tree /\ j = job[p] /\ B = Batch(pending[p], second[p])
  OBVIOUS
<1>4. TreeOK(shard, t) /\ t.ledger # NoLedger /\ JobOK(shard, B, t, j)
  BY <1>1, <1>2, <1>3 DEF HeadOK
<1>5. PICK files : files = NewFiles(t, Head(j.batches), j.index)
  OBVIOUS
<1>6. PICK v : v = Updated(t, files, j.index)
  OBVIOUS
<1>7. PICK u : u = Push(p, v)
  OBVIOUS
<1>8. CASE /\ files = {}
           /\ Continue(p, head[p])
           /\ UNCHANGED <<remote, nextId, late, faults>>
  <2>1. Nothing
    BY <1>8 DEF Nothing, remote
  <2>2. \A f \in Head(j.batches) : Has(t, f, j.index)
    BY <1>5, <1>8 DEF NewFiles
  <2>3. Grows(shard, t, t)
    BY <1>1, <1>4, GrowsItself DEF TreeOK
  <2>4. QED
    BY <1>1, <1>3, <1>4, <1>8, <2>1, <2>2, <2>3, ContinueKept
<1>9. CASE Return(p, "failed") /\ UNCHANGED <<remote, nextId, late, faults>>
  <2>1. Nothing
    BY <1>9 DEF Nothing, remote
  <2>2. QED
    BY <1>9, <2>1, ReturnKept
<1>10. CASE /\ Admitted(u.tree.ledger)
            /\ \/ Accepted(u) /\ Continue(p, [id |-> u.id, tree |-> u.tree])
               \/ (Refused(u) \/ Unknown(u)) /\ Return(p, "failed")
  <2>1. Accounted(v.ledger) <= shard.capacity
    BY <1>7, <1>10 DEF Admitted, Push, Capacity
  <2>2. TreeOK(shard, v) /\ v.ledger # NoLedger
    BY <1>1, <1>4, <1>5, <1>6, <2>1, CommitTree
  <2>3. /\ Grows(shard, t, v)
        /\ v.index = t.index \/ v.index = j.index
        /\ \A f \in FilesOf(shard, B) : Has(t, f, j.index) => Has(v, f, j.index)
        /\ \A f \in Head(j.batches) : Has(v, f, j.index)
    <3>1. t \in Trees(shard)
      BY <1>4 DEF TreeOK
    <3>2. Extended(shard, B, t, j, v)
      BY <1>1, <1>4, <1>5, <1>6, <3>1, CommitGrows
    <3>3. QED
      BY <3>2 DEF Extended
  <2>4. CASE Accepted(u) /\ Continue(p, [id |-> u.id, tree |-> u.tree])
    <3>1. Accepts(p) /\ tree' = v /\ main' = nextId /\ u.id = nextId /\ u.tree = v
      BY <1>1, <1>3, <1>7, <2>2, <2>3, <2>4, AcceptedAccepts
    <3>2. PICK c : c = [id |-> u.id, tree |-> u.tree]
      OBVIOUS
    <3>3. Continue(p, c) /\ c.tree = v /\ c.id = main'
      BY <2>4, <3>1, <3>2
    <3>4. QED
      BY <1>1, <1>3, <2>2, <2>3, <3>1, <3>3, ContinueKept
  <2>5. CASE (Refused(u) \/ Unknown(u)) /\ Return(p, "failed")
    <3>1. Nothing \/ Delays(p)
      BY <1>1, <1>3, <1>7, <2>2, <2>3, <2>5, RefusedNothing, UnknownDelays
    <3>2. QED
      BY <2>5, <3>1, ReturnKept
  <2>6. QED
    BY <1>10, <2>4, <2>5
<1>11. QED
  BY <1>3, <1>5, <1>6, <1>7, <1>8, <1>9, <1>10 DEF CommitBatch

\* A push executed late is on a head that nobody has built on since.
LEMMA LateApplyKept ==
    ASSUME FamilyInv, shard' = shard, NEW u \in late, LateApply(u)
    PROVE  Preserved
<1>1. /\ shard \in Shards /\ ShapesOK /\ IdsOK /\ LateOK /\ TreeOK(shard, tree)
  BY DEF FamilyInv, ShapesOK
<1>2. /\ main = u.exp /\ main' = u.id /\ tree' = u.tree /\ late' = late \ {u}
      /\ UNCHANGED <<nextId, pc, second, pending, head, job, result>>
  BY DEF LateApply, Matches, Install
<1>3. TreeOK(shard, tree') /\ Grows(shard, tree, tree')
  BY <1>1, <1>2 DEF LateOK
<1>4. \A q \in Publishers : Advances(q)
  BY <1>1, <1>2, <1>3 DEF Advances, IdsOK
<1>5. \A q \in Publishers : PublisherOK(q)'
  BY <1>2, <1>4, OthersKept
<1>6. IdsOK'
  BY <1>1, <1>2 DEF IdsOK
<1>7. LateOK'
  <2>1. \A w \in late' : TreeOK(shard, w.tree) /\ w.exp # main'
    BY <1>1, <1>2 DEF LateOK, IdsOK
  <2>2. QED
    BY <2>1 DEF LateOK
<1>8. ShapesOK'
  BY <1>1, <1>2 DEF ShapesOK
<1>9. QED
  BY <1>3, <1>5, <1>6, <1>7, <1>8 DEF FamilyInv, Preserved

-----------------------------------------------------------------------------
\* The invariant

LEMMA InvInit ==
    ASSUME Init
    PROVE  FamilyInv
<1>1. /\ shard \in Shards /\ main = 1 /\ tree = LegacyTree /\ nextId = 2 /\ late = {}
      /\ pc = [p \in Publishers |-> "idle"] /\ pending = [p \in Publishers |-> {}]
      /\ head = [p \in Publishers |-> NoCommit] /\ job = [p \in Publishers |-> NoJob]
      /\ result = [p \in Publishers |-> "none"] /\ second = [p \in Publishers |-> 0]
  BY DEF Init, Fence!Init
<1>2. TreeOK(shard, tree)
  BY <1>1, LegacyTreeOK
<1>3. ShapesOK
  BY <1>1 DEF ShapesOK, Building
<1>4. IdsOK /\ LateOK
  BY <1>1 DEF IdsOK, LateOK, Building
<1>5. \A p \in Publishers : PublisherOK(p)
  BY <1>1 DEF PublisherOK, Building
<1>6. QED
  BY <1>2, <1>3, <1>4, <1>5 DEF FamilyInv

LEMMA InvNext ==
    ASSUME FamilyInv, [Next]_vars
    PROVE  Preserved
<1>1. CASE UNCHANGED vars
  <2>1. FamilyInv'
    BY <1>1 DEF vars, FamilyInv, ShapesOK, IdsOK, LateOK, PublisherOK, HeadOK, PendingOK
  <2>2. Grows(shard, tree, tree')
    BY <1>1, GrowsItself DEF vars, FamilyInv, ShapesOK, TreeOK
  <2>3. QED
    BY <2>1, <2>2 DEF Preserved
<1>2. ASSUME shard' = shard, NEW p \in Publishers, Publisher(p) PROVE Preserved
  BY <1>2, ObserveKept, AcquireKept, GiveUpKept, ReadSidecarsKept, InitializeLedgerKept,
     PrepareKept, CommitBatchKept, ReleaseKept, InterruptKept DEF Publisher
<1>3. ASSUME shard' = shard, NEW u \in late, LateApply(u) PROVE Preserved
  BY <1>3, LateApplyKept
<1>4. QED
  BY <1>1, <1>2, <1>3 DEF Next

\* The inductive invariant holds of every behaviour.
LEMMA InvAlways == Spec => []FamilyInv
<1>1. Init => FamilyInv
  BY InvInit
<1>2. FamilyInv /\ [Next]_vars => FamilyInv'
  BY InvNext DEF Preserved
<1>3. QED
  BY <1>1, <1>2, PTL DEF Spec

-----------------------------------------------------------------------------
\* The theorems

\* A draft is published when it is complete.
LEMMA CompleteIsPublished ==
    ASSUME NEW t, NEW d
    PROVE  Complete(shard, t, d) <=> Published(t, d)
  BY DEF Complete, Stored, Published, Draft

\* No artifact is discoverable before its payload objects and its encoding are
\* reachable, for any drafts, any cut into batches, any number of publishers and
\* faults: the files of a job are committed in order of rank, the live entries it
\* installs name its own drafts or ones already stored, and main only grows.
THEOREM IndexedAlwaysReachable == Spec => []IndexedObjectsReachable
<1>1. FamilyInv => IndexedObjectsReachable
  <2> SUFFICES ASSUME FamilyInv PROVE IndexedObjectsReachable
    OBVIOUS
  <2>1. Reachable(shard, tree)
    BY DEF FamilyInv, TreeOK
  <2>2. Keys = KeysOf(shard)
    BY DEF Keys, KeysOf, Draft, Drafts
  <2>3. QED
    BY <2>1, <2>2 DEF IndexedObjectsReachable, Reachable, Stored, Draft
<1>2. QED
  BY <1>1, InvAlways, PTL

\* A batch record on main proves all of its drafts, which is what selection and the
\* early return of a repeated publication rely on: the record is committed last.
THEOREM RecordsAlwaysProve == Spec => []RecordProvesBatch
<1>1. FamilyInv => RecordProvesBatch
  <2> SUFFICES ASSUME FamilyInv PROVE RecordProvesBatch
    OBVIOUS
  <2>1. Proves(shard, tree)
    BY DEF FamilyInv, TreeOK
  <2>2. QED
    BY <2>1, CompleteIsPublished DEF RecordProvesBatch, Proves, Certified
<1>2. QED
  BY <1>1, InvAlways, PTL

\* The ledger accounts for what has ever been committed and never exceeds the
\* capacity, provided that what was there before the first ledger fits: the
\* initial ledger is not admitted against the capacity.
THEOREM LedgerAlwaysCovers ==
    ASSUME \A s \in Shards : LegacyFits(s)
    PROVE  Spec => []LedgerCoversHistory
<1>1. FamilyInv => LedgerCoversHistory
  <2> SUFFICES ASSUME FamilyInv PROVE LedgerCoversHistory
    OBVIOUS
  <2>1. Covers(shard, tree) /\ LegacyFits(shard)
    BY DEF FamilyInv, ShapesOK, TreeOK
  <2>2. QED
    BY <2>1 DEF LedgerCoversHistory, Covers, Capacity
<1>2. QED
  BY <1>1, InvAlways, PTL

\* A run that reports success has left every draft on main or one that dominates
\* it and is as assured, whatever it left to others, found there already or committed itself.
THEOREM SuccessAlwaysPublished == Spec => []SuccessMeansPublished
<1>1. FamilyInv => SuccessMeansPublished
  <2> SUFFICES ASSUME FamilyInv, NEW p \in Publishers, result[p] = "ok", NEW d \in Work[p]
               PROVE  \/ Published(tree, d)
                      \/ \E e \in Drafts :
                            /\ Dominates(e, d) /\ Draft[e].assurance >= Draft[d].assurance
                            /\ Published(tree, e)
    BY DEF SuccessMeansPublished
  <2>1. Kept(shard, tree, d)
    BY DEF FamilyInv, PublisherOK, Work
  <2>2. CASE Complete(shard, tree, d)
    BY <2>2, CompleteIsPublished
  <2>3. CASE ~Complete(shard, tree, d)
    <3>1. PICK e \in DOMAIN shard.draft : Complete(shard, tree, e) /\ Outranks(shard, e, d)
      BY <2>1, <2>3 DEF Kept
    <3>2. /\ Dominates(e, d) /\ Draft[e].assurance >= Draft[d].assurance
          /\ Published(tree, e) /\ e \in Drafts
      BY <3>1, CompleteIsPublished DEF Outranks, Dominates, Pinned, Draft, Drafts
    <3>3. QED
      BY <3>2
  <2>4. QED
    BY <2>2, <2>3
<1>2. QED
  BY <1>1, InvAlways, PTL

\* A live entry is neither lost nor replaced by one of an older producer, by any
\* step: staging refuses the older producer at the head it builds on, and a commit
\* on another head is never executed.
THEOREM ProducersNeverRegress == Spec => LiveProducerMonotone
<1>1. FamilyInv /\ [Next]_vars =>
         [\A k \in Keys : tree.index[k] # NoEntry =>
             /\ tree.index'[k] # NoEntry
             /\ Version(tree.index'[k]) >= Version(tree.index[k])]_vars
  <2> SUFFICES ASSUME FamilyInv, [Next]_vars, NEW k \in Keys, tree.index[k] # NoEntry
               PROVE  /\ tree.index'[k] # NoEntry
                      /\ Version(tree.index'[k]) >= Version(tree.index[k])
    OBVIOUS
  <2>1. Grows(shard, tree, tree')
    BY InvNext DEF Preserved
  <2>2. k \in KeysOf(shard)
    BY DEF Keys, KeysOf, Draft, Drafts
  <2>3. Follows(shard, tree.index[k], tree'.index[k])
    BY <2>1, <2>2 DEF Grows
  <2>4. QED
    BY <2>3 DEF Follows, Version, Draft
<1>2. QED
  BY <1>1, InvAlways, PTL DEF Spec, LiveProducerMonotone

=============================================================================
