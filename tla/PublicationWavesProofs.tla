------------------------ MODULE PublicationWavesProofs ------------------------
(***************************************************************************)
(* Proofs about PublicationWaves for every publication: any number of      *)
(* drafts and families, any parents, any failures, any number of workers.  *)
(***************************************************************************)
EXTENDS PublicationWaves, Enumerations

-----------------------------------------------------------------------------
\* The inductive invariant

Answers == {"none", "yes", "failed", "skipped"}

Recorded(x) == \E R \in dest.records : x \in R

\* What a parent that counts as published has, and keeps.
Kept(x) == Recorded(x) \/ x \in indexOnly

\* The assignment w respects parents and batch order.
Respects(w) ==
    \A d \in Drafts :
        /\ \A p \in Parents(d) :
               w[p] < w[d] \/ (w[p] = w[d] /\ graph.family[p] = graph.family[d])
        /\ \A c \in Predecessors(d) : w[c] <= w[d]

Planning == phase \in {"remap", "order", "rejected"}

TypesOK ==
    /\ graph \in Graphs
    /\ phase \in {"remap", "order", "gate", "run", "done", "rejected"}
    /\ remaining \in SUBSET Drafts /\ available \in SUBSET Drafts
    /\ wave \in [Drafts -> Nat] /\ now \in Nat /\ next \in Nat \ {0}
    /\ published \in [Drafts -> Answers]
    /\ \E n \in Nat : /\ runnable \in [1..n -> SUBSET Drafts]
                      /\ slots \in [1..n -> {"empty", "busy", "ok", "failed"}]

\* The records of the destination are of manifests there, and what the plan takes for
\* available has one.
DestinationOK ==
    /\ \A R \in dest.records : R \subseteq dest.manifests
    /\ \A p \in available : Recorded(p)
    /\ Planning => \A x \in dest.manifests : Recorded(x)

\* The waves never exceed those of an assignment that respects everything, and respect
\* everything themselves when the plan is accepted.
PlanOK ==
    /\ phase = "remap" => remaining # {} /\ wave = [d \in Drafts |-> 0]
    /\ phase = "order" =>
           \A w \in [Drafts -> Nat] : Respects(w) => \A d \in Drafts : wave[d] <= w[d]
    /\ ~Planning => Respects(wave)

\* Why d is left out, once the waves before its own are over.
LeftOut(d) ==
    \E p \in Parents(d) : \/ wave[p] < wave[d] /\ published[p] # "yes"
                          \/ wave[p] = wave[d] /\ published[p] = "skipped"

\* The drafts of earlier waves have their final answers, those of later ones none.
AnswersOK ==
    /\ Planning => now = 0
    /\ \A d \in Drafts :
           /\ Planning \/ wave[d] > now => published[d] = "none"
           /\ ~Planning /\ wave[d] < now =>
                  published[d] # "none" /\ (published[d] = "skipped" <=> LeftOut(d))
           /\ phase = "gate" /\ wave[d] = now => published[d] = "none"
           /\ phase = "run" /\ wave[d] = now =>
                  /\ published[d] = "skipped" <=> LeftOut(d)
                  /\ \/ published[d] = "skipped"
                     \/ published[d] = "none" /\ \E i \in DOMAIN runnable : d \in runnable[i]
           /\ phase = "done" => wave[d] < now

\* A parent that has the answer "yes" is at the destination for good.
KeptOK == \A p \in Drafts : published[p] = "yes" /\ Required(p) => Kept(p)

\* The transactions of the current wave: their drafts have their parents in earlier
\* waves, published, or in the same transaction.
RunOK ==
    /\ phase # "run" => runnable = <<>> /\ slots = <<>>
    /\ \A i \in DOMAIN runnable :
           /\ i < next => slots[i] # "empty"
           /\ \A d \in runnable[i] :
                  /\ wave[d] = now /\ published[d] = "none"
                  /\ \A p \in Parents(d) :
                         \/ wave[p] < now /\ published[p] = "yes"
                         \/ p \in runnable[i] /\ graph.family[p] = graph.family[d]
                  /\ slots[i] = "ok" /\ Required(d) => Recorded(d)

\* What has come to the destination has its parents there.
ParentsOK ==
    \A d \in Drafts \ graph.present : \A p \in graph.deps[d] \cap Drafts :
        /\ p # d
        /\ \/ d \in dest.manifests /\ graph.family[p] # graph.family[d]
           \/ Recorded(d)
        => Kept(p)

\* An entry whose own transaction has its record at the destination is in a record.
ProofOK ==
    \A k \in Keys : dest.proof[k] /\ dest.live[k] # NoEntry => Recorded(dest.live[k])

WavesInv ==
    /\ TypesOK /\ DestinationOK /\ PlanOK /\ RejectsOnlyContradictions /\ AnswersOK
    /\ KeptOK /\ RunOK /\ ParentsOK

-----------------------------------------------------------------------------
\* The operators of the plan

\* The largest of finitely many naturals.
LEMMA MaxOf ==
    ASSUME NEW S \in SUBSET Nat, IsFiniteSet(S), S # {}
    PROVE  Max(S) \in S /\ \A x \in S : x <= Max(S)
<1>1. PICK R : R = {r \in Nat \X Nat : r[1] < r[2]}
  OBVIOUS
<1>2. StrictOrder(R, S)
  BY <1>1 DEF StrictOrder
<1>3. PICK m \in S : LastOf(m, S, R)
  BY <1>2, LastExists
<1>4. \A y \in S : m >= y
  <2> SUFFICES ASSUME NEW y \in S, y # m PROVE m >= y
    OBVIOUS
  <2>1. <<y, m>> \in R
    BY <1>3 DEF LastOf
  <2>2. QED
    BY <1>1, <2>1
<1>5. Max(S) \in S /\ \A y \in S : Max(S) >= y
  BY <1>4 DEF Max
<1>6. QED
  BY <1>5

\* The image of a finite set is finite.
LEMMA ImageFinite ==
    ASSUME NEW S, IsFiniteSet(S), NEW f, NEW T, T = {f[x] : x \in S} PROVE IsFiniteSet(T)
<1>1. PICK g : g = [x \in S |-> f[x]]
  OBVIOUS
<1>2. g \in Surjection(S, T)
  BY <1>1 DEF Surjection
<1>3. QED
  BY <1>1, <1>2, FS_Surjection

LEMMA GraphTyped ==
    ASSUME graph \in Graphs
    PROVE  /\ graph.family \in [Drafts -> Nat] /\ graph.version \in [Drafts -> Nat]
           /\ graph.key \in [Drafts -> Nat] /\ graph.content \in [Drafts -> Nat]
           /\ graph.closure \in [Drafts -> BOOLEAN]
           /\ graph.deps \in [Drafts -> SUBSET (Drafts \cup External)]
  BY WavesAssumption DEF GraphTypes

LEMMA ParentsAreDrafts ==
    ASSUME NEW d PROVE Parents(d) \in SUBSET Drafts /\ Predecessors(d) \in SUBSET Drafts
  BY DEF Parents, Predecessors

\* EarliestWave(w, d) is the least upper bound of what the others ask of d.
LEMMA EarliestIs ==
    ASSUME graph \in Graphs, NEW w \in [Drafts -> Nat], NEW d \in Drafts
    PROVE  /\ EarliestWave(w, d) \in Nat /\ w[d] <= EarliestWave(w, d)
           /\ \A c \in Predecessors(d) : w[c] <= EarliestWave(w, d)
           /\ \A p \in Parents(d) :
                  /\ w[p] <= EarliestWave(w, d)
                  /\ graph.family[p] # graph.family[d] => w[p] < EarliestWave(w, d)
           /\ \A v \in [Drafts -> Nat] :
                  Respects(v) /\ (\A x \in Drafts : w[x] <= v[x]) => EarliestWave(w, d) <= v[d]
<1> DEFINE step(p) == IF graph.family[p] = graph.family[d] THEN 0 ELSE 1
           A == {w[c] : c \in Predecessors(d)}
           B == {w[p] + step(p) : p \in Parents(d)}
           S == {w[d]} \cup A \cup B
<1>1. IsFiniteSet(Parents(d)) /\ IsFiniteSet(Predecessors(d))
  BY ParentsAreDrafts, WavesAssumption, FS_Subset
<1>2. IsFiniteSet(A) /\ IsFiniteSet(B)
  <2>1. PICK f, h : f = [c \in Predecessors(d) |-> w[c]] /\ h = [p \in Parents(d) |-> w[p] + step(p)]
    OBVIOUS
  <2>2. A = {f[c] : c \in Predecessors(d)} /\ B = {h[p] : p \in Parents(d)}
    BY <2>1
  <2> HIDE DEF A, B
  <2>3. QED
    BY <1>1, <2>2, ImageFinite
<1>3. IsFiniteSet(S)
  <2>1. IsFiniteSet({w[d]})
    BY FS_Singleton
  <2> HIDE DEF A, B
  <2>2. IsFiniteSet({w[d]} \cup A)
    BY <1>2, <2>1, FS_Union
  <2>3. QED
    BY <1>2, <2>2, FS_Union
<1>4. \A p \in Parents(d) : step(p) \in Nat
  OBVIOUS
<1>5. S \in SUBSET Nat /\ w[d] \in S
  BY <1>4, ParentsAreDrafts
<1>6. EarliestWave(w, d) = Max(S)
  BY DEF EarliestWave
<1>7. EarliestWave(w, d) \in S /\ \A x \in S : x <= EarliestWave(w, d)
  <2> HIDE DEF S
  <2> QED BY <1>3, <1>5, <1>6, MaxOf
<1>8. PICK e : e = EarliestWave(w, d)
  OBVIOUS
<1>9. e \in S /\ e \in Nat /\ \A x \in S : x <= e
  BY <1>5, <1>7, <1>8
<1>10. w[d] <= e /\ \A c \in Predecessors(d) : w[c] <= e
  BY <1>9
<1>11. ASSUME NEW p \in Parents(d)
       PROVE  w[p] <= e /\ (graph.family[p] # graph.family[d] => w[p] < e)
  <2>1. w[p] + step(p) <= e /\ w[p] \in Nat
    BY <1>9, ParentsAreDrafts
  <2>2. QED
    BY <1>9, <2>1
<1>12. ASSUME NEW v \in [Drafts -> Nat], Respects(v), \A x \in Drafts : w[x] <= v[x]
       PROVE  e <= v[d]
  <2>1. CASE e = w[d]
    BY <1>12, <2>1
  <2>2. ASSUME NEW c \in Predecessors(d), e = w[c] PROVE e <= v[d]
    <3>1. c \in Drafts /\ v[c] <= v[d] /\ w[c] <= v[c]
      BY <1>12, ParentsAreDrafts DEF Respects
    <3>2. w[c] \in Nat /\ v[c] \in Nat /\ v[d] \in Nat
      BY <3>1
    <3>3. QED
      BY <2>2, <3>1, <3>2
  <2>3. ASSUME NEW p \in Parents(d), e = w[p] + step(p) PROVE e <= v[d]
    <3>1. p \in Drafts /\ w[p] <= v[p] /\ w[p] \in Nat /\ v[p] \in Nat /\ v[d] \in Nat
      BY <1>12, ParentsAreDrafts
    <3>2. v[p] < v[d] \/ (v[p] = v[d] /\ graph.family[p] = graph.family[d])
      BY <1>12 DEF Respects
    <3>3. QED
      BY <2>3, <3>1, <3>2
  <2>4. QED
    BY <1>9, <2>1, <2>2, <2>3
<1>13. QED
  BY <1>8, <1>9, <1>10, <1>11, <1>12

\* PlanOrder and Ascending have every member once.
LEMMA PlanOrderCovers ==
    ASSUME graph \in Graphs
    PROVE  /\ PlanOrder \in [1..Cardinality(Drafts) -> Drafts] /\ Cardinality(Drafts) \in Nat
           /\ \A d \in Drafts : \E i \in 1..Cardinality(Drafts) : PlanOrder[i] = d
<1>1. PICK R : R = {r \in Drafts \X Drafts : Earlier(r[1], r[2])}
  OBVIOUS
<1>2. PICK fam \in [Drafts -> Nat] : fam = graph.family
  BY GraphTyped
<1>3. \A a, b \in Drafts : <<a, b>> \in R <=> fam[a] < fam[b] \/ (fam[a] = fam[b] /\ a < b)
  BY <1>1, <1>2 DEF Earlier
<1>4. \A a \in Drafts : a \in Nat /\ fam[a] \in Nat
  BY WavesAssumption
<1>5. StrictOrder(R, Drafts)
  BY <1>3, <1>4 DEF StrictOrder
<1>6. PICK s \in [1..Cardinality(Drafts) -> Drafts] : SortedBy(s, R)
  BY <1>5, SortExists, WavesAssumption
<1>7. \A t \in [1..Cardinality(Drafts) -> Drafts] :
          SortedBy(t, R) <=> \A i, j \in DOMAIN t : i < j => Earlier(t[i], t[j])
  BY <1>1 DEF SortedBy
<1>8. PICK t : t = PlanOrder
  OBVIOUS
<1>9. t \in [1..Cardinality(Drafts) -> Drafts] /\ SortedBy(t, R)
  BY <1>6, <1>7, <1>8 DEF PlanOrder
<1>s. SortedBy(t, R)
  BY <1>9
<1>10. \A d \in Drafts : \E i \in 1..Cardinality(Drafts) : t[i] = d
  <2>1. PICK n \in Nat : n = Cardinality(Drafts)
    BY FS_CardinalityType, WavesAssumption
  <2>2. t \in [1..n -> Drafts]
    BY <1>9, <2>1
  <2>3. \A d \in Drafts : \E i \in 1..n : t[i] = d
    BY <1>5, <1>s, <2>1, <2>2, SortCovers, WavesAssumption
  <2>4. QED
    BY <2>1, <2>3
<1>11. Cardinality(Drafts) \in Nat
  BY WavesAssumption, FS_CardinalityType
<1>12. QED
  BY <1>8, <1>9, <1>10, <1>11

LEMMA AscendingCovers ==
    ASSUME NEW S \in SUBSET Nat, IsFiniteSet(S)
    PROVE  /\ Ascending(S) \in [1..Cardinality(S) -> S] /\ Cardinality(S) \in Nat
           /\ \A x \in S : \E i \in 1..Cardinality(S) : Ascending(S)[i] = x
           /\ \A i, j \in 1..Cardinality(S) : Ascending(S)[i] = Ascending(S)[j] => i = j
<1>1. PICK R : R = {r \in Nat \X Nat : r[1] < r[2]}
  OBVIOUS
<1>2. StrictOrder(R, S)
  BY <1>1 DEF StrictOrder
<1>3. PICK s \in [1..Cardinality(S) -> S] : SortedBy(s, R)
  BY <1>2, SortExists
<1>4. \A t \in [1..Cardinality(S) -> S] :
          SortedBy(t, R) <=> \A i, j \in DOMAIN t : i < j => t[i] < t[j]
  <2> SUFFICES ASSUME NEW t \in [1..Cardinality(S) -> S]
               PROVE  SortedBy(t, R) <=> \A i, j \in DOMAIN t : i < j => t[i] < t[j]
    OBVIOUS
  <2>1. \A i \in DOMAIN t : t[i] \in Nat
    OBVIOUS
  <2>2. \A i, j \in DOMAIN t : <<t[i], t[j]>> \in R <=> t[i] < t[j]
    BY <1>1, <2>1
  <2>3. QED
    BY <2>2 DEF SortedBy
<1>5. PICK t : t = Ascending(S)
  OBVIOUS
<1>6. t \in [1..Cardinality(S) -> S] /\ SortedBy(t, R)
  BY <1>3, <1>4, <1>5 DEF Ascending
<1>s. SortedBy(t, R)
  BY <1>6
<1>7. /\ \A x \in S : \E i \in 1..Cardinality(S) : t[i] = x
      /\ \A i, j \in 1..Cardinality(S) : t[i] = t[j] => i = j
  <2>1. PICK n \in Nat : n = Cardinality(S)
    BY FS_CardinalityType
  <2>2. t \in [1..n -> S]
    BY <1>6, <2>1
  <2>3. /\ \A x \in S : \E i \in 1..n : t[i] = x
        /\ \A i, j \in 1..n : t[i] = t[j] => i = j
    BY <1>2, <1>s, <2>1, <2>2, SortCovers
  <2>4. QED
    BY <2>1, <2>3
<1>8. Cardinality(S) \in Nat
  BY FS_CardinalityType
<1>9. QED
  BY <1>5, <1>6, <1>7, <1>8

\* The passes, step by step.
LEMMA RaisedDef ==
    ASSUME graph \in Graphs, NEW w \in [Drafts -> Nat], NEW n, n = Cardinality(Drafts),
           NEW order, order = PlanOrder
    PROVE  \E g \in [0..n -> [Drafts -> Nat]] :
              /\ g[0] = w /\ Raised(w) = g[n]
              /\ \A i \in 1..n : g[i] = Raise(g[i - 1], order[i])
<1> DEFINE V == [Drafts -> Nat]
           f == [i \in 1..n |-> [x \in V |-> Raise(x, order[i])]]
           F(g) == [i \in 0..n |-> IF i = 0 THEN w ELSE Raise(g[i - 1], order[i])]
<1>1. n \in Nat /\ order \in [1..n -> Drafts] /\ Len(order) = n
  <2>1. n \in Nat /\ order \in [1..n -> Drafts]
    BY PlanOrderCovers
  <2>2. QED
    BY <2>1
<1>2. \A x \in V, d \in Drafts : Raise(x, d) \in V
  BY EarliestIs DEF Raise
<1>3. f \in [1..n -> [V -> V]]
  BY <1>1, <1>2
<1>4. PICK g \in [0..n -> V] : g[0] = w /\ \A i \in 1..n : g[i] = f[i][g[i - 1]]
  <2>1. PICK W, ff : ff = f /\ W = V /\ ff \in [1..n -> [W -> W]]
    BY <1>3
  <2> HIDE DEF f, F
  <2>2. \E g \in [0..n -> W] : IsFold(g, n, w, ff)
    BY <1>1, <2>1, FoldExists
  <2>3. QED
    BY <2>1, <2>2 DEF IsFold
<1>5. \A i \in 1..n : g[i] = Raise(g[i - 1], order[i])
  <2> SUFFICES ASSUME NEW i \in 1..n PROVE g[i] = Raise(g[i - 1], order[i])
    OBVIOUS
  <2>1. g[i - 1] \in V
    BY <1>1
  <2>2. f[i][g[i - 1]] = Raise(g[i - 1], order[i])
    BY <2>1
  <2>3. QED
    BY <1>4, <2>2

<1>6. PICK h : h = (CHOOSE x : x = F(x))
  OBVIOUS
<1>7. h = F(h)
  <2>1. PICK G : G = F(g)
    OBVIOUS
  <2>2. DOMAIN G = 0..n /\ G = [i \in DOMAIN G |-> G[i]] /\ \A i \in 0..n : G[i] = g[i]
    BY <1>4, <1>5, <2>1
  <2>3. g = F(g)
    BY <2>1, <2>2
  <2>4. QED
    BY <1>6, <2>3
<1>8. Raised(w) = h[n]
  BY <1>1, <1>6 DEF Raised
<1>9. \A i \in 0..n : h[i] = IF i = 0 THEN w ELSE Raise(h[i - 1], order[i])
  BY <1>7
<1> HIDE DEF F
<1>10. h[n] = g[n]
  <2>1. h[0] = g[0]
    BY <1>1, <1>4, <1>9
  <2>2. ASSUME NEW i \in 1..n, h[i - 1] = g[i - 1] PROVE h[i] = g[i]
    <3>1. i \in 0..n /\ i # 0
      BY <1>1
    <3>2. h[i] = Raise(h[i - 1], order[i]) /\ g[i] = Raise(g[i - 1], order[i])
      BY <1>5, <1>9, <3>1
    <3>3. QED
      BY <2>2, <3>2
  <2>3. QED
    BY <1>1, <2>1, <2>2, SameRun
<1>11. QED
  BY <1>4, <1>5, <1>8, <1>10

\* One step of a pass raises one wave.
LEMMA RaiseIs ==
    ASSUME graph \in Graphs, NEW w \in [Drafts -> Nat], NEW d \in Drafts
    PROVE  /\ Raise(w, d) \in [Drafts -> Nat] /\ Raise(w, d)[d] = EarliestWave(w, d)
           /\ \A x \in Drafts : w[x] <= Raise(w, d)[x]
           /\ \A v \in [Drafts -> Nat] :
                  Respects(v) /\ (\A x \in Drafts : w[x] <= v[x]) =>
                      \A x \in Drafts : Raise(w, d)[x] <= v[x]
<1>1. PICK e \in Nat : e = EarliestWave(w, d) /\ w[d] <= e
  BY EarliestIs
<1>2. Raise(w, d) = [w EXCEPT ![d] = e]
  BY <1>1 DEF Raise
<1>3. \A v \in [Drafts -> Nat] :
          Respects(v) /\ (\A x \in Drafts : w[x] <= v[x]) => e <= v[d]
  BY <1>1, EarliestIs
<1>4. QED
  BY <1>1, <1>2, <1>3

\* A pass keeps the waves below those of every assignment that respects everything.
LEMMA RaisedBelow ==
    ASSUME graph \in Graphs, NEW w \in [Drafts -> Nat]
    PROVE  /\ Raised(w) \in [Drafts -> Nat]
           /\ \A v \in [Drafts -> Nat] :
                  Respects(v) /\ (\A x \in Drafts : w[x] <= v[x]) =>
                      \A x \in Drafts : Raised(w)[x] <= v[x]
<1>1. PICK n, order : n = Cardinality(Drafts) /\ order = PlanOrder
  OBVIOUS
<1>2. n \in Nat /\ order \in [1..n -> Drafts]
  BY <1>1, PlanOrderCovers
<1>3. PICK g \in [0..n -> [Drafts -> Nat]] :
          /\ g[0] = w /\ Raised(w) = g[n]
          /\ \A i \in 1..n : g[i] = Raise(g[i - 1], order[i])
  BY <1>1, RaisedDef
<1>4. ASSUME NEW v \in [Drafts -> Nat], Respects(v), \A x \in Drafts : w[x] <= v[x]
      PROVE  \A x \in Drafts : g[n][x] <= v[x]
  <2> DEFINE Done == {i \in Nat : i <= n => \A x \in Drafts : g[i][x] <= v[x]}
  <2>1. 0 \in Done
    BY <1>3, <1>4
  <2>2. ASSUME NEW i \in Nat, i \in Done PROVE i + 1 \in Done
    <3> SUFFICES ASSUME i + 1 <= n PROVE \A x \in Drafts : g[i + 1][x] <= v[x]
      OBVIOUS
    <3>1. i \in 0..n /\ i + 1 \in 1..n /\ (i + 1) - 1 = i
      BY <1>2
    <3>2. PICK u \in [Drafts -> Nat], d \in Drafts :
              u = g[i] /\ d = order[i + 1] /\ \A x \in Drafts : u[x] <= v[x]
      BY <1>2, <2>2, <3>1
    <3>3. g[i + 1] = Raise(u, d)
      BY <1>3, <3>1, <3>2
    <3>4. QED
      BY <1>4, <3>2, <3>3, RaiseIs
  <2>3. n \in Done
    <3> HIDE DEF Done
    <3> QED BY <1>2, <2>1, <2>2, SetInduction
  <2>4. QED
    BY <2>3
<1>5. g[n] \in [Drafts -> Nat]
  BY <1>2, <1>3
<1>6. QED
  BY <1>3, <1>4, <1>5

\* Waves that a pass does not change respect everything.
LEMMA RaisedFix ==
    ASSUME graph \in Graphs, NEW w \in [Drafts -> Nat], Raised(w) = w
    PROVE  Respects(w)
<1>1. PICK n, order : n = Cardinality(Drafts) /\ order = PlanOrder
  OBVIOUS
<1>2. n \in Nat /\ order \in [1..n -> Drafts] /\ \A d \in Drafts : \E i \in 1..n : order[i] = d
  BY <1>1, PlanOrderCovers
<1>3. PICK g \in [0..n -> [Drafts -> Nat]] :
          /\ g[0] = w /\ Raised(w) = g[n]
          /\ \A i \in 1..n : g[i] = Raise(g[i - 1], order[i])
  BY <1>1, RaisedDef
<1> DEFINE Grows(i) == \A j \in 0..i : \A x \in Drafts : g[j][x] <= g[i][x]
<1>4. \A i \in Nat : i <= n => Grows(i)
  <2> DEFINE Done == {i \in Nat : i <= n => Grows(i)}
  <2>1. 0 \in Done
    BY <1>3
  <2>2. ASSUME NEW i \in Nat, i \in Done PROVE i + 1 \in Done
    <3> SUFFICES ASSUME i + 1 <= n, NEW j \in 0..(i + 1), NEW x \in Drafts
                 PROVE  g[j][x] <= g[i + 1][x]
      OBVIOUS
    <3>1. i \in 0..n /\ i + 1 \in 1..n /\ (i + 1) - 1 = i /\ i + 1 \in 0..n
      BY <1>2
    <3>2. PICK u \in [Drafts -> Nat], d \in Drafts : u = g[i] /\ d = order[i + 1]
      BY <1>2, <3>1
    <3>3. g[i + 1] = Raise(u, d)
      BY <1>3, <3>1, <3>2
    <3>4. u[x] <= g[i + 1][x] /\ u[x] \in Nat /\ g[i + 1][x] \in Nat
      BY <3>2, <3>3, RaiseIs
    <3>5. CASE j = i + 1
      BY <3>4, <3>5
    <3>6. CASE j \in 0..i
      <4>1. g[j][x] <= u[x]
        BY <2>2, <3>1, <3>2, <3>6
      <4>2. g[j] \in [Drafts -> Nat]
        <5>1. j \in 0..n
          BY <1>2, <3>1, <3>6
        <5>2. QED
          BY <5>1
      <4>3. g[j][x] \in Nat
        BY <4>2
      <4>4. QED
        BY <3>4, <4>1, <4>3
    <3>7. QED
      BY <3>5, <3>6
  <2>3. Nat \subseteq Done
    <3> HIDE DEF Done
    <3> QED BY <2>1, <2>2, SetInduction
  <2>4. QED
    BY <2>3
<1>5. ASSUME NEW i \in 0..n PROVE g[i] = w
  <2>1. g[i] \in [Drafts -> Nat] /\ g[n] = w
    BY <1>3
  <2>2. \A x \in Drafts : w[x] <= g[i][x] /\ g[i][x] <= w[x]
    <3>1. i \in Nat /\ i <= n /\ n <= n /\ 0 \in 0..i
      BY <1>2
    <3> HIDE DEF Grows
    <3>2. Grows(i) /\ Grows(n)
      BY <1>2, <1>4, <3>1
    <3> USE DEF Grows
    <3>3. QED
      BY <1>3, <2>1, <3>1, <3>2
  <2>3. \A x \in Drafts : w[x] = g[i][x]
    BY <2>1, <2>2
  <2>4. QED
    BY <2>1, <2>3
<1>6. ASSUME NEW d \in Drafts PROVE EarliestWave(w, d) = w[d]
  <2>1. PICK i \in 1..n : order[i] = d
    BY <1>2
  <2>2. i \in 0..n /\ i - 1 \in 0..n
    BY <1>2
  <2>3. g[i] = w /\ g[i - 1] = w
    BY <1>5, <2>2
  <2>4. w = Raise(w, d)
    BY <1>3, <2>1, <2>3
  <2>5. QED
    BY <2>4, RaiseIs
<1>7. ASSUME NEW d \in Drafts
      PROVE  /\ \A p \in Parents(d) :
                    w[p] < w[d] \/ (w[p] = w[d] /\ graph.family[p] = graph.family[d])
             /\ \A c \in Predecessors(d) : w[c] <= w[d]
  <2>1. /\ \A c \in Predecessors(d) : w[c] <= w[d]
        /\ \A p \in Parents(d) :
               w[p] <= w[d] /\ (graph.family[p] # graph.family[d] => w[p] < w[d])
    BY <1>6, EarliestIs
  <2>2. \A p \in Parents(d) : w[p] \in Nat /\ w[d] \in Nat
    BY ParentsAreDrafts
  <2>3. QED
    BY <2>1, <2>2
<1>8. QED
  BY <1>7 DEF Respects

LEMMA UnsettledDef ==
    ASSUME NEW R \in SUBSET Drafts, NEW n, n = Cardinality(R), NEW order, order = Ascending(R)
    PROVE  \E g \in [0..n -> SUBSET Drafts] :
              /\ g[0] = R /\ Unsettled(R) = g[n]
              /\ \A i \in 1..n : g[i] = Settle(g[i - 1], order[i])
<1> DEFINE V == SUBSET Drafts
           f == [i \in 1..n |-> [x \in V |-> Settle(x, order[i])]]
           F(g) == [i \in 0..n |-> IF i = 0 THEN R ELSE Settle(g[i - 1], order[i])]
<1>1. n \in Nat /\ order \in [1..n -> R] /\ Len(order) = n
  <2>1. IsFiniteSet(R) /\ R \in SUBSET Nat
    BY WavesAssumption, FS_Subset
  <2>2. n \in Nat /\ order \in [1..n -> R]
    BY <2>1, AscendingCovers
  <2>3. QED
    BY <2>2
<1>2. \A x \in V, i \in 1..n : Settle(x, order[i]) \in V
  BY DEF Settle
<1>3. f \in [1..n -> [V -> V]]
  BY <1>2
<1>4. PICK g \in [0..n -> V] : g[0] = R /\ \A i \in 1..n : g[i] = f[i][g[i - 1]]
  <2>1. PICK W, b, ff : ff = f /\ W = V /\ b = R /\ ff \in [1..n -> [W -> W]] /\ b \in W
    BY <1>3
  <2> HIDE DEF f, F
  <2>2. \E g \in [0..n -> W] : IsFold(g, n, b, ff)
    BY <1>1, <2>1, FoldExists
  <2>3. QED
    BY <2>1, <2>2 DEF IsFold
<1>5. \A i \in 1..n : g[i] = Settle(g[i - 1], order[i])
  <2> SUFFICES ASSUME NEW i \in 1..n PROVE g[i] = Settle(g[i - 1], order[i])
    OBVIOUS
  <2>1. g[i - 1] \in V
    BY <1>1
  <2>2. f[i][g[i - 1]] = Settle(g[i - 1], order[i])
    BY <2>1
  <2>3. QED
    BY <1>4, <2>2
<1>6. PICK h : h = (CHOOSE x : x = F(x))
  OBVIOUS
<1>7. h = F(h)
  <2>1. PICK G : G = F(g)
    OBVIOUS
  <2>2. DOMAIN G = 0..n /\ G = [i \in DOMAIN G |-> G[i]] /\ \A i \in 0..n : G[i] = g[i]
    BY <1>4, <1>5, <2>1
  <2>3. g = F(g)
    BY <2>1, <2>2
  <2>4. QED
    BY <1>6, <2>3
<1>8. Unsettled(R) = h[n]
  BY <1>1, <1>6 DEF Unsettled
<1>9. \A i \in 0..n : h[i] = IF i = 0 THEN R ELSE Settle(h[i - 1], order[i])
  BY <1>7
<1> HIDE DEF F
<1>10. h[n] = g[n]
  <2>1. h[0] = g[0]
    BY <1>1, <1>4, <1>9
  <2>2. ASSUME NEW i \in 1..n, h[i - 1] = g[i - 1] PROVE h[i] = g[i]
    <3>1. i \in 0..n /\ i # 0
      BY <1>1
    <3>2. h[i] = Settle(h[i - 1], order[i]) /\ g[i] = Settle(g[i - 1], order[i])
      BY <1>5, <1>9, <3>1
    <3>3. QED
      BY <2>2, <3>2
  <2>3. QED
    BY <1>1, <2>1, <2>2, SameRun
<1>11. QED
  BY <1>4, <1>5, <1>8, <1>10

\* The turns of a gate.
Turns(a, n, g) ==
    /\ g \in [0..n -> SUBSET Drafts] /\ g[0] = {} /\ Blocked(a) = g[n]
    /\ \A i \in 1..n : g[i] = BlockedBy(a, g[i - 1])

LEMMA BlockedDef ==
    ASSUME NEW a, NEW n, n = Cardinality(Drafts)
    PROVE  \E g : Turns(a, n, g)
<1> DEFINE V == SUBSET Drafts
           f == [i \in 1..n |-> [x \in V |-> BlockedBy(a, x)]]
           F(g) == [i \in 0..n |-> IF i = 0 THEN {} ELSE BlockedBy(a, g[i - 1])]
<1>1. n \in Nat
  BY WavesAssumption, FS_CardinalityType
<1>2. \A x \in V, i \in 1..n : BlockedBy(a, x) \in V
  BY DEF BlockedBy, Members
<1>3. f \in [1..n -> [V -> V]]
  BY <1>2
<1>4. PICK g \in [0..n -> V] : g[0] = {} /\ \A i \in 1..n : g[i] = f[i][g[i - 1]]
  <2>1. PICK W, b, ff : ff = f /\ W = V /\ b = {} /\ ff \in [1..n -> [W -> W]] /\ b \in W
    <3>1. {} \in V
      OBVIOUS
    <3> HIDE DEF f, V
    <3>2. QED
      BY <1>3, <3>1
  <2> HIDE DEF f, F
  <2>2. \E g \in [0..n -> W] : IsFold(g, n, b, ff)
    BY <1>1, <2>1, FoldExists
  <2>3. QED
    BY <2>1, <2>2 DEF IsFold
<1>5. \A i \in 1..n : g[i] = BlockedBy(a, g[i - 1])
  <2> SUFFICES ASSUME NEW i \in 1..n PROVE g[i] = BlockedBy(a, g[i - 1])
    OBVIOUS
  <2>1. g[i - 1] \in V
    BY <1>1
  <2>2. f[i][g[i - 1]] = BlockedBy(a, g[i - 1])
    BY <2>1
  <2>3. QED
    BY <1>4, <2>2
<1>6. PICK h : h = (CHOOSE x : x = F(x))
  OBVIOUS
<1>7. h = F(h)
  <2>1. PICK G : G = F(g)
    OBVIOUS
  <2>2. DOMAIN G = 0..n /\ G = [i \in DOMAIN G |-> G[i]] /\ \A i \in 0..n : G[i] = g[i]
    BY <1>4, <1>5, <2>1
  <2>3. g = F(g)
    BY <2>1, <2>2
  <2>4. QED
    BY <1>6, <2>3
<1>8. Blocked(a) = h[n]
  BY <1>1, <1>6 DEF Blocked
<1>9. \A i \in 0..n : h[i] = IF i = 0 THEN {} ELSE BlockedBy(a, h[i - 1])
  BY <1>7
<1> HIDE DEF F
<1>10. h[n] = g[n]
  <2>1. h[0] = g[0]
    BY <1>1, <1>4, <1>9
  <2>2. ASSUME NEW i \in 1..n, h[i - 1] = g[i - 1] PROVE h[i] = g[i]
    <3>1. i \in 0..n /\ i # 0
      BY <1>1
    <3>2. h[i] = BlockedBy(a, h[i - 1]) /\ g[i] = BlockedBy(a, g[i - 1])
      BY <1>5, <1>9, <3>1
    <3>3. QED
      BY <2>2, <3>2
  <2>3. QED
    BY <1>1, <2>1, <2>2, SameRun
<1>11. Turns(a, n, g)
  BY <1>4, <1>5, <1>8, <1>10 DEF Turns
<1>12. QED
  BY <1>11

\* A pass takes drafts out of R, and if it takes none then each has a parent in R.
LEMMA UnsettledIs ==
    ASSUME graph \in Graphs, NEW R \in SUBSET Drafts
    PROVE  /\ Unsettled(R) \in SUBSET R
           /\ Unsettled(R) = R => \A d \in R : graph.deps[d] \cap R # {}
<1>1. PICK n, order : n = Cardinality(R) /\ order = Ascending(R)
  OBVIOUS
<1>2. n \in Nat /\ order \in [1..n -> R] /\ \A d \in R : \E i \in 1..n : order[i] = d
  <2>1. IsFiniteSet(R) /\ R \in SUBSET Nat
    BY WavesAssumption, FS_Subset
  <2>2. QED
    BY <1>1, <2>1, AscendingCovers
<1>3. PICK g \in [0..n -> SUBSET Drafts] :
          /\ g[0] = R /\ Unsettled(R) = g[n]
          /\ \A i \in 1..n : g[i] = Settle(g[i - 1], order[i])
  BY <1>1, UnsettledDef
<1> DEFINE Shrinks(i) == \A j \in 0..i : g[i] \subseteq g[j]
<1>4. \A i \in Nat : i <= n => Shrinks(i)
  <2> DEFINE Done == {i \in Nat : i <= n => Shrinks(i)}
  <2>1. 0 \in Done
    OBVIOUS
  <2>2. ASSUME NEW i \in Nat, i \in Done PROVE i + 1 \in Done
    <3> SUFFICES ASSUME i + 1 <= n, NEW j \in 0..(i + 1) PROVE g[i + 1] \subseteq g[j]
      OBVIOUS
    <3>1. i <= n /\ i + 1 \in 1..n /\ (i + 1) - 1 = i
      BY <1>2
    <3>2. g[i + 1] = Settle(g[i], order[i + 1])
      BY <1>3, <3>1
    <3>3. g[i + 1] \subseteq g[i]
      BY <3>2 DEF Settle
    <3>4. CASE j = i + 1
      BY <3>4
    <3>5. CASE j \in 0..i
      BY <2>2, <3>1, <3>3, <3>5
    <3>6. QED
      BY <3>4, <3>5
  <2>3. Nat \subseteq Done
    <3> HIDE DEF Done
    <3> QED BY <2>1, <2>2, SetInduction
  <2>4. QED
    BY <2>3
<1>5. ASSUME NEW i \in 0..n PROVE g[n] \subseteq g[i] /\ g[i] \subseteq R
  <2>1. i \in Nat /\ i <= n /\ n <= n /\ 0 \in 0..i
    BY <1>2
  <2>2. Shrinks(i) /\ Shrinks(n)
    <3> HIDE DEF Shrinks
    <3> QED BY <1>2, <1>4, <2>1
  <2>3. QED
    BY <1>3, <2>1, <2>2
<1>6. Unsettled(R) \in SUBSET R
  <2>1. n \in 0..n
    BY <1>2
  <2>2. QED
    BY <1>3, <1>5, <2>1
<1>7. ASSUME Unsettled(R) = R, NEW d \in R PROVE graph.deps[d] \cap R # {}
  <2>1. PICK i \in 1..n : order[i] = d
    BY <1>2
  <2>2. i \in 0..n /\ i - 1 \in 0..n
    BY <1>2
  <2>3. g[i] = R /\ g[i - 1] = R
    BY <1>3, <1>5, <1>7, <2>2
  <2>4. R = Settle(R, d)
    BY <1>3, <2>1, <2>3
  <2>5. QED
    BY <2>4 DEF Settle
<1>8. QED
  BY <1>6, <1>7

\* The turns of a gate end with a fixed point.
LEMMA BlockedFix ==
    ASSUME NEW a
    PROVE  Blocked(a) \in SUBSET Drafts /\ Blocked(a) = BlockedBy(a, Blocked(a))
<1>0. PICK n : n = Cardinality(Drafts)
  OBVIOUS
<1>1. n \in Nat
  BY <1>0, WavesAssumption, FS_CardinalityType
<1>t. PICK g : Turns(a, n, g)
  BY <1>0, BlockedDef
<1>2. /\ g \in [0..n -> SUBSET Drafts] /\ g[0] = {} /\ Blocked(a) = g[n]
      /\ \A i \in 1..n : g[i] = BlockedBy(a, g[i - 1])
  BY <1>t DEF Turns
<1>3. \A A, B \in SUBSET Drafts : A \subseteq B => BlockedBy(a, A) \subseteq BlockedBy(a, B)
  BY DEF BlockedBy
<1>4. \A A : BlockedBy(a, A) \in SUBSET Drafts
  BY DEF BlockedBy, Members
<1> DEFINE Full(A) == A = BlockedBy(a, A)
           Good(i) == g[i] \subseteq BlockedBy(a, g[i]) /\ (Full(g[i]) \/ Cardinality(g[i]) >= i)
<1>5. n <= n => Good(n)
  <2> DEFINE Done == {i \in Nat : i <= n => Good(i)}
  <2>1. 0 \in Done
    BY <1>2, FS_EmptySet
  <2>2. ASSUME NEW i \in Nat, i \in Done PROVE i + 1 \in Done
    <3> SUFFICES ASSUME i + 1 <= n PROVE Good(i + 1)
      OBVIOUS
    <3>1. i \in 0..n /\ i + 1 \in 1..n /\ (i + 1) - 1 = i
      BY <1>1
    <3>2. PICK A \in SUBSET Drafts, B \in SUBSET Drafts : A = g[i] /\ B = g[i + 1]
      BY <1>1, <1>2, <3>1
    <3>3. B = BlockedBy(a, A) /\ A \subseteq B
      BY <1>2, <2>2, <3>1, <3>2
    <3>4. B \subseteq BlockedBy(a, B)
      BY <1>3, <3>3
    <3>5. Full(B) \/ Cardinality(B) >= i + 1
      <4>1. CASE A = B
        BY <3>3, <4>1
      <4>2. CASE A # B
        <5>1. IsFiniteSet(B)
          BY WavesAssumption, FS_Subset
        <5>2. /\ IsFiniteSet(A) /\ Cardinality(A) <= Cardinality(B)
              /\ Cardinality(A) # Cardinality(B)
          BY <3>3, <4>2, <5>1, FS_Subset
        <5>3. Cardinality(A) \in Nat /\ Cardinality(B) \in Nat
          BY <5>1, <5>2, FS_CardinalityType
        <5>4. Cardinality(A) >= i
          BY <2>2, <3>1, <3>2, <3>3, <4>2
        <5>5. QED
          BY <5>2, <5>3, <5>4
      <4>3. QED
        BY <4>1, <4>2
    <3>6. QED
      BY <3>2, <3>4, <3>5
  <2>3. n \in Done
    <3> HIDE DEF Done
    <3> QED BY <1>1, <2>1, <2>2, SetInduction
  <2>4. QED
    BY <2>3
<1>6. PICK B \in SUBSET Drafts : B = g[n]
  BY <1>1, <1>2
<1>7. B \subseteq BlockedBy(a, B) /\ (Full(B) \/ Cardinality(B) >= n)
  BY <1>1, <1>5, <1>6
<1>8. ASSUME Cardinality(B) >= n PROVE Full(B)
  <2>1. Cardinality(B) <= Cardinality(Drafts) /\ Cardinality(B) \in Nat
    BY WavesAssumption, FS_Subset, FS_CardinalityType
  <2>2. Cardinality(Drafts) = Cardinality(B)
    BY <1>0, <1>1, <1>8, <2>1
  <2>3. B = Drafts
    BY <2>2, WavesAssumption, FS_Subset
  <2>4. QED
    BY <1>4, <1>7, <2>3
<1>9. QED
  BY <1>2, <1>6, <1>7, <1>8

-----------------------------------------------------------------------------
\* The steps

\* What depends on the graph and on the available parents alone.
LEMMA SameGraph ==
    ASSUME graph' = graph
    PROVE  /\ \A d : Predecessors(d)' = Predecessors(d)
           /\ \A d : Required(d)' <=> Required(d)
<1>1. \A c, d : Before(c, d)' <=> Before(c, d)
  BY DEF Before
<1>2. \A c, d : MayFollow(c, d)' <=> MayFollow(c, d)
  BY DEF MayFollow
<1>3. \A d : Predecessors(d)' = Predecessors(d)
  BY <1>1, <1>2 DEF Predecessors
<1>4. \A d : Required(d)' <=> Required(d)
  BY DEF Required
<1>5. QED
  BY <1>3, <1>4

LEMMA SamePlan ==
    ASSUME graph' = graph, available' = available
    PROVE  /\ \A d : Parents(d)' = Parents(d)
           /\ \A w : Respects(w)' <=> Respects(w)
<1>1. \A d : Parents(d)' = Parents(d)
  BY DEF Parents
<1>2. \A d : Predecessors(d)' = Predecessors(d)
  BY SameGraph
<1>3. QED
  BY <1>1, <1>2 DEF Respects

\* Records and accepted parents are never taken back.
LEMMA DestinationGrows ==
    ASSUME dest.records \subseteq dest'.records, indexOnly \subseteq indexOnly'
    PROVE  \A x : (Recorded(x) => Recorded(x)') /\ (Kept(x) => Kept(x)')
  BY DEF Recorded, Kept

LEMMA InitInv == Init => WavesInv
<1> SUFFICES ASSUME Init PROVE WavesInv
  OBVIOUS
<1>1. TypesOK
  <2>1. <<>> \in [1..0 -> SUBSET Drafts] /\ <<>> \in [1..0 -> {"empty", "busy", "ok", "failed"}]
    OBVIOUS
  <2>2. \E n \in Nat : /\ runnable \in [1..n -> SUBSET Drafts]
                       /\ slots \in [1..n -> {"empty", "busy", "ok", "failed"}]
    BY <2>1 DEF Init
  <2>3. QED
    BY <2>2 DEF Init, TypesOK, Answers
<1>2. dest.manifests = graph.present \cap Drafts
      /\ dest.records = {{d} : d \in graph.present \cap Drafts}
  BY DEF Init
<1>3. DestinationOK
  BY <1>2 DEF Init, DestinationOK, Recorded, Planning
<1>4. PlanOK /\ RejectsOnlyContradictions
  BY WavesAssumption DEF Init, PlanOK, Planning, RejectsOnlyContradictions
<1>5. AnswersOK
  BY DEF Init, AnswersOK, Planning
<1>6. KeptOK
  BY DEF Init, KeptOK
<1>7. RunOK
  BY DEF Init, RunOK
<1>8. ParentsOK
  BY <1>2 DEF ParentsOK, Recorded
<1>9. QED
  BY <1>1, <1>3, <1>4, <1>5, <1>6, <1>7, <1>8 DEF WavesInv

\* A step that leaves the destination and the answers as they are.
LEMMA SameRunState ==
    ASSUME WavesInv, graph' = graph, UNCHANGED run
    PROVE  /\ KeptOK' /\ ParentsOK'
           /\ \A x : Recorded(x)' <=> Recorded(x)
<1>1. \A x : (Recorded(x)' <=> Recorded(x)) /\ (Kept(x)' <=> Kept(x))
  BY DEF Recorded, Kept, run
<1>2. KeptOK'
  BY <1>1, SameGraph DEF WavesInv, KeptOK, run
<1>3. ParentsOK'
  BY <1>1 DEF WavesInv, ParentsOK, run
<1>4. QED
  BY <1>1, <1>2, <1>3

LEMMA RemapInv == WavesInv /\ Remap => WavesInv'
<1> SUFFICES ASSUME WavesInv, Remap PROVE WavesInv'
  OBVIOUS
<1>1. graph' = graph /\ UNCHANGED run /\ phase = "remap" /\ wave' = wave
  BY DEF Remap, Reject
<1>2. KeptOK' /\ ParentsOK' /\ \A x : Recorded(x)' <=> Recorded(x)
  BY <1>1, SameRunState
<1>3. remaining \in SUBSET Drafts /\ Unsettled(remaining) \in SUBSET remaining
  BY UnsettledIs DEF WavesInv, TypesOK
<1>4. phase' \in {"remap", "order", "rejected"} /\ remaining' \in SUBSET Drafts
      /\ available' \in SUBSET Drafts
  BY <1>1, <1>3 DEF Remap, Reject, WavesInv, TypesOK
<1>5. TypesOK'
  BY <1>1, <1>4 DEF TypesOK, WavesInv, run
<1>6. \A p \in available' : Recorded(p)
  <2>1. CASE available' = available
    BY <2>1 DEF WavesInv, DestinationOK
  <2>2. CASE available' = {p \in Drafts : Required(p) /\ Exists(p)}
    BY <1>1, <2>2, WavesAssumption DEF WavesInv, DestinationOK, Exists, Planning
  <2>3. QED
    BY <2>1, <2>2 DEF Remap, Reject
<1>7. DestinationOK'
  BY <1>1, <1>2, <1>6 DEF DestinationOK, WavesInv, run, Planning
<1>8. PlanOK'
  <2>1. wave = [d \in Drafts |-> 0]
    BY <1>1 DEF WavesInv, PlanOK
  <2>2. phase' = "remap" => remaining' # {}
    BY <1>1 DEF Remap, Reject, WavesInv, PlanOK
  <2>3. \A w \in [Drafts -> Nat] : \A d \in Drafts : wave[d] <= w[d]
    BY <2>1
  <2>4. QED
    BY <1>1, <1>4, <2>1, <2>2, <2>3 DEF PlanOK, Planning
<1>9. RejectsOnlyContradictions'
  <2> SUFFICES ASSUME phase' = "rejected" PROVE RejectsOnlyContradictions'
    BY DEF RejectsOnlyContradictions
  <2>1. CASE \E d \in remaining : \E x \in graph.deps[d] \cap External : ~Exists(x)
    <3>1. PICK d, x : d \in remaining /\ x \in graph.deps[d] \cap External /\ ~Exists(x)
      BY <2>1
    <3>2. ~Exists(x)' /\ d \in Drafts /\ x \in graph'.deps[d] \cap External
      BY <1>1, <1>3, <3>1 DEF Exists
    <3>3. QED
      BY <3>2 DEF RejectsOnlyContradictions
  <2>2. CASE Unsettled(remaining) = remaining
    <3>1. remaining # {} /\ graph \in Graphs
      BY <1>1 DEF WavesInv, PlanOK, TypesOK
    <3>2. \A d \in remaining : graph'.deps[d] \cap remaining # {}
      BY <1>1, <1>3, <2>2, <3>1, UnsettledIs
    <3>3. QED
      BY <1>3, <3>1, <3>2 DEF RejectsOnlyContradictions
  <2>3. QED
    BY <1>1, <2>1, <2>2 DEF Remap, Reject
<1>10. AnswersOK'
  BY <1>1, <1>4 DEF WavesInv, AnswersOK, Planning, run
<1>11. RunOK'
  BY <1>1, <1>4 DEF WavesInv, RunOK, run
<1>12. QED
  BY <1>2, <1>5, <1>7, <1>8, <1>9, <1>10, <1>11 DEF WavesInv

LEMMA OrderInv == WavesInv /\ Order => WavesInv'
<1> SUFFICES ASSUME WavesInv, Order PROVE WavesInv'
  OBVIOUS
<1>1. /\ graph' = graph /\ available' = available /\ UNCHANGED run /\ phase = "order"
      /\ remaining' = remaining
  BY DEF Order, Reject
<1>2. KeptOK' /\ ParentsOK' /\ \A x : Recorded(x)' <=> Recorded(x)
  BY <1>1, SameRunState
<1>3. graph \in Graphs /\ wave \in [Drafts -> Nat]
  BY DEF WavesInv, TypesOK
<1>4. PICK after \in [Drafts -> Nat] : after = Raised(wave)
  BY <1>3, RaisedBelow
<1>5. \/ /\ phase' = "rejected" /\ wave' = wave /\ \E d \in Drafts : after[d] >= WaveLimit
      \/ phase' = "gate" /\ after = wave /\ wave' = wave
      \/ phase' = "order" /\ wave' = after
  BY <1>4 DEF Order, Reject
<1>6. TypesOK'
  BY <1>1, <1>5 DEF WavesInv, TypesOK, run
<1>7. DestinationOK'
  BY <1>1, <1>2, <1>5 DEF WavesInv, DestinationOK, run, Planning
<1>8. \A w \in [Drafts -> Nat] : Respects(w) => \A d \in Drafts : after[d] <= w[d]
  <2>1. \A w \in [Drafts -> Nat] : Respects(w) => \A d \in Drafts : wave[d] <= w[d]
    BY <1>1 DEF WavesInv, PlanOK
  <2>2. QED
    BY <1>3, <1>4, <2>1, RaisedBelow
<1>9. PlanOK'
  <2>1. CASE phase' = "order" /\ wave' = after
    BY <1>1, <1>8, <2>1, SamePlan DEF PlanOK, Planning
  <2>2. CASE phase' = "gate" /\ after = wave /\ wave' = wave
    <3>1. Respects(wave)
      BY <1>3, <1>4, <2>2, RaisedFix
    <3>2. Respects(wave)'
      BY <1>1, <2>2, <3>1, SamePlan DEF Respects
    <3>3. QED
      BY <2>2, <3>2 DEF PlanOK, Planning
  <2>3. CASE phase' = "rejected"
    BY <2>3 DEF PlanOK, Planning
  <2>4. QED
    BY <1>5, <2>1, <2>2, <2>3
<1>10. RejectsOnlyContradictions'
  <2> SUFFICES ASSUME phase' = "rejected" PROVE RejectsOnlyContradictions'
    BY DEF RejectsOnlyContradictions
  <2>1. PICK d \in Drafts : after[d] >= Cardinality(Drafts)
    BY <1>5 DEF WaveLimit
  <2>2. ASSUME NEW w \in [Drafts -> 0..(Cardinality(Drafts) - 1)], Respects(w) PROVE FALSE
    <3>1. Cardinality(Drafts) \in Nat
      BY WavesAssumption, FS_CardinalityType
    <3>2. w \in [Drafts -> Nat]
      BY <3>1
    <3>3. after[d] <= w[d] /\ w[d] \in 0..(Cardinality(Drafts) - 1) /\ after[d] \in Nat
      BY <1>8, <2>2, <3>2
    <3>4. QED
      BY <2>1, <3>1, <3>3
  <2>3. ~\E w \in [Drafts -> 0..(Cardinality(Drafts) - 1)] : Respects(w)'
    BY <1>1, <2>2, SamePlan
  <2>4. QED
    BY <2>3 DEF RejectsOnlyContradictions, Respects
<1>11. AnswersOK'
  <2>1. now' = 0 /\ \A d \in Drafts : published'[d] = "none" /\ wave'[d] \in Nat
    BY <1>1, <1>3, <1>4, <1>5 DEF WavesInv, AnswersOK, Planning, run
  <2>2. phase' \in {"rejected", "gate", "order"}
    BY <1>5
  <2>3. QED
    BY <2>1, <2>2 DEF AnswersOK, Planning
<1>12. RunOK'
  BY <1>1, <1>5 DEF WavesInv, RunOK, run
<1>13. QED
  BY <1>2, <1>6, <1>7, <1>9, <1>10, <1>11, <1>12 DEF WavesInv

\* The drafts that the gates of a wave leave out.
Skipped == UNION {Blocked(g) : g \in Groups}

\* What the gates of a wave do.
LEMMA GateIs ==
    ASSUME WavesInv, phase = "gate"
    PROVE  /\ \A d \in Skipped : d \in Drafts /\ wave[d] = now
           /\ \A d \in Drafts : wave[d] = now =>
                  /\ d \in Skipped <=> \E p \in Parents(d) :
                         \/ wave[p] < now /\ published[p] # "yes"
                         \/ wave[p] = now /\ p \in Skipped
                  /\ d \in Skipped \/ d \in Runs(graph.family[d])
           /\ \A g \in Groups : \A d \in Runs(g) :
                  /\ d \in Drafts /\ wave[d] = now /\ d \notin Skipped
                  /\ \A p \in Parents(d) :
                         \/ wave[p] < now /\ published[p] = "yes"
                         \/ p \in Runs(g) /\ graph.family[p] = graph.family[d]
<1>1. wave \in [Drafts -> Nat] /\ now \in Nat /\ Respects(wave)
  BY DEF WavesInv, TypesOK, PlanOK, Planning
<1>2. \A g : Blocked(g) = BlockedBy(g, Blocked(g))
  BY BlockedFix
<1>3. \A g : \A d \in Blocked(g) : d \in Drafts /\ wave[d] = now /\ graph.family[d] = g
  BY <1>2 DEF BlockedBy, Members
<1>4. \A d \in Drafts : d \in Skipped <=> d \in Blocked(graph.family[d])
  BY <1>3 DEF Skipped, Groups
<1>5. \A d \in Drafts : \A p \in Parents(d) : wave[d] = now =>
          p \in Drafts /\ (wave[p] < now \/ (~(wave[p] < now) /\ wave[p] = now
                                             /\ graph.family[p] = graph.family[d]))
  <2> SUFFICES ASSUME NEW d \in Drafts, NEW p \in Parents(d), wave[d] = now
               PROVE  p \in Drafts /\ (wave[p] < now \/ (~(wave[p] < now) /\ wave[p] = now
                                             /\ graph.family[p] = graph.family[d]))
    OBVIOUS
  <2>1. p \in Drafts /\ wave[p] \in Nat
    BY <1>1, ParentsAreDrafts
  <2>2. QED
    BY <1>1, <2>1 DEF Respects
<1>6. \A d \in Drafts : wave[d] = now =>
          (d \in Blocked(graph.family[d]) <=>
              \E p \in Parents(d) : IF wave[p] < now THEN published[p] # "yes"
                                    ELSE p \in Blocked(graph.family[d]))
  <2> SUFFICES ASSUME NEW d \in Drafts, wave[d] = now
               PROVE  d \in Blocked(graph.family[d]) <=>
                        \E p \in Parents(d) : IF wave[p] < now THEN published[p] # "yes"
                                              ELSE p \in Blocked(graph.family[d])
    OBVIOUS
  <2>1. PICK g, B : g = graph.family[d] /\ B = Blocked(g) /\ B = BlockedBy(g, B)
    BY <1>2
  <2>2. d \in B <=> \E p \in Parents(d) : IF wave[p] < now THEN published[p] # "yes"
                                          ELSE p \in B
    BY <2>1 DEF BlockedBy, Members
  <2>3. QED
    BY <2>1, <2>2
<1>7. ASSUME NEW d \in Drafts, wave[d] = now
      PROVE  /\ d \in Skipped <=> \E p \in Parents(d) :
                   \/ wave[p] < now /\ published[p] # "yes"
                   \/ wave[p] = now /\ p \in Skipped
             /\ d \in Skipped \/ d \in Runs(graph.family[d])
  <2>1. \A p \in Parents(d) :
            (IF wave[p] < now THEN published[p] # "yes" ELSE p \in Blocked(graph.family[d]))
            <=> \/ wave[p] < now /\ published[p] # "yes"
                \/ wave[p] = now /\ p \in Skipped
    BY <1>1, <1>4, <1>5, <1>7
  <2>2. d \in Skipped \/ d \in Runs(graph.family[d])
    BY <1>4, <1>7 DEF Runs, Members
  <2>3. QED
    BY <1>4, <1>6, <1>7, <2>1, <2>2
<1>8. ASSUME NEW g \in Groups, NEW d \in Runs(g)
      PROVE  /\ d \in Drafts /\ wave[d] = now /\ d \notin Skipped
             /\ \A p \in Parents(d) :
                   \/ wave[p] < now /\ published[p] = "yes"
                   \/ p \in Runs(g) /\ graph.family[p] = graph.family[d]
  <2>1. d \in Drafts /\ wave[d] = now /\ graph.family[d] = g /\ d \notin Blocked(g)
    BY <1>8 DEF Runs, Members
  <2>2. \A p \in Parents(d) : IF wave[p] < now THEN published[p] = "yes" ELSE p \notin Blocked(g)
    BY <1>6, <2>1
  <2>3. ASSUME NEW p \in Parents(d)
        PROVE  \/ wave[p] < now /\ published[p] = "yes"
               \/ p \in Runs(g) /\ graph.family[p] = graph.family[d]
    BY <1>5, <2>1, <2>2 DEF Runs, Members
  <2>4. QED
    BY <1>4, <2>1, <2>3
<1>9. \A d \in Skipped : d \in Drafts /\ wave[d] = now
  BY <1>3 DEF Skipped
<1>10. QED
  BY <1>7, <1>8, <1>9

LEMMA GateInv == WavesInv /\ Gate => WavesInv'
<1> SUFFICES ASSUME WavesInv, Gate PROVE WavesInv'
  OBVIOUS
<1>1. /\ graph' = graph /\ remaining' = remaining /\ available' = available /\ wave' = wave
      /\ now' = now /\ dest' = dest /\ indexOnly' = indexOnly
      /\ phase = "gate" /\ phase' = "run" /\ next' = 1
      /\ published' = [d \in Drafts |-> IF d \in Skipped THEN "skipped" ELSE published[d]]
  BY DEF Gate, plan, Skipped
<1>2. /\ graph \in Graphs /\ wave \in [Drafts -> Nat] /\ now \in Nat
      /\ published \in [Drafts -> Answers] /\ Respects(wave)
  BY <1>1 DEF WavesInv, TypesOK, PlanOK, Planning
<1>3. PICK T : T = {g \in Groups : Runs(g) # {}}
  OBVIOUS
<1>4. IsFiniteSet(T) /\ T \in SUBSET Nat
  <2>1. graph.family \in [Drafts -> Nat]
    BY <1>2, GraphTyped
  <2>2. IsFiniteSet(Groups)
    <3>1. PICK f, G : f = graph.family /\ G = Groups
      OBVIOUS
    <3>2. G = {f[d] : d \in Drafts} /\ IsFiniteSet(Drafts)
      BY <3>1, WavesAssumption DEF Groups
    <3>3. QED
      BY <3>1, <3>2, ImageFinite
  <2>3. QED
    BY <1>3, <2>1, <2>2, FS_Subset DEF Groups
<1>5. PICK n, ready :
          /\ n \in Nat /\ ready = Ascending(T) /\ ready \in [1..n -> T]
          /\ \A g \in T : \E i \in 1..n : ready[i] = g
  <2>1. PICK n \in Nat : n = Cardinality(T)
    BY <1>4, FS_CardinalityType
  <2>2. PICK r : r = Ascending(T)
    OBVIOUS
  <2>3. r \in [1..n -> T] /\ \A g \in T : \E i \in 1..n : r[i] = g
    BY <1>4, <2>1, <2>2, AscendingCovers
  <2>4. QED
    BY <2>2, <2>3
<1>6. runnable' = [i \in 1..n |-> Runs(ready[i])] /\ slots' = [i \in 1..n |-> "empty"]
  BY <1>3, <1>5 DEF Gate
<1>7. \A i \in 1..n : ready[i] \in Groups /\ runnable'[i] = Runs(ready[i])
  BY <1>3, <1>5, <1>6
<1>8. DOMAIN runnable' = 1..n
  BY <1>6
<1>9. TypesOK'
  <2>1. runnable' \in [1..n -> SUBSET Drafts]
    <3>1. \A g : Runs(g) \in SUBSET Drafts
      BY DEF Runs, Members
    <3>2. QED
      BY <1>6, <3>1
  <2>2. slots' \in [1..n -> {"empty", "busy", "ok", "failed"}]
    BY <1>6
  <2>3. published' \in [Drafts -> Answers]
    BY <1>1, <1>2 DEF Answers
  <2>4. \E m \in Nat : /\ runnable' \in [1..m -> SUBSET Drafts]
                       /\ slots' \in [1..m -> {"empty", "busy", "ok", "failed"}]
    BY <1>5, <2>1, <2>2
  <2>5. next' \in Nat \ {0}
    BY <1>1
  <2>6. QED
    BY <1>1, <2>3, <2>4, <2>5 DEF WavesInv, TypesOK
<1>10. \A x : (Recorded(x)' <=> Recorded(x)) /\ (Kept(x)' <=> Kept(x))
  BY <1>1 DEF Recorded, Kept
<1>11. DestinationOK'
  BY <1>1, <1>10 DEF WavesInv, DestinationOK, Planning
<1>12. PlanOK'
  <2>1. Respects(wave)'
    BY <1>1, <1>2, SamePlan DEF Respects
  <2>2. QED
    BY <1>1, <2>1 DEF PlanOK, Planning
<1>13. RejectsOnlyContradictions'
  BY <1>1 DEF RejectsOnlyContradictions
<1>14. /\ \A d \in Skipped : d \in Drafts /\ wave[d] = now
       /\ \A d \in Drafts : wave[d] = now => published[d] = "none"
  BY <1>1, GateIs DEF WavesInv, AnswersOK
<1>15. KeptOK'
  BY <1>1, <1>2, <1>10, SameGraph DEF WavesInv, KeptOK
<1>16. ParentsOK'
  BY <1>1, <1>10 DEF WavesInv, ParentsOK
<1>17. RunOK'
  <2>1. ASSUME NEW i \in 1..n, NEW d \in Runs(ready[i])
        PROVE  /\ wave[d] = now /\ published'[d] = "none"
               /\ \A p \in Parents(d) :
                     \/ wave[p] < now /\ published'[p] = "yes"
                     \/ p \in Runs(ready[i]) /\ graph.family[p] = graph.family[d]
    <3>1. /\ d \in Drafts /\ wave[d] = now /\ d \notin Skipped
          /\ \A p \in Parents(d) :
                 \/ wave[p] < now /\ published[p] = "yes"
                 \/ p \in Runs(ready[i]) /\ graph.family[p] = graph.family[d]
      BY <1>1, <1>7, <2>1, GateIs
    <3>2. \A p \in Parents(d) : p \in Drafts /\ wave[p] \in Nat
      BY <1>2, ParentsAreDrafts
    <3>3. \A p \in Parents(d) : wave[p] < now => p \notin Skipped
      BY <1>2, <1>14, <3>2
    <3>4. QED
      BY <1>1, <1>14, <3>1, <3>2, <3>3
  <2>2. ASSUME NEW i \in DOMAIN runnable', NEW d \in runnable'[i]
        PROVE  /\ i < next' => slots'[i] # "empty"
               /\ wave'[d] = now' /\ published'[d] = "none"
               /\ \A p \in Parents(d)' :
                     \/ wave'[p] < now' /\ published'[p] = "yes"
                     \/ p \in runnable'[i] /\ graph'.family[p] = graph'.family[d]
               /\ slots'[i] = "ok" /\ Required(d)' => Recorded(d)'
    <3>1. i \in 1..n /\ runnable'[i] = Runs(ready[i]) /\ slots'[i] = "empty" /\ ~(i < next')
      BY <1>1, <1>6, <1>7, <1>8
    <3>2. Parents(d)' = Parents(d)
      BY <1>1, SamePlan
    <3>3. d \in Runs(ready[i])
      BY <2>2, <3>1
    <3>4. QED
      BY <1>1, <2>1, <3>1, <3>2, <3>3
  <2>3. \A i \in DOMAIN runnable' : i < next' => slots'[i] # "empty"
    BY <1>1, <1>8
  <2>4. QED
    BY <1>1, <2>2, <2>3 DEF RunOK
<1>18. AnswersOK'
  <2>1. ASSUME NEW d \in Drafts, wave[d] <= now PROVE LeftOut(d)' <=>
            \E p \in Parents(d) : \/ wave[p] < wave[d] /\ published[p] # "yes"
                                  \/ wave[p] = wave[d] /\ (published[p] = "skipped" \/ p \in Skipped)
    <3>1. Parents(d)' = Parents(d)
      BY <1>1, SamePlan
    <3>2. \A p \in Parents(d) : p \in Drafts /\ wave[p] \in Nat /\ wave[d] \in Nat
      BY <1>2, ParentsAreDrafts
    <3>3. \A p \in Parents(d) : wave[p] < wave[d] => p \notin Skipped
      BY <1>2, <1>14, <2>1, <3>2
    <3>4. \A p \in Parents(d) : wave[p] < wave[d] => published'[p] = published[p]
      BY <1>1, <3>2, <3>3
    <3>5. \A p \in Parents(d) :
              published'[p] = "skipped" <=> published[p] = "skipped" \/ p \in Skipped
      BY <1>1, <3>2
    <3>6. QED
      BY <1>1, <3>1, <3>4, <3>5 DEF LeftOut
  <2>2. ASSUME NEW d \in Drafts, wave[d] = now
        PROVE  /\ published'[d] = "skipped" <=> LeftOut(d)'
               /\ \/ published'[d] = "skipped"
                  \/ published'[d] = "none" /\ \E i \in DOMAIN runnable' : d \in runnable'[i]
    <3>1. \A p \in Parents(d) : wave[p] = now => published[p] # "skipped"
      BY <1>14, ParentsAreDrafts
    <3>2. LeftOut(d)' <=> d \in Skipped
      <4>1. d \in Skipped <=> \E p \in Parents(d) :
                         \/ wave[p] < now /\ published[p] # "yes"
                         \/ wave[p] = now /\ p \in Skipped
        BY <1>1, <2>2, GateIs
      <4>2. QED
        BY <1>2, <2>1, <2>2, <3>1, <4>1
    <3>3. published'[d] = IF d \in Skipped THEN "skipped" ELSE "none"
      BY <1>1, <1>14, <2>2
    <3>4. CASE d \in Skipped
      BY <3>2, <3>3, <3>4
    <3>5. CASE d \notin Skipped
      <4>1. d \in Runs(graph.family[d]) /\ graph.family[d] \in T
        BY <1>1, <1>3, <2>2, <3>5, GateIs DEF Groups
      <4>2. PICK i \in 1..n : ready[i] = graph.family[d]
        BY <1>5, <4>1
      <4>3. i \in DOMAIN runnable' /\ d \in runnable'[i]
        BY <1>7, <1>8, <4>1, <4>2
      <4>4. QED
        BY <3>2, <3>3, <3>5, <4>3
    <3>6. QED
      BY <3>4, <3>5
  <2>3. ASSUME NEW d \in Drafts, wave[d] < now
        PROVE  published'[d] # "none" /\ (published'[d] = "skipped" <=> LeftOut(d)')
    <3>1. d \notin Skipped /\ published'[d] = published[d]
      BY <1>1, <1>2, <1>14, <2>3
    <3>2. published[d] # "none" /\ (published[d] = "skipped" <=> LeftOut(d))
      BY <1>1, <2>3 DEF WavesInv, AnswersOK, Planning
    <3>3. \A p \in Parents(d) : wave[p] = wave[d] => p \notin Skipped
      BY <1>2, <1>14, <2>3, ParentsAreDrafts
    <3>4. LeftOut(d)' <=> LeftOut(d)
      BY <1>2, <2>1, <2>3, <3>3 DEF LeftOut
    <3>5. QED
      BY <3>1, <3>2, <3>4
  <2>4. ASSUME NEW d \in Drafts, wave[d] > now PROVE published'[d] = "none"
    BY <1>1, <1>2, <1>14, <2>4 DEF WavesInv, AnswersOK
  <2>5. QED
    BY <1>1, <2>2, <2>3, <2>4 DEF AnswersOK, Planning
<1>19. QED
  BY <1>9, <1>11, <1>12, <1>13, <1>15, <1>16, <1>17, <1>18 DEF WavesInv

\* What the steps of the workers leave alone.
Working ==
    /\ phase = "run" /\ UNCHANGED <<plan, phase, now, published, runnable, indexOnly>>
    /\ dest.records \subseteq dest'.records

LEMMA WorkKeeps ==
    ASSUME WavesInv, Working
    PROVE  /\ PlanOK' /\ RejectsOnlyContradictions' /\ AnswersOK' /\ KeptOK'
           /\ graph' = graph /\ available' = available /\ runnable' = runnable
           /\ \A x : (Recorded(x) => Recorded(x)') /\ (Kept(x) => Kept(x)')
<1>1. /\ graph' = graph /\ available' = available /\ wave' = wave /\ phase' = phase
      /\ now' = now /\ published' = published /\ runnable' = runnable /\ indexOnly' = indexOnly
      /\ phase = "run" /\ remaining' = remaining
  BY DEF Working, plan
<1>2. \A x : (Recorded(x) => Recorded(x)') /\ (Kept(x) => Kept(x)')
  BY <1>1, DestinationGrows DEF Working
<1>3. PlanOK'
  <2>1. Respects(wave)
    BY <1>1 DEF WavesInv, PlanOK, Planning
  <2>2. Respects(wave)'
    BY <1>1, <2>1, SamePlan DEF Respects
  <2>3. QED
    BY <1>1, <2>2 DEF PlanOK, Planning
<1>4. RejectsOnlyContradictions'
  BY <1>1 DEF RejectsOnlyContradictions
<1>5. AnswersOK'
  <2>1. \A d : LeftOut(d)' <=> LeftOut(d)
    BY <1>1, SamePlan DEF LeftOut
  <2>2. QED
    BY <1>1, <2>1 DEF WavesInv, AnswersOK, Planning
<1>6. KeptOK'
  BY <1>1, <1>2, SameGraph DEF WavesInv, KeptOK
<1>7. QED
  BY <1>1, <1>2, <1>3, <1>4, <1>5, <1>6

\* A worker's step and the state of one slot.
LEMMA WorkTypes ==
    ASSUME WavesInv, Working, NEW i \in DOMAIN slots, NEW s \in {"busy", "ok", "failed"},
           slots' = [slots EXCEPT ![i] = s], next' \in Nat \ {0}
    PROVE  /\ TypesOK' /\ DOMAIN slots = DOMAIN runnable /\ slots'[i] = s
           /\ \A j \in DOMAIN slots : j # i => slots'[j] = slots[j]
<1>1. PICK n \in Nat : /\ runnable \in [1..n -> SUBSET Drafts]
                       /\ slots \in [1..n -> {"empty", "busy", "ok", "failed"}]
  BY DEF WavesInv, TypesOK
<1>2. slots' \in [1..n -> {"empty", "busy", "ok", "failed"}]
  BY <1>1
<1>3. runnable' \in [1..n -> SUBSET Drafts]
  BY <1>1 DEF Working
<1>4. TypesOK'
  BY <1>2, <1>3 DEF WavesInv, TypesOK, Working, plan
<1>5. QED
  BY <1>1, <1>4

\* Of a transaction's drafts: which parents are at the destination or in it.
LEMMA TransactionParents ==
    ASSUME WavesInv, phase = "run", NEW i \in DOMAIN runnable, NEW d \in runnable[i],
           NEW p \in graph.deps[d] \cap Drafts, p # d
    PROVE  /\ d \in Drafts /\ Required(p)
           /\ graph.family[p] # graph.family[d] => Kept(p)
           /\ Kept(p) \/ p \in runnable[i]
<1>1. d \in Drafts
  BY DEF WavesInv, TypesOK
<1>2. Required(p)
  BY <1>1 DEF Required
<1>3. CASE p \in available
  BY <1>1, <1>2, <1>3 DEF WavesInv, DestinationOK, Kept
<1>4. CASE p \notin available
  <2>1. p \in Parents(d)
    BY <1>4 DEF Parents
  <2>2. \/ wave[p] < now /\ published[p] = "yes"
        \/ p \in runnable[i] /\ graph.family[p] = graph.family[d]
    BY <2>1 DEF WavesInv, RunOK
  <2>3. published[p] = "yes" => Kept(p)
    BY <1>2 DEF WavesInv, KeptOK
  <2>4. QED
    BY <1>1, <1>2, <2>2, <2>3
<1>5. QED
  BY <1>3, <1>4

\* A draft that others name is asked for or proven by its own record.
LEMMA RequiredWanted ==
    ASSUME ProofOK, NEW D \in SUBSET Drafts, NEW p \in D, Required(p), p \notin Wanted(D)
    PROVE  Recorded(p)
<1>1. graph.key[p] \in Keys
  BY DEF Keys
<1>2. Proven(p) /\ Pinned(p)
  BY DEF Wanted, Pinned
<1>3. dest.live[graph.key[p]] = p /\ p # NoEntry /\ dest.proof[graph.key[p]]
  BY <1>2, WavesAssumption DEF Proven, Dominates
<1>4. QED
  BY <1>1, <1>3 DEF ProofOK

\* A commit of a transaction.
LEMMA CommitKeeps ==
    ASSUME WavesInv, ProofOK, Working, NEW i \in DOMAIN runnable, NEW D, D = Wanted(runnable[i]),
           NEW M \in SUBSET D, NEW c \in BOOLEAN, c => M = D, dest' = Committed(D, M, c)
    PROVE  DestinationOK' /\ ParentsOK'
<1>1. /\ dest'.manifests = dest.manifests \cup M
      /\ dest'.records = IF c THEN dest.records \cup {D} ELSE dest.records
  BY DEF Committed
<1>2. \A R \in dest'.records : R \subseteq dest'.manifests
  BY <1>1 DEF WavesInv, DestinationOK
<1>3. /\ graph' = graph /\ available' = available /\ phase = "run" /\ phase' = "run"
      /\ \A x : (Recorded(x) => Recorded(x)') /\ (Kept(x) => Kept(x)')
  BY WorkKeeps DEF Working
<1>4. DestinationOK'
  BY <1>2, <1>3 DEF WavesInv, DestinationOK, Planning
<1>5. ASSUME NEW x \in Drafts \ graph.present, NEW p \in graph.deps[x] \cap Drafts, p # x,
             \/ x \in dest'.manifests /\ graph.family[p] # graph.family[x]
             \/ Recorded(x)'
      PROVE  Kept(p)'
  <2>1. CASE \/ x \in dest.manifests /\ graph.family[p] # graph.family[x]
             \/ Recorded(x)
    BY <1>3, <1>5, <2>1 DEF WavesInv, ParentsOK
  <2>2. CASE x \in M /\ graph.family[p] # graph.family[x]
    <3>1. x \in runnable[i]
      BY <2>2 DEF Wanted
    <3>2. Kept(p)
      BY <1>3, <1>5, <2>2, <3>1, TransactionParents
    <3>3. QED
      BY <1>3, <3>2
  <2>3. CASE c /\ x \in D
    <3>1. x \in runnable[i]
      BY <2>3 DEF Wanted
    <3>2. Required(p) /\ (Kept(p) \/ p \in runnable[i])
      BY <1>3, <1>5, <3>1, TransactionParents
    <3>3. CASE Kept(p)
      BY <1>3, <3>3
    <3>4. CASE p \in D
      BY <1>1, <2>3, <3>4 DEF Kept, Recorded
    <3>5. CASE p \in runnable[i] /\ p \notin D
      <4>1. Recorded(p)
        <5>1. runnable[i] \in SUBSET Drafts
          BY DEF WavesInv, TypesOK
        <5>2. QED
          BY <3>2, <3>5, <5>1, RequiredWanted
      <4>2. QED
        BY <1>3, <4>1 DEF Kept
    <3>6. QED
      BY <3>2, <3>3, <3>4, <3>5
  <2>4. QED
    BY <1>1, <1>5, <2>1, <2>2, <2>3 DEF Recorded
<1>6. ParentsOK'
  BY <1>3, <1>5 DEF ParentsOK
<1>7. QED
  BY <1>4, <1>6

\* A worker's step that leaves the destination alone.
LEMMA NoCommitKeeps ==
    ASSUME WavesInv, Working, dest' = dest
    PROVE  DestinationOK' /\ ParentsOK'
<1>1. \A x : (Recorded(x)' <=> Recorded(x)) /\ (Kept(x)' <=> Kept(x))
  BY DEF Recorded, Kept, Working
<1>2. graph' = graph /\ available' = available /\ phase = "run" /\ phase' = "run"
  BY DEF Working, plan
<1>3. QED
  BY <1>1, <1>2 DEF WavesInv, DestinationOK, ParentsOK, Planning

\* The slots after a worker's step.
LEMMA WorkRuns ==
    ASSUME WavesInv, Working, NEW i \in DOMAIN slots, NEW s \in {"busy", "ok", "failed"},
           slots' = [slots EXCEPT ![i] = s], next' \in Nat \ {0},
           next' = next \/ (next' = next + 1 /\ i = next),
           s = "ok" => \A d \in runnable[i] : Required(d) => Recorded(d)'
    PROVE  RunOK'
<1>1. /\ DOMAIN slots = DOMAIN runnable /\ slots'[i] = s
      /\ \A j \in DOMAIN slots : j # i => slots'[j] = slots[j]
  BY WorkTypes
<1>2. /\ graph' = graph /\ runnable' = runnable /\ phase' = "run" /\ wave' = wave
      /\ now' = now /\ published' = published /\ available' = available
  BY DEF Working, plan
<1>3. \A x : Recorded(x) => Recorded(x)'
  BY WorkKeeps
<1>4. ASSUME NEW j \in DOMAIN runnable PROVE j < next' => slots'[j] # "empty"
  <2>1. CASE j = i
    BY <1>1, <2>1
  <2>2. CASE j # i
    <3>1. j < next => slots[j] # "empty"
      BY DEF WavesInv, RunOK
    <3>2. j < next' => j < next
      <4>1. j \in Nat /\ next \in Nat
        BY DEF WavesInv, TypesOK
      <4>2. QED
        BY <2>2, <4>1
    <3>3. QED
      BY <1>1, <2>2, <3>1, <3>2
  <2>3. QED
    BY <2>1, <2>2
<1>5. ASSUME NEW j \in DOMAIN runnable, NEW d \in runnable[j]
      PROVE  /\ wave[d] = now /\ published[d] = "none"
             /\ \A p \in Parents(d) :
                   \/ wave[p] < now /\ published[p] = "yes"
                   \/ p \in runnable[j] /\ graph.family[p] = graph.family[d]
             /\ slots'[j] = "ok" /\ Required(d) => Recorded(d)'
  <2>1. /\ wave[d] = now /\ published[d] = "none"
        /\ \A p \in Parents(d) :
              \/ wave[p] < now /\ published[p] = "yes"
              \/ p \in runnable[j] /\ graph.family[p] = graph.family[d]
        /\ slots[j] = "ok" /\ Required(d) => Recorded(d)
    BY DEF WavesInv, RunOK
  <2>2. slots'[j] = "ok" /\ Required(d) => Recorded(d)'
    BY <1>1, <1>3, <2>1
  <2>3. QED
    BY <2>1, <2>2
<1>6. QED
  BY <1>2, <1>4, <1>5, SamePlan, SameGraph DEF RunOK

LEMMA TakeInv == WavesInv /\ Take => WavesInv'
<1> SUFFICES ASSUME WavesInv, Take PROVE WavesInv'
  OBVIOUS
<1>1. Working /\ dest' = dest
  BY DEF Take, Working
<1>2. PICK n \in Nat : /\ runnable \in [1..n -> SUBSET Drafts]
                       /\ slots \in [1..n -> {"empty", "busy", "ok", "failed"}]
  BY DEF WavesInv, TypesOK
<1>3. next \in Nat /\ next <= n
  <2>1. Len(runnable) = n
    BY <1>2
  <2>2. QED
    BY <2>1 DEF Take, WavesInv, TypesOK
<1>4. /\ slots' = [slots EXCEPT ![next] = "busy"] /\ next' = next + 1
      /\ next' \in Nat \ {0} /\ next \in DOMAIN slots
  BY <1>2, <1>3 DEF Take, WavesInv, TypesOK
<1>5. TypesOK'
  BY <1>1, <1>4, WorkTypes
<1>6. RunOK'
  BY <1>1, <1>4, WorkRuns
<1>7. DestinationOK' /\ ParentsOK'
  BY <1>1, NoCommitKeeps
<1>8. QED
  BY <1>1, <1>5, <1>6, <1>7, WorkKeeps DEF WavesInv

LEMMA SucceedInv ==
    ASSUME WavesInv, ProofOK, NEW i \in DOMAIN slots, Succeed(i) PROVE WavesInv'
<1>1. PICK D : D = Wanted(runnable[i])
  OBVIOUS
<1>2. phase = "run" /\ next' = next /\ next' \in Nat \ {0}
  BY DEF WavesInv, RunOK, TypesOK, Succeed
<1>3. DOMAIN slots = DOMAIN runnable
  BY DEF WavesInv, TypesOK
<1>4. slots' = [slots EXCEPT ![i] = "ok"]
  BY DEF Succeed
<1>5. UNCHANGED <<plan, phase, now, published, runnable, indexOnly>>
  BY DEF Succeed
<1>6. \/ dest' = dest /\ D = {}
      \/ dest' = Committed(D, D, TRUE)
  BY <1>1 DEF Succeed
<1>7. Working
  <2>1. dest' = Committed(D, D, TRUE) => dest'.records = dest.records \cup {D}
    BY DEF Committed
  <2>2. dest.records \subseteq dest'.records
    BY <1>6, <2>1
  <2>3. QED
    BY <1>2, <1>5, <2>2 DEF Working
<1>8. DestinationOK' /\ ParentsOK'
  <2>1. CASE dest' = dest
    BY <1>7, <2>1, NoCommitKeeps
  <2>2. CASE dest' = Committed(D, D, TRUE)
    <3>1. PICK c \in BOOLEAN, M \in SUBSET D : c = TRUE /\ M = D /\ dest' = Committed(D, M, c)
      BY <2>2
    <3>2. QED
      BY <1>1, <1>3, <1>7, <3>1, CommitKeeps
  <2>3. QED
    BY <1>6, <2>1, <2>2
<1>9. ASSUME NEW d \in runnable[i], Required(d) PROVE Recorded(d)'
  <2>1. CASE d \in D
    <3>1. dest' = Committed(D, D, TRUE)
      BY <1>6, <2>1
    <3>2. dest'.records = dest.records \cup {D}
      BY <3>1 DEF Committed
    <3>3. QED
      BY <2>1, <3>2 DEF Recorded
  <2>2. CASE d \notin D
    <3>1. Recorded(d)
      <4>1. runnable[i] \in SUBSET Drafts
        BY <1>3 DEF WavesInv, TypesOK
      <4>2. QED
        BY <1>1, <1>9, <2>2, <4>1, RequiredWanted
    <3>2. QED
      BY <1>7, <3>1, WorkKeeps
  <2>3. QED
    BY <2>1, <2>2
<1>10. RunOK'
  BY <1>2, <1>4, <1>7, <1>9, WorkRuns
<1>11. TypesOK'
  BY <1>2, <1>4, <1>7, WorkTypes
<1>12. QED
  BY <1>7, <1>8, <1>10, <1>11, WorkKeeps DEF WavesInv

LEMMA FailInv ==
    ASSUME WavesInv, ProofOK, NEW i \in DOMAIN slots, Fail(i) PROVE WavesInv'
<1>1. PICK D : D = Wanted(runnable[i])
  OBVIOUS
<1>2. phase = "run" /\ next' = next /\ next' \in Nat \ {0}
  BY DEF WavesInv, RunOK, TypesOK, Fail
<1>3. DOMAIN slots = DOMAIN runnable
  BY DEF WavesInv, TypesOK
<1>4. slots' = [slots EXCEPT ![i] = "failed"]
  BY DEF Fail
<1>5. UNCHANGED <<plan, phase, now, published, runnable, indexOnly>>
  BY DEF Fail
<1>6. \/ dest' = dest
      \/ \E M \in SUBSET D, c \in BOOLEAN : (c => M = D) /\ dest' = Committed(D, M, c)
  <2>1. CASE \E M \in SUBSET D : dest' = Committed(D, M, FALSE)
    BY <2>1
  <2>2. CASE dest' = Committed(D, D, TRUE)
    BY <2>2
  <2>3. QED
    BY <1>1, <2>1, <2>2 DEF Fail
<1>7. Working
  <2>1. dest.records \subseteq dest'.records
    BY <1>6 DEF Committed
  <2>2. QED
    BY <1>2, <1>5, <2>1 DEF Working
<1>8. DestinationOK' /\ ParentsOK'
  <2>1. CASE dest' = dest
    BY <1>7, <2>1, NoCommitKeeps
  <2>2. ASSUME NEW M \in SUBSET D, NEW c \in BOOLEAN, c => M = D, dest' = Committed(D, M, c)
        PROVE  DestinationOK' /\ ParentsOK'
    BY <1>1, <1>3, <1>7, <2>2, CommitKeeps
  <2>3. QED
    BY <1>6, <2>1, <2>2
<1>9. RunOK'
  BY <1>2, <1>4, <1>7, WorkRuns
<1>10. TypesOK'
  BY <1>2, <1>4, <1>7, WorkTypes
<1>11. QED
  BY <1>7, <1>8, <1>9, <1>10, WorkKeeps DEF WavesInv

\* The drafts of the transactions in the state s.
Ran(s) == UNION {runnable[i] : i \in {j \in DOMAIN slots : slots[j] = s}}

\* The answers at the end of a wave: ok succeeded, bad failed, found of bad were found.
Ended(ok, bad, found) ==
    /\ published' = [d \in Drafts |-> IF d \in ok \cup found THEN "yes"
                                      ELSE IF d \in bad THEN "failed" ELSE published[d]]
    /\ indexOnly' = indexOnly \cup {d \in found : \A R \in dest.records : d \notin R}

LEMMA EndWaveInv == WavesInv /\ EndWave => WavesInv'
<1> SUFFICES ASSUME WavesInv, EndWave PROVE WavesInv'
  OBVIOUS
<1>1. /\ graph' = graph /\ remaining' = remaining /\ available' = available /\ wave' = wave
      /\ dest' = dest /\ now' = now + 1 /\ phase = "run" /\ phase' \in {"gate", "done"}
      /\ phase' = "done" => ~(now + 1 < WaveCount)
      /\ runnable' = <<>> /\ slots' = <<>> /\ next' = 1
  BY DEF EndWave, plan
<1>2. /\ graph \in Graphs /\ wave \in [Drafts -> Nat] /\ now \in Nat
      /\ published \in [Drafts -> Answers] /\ Respects(wave)
  BY <1>1 DEF WavesInv, TypesOK, PlanOK, Planning
<1>3. PICK found :
          /\ \A d \in found : d \in Ran("failed") /\ Exists(d)
          /\ published' = [d \in Drafts |->
                IF d \in Ran("ok") \cup found THEN "yes"
                ELSE IF d \in Ran("failed") THEN "failed" ELSE published[d]]
          /\ indexOnly' = indexOnly \cup {d \in found : \A R \in dest.records : d \notin R}
  <2>0. PICK ok, bad, failed :
            ok = Ran("ok") /\ bad = Ran("failed") /\ failed = bad \cap Prerequisites
    OBVIOUS
  <2>1. PICK unread :
            Ended(ok, bad, Recheck({d \in failed : graph.family[d] \notin unread}))
    <3> DEFINE ran(state) ==
                  UNION {runnable[i] : i \in {j \in DOMAIN slots : slots[j] = state}}
               lost == ran("failed") \cap Prerequisites
    <3>1. \E unread \in SUBSET {graph.family[d] : d \in lost} :
              Ended(ran("ok"), ran("failed"),
                    Recheck({d \in lost : graph.family[d] \notin unread}))
      BY Zenon DEF EndWave, Ended
    <3>2. ok = ran("ok") /\ bad = ran("failed") /\ failed = lost
      BY <2>0 DEF Ran
    <3> HIDE DEF ran, lost
    <3>3. QED
      BY <3>1, <3>2
  <2>2. PICK found : found = Recheck({d \in failed : graph.family[d] \notin unread})
    OBVIOUS
  <2>3. \A d \in found : d \in Ran("failed") /\ Exists(d)
    BY <2>0, <2>2 DEF Recheck
  <2>4. QED
    BY <2>0, <2>1, <2>2, <2>3 DEF Ended
<1>4. ASSUME NEW i \in DOMAIN runnable PROVE i \in DOMAIN slots /\ slots[i] \in {"ok", "failed"}
  <2>1. PICK n \in Nat : /\ runnable \in [1..n -> SUBSET Drafts]
                         /\ slots \in [1..n -> {"empty", "busy", "ok", "failed"}]
    BY DEF WavesInv, TypesOK
  <2>2. Len(runnable) = n /\ i \in 1..n /\ next \in Nat
    BY <2>1 DEF WavesInv, TypesOK
  <2>3. i < next
    BY <2>1, <2>2 DEF EndWave
  <2>4. slots[i] # "empty"
    BY <2>3 DEF WavesInv, RunOK
  <2>5. slots[i] # "busy"
    BY <2>1, <2>2 DEF EndWave, Busy
  <2>6. QED
    BY <2>1, <2>2, <2>4, <2>5
<1>5. \A i \in DOMAIN runnable : \A d \in runnable[i] : d \in Ran("ok") \cup Ran("failed")
  BY <1>4 DEF Ran
<1>6. \A s : \A d \in Ran(s) : \E i \in DOMAIN runnable : slots[i] = s /\ d \in runnable[i]
  BY DEF Ran, WavesInv, TypesOK
<1>7. \A s : \A d \in Ran(s) : d \in Drafts /\ wave[d] = now /\ published[d] = "none"
  <2>1. \A i \in DOMAIN runnable : \A d \in runnable[i] :
            d \in Drafts /\ wave[d] = now /\ published[d] = "none"
    BY DEF WavesInv, TypesOK, RunOK
  <2>2. QED
    BY <1>6, <2>1
<1>8. \A d \in Drafts : \/ d \in Ran("ok") \cup found /\ published'[d] = "yes"
                        \/ d \in Ran("failed") /\ published'[d] = "failed"
                        \/ /\ d \notin Ran("ok") \cup Ran("failed")
                           /\ published'[d] = published[d]
  BY <1>3
<1>9. \A d \in Drafts : /\ wave[d] # now => published'[d] = published[d]
                        /\ published'[d] = "skipped" <=> published[d] = "skipped"
  BY <1>3, <1>7, <1>8
<1>10. TypesOK'
  <2>1. published' \in [Drafts -> Answers]
    BY <1>2, <1>3 DEF Answers
  <2>2. runnable' \in [1..0 -> SUBSET Drafts]
        /\ slots' \in [1..0 -> {"empty", "busy", "ok", "failed"}]
    BY <1>1
  <2>3. \E n \in Nat : /\ runnable' \in [1..n -> SUBSET Drafts]
                       /\ slots' \in [1..n -> {"empty", "busy", "ok", "failed"}]
    BY <2>2
  <2>4. next' \in Nat \ {0} /\ now' \in Nat
    BY <1>1, <1>2
  <2>5. QED
    BY <1>1, <2>1, <2>3, <2>4 DEF WavesInv, TypesOK
<1>11. /\ \A x : Recorded(x)' <=> Recorded(x)
       /\ \A x : Kept(x) => Kept(x)'
  BY <1>1, <1>3 DEF Recorded, Kept
<1>12. DestinationOK'
  BY <1>1, <1>11 DEF WavesInv, DestinationOK, Planning
<1>13. PlanOK'
  <2>1. Respects(wave)'
    BY <1>1, <1>2, SamePlan DEF Respects
  <2>2. QED
    BY <1>1, <2>1 DEF PlanOK, Planning
<1>14. RejectsOnlyContradictions'
  BY <1>1 DEF RejectsOnlyContradictions
<1>15. RunOK'
  BY <1>1 DEF RunOK
<1>16. ParentsOK'
  BY <1>1, <1>11 DEF WavesInv, ParentsOK
<1>17. KeptOK'
  <2> SUFFICES ASSUME NEW p \in Drafts, published'[p] = "yes", Required(p) PROVE Kept(p)'
    BY <1>1, SameGraph DEF KeptOK
  <2>1. CASE p \in Ran("ok")
    <3>1. PICK i \in DOMAIN runnable : slots[i] = "ok" /\ p \in runnable[i]
      BY <1>6, <2>1
    <3>2. Recorded(p)
      BY <3>1 DEF WavesInv, RunOK
    <3>3. QED
      BY <1>11, <3>2 DEF Kept
  <2>2. CASE p \in found
    <3>1. p \notin indexOnly' => Recorded(p)
      BY <1>3, <2>2 DEF Recorded
    <3>2. QED
      BY <1>11, <3>1 DEF Kept
  <2>3. CASE published[p] = "yes"
    BY <1>11, <2>3 DEF WavesInv, KeptOK
  <2>4. QED
    BY <1>8, <2>1, <2>2, <2>3
<1>18. AnswersOK'
  <2>1. ASSUME NEW d \in Drafts, wave[d] <= now PROVE LeftOut(d)' <=> LeftOut(d)
    <3>1. Parents(d)' = Parents(d)
      BY <1>1, SamePlan
    <3>2. \A p \in Parents(d) : p \in Drafts /\ wave[p] \in Nat /\ wave[d] \in Nat
      BY <1>2, ParentsAreDrafts
    <3>3. \A p \in Parents(d) : wave[p] < wave[d] => published'[p] = published[p]
      BY <1>2, <1>9, <2>1, <3>2
    <3>4. \A p \in Parents(d) : published'[p] = "skipped" <=> published[p] = "skipped"
      BY <1>9, <3>2
    <3>5. QED
      BY <1>1, <3>1, <3>3, <3>4 DEF LeftOut
  <2>2. ASSUME NEW d \in Drafts, wave[d] < now'
        PROVE  published'[d] # "none" /\ (published'[d] = "skipped" <=> LeftOut(d)')
    <3>1. wave[d] <= now /\ wave[d] \in Nat
      BY <1>1, <1>2, <2>2
    <3>2. CASE wave[d] < now
      <4>1. published[d] # "none" /\ (published[d] = "skipped" <=> LeftOut(d))
        BY <1>1, <3>2 DEF WavesInv, AnswersOK, Planning
      <4>2. published'[d] = published[d]
        BY <1>2, <1>9, <3>2
      <4>3. QED
        BY <2>1, <3>1, <4>1, <4>2
    <3>3. CASE wave[d] = now
      <4>1. /\ published[d] = "skipped" <=> LeftOut(d)
            /\ \/ published[d] = "skipped"
               \/ \E i \in DOMAIN runnable : d \in runnable[i]
        BY <1>1, <3>3 DEF WavesInv, AnswersOK, Planning
      <4>2. published'[d] # "none"
        BY <1>5, <1>8, <1>9, <4>1
      <4>3. QED
        BY <1>9, <2>1, <3>1, <4>1, <4>2
    <3>4. QED
      BY <1>2, <3>1, <3>2, <3>3
  <2>3. ASSUME NEW d \in Drafts, wave[d] >= now' PROVE published'[d] = "none"
    <3>1. wave[d] > now /\ wave[d] # now
      BY <1>1, <1>2, <2>3
    <3>2. published[d] = "none"
      BY <3>1 DEF WavesInv, AnswersOK
    <3>3. QED
      BY <1>9, <3>1, <3>2
  <2>4. ASSUME NEW d \in Drafts, phase' = "done" PROVE wave[d] < now'
    <3>1. PICK f, T : f = [x \in Drafts |-> wave[x] + 1] /\ T = {f[x] : x \in Drafts}
      OBVIOUS
    <3>2. T = {wave[x] + 1 : x \in Drafts} /\ T \in SUBSET Nat /\ wave[d] + 1 \in T
      BY <1>2, <3>1
    <3>3. IsFiniteSet(T)
      <4>1. IsFiniteSet(Drafts) /\ T = {f[x] : x \in Drafts}
        BY <3>1, WavesAssumption
      <4>2. QED
        BY <4>1, ImageFinite
    <3>4. wave[d] + 1 <= WaveCount /\ WaveCount \in Nat
      <4>1. wave[d] + 1 <= Max(T) /\ Max(T) \in Nat
        BY <3>2, <3>3, MaxOf
      <4>2. QED
        BY <3>2, <4>1 DEF WaveCount
    <3>5. wave[d] \in Nat
      BY <1>2
    <3>6. QED
      BY <1>1, <1>2, <2>4, <3>4, <3>5
  <2>5. \A d \in Drafts : wave[d] \in Nat /\ now' \in Nat
    BY <1>1, <1>2
  <2>6. QED
    BY <1>1, <2>2, <2>3, <2>4, <2>5 DEF AnswersOK, Planning
<1>19. QED
  BY <1>10, <1>12, <1>13, <1>14, <1>15, <1>16, <1>17, <1>18 DEF WavesInv

\* Every step preserves the invariant.
LEMMA StepInv == WavesInv /\ ProofOK /\ [Next]_vars => WavesInv'
<1> SUFFICES ASSUME WavesInv, ProofOK, [Next]_vars PROVE WavesInv'
  OBVIOUS
<1>1. CASE UNCHANGED vars
  <2>1. graph' = graph /\ available' = available /\ UNCHANGED run /\ remaining' = remaining
        /\ wave' = wave /\ phase' = phase
    BY <1>1 DEF vars, run
  <2>2. KeptOK' /\ ParentsOK' /\ \A x : Recorded(x)' <=> Recorded(x)
    BY <2>1, SameRunState
  <2>3. TypesOK' /\ DestinationOK'
    BY <2>1, <2>2 DEF WavesInv, TypesOK, DestinationOK, Planning, run
  <2>4. (Respects(wave) => Respects(wave)') /\ \A d : Parents(d)' = Parents(d)
    BY <2>1, SamePlan DEF Respects
  <2>5. PlanOK'
    BY <2>1, <2>4, SamePlan DEF WavesInv, PlanOK, Planning
  <2>6. RejectsOnlyContradictions'
    <3>1. \A d : Predecessors(d)' = Predecessors(d)
      BY <2>1, SameGraph
    <3>2. \A x : Exists(x)' <=> Exists(x)
      BY <2>1 DEF Exists, run
    <3>3. QED
      BY <2>1, <2>4, <3>1, <3>2 DEF WavesInv, RejectsOnlyContradictions
  <2>7. AnswersOK'
    <3>1. \A d : LeftOut(d)' <=> LeftOut(d)
      BY <2>1, <2>4 DEF LeftOut, run
    <3>2. QED
      BY <2>1, <3>1 DEF WavesInv, AnswersOK, Planning, run
  <2>8. RunOK'
    BY <2>1, <2>2, <2>4, SameGraph DEF WavesInv, RunOK, run
  <2>9. QED
    BY <2>2, <2>3, <2>5, <2>6, <2>7, <2>8 DEF WavesInv
<1>2. CASE Next
  BY <1>2, RemapInv, OrderInv, GateInv, TakeInv, EndWaveInv, SucceedInv, FailInv DEF Next
<1>3. QED
  BY <1>1, <1>2

-----------------------------------------------------------------------------
\* The live entry of a key

\* What a key may have.
Entries == Drafts \cup {NoEntry}

\* The order of two ranks of five numbers.
LEMMA FiveNumbers ==
    ASSUME NEW x, NEW y
    PROVE  (\E i \in 1..5 : x[i] < y[i] /\ \A j \in 1..(i - 1) : x[j] = y[j])
           <=> \/ x[1] < y[1]
               \/ x[1] = y[1] /\ x[2] < y[2]
               \/ x[1] = y[1] /\ x[2] = y[2] /\ x[3] < y[3]
               \/ x[1] = y[1] /\ x[2] = y[2] /\ x[3] = y[3] /\ x[4] < y[4]
               \/ x[1] = y[1] /\ x[2] = y[2] /\ x[3] = y[3] /\ x[4] = y[4] /\ x[5] < y[5]
<1>1. \A i \in 1..5 : i = 1 \/ i = 2 \/ i = 3 \/ i = 4 \/ i = 5
  OBVIOUS
<1>2. /\ 1..(1 - 1) = {} /\ 1..(2 - 1) = {1} /\ 1..(3 - 1) = {1, 2}
      /\ 1..(4 - 1) = {1, 2, 3} /\ 1..(5 - 1) = {1, 2, 3, 4}
  OBVIOUS
<1>3. {1, 2, 3, 4, 5} \subseteq 1..5
  OBVIOUS
<1>4. QED
  BY <1>1, <1>2, <1>3

\* The batch order is a strict order on the drafts.
LEMMA BeforeOrder ==
    ASSUME graph \in Graphs
    PROVE  /\ \A d \in Drafts : ~Before(d, d)
           /\ \A c, d \in Drafts : c # d => Before(c, d) \/ Before(d, c)
           /\ \A b, c, d \in Drafts : Before(b, c) /\ Before(c, d) => Before(b, d)
<1>1. PICK f1, f2, f3, f4 :
          /\ f1 = [d \in Drafts |-> IF graph.closure[d] THEN 0 ELSE 1]
          /\ f2 = graph.version /\ f3 = [d \in Drafts |-> Cardinality(graph.deps[d])]
          /\ f4 = graph.content
  OBVIOUS
<1>2. \A d \in Drafts : f1[d] \in Nat /\ f2[d] \in Nat /\ f3[d] \in Nat /\ f4[d] \in Nat /\ d \in Nat
  <2> SUFFICES ASSUME NEW d \in Drafts
               PROVE  f1[d] \in Nat /\ f2[d] \in Nat /\ f3[d] \in Nat /\ f4[d] \in Nat /\ d \in Nat
    OBVIOUS
  <2>1. IsFiniteSet(Drafts) /\ IsFiniteSet(External) /\ d \in Nat
    BY WavesAssumption
  <2>2. IsFiniteSet(Drafts \cup External)
    BY <2>1, FS_Union
  <2>3. graph.deps[d] \in SUBSET (Drafts \cup External)
    BY GraphTyped
  <2>4. Cardinality(graph.deps[d]) \in Nat
    BY <2>2, <2>3, FS_Subset, FS_CardinalityType
  <2>5. QED
    BY <1>1, <2>1, <2>4, GraphTyped
<1>3. ASSUME NEW c \in Drafts, NEW d \in Drafts
      PROVE  Before(c, d) <=>
               \/ f1[c] < f1[d]
               \/ f1[c] = f1[d] /\ f2[c] < f2[d]
               \/ f1[c] = f1[d] /\ f2[c] = f2[d] /\ f3[c] < f3[d]
               \/ f1[c] = f1[d] /\ f2[c] = f2[d] /\ f3[c] = f3[d] /\ f4[c] < f4[d]
               \/ f1[c] = f1[d] /\ f2[c] = f2[d] /\ f3[c] = f3[d] /\ f4[c] = f4[d] /\ c < d
  <2>1. PICK x, y : x = <<f1[c], f2[c], f3[c], f4[c], c>> /\ y = <<f1[d], f2[d], f3[d], f4[d], d>>
    OBVIOUS
  <2>2. Before(c, d) <=> \E i \in 1..5 : x[i] < y[i] /\ \A j \in 1..(i - 1) : x[j] = y[j]
    BY <1>1, <2>1 DEF Before
  <2>3. /\ x[1] = f1[c] /\ x[2] = f2[c] /\ x[3] = f3[c] /\ x[4] = f4[c] /\ x[5] = c
        /\ y[1] = f1[d] /\ y[2] = f2[d] /\ y[3] = f3[d] /\ y[4] = f4[d] /\ y[5] = d
    BY <2>1
  <2>4. QED
    BY <2>2, <2>3, FiveNumbers
<1>4. \A d \in Drafts : ~Before(d, d)
  BY <1>2, <1>3
<1>5. \A c, d \in Drafts : c # d => Before(c, d) \/ Before(d, c)
  BY <1>2, <1>3
<1>6. \A b, c, d \in Drafts : Before(b, c) /\ Before(c, d) => Before(b, d)
  BY <1>2, <1>3
<1>7. QED
  BY <1>4, <1>5, <1>6

\* r has the newest producer of Q and is the first of those.
Newest(r, Q) ==
    /\ r \in Q
    /\ \A q \in Q : \/ q = r \/ graph.version[q] < graph.version[r]
                    \/ graph.version[q] = graph.version[r] /\ Before(r, q)

\* Pinned drafts Q, after the entry e, leave r.
Outcome(e, Q, r) ==
    \/ r = e /\ \A q \in Q : MayProve(e, q)
    \/ Newest(r, Q) /\ ~MayProve(e, r)

\* The last draft of D that always takes the entry.
LastFree(x, D) == x \in D /\ ~Pinned(x) /\ \A y \in D : Pinned(y) \/ y = x \/ Before(y, x)

Later(x, D) == {q \in D : Before(x, q)}

\* The drafts D, after the entry e, leave r.
Chosen(e, D, r) ==
    \/ (\A y \in D : Pinned(y)) /\ Outcome(e, D, r)
    \/ \E x \in D : LastFree(x, D) /\ Outcome(x, Later(x, D), r)

\* B can follow A: it comes later in the batch order, or cannot take the entry.
Follows(A, B) ==
    \A a \in A, b \in B :
        Before(a, b) \/ (graph.closure[b] /\ graph.version[a] > graph.version[b])

\* A draft and an entry have a version each.
LEMMA VersionsAre ==
    ASSUME graph \in Graphs
    PROVE  \A d \in Drafts : graph.version[d] \in Nat /\ d # NoEntry
  BY GraphTyped, WavesAssumption

\* The outcome of two sets of pinned drafts, one after the other.
LEMMA OutcomeJoin ==
    ASSUME graph \in Graphs, NEW A \in SUBSET Drafts, NEW B \in SUBSET Drafts,
           NEW e \in Entries, NEW r, NEW s, Outcome(e, A, r), Outcome(r, B, s),
           Follows(A, B)
    PROVE  Outcome(e, A \cup B, s) /\ s \in Entries
<1>1. PICK v \in [Drafts -> Nat] : v = graph.version
  BY GraphTyped
<1>2. \A d \in Drafts : v[d] \in Nat /\ d # NoEntry
  BY <1>1, VersionsAre
<1>3. \A x \in Entries, d \in Drafts : MayProve(x, d) <=> x # NoEntry /\ v[x] >= v[d]
  BY <1>1 DEF MayProve
<1>4. \A x \in Entries : x # NoEntry => x \in Drafts
  BY DEF Entries
<1>5. \A a \in A, b \in B : Before(a, b) \/ v[a] > v[b]
  BY <1>1 DEF Follows
<1>6. r \in Entries /\ s \in Entries
  BY DEF Outcome, Newest, Entries
<1>7. CASE r = e /\ \A q \in A : MayProve(e, q)
  <2>1. CASE s = r /\ \A q \in B : MayProve(r, q)
    BY <1>6, <1>7, <2>1 DEF Outcome
  <2>2. CASE Newest(s, B) /\ ~MayProve(r, s)
    <3>1. s \in Drafts /\ s \in B /\ (r = NoEntry \/ v[r] < v[s])
      BY <1>2, <1>3, <1>4, <1>6, <2>2 DEF Newest
    <3>2. \A a \in A : v[a] < v[s]
      BY <1>2, <1>3, <1>4, <1>6, <1>7, <3>1
    <3>3. Newest(s, A \cup B)
      BY <1>1, <2>2, <3>1, <3>2 DEF Newest
    <3>4. QED
      BY <1>6, <1>7, <2>2, <3>3 DEF Outcome
  <2>3. QED
    BY <2>1, <2>2 DEF Outcome
<1>8. CASE Newest(r, A) /\ ~MayProve(e, r)
  <2>1. r \in A /\ r \in Drafts /\ \A a \in A : v[a] <= v[r]
    BY <1>1, <1>2, <1>8 DEF Newest
  <2>2. CASE s = r /\ \A q \in B : MayProve(r, q)
    <3>1. \A b \in B : v[b] < v[r] \/ (v[b] = v[r] /\ Before(r, b))
      BY <1>2, <1>3, <1>5, <1>6, <2>1, <2>2
    <3>2. Newest(r, A \cup B)
      BY <1>1, <1>8, <3>1 DEF Newest
    <3>3. QED
      BY <1>6, <1>8, <2>2, <3>2 DEF Outcome
  <2>3. CASE Newest(s, B) /\ ~MayProve(r, s)
    <3>1. s \in Drafts /\ s \in B /\ v[r] < v[s]
      BY <1>2, <1>3, <1>4, <1>6, <2>1, <2>3 DEF Newest
    <3>2. \A a \in A : v[a] < v[s]
      BY <1>2, <2>1, <3>1
    <3>3. Newest(s, A \cup B)
      BY <1>1, <2>3, <3>1, <3>2 DEF Newest
    <3>4. e = NoEntry \/ v[e] < v[r]
      BY <1>2, <1>3, <1>4, <1>8, <2>1
    <3>5. ~MayProve(e, s)
      BY <1>2, <1>3, <1>4, <2>1, <3>1, <3>4
    <3>6. QED
      BY <1>6, <3>3, <3>5 DEF Outcome
  <2>4. QED
    BY <2>2, <2>3 DEF Outcome
<1>9. QED
  BY <1>7, <1>8 DEF Outcome

\* Drafts leave an entry.
LEMMA ChosenEntry ==
    ASSUME NEW e \in Entries, NEW D \in SUBSET Drafts, NEW r, Chosen(e, D, r)
    PROVE  r \in Entries
<1>1. \A x \in Entries, Q \in SUBSET Drafts : \A y : Outcome(x, Q, y) => y \in Entries
  BY DEF Outcome, Newest, Entries
<1>2. CASE Outcome(e, D, r)
  BY <1>1, <1>2
<1>3. ASSUME NEW z \in D, Outcome(z, Later(z, D), r) PROVE r \in Entries
  <2>1. z \in Entries /\ Later(z, D) \in SUBSET Drafts
    BY DEF Entries, Later
  <2>2. QED
    BY <1>1, <1>3, <2>1
<1>4. QED
  BY <1>2, <1>3 DEF Chosen

\* The entry that two sets of drafts leave, one after the other, is that of both together.
LEMMA ChosenJoin ==
    ASSUME graph \in Graphs, NEW A \in SUBSET Drafts, NEW B \in SUBSET Drafts,
           NEW e \in Entries, NEW r, NEW s, Chosen(e, A, r), Chosen(r, B, s), Follows(A, B)
    PROVE  Chosen(e, A \cup B, s) /\ r \in Entries /\ s \in Entries
<1>1. PICK v \in [Drafts -> Nat] : v = graph.version
  BY GraphTyped
<1>2. \A d \in Drafts : v[d] \in Nat /\ d # NoEntry
  BY <1>1, VersionsAre
<1>3. r \in Entries /\ s \in Entries
  BY ChosenEntry
<1>4. ASSUME NEW x \in B, LastFree(x, B), Outcome(x, Later(x, B), s)
      PROVE  Chosen(e, A \cup B, s)
  <2>1. ~graph.closure[x] /\ \A a \in A : Before(a, x)
    BY <1>4 DEF LastFree, Pinned, Follows
  <2>2. LastFree(x, A \cup B)
    BY <1>4, <2>1 DEF LastFree
  <2>3. Later(x, A \cup B) = Later(x, B)
    BY <2>1, BeforeOrder DEF Later
  <2>4. QED
    BY <1>4, <2>2, <2>3 DEF Chosen
<1>5. ASSUME \A y \in B : Pinned(y), Outcome(r, B, s) PROVE Chosen(e, A \cup B, s)
  <2>1. CASE (\A y \in A : Pinned(y)) /\ Outcome(e, A, r)
    <3>1. Outcome(e, A \cup B, s)
      BY <1>5, <2>1, OutcomeJoin
    <3>2. QED
      BY <1>5, <2>1, <3>1 DEF Chosen
  <2>2. ASSUME NEW x \in A, LastFree(x, A), Outcome(x, Later(x, A), r)
        PROVE  Chosen(e, A \cup B, s)
    <3>1. PICK C, D : C = Later(x, A) /\ D = Later(x, B)
      OBVIOUS
    <3>2. /\ C \in SUBSET Drafts /\ D \in SUBSET Drafts /\ x \in Drafts /\ x \in Entries
          /\ Outcome(x, C, r) /\ Later(x, A \cup B) = C \cup D
      BY <2>2, <3>1 DEF Later, Entries
    <3>3. \A b \in B : b \in D \/ v[b] < v[x]
      BY <1>1, <1>2, <3>1, <3>2 DEF Later, Follows
    <3>4. r \in Drafts /\ v[x] <= v[r]
      <4>1. CASE r = x
        BY <1>2, <3>2, <4>1
      <4>2. CASE Newest(r, C) /\ ~MayProve(x, r)
        <5>1. r \in Drafts /\ ~(v[x] >= v[r])
          BY <1>1, <1>2, <3>2, <4>2 DEF Newest, MayProve
        <5>2. QED
          BY <1>2, <3>2, <5>1
      <4>3. QED
        BY <3>2, <4>1, <4>2 DEF Outcome
    <3>5. Outcome(r, D, s)
      <4>1. CASE s = r /\ \A q \in B : MayProve(r, q)
        BY <3>1, <4>1 DEF Outcome, Later
      <4>2. CASE Newest(s, B) /\ ~MayProve(r, s)
        <5>1. s \in B /\ s \in Drafts /\ ~(v[r] >= v[s])
          BY <1>1, <1>2, <3>4, <4>2 DEF Newest, MayProve
        <5>2. ~(v[s] < v[x])
          BY <1>2, <3>2, <3>4, <5>1
        <5>3. s \in D
          BY <3>3, <5>1, <5>2
        <5>4. Newest(s, D)
          BY <3>1, <4>2, <5>3 DEF Newest, Later
        <5>5. QED
          BY <4>2, <5>4 DEF Outcome
      <4>3. QED
        BY <1>5, <4>1, <4>2 DEF Outcome
    <3>6. Follows(C, D)
      BY <3>1 DEF Follows, Later
    <3>7. Outcome(x, C \cup D, s)
      BY <3>2, <3>5, <3>6, OutcomeJoin
    <3>8. LastFree(x, A \cup B)
      BY <1>5, <2>2 DEF LastFree
    <3>9. QED
      BY <3>2, <3>7, <3>8 DEF Chosen
  <2>3. QED
    BY <2>1, <2>2 DEF Chosen
<1>6. QED
  BY <1>3, <1>4, <1>5 DEF Chosen

\* There is one such entry.
LEMMA ChosenUnique ==
    ASSUME graph \in Graphs, NEW D \in SUBSET Drafts, NEW e \in Entries, NEW r, NEW s,
           Chosen(e, D, r), Chosen(e, D, s)
    PROVE  r = s
<1>1. PICK v \in [Drafts -> Nat] : v = graph.version
  BY GraphTyped
<1>2. ASSUME NEW x, NEW Q \in SUBSET Drafts, Outcome(x, Q, r), Outcome(x, Q, s)
      PROVE  r = s
  <2>1. CASE r = x /\ \A q \in Q : MayProve(x, q)
    BY <1>2, <2>1 DEF Outcome, Newest
  <2>2. CASE s = x /\ \A q \in Q : MayProve(x, q)
    BY <1>2, <2>2 DEF Outcome, Newest
  <2>3. CASE Newest(r, Q) /\ Newest(s, Q)
    <3>1. r \in Drafts /\ s \in Drafts
      BY <2>3 DEF Newest
    <3>2. v[r] \in Nat /\ v[s] \in Nat
      BY <3>1
    <3>3. ~(Before(r, s) /\ Before(s, r))
      BY <3>1, BeforeOrder
    <3>4. QED
      BY <1>1, <2>3, <3>2, <3>3 DEF Newest
  <2>4. QED
    BY <1>2, <2>1, <2>2, <2>3 DEF Outcome
<1>3. ASSUME NEW x \in D, NEW y \in D, LastFree(x, D), LastFree(y, D) PROVE x = y
  <2>1. ~(Before(x, y) /\ Before(y, x))
    BY BeforeOrder
  <2>2. QED
    BY <1>3, <2>1 DEF LastFree
<1>4. CASE \A y \in D : Pinned(y)
  BY <1>2, <1>4 DEF Chosen, LastFree
<1>5. CASE ~(\A y \in D : Pinned(y))
  <2>1. PICK x \in D : LastFree(x, D) /\ Outcome(x, Later(x, D), r)
    BY <1>5 DEF Chosen
  <2>2. PICK y \in D : LastFree(y, D) /\ Outcome(y, Later(y, D), s)
    BY <1>5 DEF Chosen
  <2>3. x = y /\ Later(x, D) \in SUBSET Drafts
    BY <1>3, <2>1, <2>2 DEF Later
  <2>4. QED
    BY <1>2, <2>1, <2>2, <2>3
<1>6. QED
  BY <1>4, <1>5

\* The batch order has every draft once.
LEMMA BatchOrderIs ==
    ASSUME graph \in Graphs, NEW D \in SUBSET Drafts, NEW n, n = Cardinality(D),
           NEW order, order = BatchOrder(D)
    PROVE  /\ n \in Nat /\ order \in [1..n -> D]
           /\ \A d \in D : \E i \in 1..n : order[i] = d
           /\ \A i, j \in 1..n : i < j => Before(order[i], order[j])
<1>1. PICK R : R = {r \in Drafts \X Drafts : Before(r[1], r[2])}
  OBVIOUS
<1>2. \A a, b \in Drafts : <<a, b>> \in R <=> Before(a, b)
  BY <1>1
<1>3. StrictOrder(R, D)
  BY <1>2, BeforeOrder DEF StrictOrder
<1>4. IsFiniteSet(D) /\ n \in Nat
  <2>1. IsFiniteSet(Drafts)
    BY WavesAssumption
  <2>2. QED
    BY <2>1, FS_Subset, FS_CardinalityType
<1>5. PICK s \in [1..n -> D] : SortedBy(s, R)
  BY <1>3, <1>4, SortExists
<1>6. \A t \in [1..n -> D] :
          SortedBy(t, R) <=> \A i, j \in DOMAIN t : i < j => Before(t[i], t[j])
  <2> SUFFICES ASSUME NEW t \in [1..n -> D]
               PROVE  SortedBy(t, R) <=> \A i, j \in DOMAIN t : i < j => Before(t[i], t[j])
    OBVIOUS
  <2>1. \A i \in DOMAIN t : t[i] \in Drafts
    OBVIOUS
  <2>2. \A i, j \in DOMAIN t : <<t[i], t[j]>> \in R <=> Before(t[i], t[j])
    BY <1>2, <2>1
  <2>3. QED
    BY <2>2 DEF SortedBy
<1>7. order \in [1..n -> D] /\ \A i, j \in DOMAIN order : i < j => Before(order[i], order[j])
  BY <1>5, <1>6 DEF BatchOrder
<1>8. SortedBy(order, R)
  BY <1>6, <1>7
<1>9. \A d \in D : \E i \in 1..n : order[i] = d
  BY <1>3, <1>4, <1>7, <1>8, SortCovers
<1>10. QED
  BY <1>4, <1>7, <1>9

\* The live entry, draft by draft.
LEMMA LiveAfterDef ==
    ASSUME graph \in Graphs, NEW e \in Entries, NEW D \in SUBSET Drafts,
           NEW n, n = Cardinality(D), NEW order, order = BatchOrder(D)
    PROVE  \E g \in [0..n -> Entries] :
              /\ g[0] = e /\ LiveAfter(e, D) = g[n]
              /\ \A i \in 1..n : g[i] = Advance(g[i - 1], order[i])
<1> DEFINE f == [i \in 1..n |-> [x \in Entries |-> Advance(x, order[i])]]
           F(g) == [i \in 0..n |-> IF i = 0 THEN e ELSE Advance(g[i - 1], order[i])]
<1>1. n \in Nat /\ order \in [1..n -> D] /\ Len(order) = n
  <2>1. n \in Nat /\ order \in [1..n -> D]
    BY BatchOrderIs
  <2>2. QED
    BY <2>1
<1>2. \A x \in Entries, d \in D : Advance(x, d) \in Entries
  BY DEF Advance, Entries
<1>3. f \in [1..n -> [Entries -> Entries]]
  BY <1>1, <1>2
<1>4. PICK g \in [0..n -> Entries] : g[0] = e /\ \A i \in 1..n : g[i] = f[i][g[i - 1]]
  <2>1. PICK W, ff : ff = f /\ W = Entries /\ ff \in [1..n -> [W -> W]]
    BY <1>3
  <2> HIDE DEF f, F
  <2>2. \E g \in [0..n -> W] : IsFold(g, n, e, ff)
    BY <1>1, <2>1, FoldExists
  <2>3. QED
    BY <2>1, <2>2 DEF IsFold
<1>5. \A i \in 1..n : g[i] = Advance(g[i - 1], order[i])
  <2> SUFFICES ASSUME NEW i \in 1..n PROVE g[i] = Advance(g[i - 1], order[i])
    OBVIOUS
  <2>1. g[i - 1] \in Entries
    BY <1>1
  <2>2. f[i][g[i - 1]] = Advance(g[i - 1], order[i])
    BY <2>1
  <2>3. QED
    BY <1>4, <2>2
<1>6. PICK h : h = (CHOOSE x : x = F(x))
  OBVIOUS
<1>7. h = F(h)
  <2>1. PICK G : G = F(g)
    OBVIOUS
  <2>2. DOMAIN G = 0..n /\ G = [i \in DOMAIN G |-> G[i]] /\ \A i \in 0..n : G[i] = g[i]
    BY <1>4, <1>5, <2>1
  <2>3. g = F(g)
    BY <2>1, <2>2
  <2>4. QED
    BY <1>6, <2>3
<1>8. LiveAfter(e, D) = h[n]
  BY <1>1, <1>6 DEF LiveAfter, LiveDuring
<1>9. \A i \in 0..n : h[i] = IF i = 0 THEN e ELSE Advance(h[i - 1], order[i])
  BY <1>7
<1> HIDE DEF F
<1>10. h[n] = g[n]
  <2>1. h[0] = g[0]
    BY <1>1, <1>4, <1>9
  <2>2. ASSUME NEW i \in 1..n, h[i - 1] = g[i - 1] PROVE h[i] = g[i]
    <3>1. i \in 0..n /\ i # 0
      BY <1>1
    <3>2. h[i] = Advance(h[i - 1], order[i]) /\ g[i] = Advance(g[i - 1], order[i])
      BY <1>5, <1>9, <3>1
    <3>3. QED
      BY <2>2, <3>2
  <2>3. QED
    BY <1>1, <2>1, <2>2, SameRun
<1>11. QED
  BY <1>4, <1>5, <1>8, <1>10

\* One draft leaves what it advances to.
LEMMA ChosenOne ==
    ASSUME graph \in Graphs, NEW e \in Entries, NEW d \in Drafts, NEW B, B = {d}
    PROVE  Chosen(e, B, Advance(e, d))
<1>1. CASE Pinned(d) /\ MayProve(e, d)
  BY <1>1 DEF Chosen, Outcome, Advance
<1>2. CASE Pinned(d) /\ ~MayProve(e, d)
  <2>1. Newest(d, B)
    BY DEF Newest
  <2>2. QED
    BY <1>2, <2>1 DEF Chosen, Outcome, Advance
<1>3. CASE ~Pinned(d)
  <2>1. LastFree(d, B) /\ Later(d, B) = {}
    BY <1>3, BeforeOrder DEF LastFree, Later
  <2>2. Outcome(d, Later(d, B), d)
    BY <2>1 DEF Outcome
  <2>3. QED
    BY <1>3, <2>1, <2>2 DEF Chosen, Advance
<1>4. QED
  BY <1>1, <1>2, <1>3

\* What a batch leaves.
LEMMA LiveAfterChosen ==
    ASSUME graph \in Graphs, NEW e \in Entries, NEW D \in SUBSET Drafts
    PROVE  Chosen(e, D, LiveAfter(e, D)) /\ LiveAfter(e, D) \in Entries
<1>1. PICK n, order : n = Cardinality(D) /\ order = BatchOrder(D)
  OBVIOUS
<1>2. /\ n \in Nat /\ order \in [1..n -> D]
      /\ \A d \in D : \E i \in 1..n : order[i] = d
      /\ \A i, j \in 1..n : i < j => Before(order[i], order[j])
  BY <1>1, BatchOrderIs
<1>3. PICK g \in [0..n -> Entries] :
          /\ g[0] = e /\ LiveAfter(e, D) = g[n]
          /\ \A i \in 1..n : g[i] = Advance(g[i - 1], order[i])
  BY <1>1, LiveAfterDef
<1> DEFINE Part(m) == {order[i] : i \in 1..m}
           Done == {m \in Nat : m <= n => Chosen(e, Part(m), g[m])}
<1>4. 0 \in Done
  <2>1. Part(0) = {}
    OBVIOUS
  <2>2. Chosen(e, Part(0), e)
    BY <2>1 DEF Chosen, Outcome
  <2>3. QED
    BY <1>3, <2>2
<1>5. ASSUME NEW m \in Nat, m \in Done PROVE m + 1 \in Done
  <2> SUFFICES ASSUME m + 1 <= n PROVE Chosen(e, Part(m + 1), g[m + 1])
    OBVIOUS
  <2>1. PICK A, B, d : A = Part(m) /\ d = order[m + 1] /\ B = {d}
    OBVIOUS
  <2>2. /\ A \in SUBSET Drafts /\ B \in SUBSET Drafts /\ d \in Drafts
        /\ Part(m + 1) = A \cup B
    BY <1>2, <2>1
  <2>3. PICK r, s : r = g[m] /\ s = g[m + 1] /\ r \in Entries /\ s = Advance(r, d)
    BY <1>2, <1>3, <2>1
  <2>4. Chosen(e, A, r)
    <3>1. m <= n
      BY <1>2
    <3> HIDE DEF Part
    <3>2. Chosen(e, Part(m), g[m])
      BY <1>5, <3>1
    <3>3. QED
      BY <2>1, <2>3, <3>2
  <2>5. Chosen(r, B, s)
    BY <2>1, <2>2, <2>3, ChosenOne
  <2>6. Follows(A, B)
    <3>1. \A i \in 1..m : Before(order[i], d)
      BY <1>2, <2>1
    <3>2. QED
      BY <2>1, <3>1 DEF Follows
  <2> HIDE DEF Part
  <2>7. Chosen(e, A \cup B, s)
    BY <2>2, <2>4, <2>5, <2>6, ChosenJoin
  <2>8. QED
    BY <2>2, <2>3, <2>7
<1>6. n \in Done
  <2> HIDE DEF Done
  <2> QED BY <1>2, <1>4, <1>5, SetInduction
<1>7. Part(n) = D
  BY <1>2
<1>8. Chosen(e, Part(n), g[n]) /\ g[n] \in Entries
  <2> HIDE DEF Part
  <2> QED BY <1>2, <1>6
<1>9. QED
  <2> HIDE DEF Part, Done
  <2> QED BY <1>3, <1>7, <1>8

-----------------------------------------------------------------------------
\* The live entries of a run

\* The entry of k before the run.
EntryBefore(k) == LiveAfter(NoEntry, OfKey(graph.present \cap Drafts, k))

\* Transactions of one wave are of different families, each of one.
FamiliesApart ==
    \A i, j \in DOMAIN runnable : \A c \in runnable[i], d \in runnable[j] :
        graph.family[c] = graph.family[d] <=> i = j

\* Positions that no worker has taken.
QueueOK == \A i \in DOMAIN slots : i >= next => slots[i] = "empty"

\* The drafts in an index are of earlier waves, or of ended transactions of this one.
IndexedOK ==
    /\ indexed \subseteq Drafts
    /\ Planning => indexed = {}
    /\ \A d \in indexed :
           \/ wave[d] < now
           \/ \E i \in DOMAIN runnable : d \in runnable[i] /\ slots[i] \in {"ok", "failed"}

\* The live entries are those that one batch would have left.
LiveOK == \A k \in Keys : Chosen(EntryBefore(k), OfKey(indexed, k), dest.live[k])

LiveInv == FamiliesApart /\ QueueOK /\ IndexedOK /\ LiveOK

\* The choice depends on the graph alone.
LEMMA SameChoice ==
    ASSUME graph' = graph
    PROVE  /\ Keys' = Keys
           /\ \A e, D, r : Chosen(e, D, r)' <=> Chosen(e, D, r)
           /\ \A k : EntryBefore(k)' = EntryBefore(k)
           /\ \A D, k : OfKey(D, k)' = OfKey(D, k)
<1>1. \A c, d : Before(c, d)' <=> Before(c, d)
  BY DEF Before
<1>2. \A e, d : MayProve(e, d)' <=> MayProve(e, d)
  BY DEF MayProve
<1>3. \A d : Pinned(d)' <=> Pinned(d)
  BY DEF Pinned, Required
<1>4. \A e, Q, r : Outcome(e, Q, r)' <=> Outcome(e, Q, r)
  BY <1>1, <1>2 DEF Outcome, Newest
<1>5. \A e, D, r : Chosen(e, D, r)' <=> Chosen(e, D, r)
  <2>1. \A x, D : (LastFree(x, D)' <=> LastFree(x, D)) /\ Later(x, D)' = Later(x, D)
    BY <1>1, <1>3 DEF LastFree, Later
  <2>2. QED
    BY <1>3, <1>4, <2>1 DEF Chosen
<1>6. \A k : EntryBefore(k)' = EntryBefore(k)
  BY DEF EntryBefore, LiveAfter, LiveDuring, BatchOrder, Before, Advance, MayProve, Pinned, Required, OfKey
<1>7. QED
  BY <1>5, <1>6 DEF Keys, OfKey

\* The entry of a key before the run is an entry.
LEMMA EntryBeforeIs ==
    ASSUME graph \in Graphs, NEW k PROVE EntryBefore(k) \in Entries
<1>1. PICK P, e : P = OfKey(graph.present \cap Drafts, k) /\ e = NoEntry
  OBVIOUS
<1>2. P \in SUBSET Drafts /\ e \in Entries
  BY <1>1 DEF OfKey, Entries
<1>3. LiveAfter(e, P) \in Entries
  BY <1>2, LiveAfterChosen
<1>4. QED
  BY <1>1, <1>3 DEF EntryBefore

\* Nothing published leaves the entry as it was.
LEMMA InitLive == Init => LiveInv
<1> SUFFICES ASSUME Init PROVE LiveInv
  OBVIOUS
<1>1. graph \in Graphs /\ indexed = {} /\ runnable = <<>> /\ slots = <<>>
  BY DEF Init
<1>2. ASSUME NEW k \in Keys PROVE Chosen(EntryBefore(k), OfKey(indexed, k), dest.live[k])
  <2>1. dest.live[k] = EntryBefore(k)
    BY DEF Init, EntryBefore
  <2>2. OfKey(indexed, k) = {}
    BY <1>1 DEF OfKey
  <2>3. QED
    BY <2>1, <2>2 DEF Chosen, Outcome
<1>3. FamiliesApart /\ QueueOK /\ IndexedOK
  BY <1>1 DEF FamiliesApart, QueueOK, IndexedOK
<1>4. QED
  BY <1>2, <1>3 DEF LiveInv, LiveOK

\* A step that indexes nothing keeps the entries.
LEMMA SameLive ==
    ASSUME LiveOK, graph' = graph, dest' = dest, indexed' = indexed PROVE LiveOK'
  BY SameChoice DEF LiveOK

\* The steps of the plan.
LEMMA PlanLive ==
    ASSUME LiveInv, Remap \/ Order PROVE LiveInv'
<1>1. /\ graph' = graph /\ dest' = dest /\ indexed' = indexed /\ runnable' = runnable
      /\ slots' = slots /\ next' = next /\ Planning
  BY DEF Remap, Order, run, Planning
<1>2. indexed = {}
  BY <1>1 DEF LiveInv, IndexedOK
<1>3. QED
  BY <1>1, <1>2, SameLive DEF LiveInv, FamiliesApart, QueueOK, IndexedOK

\* The gates put different families into different transactions.
LEMMA GateLive ==
    ASSUME WavesInv, LiveInv, Gate PROVE LiveInv'
<1>1. /\ graph' = graph /\ dest' = dest /\ indexed' = indexed /\ wave' = wave /\ now' = now
      /\ phase = "gate" /\ phase' = "run" /\ next' = 1 /\ runnable = <<>>
  BY DEF Gate, plan, WavesInv, RunOK
<1>2. graph \in Graphs
  BY DEF WavesInv, TypesOK
<1>3. PICK T : T = {g \in Groups : Runs(g) # {}}
  OBVIOUS
<1>4. IsFiniteSet(T) /\ T \in SUBSET Nat
  <2>1. graph.family \in [Drafts -> Nat]
    BY <1>2, GraphTyped
  <2>2. IsFiniteSet(Groups)
    <3>1. PICK f, G : f = graph.family /\ G = Groups
      OBVIOUS
    <3>2. G = {f[d] : d \in Drafts} /\ IsFiniteSet(Drafts)
      BY <3>1, WavesAssumption DEF Groups
    <3>3. QED
      BY <3>1, <3>2, ImageFinite
  <2>3. QED
    BY <1>3, <2>1, <2>2, FS_Subset DEF Groups
<1>5. PICK n, ready :
          /\ n \in Nat /\ ready = Ascending(T) /\ ready \in [1..n -> T]
          /\ \A i, j \in 1..n : ready[i] = ready[j] => i = j
  <2>1. PICK n \in Nat : n = Cardinality(T)
    BY <1>4, FS_CardinalityType
  <2>2. PICK r : r = Ascending(T)
    OBVIOUS
  <2>3. r \in [1..n -> T] /\ \A i, j \in 1..n : r[i] = r[j] => i = j
    BY <1>4, <2>1, <2>2, AscendingCovers
  <2>4. QED
    BY <2>2, <2>3
<1>6. runnable' = [i \in 1..n |-> Runs(ready[i])] /\ slots' = [i \in 1..n |-> "empty"]
  BY <1>3, <1>5 DEF Gate
<1>7. \A i \in 1..n : \A d \in runnable'[i] : graph.family[d] = ready[i]
  BY <1>6 DEF Runs, Members
<1>8. FamiliesApart'
  BY <1>1, <1>5, <1>6, <1>7 DEF FamiliesApart
<1>9. QueueOK'
  BY <1>6 DEF QueueOK
<1>10. IndexedOK'
  BY <1>1 DEF LiveInv, IndexedOK, Planning
<1>11. QED
  BY <1>1, <1>8, <1>9, <1>10, SameLive DEF LiveInv

\* A worker takes a position that nobody has had.
LEMMA TakeLive ==
    ASSUME WavesInv, LiveInv, Take PROVE LiveInv'
<1>1. /\ graph' = graph /\ dest' = dest /\ indexed' = indexed /\ wave' = wave /\ now' = now
      /\ phase = "run" /\ phase' = "run" /\ runnable' = runnable /\ next' = next + 1
      /\ slots' = [slots EXCEPT ![next] = "busy"] /\ next \in Nat
  BY DEF Take, plan, WavesInv, TypesOK
<1>2. PICK n \in Nat : /\ runnable \in [1..n -> SUBSET Drafts]
                       /\ slots \in [1..n -> {"empty", "busy", "ok", "failed"}]
  BY DEF WavesInv, TypesOK
<1>3. \A i \in 1..n : i # next => slots'[i] = slots[i]
  BY <1>1, <1>2
<1>4. \A i \in 1..n : i = next => slots[i] = "empty"
  BY <1>1, <1>2 DEF LiveInv, QueueOK
<1>5. QueueOK'
  <2>1. DOMAIN slots' = 1..n
    BY <1>1, <1>2
  <2>2. \A i \in 1..n : i >= next + 1 => slots'[i] = "empty"
    BY <1>1, <1>2, <1>3 DEF LiveInv, QueueOK
  <2>3. QED
    BY <1>1, <2>1, <2>2 DEF QueueOK
<1>6. IndexedOK'
  <2>1. ASSUME NEW d \in indexed
        PROVE  \/ wave[d] < now
               \/ \E i \in DOMAIN runnable : d \in runnable[i] /\ slots'[i] \in {"ok", "failed"}
    BY <1>2, <1>3, <1>4 DEF LiveInv, IndexedOK
  <2>2. QED
    BY <1>1, <2>1 DEF LiveInv, IndexedOK, Planning
<1>7. QED
  BY <1>1, <1>5, <1>6, SameLive DEF LiveInv, FamiliesApart

\* What a transaction indexes can follow what is indexed: an earlier draft of the same key
\* has had a wave of its own, and the waves respect the batch order.
LEMMA IndexFollows ==
    ASSUME WavesInv, LiveInv, phase = "run", NEW i \in DOMAIN slots, slots[i] = "busy",
           NEW D \in SUBSET runnable[i], NEW k
    PROVE  /\ OfKey(indexed, k) \in SUBSET Drafts /\ OfKey(D, k) \in SUBSET Drafts
           /\ Follows(OfKey(indexed, k), OfKey(D, k))
<1>1. /\ graph \in Graphs /\ wave \in [Drafts -> Nat] /\ now \in Nat /\ Respects(wave)
      /\ indexed \in SUBSET Drafts
  BY DEF WavesInv, TypesOK, PlanOK, Planning, LiveInv, IndexedOK
<1>2. i \in DOMAIN runnable /\ D \in SUBSET Drafts /\ \A d \in D : wave[d] = now
  BY DEF WavesInv, TypesOK, RunOK
<1>3. ASSUME NEW a \in OfKey(indexed, k), NEW b \in OfKey(D, k)
      PROVE  Before(a, b) \/ (graph.closure[b] /\ graph.version[a] > graph.version[b])
  <2>1. /\ a \in Drafts /\ b \in Drafts /\ a \in indexed /\ b \in runnable[i]
        /\ graph.key[a] = graph.key[b] /\ wave[b] = now
    BY <1>1, <1>2 DEF OfKey
  <2>2. graph.family[a] = graph.family[b]
    BY <1>1, <2>1, WavesAssumption
  <2>3. wave[a] < now
    <3>1. ASSUME NEW j \in DOMAIN runnable, a \in runnable[j], slots[j] \in {"ok", "failed"}
          PROVE  FALSE
      <4>1. j = i
        BY <1>2, <2>1, <2>2, <3>1 DEF LiveInv, FamiliesApart
      <4>2. QED
        BY <3>1, <4>1
    <3>2. QED
      BY <2>1, <3>1 DEF LiveInv, IndexedOK
  <2>4. a # b
    BY <1>1, <2>1, <2>3
  <2>5. CASE Before(a, b)
    BY <2>5
  <2>6. CASE Before(b, a)
    <3>1. b \notin Predecessors(a)
      <4>1. ~(wave[b] <= wave[a])
        BY <1>1, <2>1, <2>3
      <4>2. QED
        BY <1>1, <2>1, <4>1 DEF Respects
    <3>2. MayFollow(b, a)
      BY <2>1, <2>2, <2>6, <3>1 DEF Predecessors
    <3>3. QED
      BY <3>2 DEF MayFollow
  <2>7. QED
    BY <1>1, <2>1, <2>4, <2>5, <2>6, BeforeOrder
<1>4. QED
  BY <1>1, <1>2, <1>3 DEF Follows, OfKey

\* The end of a transaction.
LEMMA EndLive ==
    ASSUME WavesInv, LiveInv, NEW i \in DOMAIN slots, NEW s \in {"ok", "failed"},
           slots[i] = "busy", slots' = [slots EXCEPT ![i] = s], next' = next,
           UNCHANGED <<plan, phase, now, runnable>>, NEW D \in SUBSET runnable[i],
           \/ dest' = dest /\ indexed' = indexed
           \/ dest'.live = StagedIndex(dest.live, D) /\ indexed' = indexed \cup D
    PROVE  LiveInv'
<1>1. /\ graph' = graph /\ wave' = wave /\ now' = now /\ runnable' = runnable
      /\ phase' = phase /\ phase = "run" /\ graph \in Graphs
  BY DEF plan, WavesInv, RunOK, TypesOK
<1>2. PICK n \in Nat : /\ runnable \in [1..n -> SUBSET Drafts]
                       /\ slots \in [1..n -> {"empty", "busy", "ok", "failed"}]
  BY DEF WavesInv, TypesOK
<1>3. /\ DOMAIN slots' = DOMAIN slots /\ slots'[i] = s
      /\ \A j \in DOMAIN slots : j # i => slots'[j] = slots[j]
  BY <1>2
<1>4. QueueOK'
  BY <1>3 DEF LiveInv, QueueOK
<1>5. ASSUME NEW d \in indexed \cup D
      PROVE  /\ d \in Drafts
             /\ \/ wave[d] < now
                \/ \E j \in DOMAIN runnable : d \in runnable[j] /\ slots'[j] \in {"ok", "failed"}
  <2>1. CASE d \in indexed
    BY <1>2, <1>3, <2>1 DEF LiveInv, IndexedOK
  <2>2. CASE d \in D
    BY <1>2, <1>3, <2>2
  <2>3. QED
    BY <2>1, <2>2
<1>6. IndexedOK'
  BY <1>1, <1>5 DEF IndexedOK, Planning
<1>7. FamiliesApart'
  BY <1>1 DEF LiveInv, FamiliesApart
<1>8. LiveOK'
  <2>1. CASE dest' = dest /\ indexed' = indexed
    BY <1>1, <2>1, SameLive DEF LiveInv
  <2>2. CASE dest'.live = StagedIndex(dest.live, D) /\ indexed' = indexed \cup D
    <3>1. ASSUME NEW k \in Keys
          PROVE  Chosen(EntryBefore(k), OfKey(indexed \cup D, k), LiveAfter(dest.live[k], OfKey(D, k)))
      <4>1. PICK e, A, B, r, t :
                /\ e = EntryBefore(k) /\ A = OfKey(indexed, k) /\ B = OfKey(D, k)
                /\ r = dest.live[k] /\ t = LiveAfter(r, B)
        OBVIOUS
      <4>2. e \in Entries /\ A \in SUBSET Drafts /\ B \in SUBSET Drafts /\ Follows(A, B)
        BY <1>1, <4>1, EntryBeforeIs, IndexFollows
      <4>3. Chosen(e, A, r)
        BY <4>1 DEF LiveInv, LiveOK
      <4>4. r \in Entries
        BY <4>2, <4>3, ChosenEntry
      <4>5. Chosen(r, B, t)
        BY <1>1, <4>1, <4>2, <4>4, LiveAfterChosen
      <4>6. Chosen(e, A \cup B, t)
        BY <1>1, <4>2, <4>3, <4>5, ChosenJoin
      <4>7. OfKey(indexed \cup D, k) = A \cup B
        BY <4>1 DEF OfKey
      <4>8. QED
        BY <4>1, <4>6, <4>7
    <3>2. \A k \in Keys : dest'.live[k] = LiveAfter(dest.live[k], OfKey(D, k))
      BY <2>2 DEF StagedIndex
    <3>3. PICK X, L : X = indexed \cup D /\ X = indexed' /\ L = dest'.live
      BY <2>2
    <3>4. \A k \in Keys : Chosen(EntryBefore(k), OfKey(X, k), L[k])
      BY <3>1, <3>2, <3>3
    <3>5. \A k \in Keys' : Chosen(EntryBefore(k), OfKey(X, k), L[k])'
      BY <1>1, <3>4, SameChoice
    <3>6. QED
      BY <3>3, <3>5 DEF LiveOK
  <2>3. QED
    BY <2>1, <2>2
<1>9. QED
  BY <1>4, <1>6, <1>7, <1>8 DEF LiveInv

LEMMA EndWaveLive ==
    ASSUME WavesInv, LiveInv, EndWave PROVE LiveInv'
<1>1. /\ graph' = graph /\ dest' = dest /\ indexed' = indexed /\ wave' = wave /\ now' = now + 1
      /\ runnable' = <<>> /\ slots' = <<>> /\ phase' \in {"gate", "done"} /\ now \in Nat
      /\ wave \in [Drafts -> Nat]
  BY DEF EndWave, plan, WavesInv, TypesOK
<1>2. ASSUME NEW d \in indexed PROVE wave[d] < now + 1
  <2>1. d \in Drafts /\ (wave[d] < now \/ wave[d] = now)
    BY DEF LiveInv, IndexedOK, WavesInv, RunOK
  <2>2. QED
    BY <1>1, <2>1
<1>3. IndexedOK'
  BY <1>1, <1>2 DEF LiveInv, IndexedOK, Planning
<1>4. FamiliesApart' /\ QueueOK'
  BY <1>1 DEF FamiliesApart, QueueOK
<1>5. QED
  BY <1>1, <1>3, <1>4, SameLive DEF LiveInv

\* Every step preserves it.
LEMMA StepLive == WavesInv /\ LiveInv /\ [Next]_vars => LiveInv'
<1> SUFFICES ASSUME WavesInv, LiveInv, [Next]_vars PROVE LiveInv'
  OBVIOUS
<1>1. CASE UNCHANGED vars
  <2>1. /\ graph' = graph /\ dest' = dest /\ indexed' = indexed /\ wave' = wave /\ now' = now
        /\ runnable' = runnable /\ slots' = slots /\ next' = next /\ phase' = phase
    BY <1>1 DEF vars
  <2>2. QED
    BY <2>1, SameLive DEF LiveInv, FamiliesApart, QueueOK, IndexedOK, Planning
<1>2. ASSUME NEW i \in DOMAIN slots, Succeed(i) PROVE LiveInv'
  <2>1. PICK D : D = Wanted(runnable[i])
    OBVIOUS
  <2>2. /\ slots[i] = "busy" /\ slots' = [slots EXCEPT ![i] = "ok"] /\ next' = next
        /\ UNCHANGED <<plan, phase, now, runnable>> /\ D \in SUBSET runnable[i]
    BY <1>2, <2>1 DEF Succeed, Wanted
  <2>3. \/ dest' = dest /\ indexed' = indexed
        \/ dest'.live = StagedIndex(dest.live, D) /\ indexed' = indexed \cup D
    <3>1. \/ dest' = dest /\ indexed' = indexed
          \/ dest' = Committed(D, D, TRUE) /\ indexed' = indexed \cup D
      BY <1>2, <2>1 DEF Succeed
    <3>2. dest' = Committed(D, D, TRUE) => dest'.live = StagedIndex(dest.live, D)
      BY DEF Committed
    <3>3. QED
      BY <3>1, <3>2
  <2>4. QED
    BY <2>2, <2>3, EndLive
<1>3. ASSUME NEW i \in DOMAIN slots, Fail(i) PROVE LiveInv'
  <2>1. PICK D : D = Wanted(runnable[i])
    OBVIOUS
  <2>2. /\ slots[i] = "busy" /\ slots' = [slots EXCEPT ![i] = "failed"] /\ next' = next
        /\ UNCHANGED <<plan, phase, now, runnable>> /\ D \in SUBSET runnable[i]
    BY <1>3, <2>1 DEF Fail, Wanted
  <2>3. \/ dest' = dest /\ indexed' = indexed
        \/ dest'.live = StagedIndex(dest.live, D) /\ indexed' = indexed \cup D
    <3>1. \/ dest' = dest /\ indexed' = indexed
          \/ /\ \E M : \E c : dest' = Committed(D, M, c)
             /\ indexed' = indexed \cup D
      BY <1>3, <2>1 DEF Fail
    <3>2. ASSUME NEW M, NEW c, dest' = Committed(D, M, c)
          PROVE  dest'.live = StagedIndex(dest.live, D)
      BY <3>2 DEF Committed
    <3>3. QED
      BY <3>1, <3>2
  <2>4. QED
    BY <2>2, <2>3, EndLive
<1>4. QED
  BY <1>1, <1>2, <1>3, PlanLive, GateLive, TakeLive, EndWaveLive DEF Next

\* A batch leaves one of its drafts, or the entry that was there if every draft yields to it.
LEMMA LiveAfterInstalls ==
    ASSUME graph \in Graphs, NEW e \in Entries, NEW D \in SUBSET Drafts, NEW r, r = LiveAfter(e, D)
    PROVE  /\ r \in Entries
           /\ \/ r \in D /\ \E d \in D : ~(Pinned(d) /\ MayProve(e, d))
              \/ r = e /\ \A d \in D : Pinned(d) /\ MayProve(e, d)
<1>1. Chosen(e, D, r) /\ r \in Entries
  BY LiveAfterChosen
<1>2. CASE (\A y \in D : Pinned(y)) /\ Outcome(e, D, r)
  BY <1>1, <1>2 DEF Outcome, Newest
<1>3. ASSUME NEW x \in D, LastFree(x, D), Outcome(x, Later(x, D), r)
      PROVE  r \in D /\ ~Pinned(x)
  BY <1>3 DEF LastFree, Outcome, Newest, Later
<1>4. QED
  BY <1>1, <1>2, <1>3 DEF Chosen

LEMMA InitProof == Init => ProofOK
<1> SUFFICES ASSUME Init, NEW k \in Keys, dest.live[k] # NoEntry PROVE Recorded(dest.live[k])
  BY DEF ProofOK
<1>1. PICK P, e, r : /\ P = OfKey(graph.present \cap Drafts, k) /\ e = NoEntry
                     /\ r = LiveAfter(e, P)
  OBVIOUS
<1>2. graph \in Graphs /\ P \in SUBSET Drafts /\ e \in Entries
  BY <1>1 DEF Init, OfKey, Entries
<1>3. r \in P \/ r = e
  <2>1. r = LiveAfter(e, P)
    BY <1>1
  <2>2. QED
    BY ONLY <1>2, <2>1, LiveAfterInstalls
<1>4. dest.live[k] = r
  BY <1>1 DEF Init
<1>5. r \in graph.present \cap Drafts
  BY <1>1, <1>3, <1>4 DEF OfKey
<1>6. {r} \in dest.records
  BY <1>5 DEF Init
<1>7. QED
  BY <1>4, <1>6 DEF Recorded

\* A step that leaves the destination alone.
LEMMA SameProof ==
    ASSUME ProofOK, graph' = graph, dest' = dest PROVE ProofOK'
  BY DEF ProofOK, Keys, Recorded

\* A commit with the record leaves entries of that record; one without it takes the proof
\* of every entry that it puts there.
LEMMA CommitProof ==
    ASSUME graph \in Graphs, graph' = graph, LiveOK, indexed \in SUBSET Drafts, ProofOK,
           NEW D \in SUBSET Drafts, NEW M, NEW c \in BOOLEAN, dest' = Committed(D, M, c)
    PROVE  ProofOK'
<1>1. Keys' = Keys
  BY DEF Keys
<1>2. /\ dest'.records = IF c THEN dest.records \cup {D} ELSE dest.records
      /\ \A k \in Keys : /\ dest'.live[k] = LiveAfter(dest.live[k], OfKey(D, k))
                         /\ dest'.proof[k] = IF Installs(D, k) THEN c ELSE dest.proof[k]
  BY DEF Committed, StagedIndex
<1>3. ASSUME NEW k \in Keys, dest'.proof[k], dest'.live[k] # NoEntry
      PROVE  \E R \in dest'.records : dest'.live[k] \in R
  <2>1. PICK e, B, r, A, b : /\ e = dest.live[k] /\ B = OfKey(D, k) /\ r = LiveAfter(e, B)
                             /\ A = OfKey(indexed, k) /\ b = EntryBefore(k)
    OBVIOUS
  <2>2. B \in SUBSET Drafts /\ A \in SUBSET Drafts /\ b \in Entries /\ Chosen(b, A, e)
    BY <2>1, EntryBeforeIs DEF OfKey, LiveOK
  <2>3. e \in Entries
    BY <2>2, ChosenEntry
  <2>4. dest'.live[k] = r
    BY <1>2, <2>1
  <2>5. CASE r \in B /\ \E d \in B : ~(Pinned(d) /\ MayProve(e, d))
    <3>1. Installs(D, k)
      BY <2>1, <2>5 DEF Installs
    <3>2. c
      BY <1>2, <1>3, <3>1
    <3>3. D \in dest'.records /\ r \in D
      BY <1>2, <2>1, <2>5, <3>2 DEF OfKey
    <3>4. QED
      BY <2>4, <3>3
  <2>6. CASE r = e /\ \A d \in B : Pinned(d) /\ MayProve(e, d)
    <3>1. ~Installs(D, k)
      BY <2>1, <2>6 DEF Installs
    <3>2. dest.proof[k] /\ e # NoEntry
      BY <1>2, <1>3, <2>4, <2>6, <3>1
    <3>3. Recorded(e)
      BY <2>1, <3>2 DEF ProofOK
    <3>4. QED
      BY <1>2, <2>4, <2>6, <3>3 DEF Recorded
  <2>7. QED
    BY <2>1, <2>2, <2>3, <2>5, <2>6, LiveAfterInstalls
<1>4. QED
  BY <1>1, <1>3 DEF ProofOK, Recorded

LEMMA StepProof == WavesInv /\ LiveInv /\ ProofOK /\ [Next]_vars => ProofOK'
<1> SUFFICES ASSUME WavesInv, LiveInv, ProofOK, [Next]_vars PROVE ProofOK'
  OBVIOUS
<1>1. graph \in Graphs /\ LiveOK /\ indexed \in SUBSET Drafts /\ graph' = graph
  BY DEF WavesInv, TypesOK, LiveInv, IndexedOK, Next, vars, Remap, Order, Gate, Take, EndWave,
         Succeed, Fail, plan
<1>2. ASSUME NEW i \in DOMAIN slots, Succeed(i) \/ Fail(i) PROVE ProofOK'
  <2>1. PICK D : D = Wanted(runnable[i])
    OBVIOUS
  <2>2. D \in SUBSET Drafts
    BY <2>1 DEF WavesInv, TypesOK, Wanted
  <2>3. CASE dest' = dest
    BY <1>1, <2>3, SameProof
  <2>4. ASSUME NEW M, NEW c \in BOOLEAN, dest' = Committed(D, M, c) PROVE ProofOK'
    BY <1>1, <2>2, <2>4, CommitProof
  <2>5. dest' = dest \/ \E M : \E c \in BOOLEAN : dest' = Committed(D, M, c)
    <3>1. CASE dest' = Committed(D, D, TRUE)
      BY <3>1
    <3>2. CASE \E M \in SUBSET D : dest' = Committed(D, M, FALSE)
      BY <3>2
    <3>3. QED
      BY <1>2, <2>1, <3>1, <3>2 DEF Succeed, Fail
  <2>6. QED
    BY <2>3, <2>4, <2>5
<1>3. CASE dest' = dest
  BY <1>1, <1>3, SameProof
<1>4. (\E i \in DOMAIN slots : Succeed(i) \/ Fail(i)) \/ dest' = dest
  BY DEF Next, vars, Remap, Order, run, Gate, Take, EndWave
<1>5. QED
  BY <1>2, <1>3, <1>4

LEMMA WavesAlways == Spec => [](WavesInv /\ LiveInv /\ ProofOK)
<1>1. QED
  BY InitInv, InitLive, InitProof, StepInv, StepLive, StepProof, PTL DEF Spec

-----------------------------------------------------------------------------
\* The theorems

\* A draft never reaches the destination ahead of a parent of another family, nor its
\* batch record ahead of any parent, whatever fails and however many workers publish.
THEOREM ParentsAlwaysFirst == Spec => []ParentsFirst
<1>1. WavesInv => ParentsFirst
  <2> SUFFICES ASSUME WavesInv, NEW d \in Drafts, NEW p \in graph.deps[d] \cap Drafts,
                      Exists(d), d \notin graph.present,
                      graph.family[p] # graph.family[d] \/ \E R \in dest.records : d \in R
               PROVE  Exists(p) \/ p \in indexOnly
    BY DEF ParentsFirst
  <2>1. CASE p = d
    BY <2>1
  <2>2. CASE p # d
    <3>1. d \in dest.manifests
      BY WavesAssumption DEF Exists
    <3>2. Kept(p)
      BY <2>2, <3>1 DEF WavesInv, ParentsOK, Recorded
    <3>3. Recorded(p) => p \in dest.manifests
      BY DEF WavesInv, DestinationOK, Recorded
    <3>4. QED
      BY <3>2, <3>3, WavesAssumption DEF Exists, Kept, Recorded
  <2>3. QED
    BY <2>1, <2>2
<1>2. QED
  BY <1>1, WavesAlways, PTL

\* publication_waves and the remapping reject only plans that no order can satisfy.
THEOREM RejectionsAlwaysContradictions == Spec => []RejectsOnlyContradictions
<1>1. WavesInv => RejectsOnlyContradictions
  BY DEF WavesInv
<1>2. QED
  BY <1>1, WavesAlways, PTL

\* At the end of a run every draft has an answer, and the drafts left out are exactly
\* those that the gate had to leave out for a parent.
THEOREM AlwaysLeftOutForParents == Spec => []LeftOutForParents
<1>1. WavesInv => LeftOutForParents
  <2> SUFFICES ASSUME WavesInv, phase = "done", NEW d \in Drafts
               PROVE  /\ published[d] # "none"
                      /\ published[d] = "skipped" <=>
                            \E p \in Parents(d) : \/ published[p] = "skipped"
                                                  \/ published[p] = "failed" /\ wave[p] < wave[d]
    BY DEF LeftOutForParents
  <2>1. /\ wave \in [Drafts -> Nat] /\ published \in [Drafts -> Answers] /\ Respects(wave)
        /\ now \in Nat
    BY DEF WavesInv, TypesOK, PlanOK, Planning
  <2>2. \A x \in Drafts : /\ published[x] # "none"
                          /\ published[x] = "skipped" <=> LeftOut(x)
    BY DEF WavesInv, AnswersOK, Planning
  <2>3. \A p \in Parents(d) : p \in Drafts /\ (wave[p] < wave[d] \/ wave[p] = wave[d])
    BY <2>1, ParentsAreDrafts DEF Respects
  <2>4. \A p \in Parents(d) :
            ((wave[p] < wave[d] /\ published[p] # "yes")
                 \/ (wave[p] = wave[d] /\ published[p] = "skipped"))
            <=> (published[p] = "skipped" \/ (published[p] = "failed" /\ wave[p] < wave[d]))
    BY <2>1, <2>2, <2>3 DEF Answers
  <2>5. QED
    BY <2>2, <2>4 DEF LeftOut
<1>2. QED
  BY <1>1, WavesAlways, PTL

\* However the waves split the drafts of a key, in whatever order the transactions end and
\* whatever fails, the live entry is the one that a single batch would have left.
THEOREM LiveEntryAlwaysAsBatch == Spec => []LiveEntryAsBatch
<1>1. WavesInv /\ LiveInv => LiveEntryAsBatch
  <2> SUFFICES ASSUME WavesInv, LiveInv, NEW k \in Keys
               PROVE  dest.live[k] = LiveAfter(LiveAfter(NoEntry, OfKey(graph.present \cap Drafts, k)),
                                               OfKey(indexed, k))
    BY DEF LiveEntryAsBatch
  <2>1. PICK e, A, r : e = EntryBefore(k) /\ A = OfKey(indexed, k) /\ r = dest.live[k]
    OBVIOUS
  <2>2. graph \in Graphs /\ e \in Entries /\ A \in SUBSET Drafts /\ Chosen(e, A, r)
    BY <2>1, EntryBeforeIs DEF WavesInv, TypesOK, LiveInv, IndexedOK, LiveOK, OfKey
  <2>3. Chosen(e, A, LiveAfter(e, A))
    BY <2>2, LiveAfterChosen
  <2>4. r = LiveAfter(e, A)
    BY <2>2, <2>3, ChosenUnique
  <2>5. QED
    BY <2>1, <2>4 DEF EntryBefore
<1>2. QED
  BY <1>1, WavesAlways, PTL

=============================================================================
