------------------------- MODULE RunResourcesProofs -------------------------
(***************************************************************************)
(* The memory of a run, for every number of threads, keys and sizes        *)
(* (ChargesMatchLife, RefusalNeedsOthers), and the look-ahead lane, for    *)
(* every number of jobs, claimants and claims (OneResultPerJob).           *)
(***************************************************************************)
EXTENDS RunMemory, LookAhead, Enumerations, SequenceTheorems

\* Bytes, with the sizes as a parameter.
BytesIn(z, S) == Total([a \in Ids |-> IF a \in S THEN z[a] ELSE 0], Maximum)

Kinds == {"none", "value", "source", "work", "lanes"}
Labels == {"idle", "reserve", "again", "callbacks", "take", "built"}
Requests == [kind : Kinds, key : Keys \cup {None.key}, bytes : Nat, lanes : Nat,
             alloc : Ids \cup {0}]

\* The allocations, who refers to them and what they are charged.
HoldInv ==
  /\ size \in [Ids -> Nat]
  /\ held \in [Threads -> SUBSET Ids] /\ old \in [Threads -> SUBSET Ids]
  /\ memo \in [Keys -> Ids \cup {0}] /\ slot \in Ids \cup {0} /\ retained \in Nat
  /\ RetainedMatches

\* The workspaces.
WorkInv ==
  /\ work \in [Threads -> Seq(Nat)] /\ task \in Nat
  /\ working \in Nat /\ independent \in Nat /\ owners \in [Threads -> Nat]
  /\ WorkingMatches

\* An entry is charged its weight, to an allocation of its own.
EntriesOwn ==
  /\ \A k \in Keys : memo[k] # 0 => size[memo[k]] = Weight[k]
  /\ \A j, k \in Keys : memo[j] # 0 /\ memo[j] = memo[k] => j = k

MemoInv == recency \in Seq(Keys) /\ memoRetained \in Nat /\ MemoMatches /\ EntriesOwn

\* What was reserved for a value or a source belongs to the thread alone until it is kept.
Fresh(t) ==
  LET a == req[t].alloc
  IN  /\ a \in held[t] /\ size[a] = req[t].bytes /\ a \notin MemoIds(memo) /\ a # slot
      /\ \A u \in Threads : u # t => a \notin held[u]

RequestOK(t) ==
  /\ pc[t] # "idle" => req[t].kind # "none"
  /\ req[t].kind = "value" => req[t].key \in Keys /\ req[t].bytes = Weight[req[t].key]
  /\ req[t].kind = "source" => req[t].bytes = SourceBytes /\ t = Owner /\ slot = 0
  /\ req[t].kind = "lanes" => req[t].bytes = req[t].lanes * LaneBytes
  /\ pc[t] \in {"callbacks", "take", "built"} => old[t] = {}
  /\ pc[t] = "built" => req[t].kind \in {"value", "source"} /\ Fresh(t)

RequestInv ==
  /\ pc \in [Threads -> Labels] /\ req \in [Threads -> Requests]
  /\ \A t \in Threads : RequestOK(t)

\* After a clear, the slot and the memo hold only what was retained since.
ClearOK(t) ==
  /\ pc[t] \in {"take", "again"} /\ t \in entrants => Slotted \subseteq since[t]
  /\ pc[t] = "again" /\ t \in entrants => MemoIds(memo) \subseteq since[t]

ClearInv ==
  /\ since \in [Threads -> SUBSET Ids] /\ entrants \in SUBSET Threads
  /\ \A t \in Threads : ClearOK(t)

MemoryInv == HoldInv /\ WorkInv /\ MemoInv /\ RequestInv /\ ClearInv /\ Used <= Maximum

-----------------------------------------------------------------------------
\* Bytes of sets of allocations

Sizes == [Ids -> Nat]

LEMMA BytesSummable ==
  ASSUME NEW z \in Sizes, NEW S
  PROVE  Maximum \in Nat /\ Summable([a \in Ids |-> IF a \in S THEN z[a] ELSE 0], Maximum)
  BY MemoryAssumption DEF Summable, Sizes, Ids

LEMMA BytesType == ASSUME NEW z \in Sizes, NEW S PROVE BytesIn(z, S) \in Nat
  BY BytesSummable, TotalType DEF BytesIn

\* Only the sizes of the set count.
LEMMA BytesSame ==
  ASSUME NEW y \in Sizes, NEW z \in Sizes, NEW S, \A a \in S \cap Ids : y[a] = z[a]
  PROVE  BytesIn(y, S) = BytesIn(z, S)
<1>1. PICK f, g : /\ f = [a \in Ids |-> IF a \in S THEN y[a] ELSE 0]
                  /\ g = [a \in Ids |-> IF a \in S THEN z[a] ELSE 0]
  OBVIOUS
<1>2. Summable(g, Maximum) /\ Maximum \in Nat
  BY <1>1, BytesSummable
<1>3. \A i \in 1..Maximum : f[i] = g[i]
  BY <1>1 DEF Ids
<1>4. QED
  BY <1>1, <1>2, <1>3, TotalOfSame DEF BytesIn

\* Disjoint sets.
LEMMA BytesUnion ==
  ASSUME NEW z \in Sizes, NEW S, NEW T, S \cap T = {}
  PROVE  BytesIn(z, S \cup T) = BytesIn(z, S) + BytesIn(z, T)
<1>1. PICK f, g, h : /\ f = [a \in Ids |-> IF a \in S \cup T THEN z[a] ELSE 0]
                     /\ g = [a \in Ids |-> IF a \in S THEN z[a] ELSE 0]
                     /\ h = [a \in Ids |-> IF a \in T THEN z[a] ELSE 0]
  OBVIOUS
<1>2. Summable(g, Maximum) /\ Summable(h, Maximum) /\ Maximum \in Nat
  BY <1>1, BytesSummable
<1>3. Adds(f, g, h, Maximum)
  BY <1>1 DEF Ids, Sizes, Adds
<1>4. Total(f, Maximum) = Total(g, Maximum) + Total(h, Maximum)
  BY <1>2, <1>3, TotalOfBoth
<1>5. BytesIn(z, S \cup T) = Total(f, Maximum)
  BY <1>1 DEF BytesIn
<1>6. BytesIn(z, S) = Total(g, Maximum) /\ BytesIn(z, T) = Total(h, Maximum)
  BY <1>1 DEF BytesIn
<1>7. QED
  BY <1>4, <1>5, <1>6

LEMMA BytesOfNone == ASSUME NEW z \in Sizes PROVE BytesIn(z, {}) = 0
<1>1. PICK f : f = [a \in Ids |-> IF a \in {} THEN z[a] ELSE 0]
  OBVIOUS
<1>2. Maximum \in Nat /\ \A i \in 1..Maximum : f[i] = 0
  BY <1>1, MemoryAssumption DEF Ids
<1>3. QED
  BY <1>1, <1>2, TotalOfZeros DEF BytesIn

LEMMA BytesOfOne == ASSUME NEW z \in Sizes, NEW a \in Ids PROVE BytesIn(z, {a}) = z[a]
<1>0. PICK none : none = {}
  OBVIOUS
<1>1. PICK f, g : /\ f = [b \in Ids |-> IF b \in none THEN z[b] ELSE 0]
                  /\ g = [b \in Ids |-> IF b \in {a} THEN z[b] ELSE 0]
  OBVIOUS
<1>2. Summable(f, Maximum) /\ Maximum \in Nat /\ a \in 1..Maximum
  <2>1. Summable(f, Maximum) /\ Maximum \in Nat
    BY <1>1, BytesSummable
  <2>2. QED
    BY <2>1 DEF Ids
<1>3. /\ g[a] = z[a] /\ g[a] \in Nat /\ f[a] = 0
      /\ \A i \in 1..Maximum : i # a => g[i] = f[i]
  BY <1>0, <1>1 DEF Ids, Sizes
<1>4. Total(g, Maximum) \in Nat /\ Total(g, Maximum) + f[a] = Total(f, Maximum) + g[a]
  <2>1. Exchange(f, g, Maximum, a)
    BY <1>2, <1>3, TotalOfChange
  <2>2. QED
    BY <2>1 DEF Exchange
<1>5. Total(f, Maximum) = 0
  <2>1. BytesIn(z, none) = 0
    BY <1>0, BytesOfNone
  <2>2. QED
    BY <1>1, <2>1 DEF BytesIn
<1>6. QED
  BY <1>1, <1>3, <1>4, <1>5 DEF BytesIn

\* A set with one allocation more.
LEMMA BytesOfMore ==
  ASSUME NEW z \in Sizes, NEW S, NEW a \in Ids, a \notin S
  PROVE  BytesIn(z, S \cup {a}) = BytesIn(z, S) + z[a]
<1>0. PICK T : T = {a}
  OBVIOUS
<1>1. T = {a} /\ S \cap T = {}
  BY <1>0
<1>2. BytesIn(z, S \cup T) = BytesIn(z, S) + BytesIn(z, T)
  BY <1>1, BytesUnion
<1>3. BytesIn(z, {a}) = z[a]
  BY BytesOfOne
<1>4. QED
  BY <1>1, <1>2, <1>3

\* A part of a set.
LEMMA BytesOfLess ==
  ASSUME NEW z \in Sizes, NEW S, NEW T \in SUBSET S
  PROVE  /\ BytesIn(z, S) = BytesIn(z, T) + BytesIn(z, S \ T)
         /\ BytesIn(z, S) \in Nat /\ BytesIn(z, T) \in Nat /\ BytesIn(z, S \ T) \in Nat
         /\ BytesIn(z, T) <= BytesIn(z, S)
<1>1. T \cap (S \ T) = {} /\ T \cup (S \ T) = S
  OBVIOUS
<1>2. BytesIn(z, T \cup (S \ T)) = BytesIn(z, T) + BytesIn(z, S \ T)
  BY <1>1, BytesUnion
<1>3. BytesIn(z, S) \in Nat /\ BytesIn(z, T) \in Nat /\ BytesIn(z, S \ T) \in Nat
  BY BytesType
<1>4. QED
  BY <1>1, <1>2, <1>3

\* A ledger with room for one byte more has a free allocation.
LEMMA FreeExists ==
  ASSUME NEW z \in Sizes, NEW S, S = {a \in Ids : z[a] # 0}, BytesIn(z, S) < Maximum
  PROVE  Ids \ S # {} /\ Min(Ids \ S) \in Ids \ S
<1>1. ASSUME Ids \ S = {} PROVE FALSE
  <2>1. PICK f : f = [a \in Ids |-> IF a \in S THEN z[a] ELSE 0]
    OBVIOUS
  <2>2. Summable(f, Maximum) /\ Maximum \in Nat
    BY <2>1, BytesSummable
  <2>3. \A i \in 1..Maximum : f[i] >= 1
    BY <1>1, <2>1 DEF Ids, Sizes
  <2>4. Total(f, Maximum) >= Maximum
    BY <2>2, <2>3, TotalOfOnes
  <2>5. QED
    BY <2>1, <2>2, <2>4, BytesType DEF BytesIn
<1>2. PICK x \in Ids \ S : \A y \in Ids \ S : x <= y
  <2>1. Ids \ S \in SUBSET Nat
    BY DEF Ids
  <2>2. QED
    BY <1>1, <2>1, LeastNatural
<1>3. QED
  BY <1>1, <1>2 DEF Min

\* The amounts a state charges are those of its sizes, now and in the next state.
LEMMA BytesAre == ASSUME NEW S PROVE Bytes(S) = BytesIn(size, S)
  BY DEF Bytes, BytesIn

-----------------------------------------------------------------------------
\* References

RefersTo(h, o, m, s) == Handles(h, o) \cup MemoIds(m) \cup ({s} \ {0})

LEMMA InMemo == ASSUME NEW m, NEW a
                PROVE  a \in MemoIds(m) <=> a # 0 /\ \E k \in Keys : a = m[k]
  BY DEF MemoIds

Refers(h, o, m, s, a) ==
  \/ \E t \in Threads : a \in h[t] \/ a \in o[t]
  \/ a # 0 /\ \E k \in Keys : a = m[k]
  \/ a # 0 /\ a = s

LEMMA InRefs ==
  ASSUME NEW h, NEW o, NEW m, NEW s, NEW a
  PROVE  a \in RefersTo(h, o, m, s) <=> Refers(h, o, m, s, a)
  BY InMemo DEF RefersTo, Handles, Refers

LEMMA RefsAre == /\ References = RefersTo(held, old, memo, slot)
                 /\ References' = RefersTo(held', old', memo', slot')
  BY DEF References, RefersTo, Slotted, Handles, MemoIds

\* Dropping references releases what nobody refers to any more, and no more.
LEMMA ReclaimKeeps ==
  ASSUME HoldInv, NEW refs \in SUBSET Live, Reclaim(refs)
  PROVE  /\ size' \in Sizes /\ Live' = refs /\ retained' = BytesIn(size', refs)
         /\ retained' \in Nat /\ retained' <= retained
         /\ \A a \in refs : size'[a] = size[a]
         /\ UNCHANGED <<working, independent, owners>>
<1>1. PICK dead : dead = Live \ refs
  OBVIOUS
<1>2. /\ size' = [a \in Ids |-> IF a \in dead THEN 0 ELSE size[a]]
      /\ retained' = retained - BytesIn(size, dead)
      /\ UNCHANGED <<working, independent, owners>>
  BY <1>1, BytesAre DEF Reclaim
<1>3. size \in Sizes /\ size' \in Sizes /\ retained = BytesIn(size, Live) /\ retained \in Nat
  BY <1>2, BytesAre DEF HoldInv, RetainedMatches, Sizes
<1>4. Live' = refs /\ \A a \in refs : size'[a] = size[a]
  BY <1>1, <1>2 DEF Live
<1>5. /\ BytesIn(size, Live) = BytesIn(size, refs) + BytesIn(size, Live \ refs)
      /\ BytesIn(size, refs) \in Nat /\ BytesIn(size, Live \ refs) \in Nat
  BY <1>3, BytesOfLess
<1>6. BytesIn(size', refs) = BytesIn(size, refs)
  <2>1. PICK y, z : y = size' /\ z = size
    OBVIOUS
  <2>2. y \in Sizes /\ z \in Sizes /\ \A a \in refs \cap Ids : y[a] = z[a]
    BY <1>3, <1>4, <2>1
  <2>3. BytesIn(y, refs) = BytesIn(z, refs)
    BY <2>2, BytesSame
  <2>4. QED
    BY <2>1, <2>3
<1>7. QED
  BY <1>1, <1>2, <1>3, <1>4, <1>5, <1>6

-----------------------------------------------------------------------------
\* The allocations

HoldVars == <<size, held, old, memo, slot, retained>>

LEMMA HoldStutters ==
  ASSUME HoldInv, UNCHANGED HoldVars PROVE HoldInv'
  BY DEF HoldInv, HoldVars, RetainedMatches, Live, References, Handles, Slotted, Bytes

\* Whoever gets another handle of what is referred to already.
LEMMA HandleKeeps ==
  ASSUME HoldInv, NEW t \in Threads, NEW a \in References,
         held' = [held EXCEPT ![t] = @ \cup {a}], UNCHANGED <<size, old, memo, slot, retained>>
  PROVE  HoldInv'
<1>1. References \in SUBSET Ids
  BY DEF HoldInv, RetainedMatches, Live
<1>2. held' \in [Threads -> SUBSET Ids]
  BY <1>1 DEF HoldInv
<1>3. References' = References
  <2>1. \A b : b \in RefersTo(held', old', memo', slot') <=> b \in RefersTo(held, old, memo, slot)
    <3> SUFFICES ASSUME NEW b
                 PROVE  b \in RefersTo(held', old', memo', slot')
                           <=> b \in RefersTo(held, old, memo, slot)
      OBVIOUS
    <3>1. (\E u \in Threads : b \in held'[u] \/ b \in old'[u]) <=>
             b = a \/ (\E u \in Threads : b \in held[u] \/ b \in old[u])
      BY DEF HoldInv
    <3>2. a \in RefersTo(held, old, memo, slot)
      BY RefsAre
    <3>3. PICK h, m, s, o, g : h = held /\ g = held' /\ m = memo /\ s = slot /\ o = old
      OBVIOUS
    <3>4. a \in RefersTo(h, o, m, s)
      BY <3>2, <3>3
    <3>5. /\ b \in RefersTo(g, o, m, s) <=> Refers(g, o, m, s, b)
          /\ b \in RefersTo(h, o, m, s) <=> Refers(h, o, m, s, b)
      BY InRefs
    <3>6. (\E u \in Threads : b \in g[u] \/ b \in o[u]) <=>
             b = a \/ (\E u \in Threads : b \in h[u] \/ b \in o[u])
      BY <3>1, <3>3
    <3>7. b \in RefersTo(g, o, m, s) <=> b \in RefersTo(h, o, m, s)
      BY <3>4, <3>5, <3>6 DEF Refers
    <3>8. QED
      BY <3>3, <3>7
  <2>2. QED
    BY <2>1, RefsAre
<1>4. Live' = Live /\ Bytes(Live)' = Bytes(Live)
  BY DEF Live, Bytes
<1>5. QED
  BY <1>2, <1>3, <1>4 DEF HoldInv, RetainedMatches

\* Whoever gives up a reference, with the memo and the other handles as they were.
LEMMA DropKeeps ==
  ASSUME HoldInv, NEW refs, refs = RefersTo(held', old', memo', slot'), refs \subseteq References,
         Reclaim(refs), held' \in [Threads -> SUBSET Ids], old' \in [Threads -> SUBSET Ids],
         memo' \in [Keys -> Ids \cup {0}], slot' \in Ids \cup {0}
  PROVE  /\ HoldInv' /\ retained' <= retained
         /\ \A a \in refs : size'[a] = size[a]
         /\ UNCHANGED <<working, independent, owners>>
<1>1. refs \in SUBSET Live
  BY DEF HoldInv, RetainedMatches
<1>2. /\ size' \in Sizes /\ Live' = refs /\ retained' = BytesIn(size', refs)
      /\ retained' \in Nat /\ retained' <= retained
      /\ \A a \in refs : size'[a] = size[a]
      /\ UNCHANGED <<working, independent, owners>>
  BY <1>1, ReclaimKeeps
<1>3. Bytes(Live)' = BytesIn(size', refs) /\ References' = refs
  BY <1>2, RefsAre DEF Bytes, BytesIn
<1>4. QED
  BY <1>2, <1>3 DEF HoldInv, RetainedMatches, Sizes

\* The slot is emptied.
LEMMA EmptySlotKeeps ==
  ASSUME HoldInv, slot' = 0, UNCHANGED <<held, old, memo>>,
         Reclaim(Handles(held, old) \cup MemoIds(memo))
  PROVE  /\ HoldInv' /\ retained' <= retained
         /\ \A a \in References' : size'[a] = size[a]
         /\ UNCHANGED <<working, independent, owners>>
<1>1. PICK refs : refs = Handles(held, old) \cup MemoIds(memo)
  OBVIOUS
<1>2. refs = RefersTo(held', old', memo', slot') /\ refs \subseteq References /\ Reclaim(refs)
  BY <1>1 DEF RefersTo, References
<1>3. /\ held' \in [Threads -> SUBSET Ids] /\ old' \in [Threads -> SUBSET Ids]
      /\ memo' \in [Keys -> Ids \cup {0}] /\ slot' \in Ids \cup {0}
  BY DEF HoldInv
<1>4. /\ HoldInv' /\ retained' <= retained /\ (\A a \in refs : size'[a] = size[a])
      /\ UNCHANGED <<working, independent, owners>>
  BY <1>2, <1>3, DropKeeps
<1>5. References' = refs
  BY <1>2, RefsAre
<1>6. QED
  BY <1>4, <1>5

\* Handles are given up.
LEMMA FewerHandlesKeep ==
  ASSUME HoldInv, UNCHANGED <<memo, slot>>,
         held' \in [Threads -> SUBSET Ids], old' \in [Threads -> SUBSET Ids],
         \A t \in Threads : held'[t] \subseteq held[t] /\ old'[t] \subseteq old[t],
         Reclaim(Handles(held', old') \cup MemoIds(memo) \cup Slotted)
  PROVE  /\ HoldInv' /\ retained' <= retained
         /\ \A a \in References' : size'[a] = size[a]
         /\ UNCHANGED <<working, independent, owners>>
<1>1. PICK refs : refs = Handles(held', old') \cup MemoIds(memo) \cup Slotted
  OBVIOUS
<1>2. refs = RefersTo(held', old', memo', slot') /\ Reclaim(refs)
  BY <1>1 DEF RefersTo, Slotted
<1>3. refs \subseteq References
  <2>1. Handles(held', old') \subseteq Handles(held, old)
    BY DEF Handles
  <2>2. QED
    BY <1>1, <2>1 DEF References
<1>4. memo' \in [Keys -> Ids \cup {0}] /\ slot' \in Ids \cup {0}
  BY DEF HoldInv
<1>5. /\ HoldInv' /\ retained' <= retained /\ (\A a \in refs : size'[a] = size[a])
      /\ UNCHANGED <<working, independent, owners>>
  BY <1>2, <1>3, <1>4, DropKeeps
<1>6. References' = refs
  BY <1>2, RefsAre
<1>7. QED
  BY <1>5, <1>6

LEMMA DropOneKeeps ==
  ASSUME HoldInv, NEW t \in Threads, DropOne(t)
  PROVE  /\ HoldInv' /\ retained' <= retained
         /\ \A a \in References' : size'[a] = size[a]
         /\ UNCHANGED <<working, independent, owners>>
         /\ \A u \in Threads : old'[u] \subseteq old[u]
<1>1. PICK a \in old[t] :
         /\ old' = [old EXCEPT ![t] = @ \ {a}]
         /\ Reclaim(Handles(held, old') \cup MemoIds(memo) \cup Slotted)
  BY DEF DropOne
<1>2. UNCHANGED <<held, memo, slot>>
  BY DEF DropOne, store
<1>3. Reclaim(Handles(held', old') \cup MemoIds(memo) \cup Slotted)
  <2>1. held' = held
    BY <1>2
  <2>2. QED
    BY <1>1, <2>1
<1>4. /\ held' \in [Threads -> SUBSET Ids] /\ old' \in [Threads -> SUBSET Ids]
      /\ \A u \in Threads : held'[u] \subseteq held[u] /\ old'[u] \subseteq old[u]
  BY <1>1, <1>2 DEF HoldInv
<1>5. QED
  BY <1>2, <1>3, <1>4, FewerHandlesKeep

LEMMA DropHandleKeeps ==
  ASSUME HoldInv, NEW t \in Threads, NEW a, DropHandle(t, a)
  PROVE  /\ HoldInv' /\ retained' <= retained
         /\ \A b \in References' : size'[b] = size[b]
         /\ UNCHANGED <<working, independent, owners>>
         /\ held' = [held EXCEPT ![t] = @ \ {a}] /\ UNCHANGED <<old, memo, slot>>
         /\ \A u \in Threads : held'[u] \subseteq held[u]
<1>1. /\ held' = [held EXCEPT ![t] = @ \ {a}] /\ UNCHANGED <<old, memo, slot>>
      /\ Reclaim(Handles(held', old) \cup MemoIds(memo) \cup Slotted)
  BY DEF DropHandle, store
<1>2. Reclaim(Handles(held', old') \cup MemoIds(memo) \cup Slotted)
  <2>1. old' = old
    BY <1>1
  <2>2. QED
    BY <1>1, <2>1
<1>3. /\ held' \in [Threads -> SUBSET Ids] /\ old' \in [Threads -> SUBSET Ids]
      /\ \A u \in Threads : held'[u] \subseteq held[u] /\ old'[u] \subseteq old[u]
  BY <1>1 DEF HoldInv
<1>4. QED
  BY <1>1, <1>2, <1>3, FewerHandlesKeep

\* The admitted bytes get a free allocation.
LEMMA AdmitRetainedKeeps ==
  ASSUME HoldInv, WorkInv, RequestInv, NEW t \in Threads, AdmitRetained(t)
  PROVE  \E a \in Ids \ Live :
           /\ HoldInv' /\ Used' <= Maximum
           /\ size' = [size EXCEPT ![a] = req[t].bytes]
           /\ held' = [held EXCEPT ![t] = @ \cup {a}]
           /\ req' = [req EXCEPT ![t] = [req[t] EXCEPT !.alloc = a]]
           /\ a \notin References
           /\ UNCHANGED <<old, memo, slot>>
<1>1. PICK b : b = req[t].bytes
  OBVIOUS
<1>2. PICK a : /\ a = Min(Ids \ Live)
               /\ size' = [size EXCEPT ![a] = b]
               /\ held' = [held EXCEPT ![t] = @ \cup {a}]
               /\ req' = [req EXCEPT ![t] = [req[t] EXCEPT !.alloc = a]]
  BY <1>1 DEF AdmitRetained, Ask
<1>3. /\ retained' = retained + b /\ working' = working /\ UNCHANGED <<old, memo, slot>>
      /\ b <= Maximum - (retained + working)
  BY <1>1 DEF AdmitRetained, Fits, Used, store
<1>4. b \in Nat /\ b # 0
  <2>1. t \in Threads /\ RequestOK(t) /\ req[t] \in Requests /\ ~IsWork(t) /\ pc[t] # "idle"
    BY DEF RequestInv, AdmitRetained, Reserving
  <2>2. req[t].kind \in {"value", "source"}
    BY <2>1 DEF RequestOK, Requests, Kinds, IsWork
  <2>3. QED
    BY <1>1, <2>1, <2>2, MemoryAssumption DEF RequestOK, Requests
<1>5. /\ size \in Sizes /\ retained = BytesIn(size, Live) /\ retained \in Nat /\ working \in Nat
      /\ Maximum \in Nat /\ Live = References
  BY BytesAre, MemoryAssumption DEF HoldInv, WorkInv, RetainedMatches, Sizes
<1>6. a \in Ids \ Live
  <2>1. BytesIn(size, Live) < Maximum
    BY <1>3, <1>4, <1>5
  <2>2. PICK S, z : S = Live /\ z = size
    OBVIOUS
  <2>3. S = {x \in Ids : z[x] # 0} /\ z \in Sizes /\ BytesIn(z, S) < Maximum
    BY <1>5, <2>1, <2>2 DEF Live
  <2>4. Min(Ids \ S) \in Ids \ S
    BY <2>3, FreeExists
  <2>5. QED
    BY <1>2, <2>2, <2>4
<1>7. size' \in Sizes /\ Live' = Live \cup {a}
  BY <1>2, <1>4, <1>5, <1>6 DEF Live, Sizes
<1>8. Bytes(Live)' = BytesIn(size, Live) + b
  <2>1. PICK y, z, S : y = size' /\ z = size /\ S = Live
    OBVIOUS
  <2>2. y \in Sizes /\ z \in Sizes /\ a \in Ids /\ a \notin S /\ y[a] = b
        /\ \A x \in S \cap Ids : y[x] = z[x]
    BY <1>2, <1>5, <1>6, <1>7, <2>1 DEF Sizes
  <2>3. BytesIn(y, S \cup {a}) = BytesIn(y, S) + y[a]
    BY <2>2, BytesOfMore
  <2>4. BytesIn(y, S) = BytesIn(z, S)
    BY <2>2, BytesSame
  <2>5. Bytes(Live)' = BytesIn(y, S \cup {a})
    BY <1>7, <2>1 DEF Bytes, BytesIn
  <2>6. QED
    BY <2>1, <2>2, <2>3, <2>4, <2>5
<1>9. References' = References \cup {a}
  <2>1. Handles(held', old') = Handles(held, old) \cup {a}
    BY <1>2, <1>3 DEF Handles, HoldInv
  <2>2. QED
    BY <1>3, <2>1 DEF References, Slotted, MemoIds
<1>10. held' \in [Threads -> SUBSET Ids]
  BY <1>2, <1>6 DEF HoldInv
<1>11. retained' \in Nat /\ Used' <= Maximum /\ retained' = Bytes(Live)'
  BY <1>3, <1>4, <1>5, <1>8 DEF Used
<1>12. HoldInv'
  BY <1>3, <1>5, <1>7, <1>9, <1>10, <1>11 DEF HoldInv, RetainedMatches, Sizes
<1>13. QED
  BY <1>1, <1>2, <1>3, <1>5, <1>6, <1>11, <1>12

\* What a clear takes out of the memo, the thread still refers to.
LEMMA TakeMemoKeeps ==
  ASSUME HoldInv, RequestInv, NEW t \in Threads, TakeMemo(t) PROVE HoldInv'
<1>1. /\ old' = [old EXCEPT ![t] = MemoIds(memo)] /\ memo' = [k \in Keys |-> 0]
      /\ UNCHANGED <<size, held, slot, retained>> /\ pc[t] = "take"
  BY DEF TakeMemo, ledger
<1>2. old[t] = {}
  BY <1>1 DEF RequestInv, RequestOK
<1>3. MemoIds(memo) \in SUBSET Ids /\ MemoIds(memo') = {}
  BY <1>1 DEF HoldInv, MemoIds
<1>4. Handles(held', old') = Handles(held, old) \cup MemoIds(memo)
  BY <1>1, <1>2 DEF HoldInv, Handles
<1>5. References' = References
  BY <1>1, <1>3, <1>4 DEF References, Slotted
<1>6. Live' = Live /\ Bytes(Live)' = Bytes(Live)
  BY <1>1 DEF Live, Bytes
<1>7. QED
  BY <1>1, <1>3, <1>5, <1>6 DEF HoldInv, RetainedMatches

\* The slot was emptied when the source was asked for.
LEMMA KeepSourceKeeps ==
  ASSUME HoldInv, RequestInv, NEW t \in Threads, KeepSource(t) PROVE HoldInv'
<1>1. PICK a : a = req[t].alloc
  OBVIOUS
<1>2. /\ slot' = a /\ UNCHANGED <<size, held, old, memo, retained>>
      /\ pc[t] = "built" /\ req[t].kind = "source"
  BY <1>1 DEF KeepSource, ledger, store
<1>3. slot = 0 /\ a \in held[t] /\ a \in Ids
  BY <1>1, <1>2 DEF RequestInv, RequestOK, Fresh, HoldInv
<1>4. References' = References
  BY <1>2, <1>3 DEF References, Slotted, Handles, MemoIds
<1>5. Live' = Live /\ Bytes(Live)' = Bytes(Live)
  BY <1>2 DEF Live, Bytes
<1>6. QED
  BY <1>2, <1>3, <1>4, <1>5 DEF HoldInv, RetainedMatches

-----------------------------------------------------------------------------
\* The entries of the memo

\* The allocations of the n oldest entries.
OldestIds(n) == {memo[recency[i]] : i \in 1..n}

LEMMA RecencyFacts ==
  ASSUME HoldInv, MemoInv
  PROVE  /\ Len(recency) \in Nat /\ DOMAIN recency = 1..Len(recency)
         /\ \A i \in 1..Len(recency) : /\ recency[i] \in Keys /\ memo[recency[i]] \in Ids
                                       /\ memo[recency[i]] # 0
                                       /\ size[memo[recency[i]]] = Weight[recency[i]]
                                       /\ Weight[recency[i]] \in Nat
         /\ OldestIds(Len(recency)) = MemoIds(memo)
<1>1. /\ Len(recency) \in Nat /\ DOMAIN recency = 1..Len(recency)
      /\ \A i \in 1..Len(recency) : recency[i] \in Keys
  BY DEF MemoInv
<1>2. \A k \in Keys : memo[k] # 0 <=> \E i \in 1..Len(recency) : recency[i] = k
  BY <1>1 DEF MemoInv, MemoMatches
<1>3. \A i \in 1..Len(recency) : memo[recency[i]] # 0
  BY <1>1, <1>2
<1>4. OldestIds(Len(recency)) = MemoIds(memo)
  BY <1>1, <1>2 DEF OldestIds, MemoIds
<1>5. QED
  BY <1>1, <1>3, <1>4, MemoryAssumption DEF HoldInv, MemoInv, EntriesOwn

\* The bytes of the oldest entries are those of their allocations.
LEMMA FreedIs ==
  ASSUME HoldInv, MemoInv, NEW n \in 0..Len(recency)
  PROVE  Freed(n) = BytesIn(size, OldestIds(n)) /\ OldestIds(n) \subseteq MemoIds(memo)
<1>1. PICK w : w = [i \in 1..Len(recency) |-> Weight[recency[i]]]
  OBVIOUS
<1>2. /\ Len(recency) \in Nat /\ Summable(w, Len(recency)) /\ size \in Sizes
      /\ \A i \in 1..Len(recency) : w[i] = size[memo[recency[i]]] /\ memo[recency[i]] \in Ids
  BY <1>1, RecencyFacts DEF Summable, HoldInv, Sizes
<1> DEFINE Done == {m \in Nat : m <= Len(recency) => Total(w, m) = BytesIn(size, OldestIds(m))}
<1>3. 0 \in Done
  <2>1. OldestIds(0) = {} /\ Total(w, 0) = 0
    BY TotalOfNone DEF OldestIds
  <2>2. BytesIn(size, {}) = 0
    BY <1>2, BytesOfNone
  <2>3. QED
    BY <2>1, <2>2
<1>4. ASSUME NEW m \in Nat, m \in Done PROVE m + 1 \in Done
  <2> SUFFICES ASSUME m + 1 <= Len(recency)
               PROVE  Total(w, m + 1) = BytesIn(size, OldestIds(m + 1))
    OBVIOUS
  <2>1. PICK a, S, z : a = memo[recency[m + 1]] /\ S = OldestIds(m) /\ z = size
    OBVIOUS
  <2>2. a \in Ids /\ z \in Sizes /\ w[m + 1] = z[a] /\ Total(w, m) = BytesIn(z, S)
    BY <1>2, <1>4, <2>1
  <2>3. a \notin S
    <3>1. \A i \in 1..m : memo[recency[i]] # memo[recency[m + 1]]
      <4> SUFFICES ASSUME NEW i \in 1..m, memo[recency[i]] = memo[recency[m + 1]] PROVE FALSE
        OBVIOUS
      <4>1. i \in 1..Len(recency) /\ m + 1 \in 1..Len(recency) /\ i # m + 1
        BY <1>2
      <4>2. recency[i] = recency[m + 1]
        BY <4>1, RecencyFacts DEF MemoInv, EntriesOwn
      <4>3. i = m + 1
        BY <4>1, <4>2, RecencyFacts DEF MemoInv, MemoMatches
      <4>4. QED
        BY <4>1, <4>3
    <3>2. QED
      BY <2>1, <3>1 DEF OldestIds
  <2>4. OldestIds(m + 1) = S \cup {a}
    BY <2>1 DEF OldestIds
  <2>5. Summable(w, m + 1)
    BY <1>2 DEF Summable
  <2>6. Total(w, m + 1) = Total(w, m) + w[m + 1]
    BY <2>5, TotalOfMore
  <2>7. BytesIn(z, S \cup {a}) = BytesIn(z, S) + z[a]
    BY <2>2, <2>3, BytesOfMore
  <2>8. QED
    BY <2>1, <2>2, <2>4, <2>6, <2>7
<1>5. n \in Nat /\ n <= Len(recency)
  BY <1>2
<1>6. n \in Done
  <2> HIDE DEF Done
  <2> QED BY <1>3, <1>4, <1>5, SetInduction
<1>7. Freed(n) = Total(w, n)
  <2>1. PICK v : v = [i \in 1..n |-> Weight[recency[i]]]
    OBVIOUS
  <2>2. Summable(w, n) /\ \A i \in 1..n : v[i] = w[i]
    BY <1>1, <1>2, <1>5, <2>1 DEF Summable
  <2>3. Total(v, n) = Total(w, n)
    BY <1>5, <2>2, TotalOfSame
  <2>4. QED
    BY <2>1, <2>3 DEF Freed
<1>8. OldestIds(n) \subseteq OldestIds(Len(recency))
  BY <1>2, <1>5 DEF OldestIds
<1>9. QED
  BY <1>5, <1>6, <1>7, <1>8, RecencyFacts

\* There is room for the new entry, if it may be kept at all.
LEMMA EvictionsAre ==
  ASSUME HoldInv, MemoInv, NEW b \in Nat, b <= MemoMaximum, NEW n, n = Evictions(b)
  PROVE  /\ n \in 0..Len(recency) /\ Freed(n) \in Nat /\ Freed(n) <= memoRetained
         /\ memoRetained - Freed(n) + b <= MemoMaximum
<1>1. PICK S : S = {m \in 0..Len(recency) :
                     m = Len(recency) \/ b <= MemoMaximum - (memoRetained - Freed(m))}
  OBVIOUS
<1>2. Len(recency) \in S /\ S \in SUBSET Nat
  BY <1>1, RecencyFacts
<1>3. PICK x \in S : \A y \in S : x <= y
  BY <1>2, LeastNatural
<1>4. n = Min(S)
  BY <1>1 DEF Evictions
<1>5. n \in S
  BY <1>3, <1>4 DEF Min
<1>6. n \in 0..Len(recency)
  BY <1>1, <1>5
<1>7. /\ size \in Sizes /\ memoRetained = BytesIn(size, MemoIds(memo)) /\ memoRetained \in Nat
      /\ MemoMaximum \in Nat
  BY BytesAre, MemoryAssumption DEF HoldInv, Sizes, MemoInv, MemoMatches
<1>8. Freed(n) = BytesIn(size, OldestIds(n)) /\ OldestIds(n) \in SUBSET MemoIds(memo)
  BY <1>6, FreedIs
<1>9. Freed(n) \in Nat /\ Freed(n) <= memoRetained
  <2>1. PICK z, S2, T : z = size /\ S2 = MemoIds(memo) /\ T = OldestIds(n)
    OBVIOUS
  <2>2. BytesIn(z, T) \in Nat /\ BytesIn(z, T) <= BytesIn(z, S2)
    BY <1>7, <1>8, <2>1, BytesOfLess
  <2>3. QED
    BY <1>7, <1>8, <2>1, <2>2
<1>10. CASE n = Len(recency)
  <2>1. Freed(n) = memoRetained
    BY <1>7, <1>8, <1>10, RecencyFacts
  <2>2. QED
    BY <1>6, <1>7, <1>9, <2>1
<1>11. CASE b <= MemoMaximum - (memoRetained - Freed(n))
  BY <1>6, <1>7, <1>9, <1>11
<1>12. QED
  BY <1>1, <1>5, <1>10, <1>11

-----------------------------------------------------------------------------
\* An insertion

InsertDoes(t, k, a, n) ==
  /\ k \in Keys /\ a \in Ids /\ a = req[t].alloc /\ n = Evictions(Weight[k])
  /\ n \in 0..Len(recency) /\ memo[k] = 0 /\ a \in held[t] /\ a \notin MemoIds(memo)
  /\ size[a] = Weight[k] /\ Weight[k] \in Nat /\ Weight[k] <= MemoMaximum
  /\ a # slot /\ old[t] = {}
  /\ memo' = [j \in Keys |-> IF j = k THEN a
                             ELSE IF \E i \in 1..n : recency[i] = j THEN 0 ELSE memo[j]]
  /\ recency' = Append(SubSeq(recency, n + 1, Len(recency)), k)
  /\ memoRetained' = memoRetained - Freed(n) + Weight[k]
  /\ old' = [old EXCEPT ![t] = OldestIds(n)]
  /\ UNCHANGED <<size, held, slot, retained, entrants>>

LEMMA InsertFacts ==
  ASSUME HoldInv, MemoInv, RequestInv, NEW t \in Threads, Insert(t), UNCHANGED entrants
  PROVE  \E k, a, n : InsertDoes(t, k, a, n)
<1>1. PICK k, a, n, out : /\ k = req[t].key /\ a = req[t].alloc /\ n = Evictions(Weight[k])
                          /\ out = {recency[i] : i \in 1..n}
  OBVIOUS
<1>2. pc[t] = "built" /\ req[t].kind = "value" /\ Weight[k] <= MemoMaximum /\ memo[k] = 0
  BY <1>1 DEF Insert
<1>3. /\ memo' = [j \in Keys |-> IF j = k THEN a ELSE IF j \in out THEN 0 ELSE memo[j]]
      /\ recency' = Append(SubSeq(recency, n + 1, Len(recency)), k)
      /\ memoRetained' = memoRetained - Freed(n) + Weight[k]
      /\ old' = [old EXCEPT ![t] = {memo[j] : j \in out}]
      /\ UNCHANGED <<size, held, slot, retained>>
  BY <1>1 DEF Insert, ledger
<1>4. RequestOK(t) /\ Fresh(t)
  BY <1>2 DEF RequestInv, RequestOK
<1>5. k \in Keys /\ size[a] = Weight[k] /\ a \in held[t] /\ a \notin MemoIds(memo) /\ a # slot
  BY <1>1, <1>2, <1>4 DEF RequestOK, Fresh
<1>6. Weight[k] \in Nat /\ a \in Ids /\ old[t] = {}
  BY <1>2, <1>4, <1>5, MemoryAssumption DEF HoldInv, RequestOK
<1>7. n \in 0..Len(recency)
  BY <1>1, <1>2, <1>6, EvictionsAre
<1>8. {memo[j] : j \in out} = OldestIds(n)
  BY <1>1 DEF OldestIds
<1>9. memo' = [j \in Keys |-> IF j = k THEN a
                              ELSE IF \E i \in 1..n : recency[i] = j THEN 0 ELSE memo[j]]
  <2>1. \A j \in Keys : j \in out <=> \E i \in 1..n : recency[i] = j
    BY <1>1
  <2>2. QED
    BY <1>3, <2>1
<1>10. InsertDoes(t, k, a, n)
  BY <1>1, <1>2, <1>3, <1>5, <1>6, <1>7, <1>8, <1>9 DEF InsertDoes
<1>11. QED
  BY <1>10

\* The evicted entries leave the memo and the new one enters it.
LEMMA InsertIds ==
  ASSUME HoldInv, MemoInv, NEW t \in Threads, NEW k, NEW a, NEW n, InsertDoes(t, k, a, n)
  PROVE  /\ MemoIds(memo') = (MemoIds(memo) \ OldestIds(n)) \cup {a}
         /\ OldestIds(n) \in SUBSET MemoIds(memo)
<1>1. OldestIds(n) \in SUBSET MemoIds(memo)
  BY FreedIs DEF InsertDoes
<1>2. ASSUME NEW j \in Keys, memo[j] # 0
      PROVE  (\E i \in 1..n : recency[i] = j) <=> memo[j] \in OldestIds(n)
  <2>1. ASSUME memo[j] \in OldestIds(n) PROVE \E i \in 1..n : recency[i] = j
    <3>1. PICK i \in 1..n : memo[recency[i]] = memo[j]
      BY <2>1 DEF OldestIds
    <3>2. i \in 1..Len(recency)
      BY RecencyFacts DEF InsertDoes
    <3>3. recency[i] = j
      BY <1>2, <3>1, <3>2, RecencyFacts DEF MemoInv, EntriesOwn
    <3>4. QED
      BY <3>3
  <2>2. QED
    BY <2>1 DEF OldestIds
<1>3. \A j \in Keys : memo'[j] = IF j = k THEN a
                                 ELSE IF \E i \in 1..n : recency[i] = j THEN 0 ELSE memo[j]
  BY DEF InsertDoes
<1>4. a # 0 /\ k \in Keys /\ memo[k] = 0
  BY DEF InsertDoes, Ids
<1>5. ASSUME NEW x PROVE x \in MemoIds(memo') <=> x \in (MemoIds(memo) \ OldestIds(n)) \cup {a}
  <2>1. x \in MemoIds(memo') <=> x # 0 /\ \E j \in Keys : x = memo'[j]
    BY DEF MemoIds
  <2>2. x \in MemoIds(memo) <=> x # 0 /\ \E j \in Keys : x = memo[j]
    BY DEF MemoIds
  <2>3. ASSUME x \in MemoIds(memo') PROVE x = a \/ x \in MemoIds(memo) \ OldestIds(n)
    <3>1. PICK j \in Keys : x = memo'[j] /\ x # 0
      BY <2>1, <2>3
    <3>2. QED
      BY <1>2, <1>3, <2>2, <3>1
  <2>4. ASSUME x \in MemoIds(memo) \ OldestIds(n) PROVE x \in MemoIds(memo')
    <3>1. PICK j \in Keys : x = memo[j] /\ x # 0
      BY <2>2, <2>4
    <3>2. j # k /\ ~(\E i \in 1..n : recency[i] = j)
      BY <1>2, <1>4, <2>4, <3>1
    <3>3. QED
      BY <1>3, <2>1, <3>1, <3>2
  <2>5. ASSUME x = a PROVE x \in MemoIds(memo')
    BY <1>3, <1>4, <2>1, <2>5
  <2>6. QED
    BY <2>3, <2>4, <2>5
<1>6. QED
  BY <1>1, <1>5

LEMMA InsertHolds ==
  ASSUME HoldInv, MemoInv, NEW t \in Threads, NEW k, NEW a, NEW n, InsertDoes(t, k, a, n)
  PROVE  HoldInv'
<1>1. /\ MemoIds(memo') = (MemoIds(memo) \ OldestIds(n)) \cup {a}
      /\ OldestIds(n) \in SUBSET MemoIds(memo)
  BY InsertIds
<1>2. MemoIds(memo) \in SUBSET Ids /\ a \in Handles(held, old)
  BY DEF HoldInv, MemoIds, Handles, InsertDoes
<1>3. Handles(held', old') = Handles(held, old) \cup OldestIds(n)
  BY DEF Handles, InsertDoes, HoldInv
<1>4. References' = References
  <2>1. Slotted' = Slotted /\ MemoIds(memo)' = MemoIds(memo') /\ Handles(held, old)' = Handles(held', old')
    BY DEF Slotted, InsertDoes, MemoIds, Handles
  <2>2. QED
    BY <1>1, <1>2, <1>3, <2>1 DEF References
<1>5. Live' = Live /\ Bytes(Live)' = Bytes(Live)
  BY DEF Live, Bytes, InsertDoes
<1>6. old' \in [Threads -> SUBSET Ids] /\ memo' \in [Keys -> Ids \cup {0}]
  BY <1>1, <1>2 DEF InsertDoes, HoldInv
<1>7. UNCHANGED <<size, held, slot, retained>>
  BY DEF InsertDoes
<1>8. QED
  BY <1>4, <1>5, <1>6, <1>7 DEF HoldInv, RetainedMatches

LEMMA InsertKeepsMemo ==
  ASSUME HoldInv, MemoInv, NEW t \in Threads, NEW k, NEW a, NEW n, InsertDoes(t, k, a, n)
  PROVE  MemoInv'
<1>1. /\ MemoIds(memo') = (MemoIds(memo) \ OldestIds(n)) \cup {a}
      /\ OldestIds(n) \in SUBSET MemoIds(memo)
  BY InsertIds
<1>2. /\ Freed(n) \in Nat /\ Freed(n) <= memoRetained /\ n \in 0..Len(recency)
      /\ memoRetained - Freed(n) + Weight[k] <= MemoMaximum
  <2>1. PICK b : b = Weight[k] /\ b \in Nat /\ b <= MemoMaximum /\ n = Evictions(b)
    BY DEF InsertDoes
  <2>2. QED
    BY <2>1, EvictionsAre
<1>3. memoRetained' \in Nat /\ memoRetained' <= MemoMaximum
  BY <1>2, MemoryAssumption DEF InsertDoes, MemoInv
<1>4. memoRetained' = Bytes(MemoIds(memo))'
  <2>1. PICK z, S, T : z = size /\ S = MemoIds(memo) /\ T = OldestIds(n)
    OBVIOUS
  <2>2. z \in Sizes /\ T \in SUBSET S /\ a \in Ids /\ a \notin S \ T /\ z[a] = Weight[k]
        /\ MemoIds(memo') = (S \ T) \cup {a}
    BY <1>1, <2>1 DEF HoldInv, InsertDoes, Sizes
  <2>3. /\ BytesIn(z, S) = BytesIn(z, T) + BytesIn(z, S \ T)
        /\ BytesIn(z, S) \in Nat /\ BytesIn(z, T) \in Nat /\ BytesIn(z, S \ T) \in Nat
    <3>1. z \in Sizes /\ T \in SUBSET S
      BY <2>2
    <3>2. QED
      BY <3>1, BytesOfLess
  <2>4. BytesIn(z, (S \ T) \cup {a}) = BytesIn(z, S \ T) + z[a]
    BY <2>2, BytesOfMore
  <2>5. Freed(n) = BytesIn(z, T) /\ memoRetained = BytesIn(z, S)
    BY <1>2, <2>1, FreedIs, BytesAre DEF MemoInv, MemoMatches
  <2>6. Bytes(MemoIds(memo))' = BytesIn(z, (S \ T) \cup {a})
    <3>1. size' = z
      BY <2>1 DEF InsertDoes
    <3>2. Bytes(MemoIds(memo))' = BytesIn(size', MemoIds(memo'))
      BY DEF Bytes, BytesIn, MemoIds
    <3>3. QED
      BY <2>2, <3>1, <3>2
  <2>7. memoRetained' = memoRetained - Freed(n) + Weight[k]
    BY DEF InsertDoes
  <2>8. QED
    BY <2>2, <2>3, <2>4, <2>5, <2>6, <2>7
<1>5. PICK m : m = Len(recency) - n
  OBVIOUS
<1>6. /\ m \in Nat /\ recency' \in Seq(Keys) /\ Len(recency') = m + 1
      /\ DOMAIN recency' = 1..(m + 1) /\ recency'[m + 1] = k
      /\ \A i \in 1..m : recency'[i] = recency[n + i] /\ n + i \in 1..Len(recency)
  <2>1. PICK s : s = SubSeq(recency, n + 1, Len(recency))
    OBVIOUS
  <2>2. /\ recency \in Seq(Keys) /\ Len(recency) \in Nat /\ n \in 0..Len(recency) /\ k \in Keys
        /\ recency' = Append(s, k)
    BY <1>2, <2>1 DEF MemoInv, InsertDoes
  <2>3. s \in Seq(Keys) /\ Len(s) = m /\ m \in Nat /\ \A i \in 1..m : s[i] = recency[n + i]
    BY <1>5, <2>1, <2>2
  <2>4. \A i \in 1..m : n + i \in 1..Len(recency)
    BY <1>5, <2>2
  <2>5. QED
    BY <2>2, <2>3, <2>4
<1>7. \A i \in 1..Len(recency) : recency[i] # k
  BY RecencyFacts DEF InsertDoes
<1>8. ASSUME NEW i \in 1..(m + 1), NEW j \in 1..(m + 1), recency'[i] = recency'[j] PROVE i = j
  <2>1. CASE i \in 1..m /\ j \in 1..m
    <3>1. n + i \in DOMAIN recency /\ n + j \in DOMAIN recency
      BY <1>6, <2>1, RecencyFacts
    <3>2. recency[n + i] = recency[n + j]
      BY <1>6, <1>8, <2>1
    <3>3. n + i = n + j
      BY <3>1, <3>2 DEF MemoInv, MemoMatches
    <3>4. QED
      BY <1>2, <1>6, <2>1, <3>3
  <2>2. CASE i = m + 1 \/ j = m + 1
    BY <1>6, <1>7, <1>8, <2>2
  <2>3. QED
    BY <1>6, <2>1, <2>2
<1>9. \A j \in Keys : memo'[j] = IF j = k THEN a
                                 ELSE IF \E i \in 1..n : recency[i] = j THEN 0 ELSE memo[j]
  BY DEF InsertDoes
<1>10. a # 0 /\ k \in Keys /\ a \notin MemoIds(memo) /\ size[a] = Weight[k] /\ size' = size
  BY DEF InsertDoes, Ids
<1>11. {recency'[i] : i \in DOMAIN recency'} = {j \in Keys : memo'[j] # 0}
  <2>1. ASSUME NEW i \in 1..(m + 1) PROVE recency'[i] \in Keys /\ memo'[recency'[i]] # 0
    <3>1. CASE i = m + 1
      BY <1>6, <1>9, <1>10, <3>1
    <3>2. CASE i \in 1..m
      <4>1. PICK j : j = recency[n + i] /\ j = recency'[i] /\ j \in Keys /\ memo[j] # 0
        BY <1>6, <3>2, RecencyFacts
      <4>2. ASSUME NEW l \in 1..n, recency[l] = j PROVE FALSE
        <5>1. l \in DOMAIN recency /\ n + i \in DOMAIN recency
          BY <1>2, <1>6, <3>2, RecencyFacts
        <5>2. l = n + i
          BY <4>1, <4>2, <5>1 DEF MemoInv, MemoMatches
        <5>3. QED
          BY <1>2, <3>2, <5>2
      <4>3. QED
        BY <1>9, <1>10, <4>1, <4>2
    <3>3. QED
      BY <1>6, <3>1, <3>2
  <2>2. ASSUME NEW j \in Keys, memo'[j] # 0 PROVE \E i \in 1..(m + 1) : recency'[i] = j
    <3>1. CASE j = k
      BY <1>6, <3>1
    <3>2. CASE j # k
      <4>1. memo[j] # 0 /\ ~(\E i \in 1..n : recency[i] = j)
        BY <1>9, <2>2, <3>2
      <4>2. PICK l \in 1..Len(recency) : recency[l] = j
        BY <4>1, RecencyFacts DEF MemoInv, MemoMatches
      <4>3. l \notin 1..n /\ l - n \in 1..m /\ n + (l - n) = l
        BY <1>2, <1>5, <4>1, <4>2
      <4>4. QED
        BY <1>6, <4>2, <4>3
    <3>3. QED
      BY <3>1, <3>2
  <2>3. DOMAIN recency' = 1..(m + 1)
    BY <1>6
  <2>4. PICK r, f, D : r = recency' /\ f = memo' /\ D = 1..(m + 1)
    OBVIOUS
  <2>5. /\ DOMAIN r = D /\ \A i \in D : r[i] \in Keys /\ f[r[i]] # 0
        /\ \A j \in Keys : f[j] # 0 => \E i \in D : r[i] = j
    BY <2>1, <2>2, <2>3, <2>4
  <2>6. {r[i] : i \in DOMAIN r} = {j \in Keys : f[j] # 0}
    BY <2>5
  <2>7. QED
    BY <2>4, <2>6
<1>12. EntriesOwn'
  <2>1. ASSUME NEW j \in Keys, memo'[j] # 0 PROVE size'[memo'[j]] = Weight[j]
    BY <1>9, <1>10, <2>1 DEF MemoInv, EntriesOwn
  <2>2. ASSUME NEW i \in Keys, NEW j \in Keys, memo'[i] # 0, memo'[i] = memo'[j] PROVE i = j
    <3>1. \A l \in Keys : memo[l] # a
      BY <1>10 DEF MemoIds
    <3>2. QED
      BY <1>9, <1>10, <2>2, <3>1 DEF MemoInv, EntriesOwn
  <2>3. QED
    BY <2>1, <2>2 DEF EntriesOwn
<1>13. MemoMatches'
  BY <1>3, <1>4, <1>6, <1>8, <1>11 DEF MemoMatches
<1>14. QED
  BY <1>3, <1>6, <1>12, <1>13 DEF MemoInv

-----------------------------------------------------------------------------
\* The memo in the other steps

LEMMA MemoStands ==
  ASSUME HoldInv, MemoInv, size' \in Sizes, UNCHANGED <<memo, recency, memoRetained>>,
         \A a \in MemoIds(memo) : size'[a] = size[a]
  PROVE  MemoInv'
<1>1. PICK y, z, S : y = size' /\ z = size /\ S = MemoIds(memo)
  OBVIOUS
<1>2. y \in Sizes /\ z \in Sizes /\ \A a \in S \cap Ids : y[a] = z[a]
  BY <1>1 DEF HoldInv, Sizes
<1>3. BytesIn(y, S) = BytesIn(z, S)
  BY <1>2, BytesSame
<1>4. Bytes(MemoIds(memo))' = Bytes(MemoIds(memo))
  BY <1>1, <1>3 DEF Bytes, BytesIn, MemoIds
<1>5. EntriesOwn'
  <2>1. \A k \in Keys : memo[k] # 0 => memo[k] \in MemoIds(memo)
    BY DEF MemoIds
  <2>2. QED
    BY <2>1 DEF MemoInv, EntriesOwn
<1>6. QED
  BY <1>4, <1>5 DEF MemoInv, MemoMatches

LEMMA MemoRefers == MemoIds(memo) \subseteq References
  BY DEF References

LEMMA EmptyMemo ==
  ASSUME HoldInv, size' = size, memo' = [k \in Keys |-> 0], recency' = <<>>, memoRetained' = 0
  PROVE  MemoInv'
<1>1. MemoIds(memo') = {} /\ size \in Sizes
  BY DEF MemoIds, HoldInv, Sizes
<1>2. BytesIn(size, {}) = 0
  BY <1>1, BytesOfNone
<1>3. Bytes(MemoIds(memo))' = 0
  <2>1. Bytes(MemoIds(memo))' = BytesIn(size', MemoIds(memo'))
    BY DEF Bytes, BytesIn, MemoIds
  <2>2. QED
    BY <1>1, <1>2, <2>1
<1>4. recency' \in Seq(Keys) /\ DOMAIN recency' = {}
  OBVIOUS
<1>5. MemoMatches'
  BY <1>3, <1>4, MemoryAssumption DEF MemoMatches
<1>6. EntriesOwn'
  BY DEF EntriesOwn
<1>7. QED
  BY <1>4, <1>5, <1>6 DEF MemoInv

\* A hit makes its key the most recent one.
LEMMA HitKeepsMemo ==
  ASSUME HoldInv, MemoInv, UNCHANGED <<size, memo, memoRetained>>, NEW i \in DOMAIN recency,
         NEW k, recency[i] = k, recency' = Append(RemoveAt(recency, i), k)
  PROVE  MemoInv'
<1>1. PICK n, s : n = Len(recency) /\ s = recency
  OBVIOUS
<1>2. /\ s \in Seq(Keys) /\ n \in Nat /\ i \in 1..n /\ DOMAIN s = 1..n /\ Len(s) = n
      /\ (\A p, q \in 1..n : s[p] = s[q] => p = q)
      /\ {s[p] : p \in 1..n} = {j \in Keys : memo[j] # 0} /\ s[i] = k
  BY <1>1, RecencyFacts DEF MemoInv, MemoMatches
<1>3. PICK r : r = SubSeq(s, 1, i - 1) \o SubSeq(s, i + 1, n)
  OBVIOUS
<1>4. recency' = Append(r, k)
  BY <1>1, <1>3 DEF RemoveAt
<1>5. /\ r \in Seq(Keys) /\ Len(r) = n - 1
      /\ \A p \in 1..(n - 1) : r[p] = IF p < i THEN s[p] ELSE s[p + 1]
  <2>1. PICK u, v : u = SubSeq(s, 1, i - 1) /\ v = SubSeq(s, i + 1, n)
    OBVIOUS
  <2>2. u \in Seq(Keys) /\ Len(u) = i - 1 /\ \A p \in 1..(i - 1) : u[p] = s[p]
    BY <1>2, <2>1
  <2>3. v \in Seq(Keys) /\ Len(v) = n - i /\ \A p \in 1..(n - i) : v[p] = s[p + i]
    BY <1>2, <2>1
  <2>4. r = u \o v
    BY <1>3, <2>1
  <2>5. r \in Seq(Keys) /\ Len(r) = n - 1
    BY <1>2, <2>2, <2>3, <2>4
  <2>6. ASSUME NEW p \in 1..(n - 1) PROVE r[p] = IF p < i THEN s[p] ELSE s[p + 1]
    <3>1. CASE p < i
      BY <1>2, <2>2, <2>3, <2>4, <3>1
    <3>2. CASE ~(p < i)
      <4>1. p - (i - 1) \in 1..(n - i) /\ p - (i - 1) + i = p + 1
        BY <1>2, <3>2
      <4>2. r[p] = v[p - (i - 1)]
        <5>1. Len(u) \in Nat /\ p > Len(u) /\ p \in 1..(Len(u) + Len(v)) /\ p - Len(u) = p - (i - 1)
          BY <1>2, <2>2, <2>3, <3>2
        <5>2. u \in Seq(Keys) /\ v \in Seq(Keys)
          BY <2>2, <2>3
        <5>3. (u \o v)[p] = v[p - Len(u)]
          BY <5>1, <5>2, ConcatProperties
        <5>4. QED
          BY <2>4, <5>1, <5>3
      <4>3. QED
        BY <2>3, <3>2, <4>1, <4>2
    <3>3. QED
      BY <3>1, <3>2
  <2>7. QED
    BY <2>5, <2>6
<1>6. /\ recency' \in Seq(Keys) /\ Len(recency') = n /\ DOMAIN recency' = 1..n
      /\ recency'[n] = k /\ \A p \in 1..(n - 1) : recency'[p] = r[p]
  <2>1. k \in Keys
    BY <1>2
  <2>2. QED
    BY <1>2, <1>4, <1>5, <2>1
<1>7. PICK f : f = [p \in 1..n |-> IF p = n THEN i ELSE IF p < i THEN p ELSE p + 1]
  OBVIOUS
<1>8. \A p \in 1..n : f[p] \in 1..n /\ recency'[p] = s[f[p]]
  BY <1>2, <1>5, <1>6, <1>7
<1>9. \A p, q \in 1..n : f[p] = f[q] => p = q
  BY <1>2, <1>7
<1>10. \A p \in 1..n : \E q \in 1..n : f[q] = p
  <2> SUFFICES ASSUME NEW p \in 1..n PROVE \E q \in 1..n : f[q] = p
    OBVIOUS
  <2>1. CASE p = i
    BY <1>2, <1>7, <2>1
  <2>2. CASE p < i
    BY <1>2, <1>7, <2>2
  <2>3. CASE p > i
    <3>1. p - 1 \in 1..n /\ f[p - 1] = p
      BY <1>2, <1>7, <2>3
    <3>2. QED
      BY <3>1
  <2>4. QED
    BY <1>2, <2>1, <2>2, <2>3
<1>11. \A p, q \in DOMAIN recency' : recency'[p] = recency'[q] => p = q
  BY <1>2, <1>6, <1>8, <1>9
<1>12. {recency'[p] : p \in DOMAIN recency'} = {j \in Keys : memo'[j] # 0}
  <2>1. {recency'[p] : p \in 1..n} = {s[p] : p \in 1..n}
    <3>1. ASSUME NEW x PROVE (\E p \in 1..n : x = recency'[p]) <=> (\E p \in 1..n : x = s[p])
      <4>1. ASSUME NEW p \in 1..n, x = recency'[p] PROVE \E q \in 1..n : x = s[q]
        BY <1>8, <4>1
      <4>2. ASSUME NEW p \in 1..n, x = s[p] PROVE \E q \in 1..n : x = recency'[q]
        <5>1. PICK q \in 1..n : f[q] = p
          BY <1>10
        <5>2. QED
          BY <1>8, <4>2, <5>1
      <4>3. QED
        BY <4>1, <4>2
    <3>2. QED
      BY <3>1
  <2>2. QED
    BY <1>2, <1>6, <2>1
<1>13. Bytes(MemoIds(memo))' = Bytes(MemoIds(memo))
  BY DEF Bytes, MemoIds
<1>14. EntriesOwn'
  BY DEF MemoInv, EntriesOwn
<1>15. QED
  BY <1>6, <1>11, <1>12, <1>13, <1>14 DEF MemoInv, MemoMatches

-----------------------------------------------------------------------------
\* The workspaces

Workspaces(w) == [t \in Threads |-> Total(w[t], Len(w[t]))]

LEMMA WorkspaceType ==
  ASSUME NEW w \in [Threads -> Seq(Nat)]
  PROVE  /\ Summable(Workspaces(w), ThreadCount) /\ ThreadCount \in Nat
         /\ Total(Workspaces(w), ThreadCount) \in Nat
<1>1. ASSUME NEW t \in Threads PROVE Total(w[t], Len(w[t])) \in Nat
  <2>1. Len(w[t]) \in Nat /\ Summable(w[t], Len(w[t]))
    BY DEF Summable
  <2>2. QED
    BY <2>1, TotalType
<1>2. Summable(Workspaces(w), ThreadCount)
  BY <1>1 DEF Summable, Workspaces, Threads
<1>3. ThreadCount \in Nat
  BY MemoryAssumption
<1>4. QED
  BY <1>2, <1>3, TotalType

\* One thread's workspaces change.
Exchanged(w, v, t, s) ==
  /\ v \in [Threads -> Seq(Nat)]
  /\ Total(Workspaces(v), ThreadCount) + Total(w[t], Len(w[t]))
        = Total(Workspaces(w), ThreadCount) + Total(s, Len(s))
  /\ Total(Workspaces(v), ThreadCount) \in Nat /\ Total(Workspaces(w), ThreadCount) \in Nat

LEMMA WorkspaceChange ==
  ASSUME NEW w \in [Threads -> Seq(Nat)], NEW t \in Threads, NEW s \in Seq(Nat)
  PROVE  Exchanged(w, [w EXCEPT ![t] = s], t, s)
<1>0. PICK v : v = [w EXCEPT ![t] = s]
  OBVIOUS
<1>1. v \in [Threads -> Seq(Nat)] /\ v[t] = s /\ \A u \in Threads : u # t => v[u] = w[u]
  BY <1>0
<1>2. PICK f, g : f = Workspaces(w) /\ g = Workspaces(v)
  OBVIOUS
<1>3. Summable(f, ThreadCount) /\ Summable(g, ThreadCount) /\ ThreadCount \in Nat
  BY <1>1, <1>2, WorkspaceType
<1>4. /\ t \in 1..ThreadCount /\ f[t] = Total(w[t], Len(w[t])) /\ g[t] = Total(s, Len(s))
      /\ \A u \in 1..ThreadCount : u # t => g[u] = f[u]
  BY <1>1, <1>2 DEF Workspaces, Threads
<1>5. g[t] \in Nat
  BY <1>3, <1>4 DEF Summable
<1>6. /\ Total(g, ThreadCount) \in Nat /\ Total(f, ThreadCount) \in Nat
      /\ Total(g, ThreadCount) + f[t] = Total(f, ThreadCount) + g[t]
  <2>1. PICK n \in Nat : n = ThreadCount
    BY <1>3
  <2>2. PICK a \in 1..n : a = t
    BY <1>4, <2>1
  <2>3. Summable(f, n) /\ g[a] \in Nat /\ \A i \in 1..n : i # a => g[i] = f[i]
    BY <1>3, <1>4, <1>5, <2>1, <2>2
  <2>4. Exchange(f, g, n, a)
    BY <2>3, TotalOfChange
  <2>5. QED
    BY <2>1, <2>2, <2>4 DEF Exchange
<1>7. Exchanged(w, v, t, s)
  BY <1>1, <1>2, <1>4, <1>6 DEF Exchanged
<1>8. QED
  BY <1>0, <1>7

LEMMA WorkspacesAre ==
  /\ [t \in Threads |-> WorkOf(t)] = Workspaces(work)
  /\ [t \in Threads |-> WorkOf(t)]' = Workspaces(work')
  BY DEF WorkOf, Workspaces

LEMMA WorkStutters ==
  ASSUME WorkInv, UNCHANGED <<work, task, working, independent, owners>> PROVE WorkInv'
<1>1. [t \in Threads |-> WorkOf(t)]' = [t \in Threads |-> WorkOf(t)]
  BY DEF WorkOf
<1>2. QED
  BY <1>1 DEF WorkInv, WorkingMatches

\* A workspace more.
LEMMA AdmitWorkKeeps ==
  ASSUME WorkInv, RequestInv, retained \in Nat, NEW t \in Threads, AdmitWork(t)
  PROVE  WorkInv' /\ Used' <= Maximum
<1>1. PICK b, s : b = req[t].bytes /\ s = Append(work[t], b)
  OBVIOUS
<1>2. /\ working' = working + b /\ owners' = [owners EXCEPT ![t] = @ + 1]
      /\ work' = [work EXCEPT ![t] = s] /\ UNCHANGED <<task, retained, independent>>
      /\ b <= Maximum - (retained + working)
  BY <1>1 DEF AdmitWork, Fits, Used
<1>3. b \in Nat /\ work \in [Threads -> Seq(Nat)] /\ work[t] \in Seq(Nat) /\ Maximum \in Nat
  BY <1>1, MemoryAssumption DEF RequestInv, Requests, WorkInv
<1>4. /\ s \in Seq(Nat) /\ Len(s) = Len(work[t]) + 1 /\ Len(work[t]) \in Nat
      /\ \A i \in 1..Len(work[t]) : s[i] = work[t][i]
      /\ s[Len(work[t]) + 1] = b
  BY <1>1, <1>3
<1>5. Total(s, Len(s)) = Total(work[t], Len(work[t])) + b /\ Total(work[t], Len(work[t])) \in Nat
  <2>1. PICK n, r : n = Len(work[t]) /\ r = work[t]
    OBVIOUS
  <2>2. n \in Nat /\ Summable(r, n) /\ Summable(s, n + 1) /\ \A i \in 1..n : s[i] = r[i]
    <3>1. s \in Seq(Nat) /\ Len(s) = n + 1 /\ r \in Seq(Nat) /\ Len(r) = n /\ n \in Nat
      BY <1>3, <1>4, <2>1
    <3>2. Summable(r, n) /\ Summable(s, n + 1)
      BY <3>1 DEF Summable
    <3>3. QED
      BY <1>4, <2>1, <3>1, <3>2
  <2>3. Total(s, n) = Total(r, n)
    BY <2>2, TotalOfSame
  <2>4. Total(s, n + 1) = Total(s, n) + s[n + 1] /\ Total(s, n) \in Nat
    BY <2>2, TotalOfMore
  <2>5. QED
    BY <1>4, <2>1, <2>3, <2>4
<1>6. /\ work' \in [Threads -> Seq(Nat)]
      /\ Total(Workspaces(work'), ThreadCount) + Total(work[t], Len(work[t]))
               = Total(Workspaces(work), ThreadCount) + Total(s, Len(s))
      /\ Total(Workspaces(work'), ThreadCount) \in Nat
      /\ Total(Workspaces(work), ThreadCount) \in Nat
  <2>1. PICK v, w : v = work' /\ w = work
    OBVIOUS
  <2>2. w \in [Threads -> Seq(Nat)] /\ v = [w EXCEPT ![t] = s]
    BY <1>2, <1>3, <2>1
  <2>3. Exchanged(w, v, t, s)
    BY <1>4, <2>2, WorkspaceChange
  <2>4. QED
    BY <2>1, <2>3 DEF Exchanged
<1>7. working = task + Total(Workspaces(work), ThreadCount) /\ working \in Nat /\ task \in Nat
  BY WorkspacesAre DEF WorkInv, WorkingMatches
<1>8. working' = task' + Total(Workspaces(work'), ThreadCount) /\ working' \in Nat
  <2>1. PICK x, y, p, q : /\ x = Total(Workspaces(work'), ThreadCount)
                          /\ y = Total(Workspaces(work), ThreadCount)
                          /\ p = Total(work[t], Len(work[t])) /\ q = Total(s, Len(s))
    OBVIOUS
  <2>2. x \in Nat /\ y \in Nat /\ p \in Nat /\ q = p + b /\ x + p = y + q
    BY <1>5, <1>6, <2>1
  <2>3. x = y + b
    BY <1>3, <2>2
  <2>4. working = task + y /\ working' = working + b /\ task' = task
    BY <1>2, <1>7, <2>1
  <2>5. working' = task' + x /\ working' \in Nat
    BY <1>3, <1>7, <2>2, <2>3, <2>4
  <2>6. QED
    BY <2>1, <2>5
<1>9. owners' \in [Threads -> Nat] /\ \A u \in Threads : owners'[u] = Len(work'[u])
  BY <1>2, <1>4, <1>6 DEF WorkInv, WorkingMatches
<1>10. WorkInv'
  BY <1>2, <1>6, <1>8, <1>9, WorkspacesAre DEF WorkInv, WorkingMatches
<1>11. Used' <= Maximum
  BY <1>2, <1>3, <1>7 DEF Used
<1>12. QED
  BY <1>10, <1>11

\* The innermost workspace less.
LEMMA ReleaseKeeps ==
  ASSUME WorkInv, NEW t \in Threads, Release(t)
  PROVE  WorkInv' /\ working' <= working
<1>1. PICK b, s, r : b = Last(work[t]) /\ s = Front(work[t]) /\ r = work[t]
  OBVIOUS
<1>2. /\ working' = working - b /\ owners' = [owners EXCEPT ![t] = @ - 1]
      /\ work' = [work EXCEPT ![t] = s] /\ UNCHANGED <<task, independent>> /\ r # <<>>
  BY <1>1 DEF Release
<1>3. work \in [Threads -> Seq(Nat)] /\ r \in Seq(Nat)
  BY <1>1 DEF WorkInv
<1>4. PICK n : n = Len(r) - 1
  OBVIOUS
<1>5. /\ n \in Nat /\ Len(r) = n + 1 /\ s \in Seq(Nat) /\ Len(s) = n /\ b = r[n + 1]
      /\ \A i \in 1..n : s[i] = r[i]
  <2>1. Len(r) \in Nat /\ Len(r) # 0 /\ n \in Nat /\ Len(r) = n + 1
    BY <1>2, <1>3, <1>4
  <2>2. s = SubSeq(r, 1, n) /\ b = r[n + 1]
    BY <1>1, <1>4, <2>1 DEF Front, Last
  <2>3. QED
    BY <1>3, <2>1, <2>2
<1>6. Total(r, n + 1) = Total(s, n) + b /\ Total(s, n) \in Nat /\ b \in Nat
  <2>1. Summable(r, n + 1) /\ Summable(s, n) /\ Summable(r, n)
    BY <1>3, <1>5 DEF Summable
  <2>2. Total(s, n) = Total(r, n)
    BY <1>5, <2>1, TotalOfSame
  <2>3. Total(r, n + 1) = Total(r, n) + r[n + 1] /\ Total(r, n) \in Nat
    BY <1>5, <2>1, TotalOfMore
  <2>4. b \in Nat
    BY <1>3, <1>5
  <2>5. QED
    BY <1>5, <2>2, <2>3, <2>4
<1>7. /\ work' \in [Threads -> Seq(Nat)]
      /\ Total(Workspaces(work'), ThreadCount) + Total(r, Len(r))
               = Total(Workspaces(work), ThreadCount) + Total(s, Len(s))
      /\ Total(Workspaces(work'), ThreadCount) \in Nat
      /\ Total(Workspaces(work), ThreadCount) \in Nat
  <2>1. PICK v, w : v = work' /\ w = work
    OBVIOUS
  <2>2. w \in [Threads -> Seq(Nat)] /\ v = [w EXCEPT ![t] = s]
    BY <1>2, <1>3, <2>1
  <2>3. Exchanged(w, v, t, s)
    BY <1>5, <2>2, WorkspaceChange
  <2>4. QED
    BY <1>1, <2>1, <2>3 DEF Exchanged
<1>8. working = task + Total(Workspaces(work), ThreadCount) /\ working \in Nat /\ task \in Nat
  BY WorkspacesAre DEF WorkInv, WorkingMatches
<1>9. /\ working' = task' + Total(Workspaces(work'), ThreadCount) /\ working' \in Nat
      /\ working' <= working
  <2>1. PICK x, y, p, q : /\ x = Total(Workspaces(work'), ThreadCount)
                          /\ y = Total(Workspaces(work), ThreadCount)
                          /\ p = Total(r, Len(r)) /\ q = Total(s, Len(s))
    OBVIOUS
  <2>2. x \in Nat /\ y \in Nat /\ q \in Nat /\ b \in Nat /\ p = q + b /\ x + p = y + q
    BY <1>5, <1>6, <1>7, <2>1
  <2>3. y = x + b
    BY <2>2
  <2>4. working = task + y /\ working' = working - b /\ task' = task
    BY <1>2, <1>8, <2>1
  <2>5. working' = task' + x /\ working' \in Nat /\ working' <= working
    BY <1>8, <2>2, <2>3, <2>4
  <2>6. QED
    BY <2>1, <2>5
<1>10. owners' \in [Threads -> Nat] /\ \A u \in Threads : owners'[u] = Len(work'[u])
  BY <1>1, <1>2, <1>5, <1>7 DEF WorkInv, WorkingMatches
<1>11. WorkInv'
  BY <1>2, <1>7, <1>9, <1>10, WorkspacesAre DEF WorkInv, WorkingMatches
<1>12. QED
  BY <1>9, <1>11

\* The independent task comes and goes.
LEMMA TaskKeeps ==
  ASSUME WorkInv, retained \in Nat, StartTask \/ EndTask
  PROVE  WorkInv' /\ (working' <= working \/ Used' <= Maximum)
<1>1. working = task + Total(Workspaces(work), ThreadCount) /\ working \in Nat /\ task \in Nat
      /\ Total(Workspaces(work), ThreadCount) \in Nat
  <2>1. work \in [Threads -> Seq(Nat)]
    BY DEF WorkInv
  <2>2. QED
    BY <2>1, WorkspacesAre, WorkspaceType DEF WorkInv, WorkingMatches
<1>2. UNCHANGED <<work, owners, retained>> /\ Workspaces(work') = Workspaces(work)
  BY DEF StartTask, EndTask, Workspaces
<1>3. CASE StartTask
  <2>1. /\ task = 0 /\ task' = TaskBytes /\ working' = working + TaskBytes
        /\ independent' = independent + TaskBytes /\ TaskBytes <= Maximum - (retained + working)
        /\ TaskBytes \in Nat /\ Maximum \in Nat /\ independent = task
    BY <1>3, MemoryAssumption DEF StartTask, Fits, Used, WorkInv, WorkingMatches
  <2>2. working' = task' + Total(Workspaces(work'), ThreadCount) /\ Used' <= Maximum
        /\ independent' = task' /\ task' \in Nat /\ working' \in Nat
    BY <1>1, <1>2, <2>1 DEF Used
  <2>3. QED
    BY <1>2, <2>2, WorkspacesAre DEF WorkInv, WorkingMatches
<1>4. CASE EndTask
  <2>1. /\ task' = 0 /\ working' = working - task /\ independent' = independent - task
        /\ independent = task
    BY <1>4 DEF EndTask, WorkInv, WorkingMatches
  <2>2. working' = task' + Total(Workspaces(work'), ThreadCount) /\ working' <= working
        /\ independent' = task' /\ task' \in Nat /\ working' \in Nat
    BY <1>1, <1>2, <2>1
  <2>3. QED
    BY <1>2, <2>2, WorkspacesAre DEF WorkInv, WorkingMatches
<1>5. QED
  BY <1>3, <1>4

-----------------------------------------------------------------------------
\* Requests

LEMMA NoneIs == None \in Requests /\ None.kind = "none"
  BY DEF None, Requests, Kinds

\* What a step of thread t must leave alone for the request of thread u to stand.
Spared(t, u) ==
  /\ pc'[u] = pc[u] /\ req'[u] = req[u] /\ old'[u] \subseteq old[u] /\ held'[u] = held[u]
  /\ req[u].kind = "source" => slot' = 0
  /\ pc[u] = "built" => LET a == req[u].alloc
                        IN  size'[a] = size[a] /\ a \notin MemoIds(memo') /\ a # slot' /\ a \notin held'[t]

LEMMA SparedStand ==
  ASSUME RequestInv, NEW t \in Threads, \A u \in Threads : u # t => Spared(t, u),
         pc' \in [Threads -> Labels], req' \in [Threads -> Requests], RequestOK(t)'
  PROVE  RequestInv'
<1>1. ASSUME NEW u \in Threads, u # t PROVE RequestOK(u)'
  <2>1. Spared(t, u) /\ RequestOK(u)
    BY <1>1 DEF RequestInv
  <2>2. ASSUME pc[u] = "built" PROVE Fresh(u)'
    <3>1. Fresh(u)
      BY <2>1, <2>2 DEF RequestOK
    <3>2. ASSUME NEW v \in Threads, v # u PROVE req'[u].alloc \notin held'[v]
      <4>1. CASE v = t
        BY <2>1, <2>2, <4>1 DEF Spared
      <4>2. CASE v # t
        <5>1. held'[v] = held[v] /\ req'[u] = req[u]
          BY <2>1, <4>2 DEF Spared
        <5>2. QED
          BY <3>1, <3>2, <5>1 DEF Fresh
      <4>3. QED
        BY <4>1, <4>2
    <3>3. /\ req'[u] = req[u] /\ held'[u] = held[u] /\ size'[req[u].alloc] = size[req[u].alloc]
          /\ req[u].alloc \notin MemoIds(memo') /\ req[u].alloc # slot'
      BY <2>1, <2>2 DEF Spared
    <3>4. MemoIds(memo)' = MemoIds(memo')
      BY DEF MemoIds
    <3>5. QED
      BY <3>1, <3>2, <3>3, <3>4 DEF Fresh
  <2>3. /\ pc'[u] = pc[u] /\ req'[u] = req[u] /\ old'[u] \subseteq old[u]
        /\ req[u].kind = "source" => slot' = 0
    BY <2>1 DEF Spared
  <2>4. QED
    BY <2>1, <2>2, <2>3 DEF RequestOK
<1>2. QED
  BY <1>1 DEF RequestInv

\* A step that changes neither the slot nor the memo nor anything a handle refers to.
LEMMA BystandersStand ==
  ASSUME RequestInv, NEW t \in Threads, UNCHANGED <<size, held, old, memo, slot>>,
         \A u \in Threads : u # t => pc'[u] = pc[u] /\ req'[u] = req[u],
         pc' \in [Threads -> Labels], req' \in [Threads -> Requests], RequestOK(t)'
  PROVE  RequestInv'
<1>1. ASSUME NEW u \in Threads, u # t PROVE Spared(t, u)
  <2>1. RequestOK(u) /\ pc'[u] = pc[u] /\ req'[u] = req[u]
    BY <1>1 DEF RequestInv
  <2>2. pc[u] = "built" => Fresh(u)
    BY <2>1 DEF RequestOK
  <2>3. QED
    BY <1>1, <2>1, <2>2 DEF Spared, RequestOK, Fresh
<1>2. QED
  BY <1>1, SparedStand

\* After a clear, nothing comes into the memo or the slot but what is in since.
LEMMA ClearStands ==
  ASSUME ClearInv, UNCHANGED entrants, since' \in [Threads -> SUBSET Ids], slot' \in {slot, 0},
         MemoIds(memo') \subseteq MemoIds(memo),
         \A u \in Threads : \/ pc'[u] = pc[u] /\ since'[u] = since[u]
                            \/ pc'[u] \notin {"take", "again"}
                            \/ u \notin entrants
  PROVE  ClearInv'
<1>1. MemoIds(memo)' = MemoIds(memo') /\ Slotted' \subseteq Slotted
  BY DEF MemoIds, Slotted
<1>2. QED
  BY <1>1 DEF ClearInv, ClearOK

-----------------------------------------------------------------------------
\* Steps that only change what a thread is doing

LEMMA QuietStands ==
  ASSUME MemoryInv, NEW t \in Threads, UNCHANGED <<HoldVars, store, entrants>>,
         \A u \in Threads : u # t => pc'[u] = pc[u] /\ req'[u] = req[u] /\ since'[u] = since[u],
         pc' \in [Threads -> Labels], req' \in [Threads -> Requests],
         since' \in [Threads -> SUBSET Ids], RequestOK(t)',
         \/ pc'[t] = pc[t] /\ since'[t] = since[t]
         \/ pc'[t] \notin {"take", "again"}
         \/ t \notin entrants
  PROVE  HoldInv' /\ MemoInv' /\ RequestInv' /\ ClearInv'
<1>0. HoldInv /\ MemoInv /\ RequestInv /\ ClearInv
  BY DEF MemoryInv
<1>1. UNCHANGED <<size, held, old, memo, slot, retained, recency, memoRetained>>
  BY DEF HoldVars, store
<1>2. HoldInv'
  BY <1>0, HoldStutters
<1>3. MemoInv'
  BY <1>0, <1>1, MemoStands DEF HoldInv, Sizes
<1>4. RequestInv'
  BY <1>0, <1>1, BystandersStand
<1>5. MemoIds(memo') \subseteq MemoIds(memo) /\ slot' \in {slot, 0}
  BY <1>1
<1>6. ClearInv'
  BY <1>0, <1>5, ClearStands
<1>7. QED
  BY <1>2, <1>3, <1>4, <1>6

\* Nothing changes that the invariant speaks of, but the workspaces.
LEMMA OnlyWork ==
  ASSUME MemoryInv, UNCHANGED <<HoldVars, store, entrants, pc, req, since>>
  PROVE  HoldInv' /\ MemoInv' /\ RequestInv' /\ ClearInv'
<1>0. HoldInv /\ MemoInv /\ RequestInv /\ ClearInv /\ Owner \in Threads
  BY MemoryAssumption DEF MemoryInv
<1>1. UNCHANGED <<size, held, old, memo, slot, req, pc>>
  BY DEF HoldVars
<1>2. RequestOK(Owner)'
  BY <1>0, <1>1 DEF RequestInv, RequestOK, Fresh, MemoIds
<1>3. /\ \A u \in Threads : pc'[u] = pc[u] /\ req'[u] = req[u] /\ since'[u] = since[u]
      /\ pc' \in [Threads -> Labels] /\ req' \in [Threads -> Requests]
      /\ since' \in [Threads -> SUBSET Ids]
  BY <1>0 DEF RequestInv, ClearInv
<1>4. QED
  BY <1>0, <1>2, <1>3, QuietStands

\* A thread asks, waits, tries again or gives up.
LEMMA AskingKeeps ==
  ASSUME MemoryInv, UNCHANGED entrants, NEW t \in Threads,
         \/ \E k \in Keys : AskValue(t, k)
         \/ AskWork(t) \/ DecodeFails(t) \/ Sleep(t) \/ FewerLanes(t)
         \/ BeginClear(t) \/ AskAgain(t) \/ Refuse(t) \/ InsertNothing(t)
  PROVE  MemoryInv'
<1>0. HoldInv /\ WorkInv /\ MemoInv /\ RequestInv /\ ClearInv /\ Used <= Maximum
  BY DEF MemoryInv
<1>1. /\ UNCHANGED <<size, held, old, store, slot, work, task, ledger>>
      /\ UNCHANGED <<HoldVars, store, work, task, working, independent, owners>>
  BY DEF AskValue, AskWork, DecodeFails, Sleep, FewerLanes, BeginClear, AskAgain, Refuse,
         InsertNothing, HoldVars, store, ledger
<1>2. /\ pc \in [Threads -> Labels] /\ req \in [Threads -> Requests]
      /\ since \in [Threads -> SUBSET Ids] /\ req[t] \in Requests /\ RequestOK(t)
  BY <1>0 DEF RequestInv, ClearInv
<1> DEFINE Quiet == /\ \A u \in Threads : u # t => /\ pc'[u] = pc[u] /\ req'[u] = req[u]
                                                   /\ since'[u] = since[u]
                    /\ pc' \in [Threads -> Labels] /\ req' \in [Threads -> Requests]
                    /\ since' \in [Threads -> SUBSET Ids] /\ RequestOK(t)'
                    /\ \/ pc'[t] = pc[t] /\ since'[t] = since[t]
                       \/ pc'[t] \notin {"take", "again"}
                       \/ t \notin entrants
<1>3. ASSUME Finish(t) PROVE Quiet
  <2>1. /\ pc' = [pc EXCEPT ![t] = "idle"] /\ req' = [req EXCEPT ![t] = None]
        /\ since' = [since EXCEPT ![t] = {}]
    BY <1>3 DEF Finish
  <2>2. RequestOK(t)'
    BY <1>2, <2>1, NoneIs DEF RequestOK
  <2>3. QED
    BY <1>2, <2>1, <2>2, NoneIs DEF Labels
<1>4. ASSUME NEW r \in Requests, req' = [req EXCEPT ![t] = r], Become(t, "reserve"),
             UNCHANGED since, r.kind # "none", r.kind # "source",
             r.kind = "value" => r.key \in Keys /\ r.bytes = Weight[r.key],
             r.kind = "lanes" => r.bytes = r.lanes * LaneBytes
      PROVE  Quiet
  <2>1. pc' = [pc EXCEPT ![t] = "reserve"] /\ since' = since
    BY <1>4 DEF Become
  <2>2. pc'[t] = "reserve" /\ req'[t] = r
    BY <1>2, <1>4, <2>1
  <2>3. RequestOK(t)'
    BY <1>4, <2>2 DEF RequestOK
  <2>4. QED
    BY <1>2, <1>4, <2>1, <2>3 DEF Labels
<1>5. ASSUME NEW k \in Keys, AskValue(t, k) PROVE Quiet
  <2>1. PICK r : r = [None EXCEPT !.kind = "value", !.key = k, !.bytes = Weight[k]]
    OBVIOUS
  <2>2. req' = [req EXCEPT ![t] = r] /\ Become(t, "reserve") /\ UNCHANGED since
    BY <1>5, <2>1 DEF AskValue, Ask
  <2>3. Weight[k] \in Nat
    BY MemoryAssumption
  <2>4. r \in Requests /\ r.kind = "value" /\ r.key = k /\ r.bytes = Weight[k]
    BY <2>1, <2>3, NoneIs DEF Requests, Kinds
  <2>5. QED
    BY <1>4, <2>2, <2>4
<1>6. ASSUME AskWork(t) PROVE Quiet
  <2>1. Become(t, "reserve") /\ UNCHANGED since
    BY <1>6 DEF AskWork
  <2>2. ASSUME NEW b \in WorkBytes, Ask(t, [None EXCEPT !.kind = "work", !.bytes = b]) PROVE Quiet
    <3>1. PICK r : r = [None EXCEPT !.kind = "work", !.bytes = b]
      OBVIOUS
    <3>2. b \in Nat
      BY MemoryAssumption
    <3>3. r \in Requests /\ r.kind = "work" /\ req' = [req EXCEPT ![t] = r]
      BY <2>2, <3>1, <3>2, NoneIs DEF Requests, Kinds, Ask
    <3>4. QED
      BY <1>4, <2>1, <3>3
  <2>3. ASSUME NEW n \in 1..MaxLanes,
               Ask(t, [None EXCEPT !.kind = "lanes", !.bytes = n * LaneBytes, !.lanes = n])
        PROVE  Quiet
    <3>1. PICK r : r = [None EXCEPT !.kind = "lanes", !.bytes = n * LaneBytes, !.lanes = n]
      OBVIOUS
    <3>2. n * LaneBytes \in Nat /\ n \in Nat
      BY MemoryAssumption
    <3>3. /\ r \in Requests /\ r.kind = "lanes" /\ req' = [req EXCEPT ![t] = r]
          /\ r.bytes = n * LaneBytes /\ r.lanes = n
      BY <2>3, <3>1, <3>2, NoneIs DEF Requests, Kinds, Ask
    <3>4. QED
      BY <1>4, <2>1, <3>3
  <2>4. QED
    BY <1>6, <2>2, <2>3 DEF AskWork
<1>7. ASSUME DecodeFails(t) \/ Refuse(t) \/ InsertNothing(t) PROVE Quiet
  BY <1>3, <1>7 DEF DecodeFails, Refuse, InsertNothing
<1>8. ASSUME Sleep(t) PROVE Quiet
  <2>1. pc' = pc /\ req' = req /\ since' = since
    BY <1>8 DEF Sleep
  <2>2. UNCHANGED <<size, held, old, memo, slot>>
    BY <1>1 DEF store
  <2>3. RequestOK(t)'
    BY <1>2, <2>1, <2>2 DEF RequestOK, Fresh, MemoIds
  <2>4. QED
    BY <1>2, <2>1, <2>3
<1>9. ASSUME FewerLanes(t) PROVE Quiet
  <2>1. PICK r : r = [req[t] EXCEPT !.lanes = @ - 1, !.bytes = @ - LaneBytes]
    OBVIOUS
  <2>2. /\ pc[t] = "reserve" /\ req[t].kind = "lanes" /\ req[t].lanes > 1
        /\ req' = [req EXCEPT ![t] = r] /\ pc' = pc /\ since' = since
    BY <1>9, <2>1 DEF FewerLanes, Ask
  <2>3. /\ req[t].bytes = req[t].lanes * LaneBytes /\ req[t].lanes \in Nat /\ LaneBytes \in Nat
        /\ req[t].bytes \in Nat
    BY <1>2, <2>2, MemoryAssumption DEF RequestOK, Requests
  <2>4. /\ r.kind = "lanes" /\ r.lanes = req[t].lanes - 1 /\ r.bytes = req[t].bytes - LaneBytes
        /\ r = [kind |-> "lanes", key |-> req[t].key, bytes |-> req[t].bytes - LaneBytes,
                lanes |-> req[t].lanes - 1, alloc |-> req[t].alloc]
    BY <1>2, <2>1, <2>2 DEF Requests
  <2>5. PICK n \in Nat, l \in Nat : n = req[t].lanes /\ l = LaneBytes /\ n > 1
    BY <2>2, <2>3
  <2>6. n * l - l = (n - 1) * l /\ n * l - l \in Nat /\ n - 1 \in Nat
    <3>1. (n - 1) * l \in Nat /\ n - 1 \in Nat
      BY <2>5
    <3>2. n * l = (n - 1) * l + l
      BY <2>5
    <3>3. QED
      BY <3>1, <3>2, <2>5
  <2>7. r.bytes = r.lanes * LaneBytes /\ r.bytes \in Nat /\ r.lanes \in Nat
    BY <2>3, <2>4, <2>5, <2>6
  <2>8. r \in Requests
    BY <1>2, <2>4, <2>7 DEF Requests, Kinds
  <2>9. pc'[t] = "reserve" /\ req'[t] = r
    BY <1>2, <2>2
  <2>10. RequestOK(t)'
    BY <2>4, <2>7, <2>9 DEF RequestOK
  <2>11. QED
    BY <1>2, <2>2, <2>8, <2>10
<1>10. ASSUME BeginClear(t) \/ AskAgain(t) PROVE Quiet
  <2>1. PICK label \in {"callbacks", "again"} :
           /\ pc' = [pc EXCEPT ![t] = label] /\ req' = req /\ since' = since
           /\ pc[t] = "reserve" /\ (label = "again" => t \notin entrants) /\ old[t] = {}
    BY <1>10 DEF BeginClear, AskAgain, Become, ClearsFirst, Error, Reserving
  <2>2. UNCHANGED <<old, slot>> /\ pc'[t] = label
    BY <1>1, <1>2, <2>1
  <2>3. RequestOK(t)'
    BY <1>2, <2>1, <2>2 DEF RequestOK
  <2>4. QED
    BY <1>2, <2>1, <2>2, <2>3 DEF Labels
<1>11. Quiet
  BY <1>5, <1>6, <1>7, <1>8, <1>9, <1>10
<1>12. HoldInv' /\ MemoInv' /\ RequestInv' /\ ClearInv'
  BY <1>1, <1>11, QuietStands
<1>13. WorkInv'
  BY <1>0, <1>1, WorkStutters
<1>14. Used' <= Maximum
  BY <1>0, <1>1 DEF Used, HoldVars
<1>15. QED
  BY <1>12, <1>13, <1>14 DEF MemoryInv

\* Workspaces come and go.
LEMMA WorkKeeps ==
  ASSUME MemoryInv, UNCHANGED entrants, NEW t \in Threads,
         AdmitWork(t) \/ Release(t) \/ StartTask \/ EndTask \/ Cancel
  PROVE  MemoryInv'
<1>0. /\ HoldInv /\ WorkInv /\ MemoInv /\ RequestInv /\ ClearInv /\ Used <= Maximum
      /\ retained \in Nat /\ working \in Nat /\ Maximum \in Nat
  BY MemoryAssumption DEF MemoryInv, HoldInv, WorkInv
<1>1. CASE AdmitWork(t)
  <2>1. /\ UNCHANGED <<HoldVars, store>> /\ pc' = [pc EXCEPT ![t] = "idle"]
        /\ req' = [req EXCEPT ![t] = None] /\ since' = [since EXCEPT ![t] = {}]
    BY <1>1 DEF AdmitWork, HoldVars, store, Finish
  <2>2. /\ pc \in [Threads -> Labels] /\ req \in [Threads -> Requests]
        /\ since \in [Threads -> SUBSET Ids]
    BY <1>0 DEF RequestInv, ClearInv
  <2>3. RequestOK(t)'
    BY <2>1, <2>2, NoneIs DEF RequestOK
  <2>4. HoldInv' /\ MemoInv' /\ RequestInv' /\ ClearInv'
    <3>1. /\ \A u \in Threads : u # t => pc'[u] = pc[u] /\ req'[u] = req[u] /\ since'[u] = since[u]
          /\ pc' \in [Threads -> Labels] /\ req' \in [Threads -> Requests]
          /\ since' \in [Threads -> SUBSET Ids] /\ pc'[t] \notin {"take", "again"}
      BY <2>1, <2>2, NoneIs DEF Labels
    <3>2. QED
      BY <2>1, <2>3, <3>1, QuietStands
  <2>5. WorkInv' /\ Used' <= Maximum
    BY <1>0, <1>1, AdmitWorkKeeps
  <2>6. QED
    BY <2>4, <2>5 DEF MemoryInv
<1>2. CASE Release(t)
  <2>1. UNCHANGED <<HoldVars, store, entrants, pc, req, since>> /\ retained' = retained
    BY <1>2 DEF Release, HoldVars, store
  <2>2. WorkInv' /\ working' <= working
    BY <1>0, <1>2, ReleaseKeeps
  <2>3. Used' <= Maximum
    <3>1. working' \in Nat
      BY <2>2 DEF WorkInv
    <3>2. Used = retained + working /\ Used' = retained' + working'
      BY DEF Used
    <3>3. PICK r, w, v : r = retained /\ w = working /\ v = working'
      OBVIOUS
    <3>4. r \in Nat /\ w \in Nat /\ v \in Nat /\ Maximum \in Nat /\ Used = r + w /\ Used' = r + v
      BY <1>0, <2>1, <3>1, <3>2, <3>3
    <3>5. v <= w \/ Used' <= Maximum
      BY <2>2, <3>3
    <3>6. r + w <= Maximum
      BY <1>0, <3>4
    <3>7. QED
      BY <3>4, <3>5, <3>6
  <2>4. QED
    BY <2>1, <2>2, <2>3, OnlyWork DEF MemoryInv
<1>3. CASE StartTask \/ EndTask
  <2>1. UNCHANGED <<HoldVars, store, entrants, pc, req, since>> /\ retained' = retained
    BY <1>3 DEF StartTask, EndTask, HoldVars, store
  <2>2. WorkInv' /\ (working' <= working \/ Used' <= Maximum)
    BY <1>0, <1>3, TaskKeeps
  <2>3. Used' <= Maximum
    <3>1. working' \in Nat
      BY <2>2 DEF WorkInv
    <3>2. Used = retained + working /\ Used' = retained' + working'
      BY DEF Used
    <3>3. PICK r, w, v : r = retained /\ w = working /\ v = working'
      OBVIOUS
    <3>4. r \in Nat /\ w \in Nat /\ v \in Nat /\ Maximum \in Nat /\ Used = r + w /\ Used' = r + v
      BY <1>0, <2>1, <3>1, <3>2, <3>3
    <3>5. v <= w \/ Used' <= Maximum
      BY <2>2, <3>3
    <3>6. r + w <= Maximum
      BY <1>0, <3>4
    <3>7. QED
      BY <3>4, <3>5, <3>6
  <2>4. QED
    BY <2>1, <2>2, <2>3, OnlyWork DEF MemoryInv
<1>4. CASE Cancel
  <2>1. /\ UNCHANGED <<HoldVars, store, entrants, pc, req, since>>
        /\ UNCHANGED <<retained, work, task, working, independent, owners>>
    BY <1>4 DEF Cancel, HoldVars, store, ledger
  <2>2. WorkInv' /\ Used' <= Maximum
    BY <1>0, <2>1, WorkStutters DEF Used
  <2>3. QED
    BY <2>1, <2>2, OnlyWork DEF MemoryInv
<1>5. QED
  BY <1>1, <1>2, <1>3, <1>4

-----------------------------------------------------------------------------
\* Steps that change who refers to what

\* Less is retained and the workspaces stand.
LEMMA LessFits ==
  ASSUME HoldInv, WorkInv, Used <= Maximum, HoldInv', retained' <= retained, UNCHANGED working
  PROVE  Used' <= Maximum
<1>1. PICK r, w, v : r = retained /\ w = working /\ v = retained'
  OBVIOUS
<1>2. r \in Nat /\ w \in Nat /\ v \in Nat /\ v <= r /\ Maximum \in Nat
  BY <1>1, MemoryAssumption DEF HoldInv, WorkInv
<1>3. Used = r + w /\ Used' = v + w
  BY <1>1 DEF Used
<1>4. r + w <= Maximum
  BY <1>3
<1>5. QED
  BY <1>2, <1>3, <1>4

\* A handle of what the memo or the slot holds.
LEMMA HitKeeps ==
  ASSUME MemoryInv, UNCHANGED entrants, NEW t \in Threads,
         (\E k \in Keys : LookupHit(t, k)) \/ SourceHit(t)
  PROVE  MemoryInv'
<1>0. HoldInv /\ WorkInv /\ MemoInv /\ RequestInv /\ ClearInv /\ Used <= Maximum
  BY DEF MemoryInv
<1>1. /\ UNCHANGED <<size, old, memo, slot, memoRetained, pc, req, since>> /\ Ready(t)
      /\ UNCHANGED <<work, task, retained, working, independent, owners>>
  BY DEF LookupHit, SourceHit, store, ledger
<1>2. \E a \in Ids : /\ held' = [held EXCEPT ![t] = @ \cup {a}]
                     /\ a \in MemoIds(memo) \/ a = slot
  <2>1. ASSUME NEW k \in Keys, LookupHit(t, k) PROVE memo[k] \in Ids /\ memo[k] \in MemoIds(memo)
    BY <1>0, <2>1 DEF LookupHit, HoldInv, MemoIds
  <2>2. ASSUME SourceHit(t) PROVE slot \in Ids
    BY <1>0, <2>2 DEF SourceHit, HoldInv
  <2>3. QED
    BY <2>1, <2>2 DEF LookupHit, SourceHit
<1>3. PICK a \in Ids : held' = [held EXCEPT ![t] = @ \cup {a}] /\ (a \in MemoIds(memo) \/ a = slot)
  BY <1>2
<1>4. a \in References
  BY <1>3 DEF References, Slotted, Ids
<1>5. HoldInv'
  BY <1>0, <1>1, <1>3, <1>4, HandleKeeps
<1>6. MemoInv'
  <2>1. ASSUME NEW k \in Keys, LookupHit(t, k) PROVE MemoInv'
    <3>1. PICK i \in DOMAIN recency : recency[i] = k /\ recency' = Append(RemoveAt(recency, i), k)
      BY <2>1 DEF LookupHit
    <3>2. QED
      BY <1>0, <1>1, <3>1, HitKeepsMemo
  <2>2. ASSUME SourceHit(t) PROVE MemoInv'
    <3>1. recency' = recency /\ size' \in Sizes
      BY <1>0, <1>1, <2>2 DEF SourceHit, store, HoldInv, Sizes
    <3>2. QED
      BY <1>0, <1>1, <3>1, MemoStands
  <2>3. QED
    BY <2>1, <2>2
<1>7. RequestInv'
  <2>1. ASSUME NEW u \in Threads, u # t PROVE Spared(t, u)
    <3>1. RequestOK(u) /\ held'[u] = held[u] /\ held'[t] = held[t] \cup {a}
      BY <1>0, <1>3, <2>1 DEF RequestInv, HoldInv
    <3>2. ASSUME pc[u] = "built" PROVE Fresh(u) /\ req[u].alloc # a
      BY <1>3, <3>1, <3>2 DEF RequestOK, Fresh
    <3>3. QED
      BY <1>1, <2>1, <3>1, <3>2 DEF Spared, RequestOK, Fresh
  <2>2. RequestOK(t)'
    BY <1>0, <1>1 DEF RequestInv, RequestOK, Ready
  <2>3. pc' \in [Threads -> Labels] /\ req' \in [Threads -> Requests]
    BY <1>0, <1>1 DEF RequestInv
  <2>4. QED
    BY <1>0, <2>1, <2>2, <2>3, SparedStand
<1>8. ClearInv'
  BY <1>0, <1>1, ClearStands DEF ClearInv
<1>9. WorkInv' /\ Used' <= Maximum
  BY <1>0, <1>1, WorkStutters DEF Used
<1>10. QED
  BY <1>5, <1>6, <1>7, <1>8, <1>9 DEF MemoryInv

\* What stays referred to keeps its bytes, and so does the memo.
LEMMA ReclaimedMemo ==
  ASSUME HoldInv, MemoInv, HoldInv', \A b \in References' : size'[b] = size[b], UNCHANGED store
  PROVE  MemoInv'
<1>1. MemoIds(memo') \subseteq References'
  BY DEF References, MemoIds
<1>2. UNCHANGED <<memo, recency, memoRetained>> /\ size' \in Sizes
  BY DEF store, HoldInv, Sizes
<1>3. \A b \in MemoIds(memo) : size'[b] = size[b]
  BY <1>1, <1>2
<1>4. QED
  BY <1>2, <1>3, MemoStands

\* A request stands when others drop references.
LEMMA ReclaimSpares ==
  ASSUME RequestInv, NEW t \in Threads, NEW u \in Threads, u # t,
         pc'[u] = pc[u], req'[u] = req[u], held'[u] = held[u], old'[u] \subseteq old[u],
         held'[t] \subseteq held[t], UNCHANGED memo, slot' \in {slot, 0}, HoldInv,
         \A b \in References' : size'[b] = size[b]
  PROVE  Spared(t, u)
<1>1. RequestOK(u)
  BY DEF RequestInv
<1>2. ASSUME pc[u] = "built"
      PROVE  LET a == req[u].alloc
             IN  size'[a] = size[a] /\ a \notin MemoIds(memo') /\ a # slot' /\ a \notin held'[t]
  <2>1. PICK a : a = req[u].alloc
    OBVIOUS
  <2>2. a \in held[u] /\ a \notin MemoIds(memo) /\ a # slot /\ a \notin held[t]
    BY <1>1, <1>2, <2>1 DEF RequestOK, Fresh
  <2>3. a \in References' /\ a \in Ids
    BY <2>2 DEF References, Handles, HoldInv
  <2>4. a # 0
    BY <2>3 DEF Ids
  <2>5. MemoIds(memo') = MemoIds(memo)
    BY DEF MemoIds
  <2>6. QED
    BY <2>1, <2>2, <2>3, <2>4, <2>5
<1>3. req[u].kind = "source" => slot' = 0
  BY <1>1 DEF RequestOK
<1>4. QED
  BY <1>2, <1>3 DEF Spared

\* The slot is emptied, before a decode or by the callbacks of a clear.
LEMMA EmptySlotInv ==
  ASSUME MemoryInv, UNCHANGED entrants, NEW t \in Threads, SourceMiss(t) \/ RunCallbacks(t)
  PROVE  MemoryInv'
<1>0. /\ HoldInv /\ WorkInv /\ MemoInv /\ RequestInv /\ ClearInv /\ Used <= Maximum
      /\ RequestOK(t) /\ pc \in [Threads -> Labels] /\ req \in [Threads -> Requests]
  BY DEF MemoryInv, RequestInv
<1>1. /\ slot' = 0 /\ UNCHANGED <<held, old, memo, store, work, task, since>>
      /\ Reclaim(Handles(held, old) \cup MemoIds(memo))
  BY DEF SourceMiss, RunCallbacks, store
<1>2. /\ HoldInv' /\ retained' <= retained /\ (\A b \in References' : size'[b] = size[b])
      /\ UNCHANGED <<working, independent, owners>>
  BY <1>0, <1>1, EmptySlotKeeps
<1>3. MemoInv'
  BY <1>0, <1>1, <1>2, ReclaimedMemo
<1>4. WorkInv'
  BY <1>0, <1>1, <1>2, WorkStutters
<1>5. Used' <= Maximum
  BY <1>0, <1>2, LessFits
<1>6. ASSUME SourceMiss(t)
      PROVE  RequestOK(t)' /\ pc' = [pc EXCEPT ![t] = "reserve"] /\ req' \in [Threads -> Requests]
             /\ \A u \in Threads : u # t => req'[u] = req[u]
  <2>1. PICK r : r = [None EXCEPT !.kind = "source", !.bytes = SourceBytes]
    OBVIOUS
  <2>2. req' = [req EXCEPT ![t] = r] /\ pc' = [pc EXCEPT ![t] = "reserve"] /\ t = Owner
    BY <1>6, <2>1 DEF SourceMiss, Ask, Become
  <2>3. SourceBytes \in Nat
    BY MemoryAssumption
  <2>4. r \in Requests /\ r.kind = "source" /\ r.bytes = SourceBytes
    BY <2>1, <2>3, NoneIs DEF Requests, Kinds
  <2>5. pc'[t] = "reserve" /\ req'[t] = r
    BY <1>0, <2>2
  <2>6. RequestOK(t)'
    BY <1>1, <2>2, <2>4, <2>5 DEF RequestOK
  <2>7. QED
    BY <1>0, <2>2, <2>4, <2>6
<1>7. ASSUME RunCallbacks(t)
      PROVE  RequestOK(t)' /\ pc' = [pc EXCEPT ![t] = "take"] /\ req' = req
  <2>1. pc[t] = "callbacks" /\ pc' = [pc EXCEPT ![t] = "take"] /\ req' = req
    BY <1>7 DEF RunCallbacks, Become
  <2>2. pc'[t] = "take"
    BY <1>0, <2>1
  <2>3. QED
    BY <1>0, <1>1, <2>1, <2>2 DEF RequestOK
<1>8. /\ RequestOK(t)' /\ pc' \in [Threads -> Labels] /\ req' \in [Threads -> Requests]
      /\ \A u \in Threads : u # t => pc'[u] = pc[u] /\ req'[u] = req[u]
      /\ pc'[t] \in {"reserve", "take"}
  BY <1>0, <1>6, <1>7 DEF Labels
<1>9. RequestInv'
  <2>1. ASSUME NEW u \in Threads, u # t PROVE Spared(t, u)
    BY <1>0, <1>1, <1>2, <1>8, <2>1, ReclaimSpares
  <2>2. QED
    BY <1>0, <1>8, <2>1, SparedStand
<1>10. ClearInv'
  <2>1. Slotted' = {} /\ MemoIds(memo)' = MemoIds(memo)
    BY <1>1 DEF Slotted, MemoIds
  <2>2. ASSUME NEW u \in Threads PROVE ClearOK(u)'
    <3>1. ClearOK(u) /\ since' = since
      BY <1>0, <1>1 DEF ClearInv
    <3>2. pc'[u] = "again" => pc[u] = "again"
      BY <1>8
    <3>3. QED
      BY <2>1, <3>1, <3>2 DEF ClearOK
  <2>3. QED
    BY <1>0, <1>1, <2>2 DEF ClearInv
<1>11. QED
  BY <1>2, <1>3, <1>4, <1>5, <1>9, <1>10 DEF MemoryInv

\* The memo is taken.
LEMMA TakeInv ==
  ASSUME MemoryInv, UNCHANGED entrants, NEW t \in Threads, TakeMemo(t) PROVE MemoryInv'
<1>0. /\ HoldInv /\ WorkInv /\ MemoInv /\ RequestInv /\ ClearInv /\ Used <= Maximum
      /\ RequestOK(t) /\ pc \in [Threads -> Labels] /\ req \in [Threads -> Requests]
  BY DEF MemoryInv, RequestInv
<1>1. /\ pc[t] = "take" /\ pc' = [pc EXCEPT ![t] = "again"]
      /\ old' = [old EXCEPT ![t] = MemoIds(memo)]
      /\ memo' = [k \in Keys |-> 0] /\ recency' = <<>> /\ memoRetained' = 0
      /\ UNCHANGED <<size, held, slot, work, task, retained, working, independent, owners,
                     req, since>>
  BY DEF TakeMemo, ledger, Become
<1>2. HoldInv'
  BY <1>0, TakeMemoKeeps
<1>3. MemoInv'
  BY <1>0, <1>1, EmptyMemo
<1>4. WorkInv' /\ Used' <= Maximum
  BY <1>0, <1>1, WorkStutters DEF Used
<1>5. MemoIds(memo') = {} /\ MemoIds(memo)' = {}
  BY <1>1 DEF MemoIds
<1>6. pc'[t] = "again" /\ pc' \in [Threads -> Labels]
  BY <1>0, <1>1 DEF Labels
<1>7. RequestInv'
  <2>1. ASSUME NEW u \in Threads, u # t PROVE Spared(t, u)
    <3>1. RequestOK(u) /\ pc'[u] = pc[u] /\ old'[u] = old[u] /\ held'[u] = held[u]
      BY <1>0, <1>1, <2>1 DEF RequestInv, HoldInv
    <3>2. ASSUME pc[u] = "built" PROVE Fresh(u)
      BY <3>1, <3>2 DEF RequestOK
    <3>3. req[u].kind = "source" => slot' = 0
      BY <1>1, <3>1 DEF RequestOK
    <3>4. QED
      BY <1>1, <1>5, <2>1, <3>1, <3>2, <3>3 DEF Spared, Fresh
  <2>2. RequestOK(t)'
    BY <1>0, <1>1, <1>6 DEF RequestOK
  <2>3. req' \in [Threads -> Requests]
    BY <1>0, <1>1
  <2>4. QED
    BY <1>0, <1>6, <2>1, <2>2, <2>3, SparedStand
<1>8. ClearInv'
  <2>1. ASSUME NEW u \in Threads PROVE ClearOK(u)'
    <3>1. ClearOK(u) /\ since' = since /\ Slotted' = Slotted
      BY <1>0, <1>1 DEF ClearInv, Slotted
    <3>2. pc'[u] \in {"take", "again"} => pc[u] \in {"take", "again"}
      BY <1>0, <1>1
    <3>3. QED
      BY <1>5, <3>1, <3>2 DEF ClearOK
  <2>2. QED
    BY <1>0, <1>1, <2>1 DEF ClearInv
<1>9. QED
  BY <1>2, <1>3, <1>4, <1>7, <1>8 DEF MemoryInv

\* References are dropped.
LEMMA DropInv ==
  ASSUME MemoryInv, UNCHANGED entrants, NEW t \in Threads,
         DropOne(t) \/ \E a \in Ids : DropHandle(t, a)
  PROVE  MemoryInv'
<1>0. /\ HoldInv /\ WorkInv /\ MemoInv /\ RequestInv /\ ClearInv /\ Used <= Maximum
      /\ RequestOK(t) /\ pc \in [Threads -> Labels] /\ req \in [Threads -> Requests]
      /\ since \in [Threads -> SUBSET Ids]
  BY DEF MemoryInv, RequestInv, ClearInv
<1>1. UNCHANGED <<store, memo, slot, work, task>>
  BY DEF DropOne, DropHandle, store
<1>2. ASSUME DropOne(t)
      PROVE  /\ HoldInv' /\ retained' <= retained /\ (\A b \in References' : size'[b] = size[b])
             /\ UNCHANGED <<working, independent, owners>>
             /\ \A u \in Threads : held'[u] = held[u] /\ old'[u] \subseteq old[u]
             /\ UNCHANGED <<pc, req, since>> /\ old[t] # {}
  <2>1. UNCHANGED <<held, pc, req, since>> /\ old[t] # {}
    BY <1>2 DEF DropOne
  <2>2. QED
    BY <1>0, <1>2, <2>1, DropOneKeeps
<1>3. ASSUME NEW a \in Ids, DropHandle(t, a)
      PROVE  /\ HoldInv' /\ retained' <= retained /\ (\A b \in References' : size'[b] = size[b])
             /\ UNCHANGED <<working, independent, owners, old>>
             /\ held'[t] \subseteq held[t] /\ \A u \in Threads : u # t => held'[u] = held[u]
             /\ \/ Ready(t) /\ UNCHANGED <<pc, req, since>>
                \/ Finish(t)
  <2>1. /\ HoldInv' /\ retained' <= retained /\ (\A b \in References' : size'[b] = size[b])
        /\ UNCHANGED <<working, independent, owners>>
        /\ held' = [held EXCEPT ![t] = @ \ {a}] /\ UNCHANGED <<old, memo, slot>>
        /\ \A u \in Threads : held'[u] \subseteq held[u]
    BY <1>0, <1>3, DropHandleKeeps
  <2>2. \A u \in Threads : u # t => held'[u] = held[u]
    BY <1>0, <2>1 DEF HoldInv
  <2>3. \/ Ready(t) /\ UNCHANGED <<pc, req, since>>
        \/ Finish(t)
    BY <1>3 DEF DropHandle
  <2>4. QED
    BY <2>1, <2>2, <2>3
<1>4. /\ HoldInv' /\ retained' <= retained /\ (\A b \in References' : size'[b] = size[b])
      /\ UNCHANGED <<working, independent, owners>>
      /\ held'[t] \subseteq held[t]
      /\ \A u \in Threads : u # t => held'[u] = held[u] /\ old'[u] \subseteq old[u]
  BY <1>2, <1>3
<1>5. \/ UNCHANGED <<pc, req, since>> /\ pc[t] \notin {"callbacks", "take", "built"}
      \/ Finish(t)
  <2>1. ASSUME DropOne(t) PROVE UNCHANGED <<pc, req, since>> /\ pc[t] \notin {"callbacks", "take", "built"}
    BY <1>0, <1>2, <2>1 DEF RequestOK
  <2>2. ASSUME NEW a \in Ids, DropHandle(t, a)
        PROVE  \/ UNCHANGED <<pc, req, since>> /\ pc[t] \notin {"callbacks", "take", "built"}
               \/ Finish(t)
    BY <1>3, <2>2 DEF Ready
  <2>3. QED
    BY <2>1, <2>2
<1>6. /\ pc' \in [Threads -> Labels] /\ req' \in [Threads -> Requests]
      /\ since' \in [Threads -> SUBSET Ids] /\ RequestOK(t)'
      /\ \A u \in Threads : u # t => pc'[u] = pc[u] /\ req'[u] = req[u]
      /\ \A u \in Threads : \/ pc'[u] = pc[u] /\ since'[u] = since[u]
                            \/ pc'[u] \notin {"take", "again"}
                            \/ u \notin entrants
  <2>1. CASE UNCHANGED <<pc, req, since>> /\ pc[t] \notin {"callbacks", "take", "built"}
    <3>1. RequestOK(t)'
      BY <1>0, <1>1, <2>1 DEF RequestOK
    <3>2. QED
      BY <1>0, <2>1, <3>1
  <2>2. CASE Finish(t)
    <3>1. /\ pc' = [pc EXCEPT ![t] = "idle"] /\ req' = [req EXCEPT ![t] = None]
          /\ since' = [since EXCEPT ![t] = {}]
      BY <2>2 DEF Finish
    <3>2. RequestOK(t)'
      BY <1>0, <3>1, NoneIs DEF RequestOK
    <3>3. QED
      BY <1>0, <3>1, <3>2, NoneIs DEF Labels
  <2>3. QED
    BY <1>5, <2>1, <2>2
<1>7. RequestInv'
  <2>1. ASSUME NEW u \in Threads, u # t PROVE Spared(t, u)
    BY <1>0, <1>1, <1>4, <1>6, <2>1, ReclaimSpares
  <2>2. QED
    BY <1>0, <1>6, <2>1, SparedStand
<1>8. ClearInv'
  BY <1>0, <1>1, <1>6, ClearStands
<1>9. MemoInv'
  BY <1>0, <1>1, <1>4, ReclaimedMemo
<1>10. WorkInv'
  BY <1>0, <1>1, <1>4, WorkStutters
<1>11. Used' <= Maximum
  BY <1>0, <1>4, LessFits
<1>12. QED
  BY <1>4, <1>7, <1>8, <1>9, <1>10, <1>11 DEF MemoryInv

\* What a thread keeps in the memo or the slot is in since of whoever has cleared them.
LEMMA RetainKeepsClear ==
  ASSUME ClearInv, UNCHANGED entrants, NEW t \in Threads, NEW a \in Ids, Retain(a),
         \A u \in Threads : pc'[u] \in {"take", "again"} => pc'[u] = pc[u],
         MemoIds(memo') \subseteq MemoIds(memo) \cup {a}, slot' \in {slot, a}
  PROVE  ClearInv'
<1>1. since' = [u \in Threads |-> IF pc[u] \in {"take", "again"} THEN since[u] \cup {a} ELSE since[u]]
  BY DEF Retain
<1>2. since' \in [Threads -> SUBSET Ids]
  BY <1>1 DEF ClearInv
<1>3. MemoIds(memo)' = MemoIds(memo') /\ Slotted' \subseteq Slotted \cup {a}
  BY DEF MemoIds, Slotted
<1>4. ASSUME NEW u \in Threads PROVE ClearOK(u)'
  <2>1. ClearOK(u)
    BY DEF ClearInv
  <2>2. pc'[u] \in {"take", "again"} => pc'[u] = pc[u] /\ since'[u] = since[u] \cup {a}
    BY <1>1
  <2>3. QED
    BY <1>3, <2>1, <2>2 DEF ClearOK
<1>5. QED
  BY <1>2, <1>4 DEF ClearInv

\* A new entry, or a new source in the slot.
LEMMA KeepInv ==
  ASSUME MemoryInv, UNCHANGED entrants, NEW t \in Threads, Insert(t) \/ KeepSource(t)
  PROVE  MemoryInv'
<1>0. /\ HoldInv /\ WorkInv /\ MemoInv /\ RequestInv /\ ClearInv /\ Used <= Maximum
      /\ RequestOK(t) /\ pc \in [Threads -> Labels] /\ req \in [Threads -> Requests]
  BY DEF MemoryInv, RequestInv
<1>1. PICK a : a = req[t].alloc
  OBVIOUS
<1>2. /\ pc[t] = "built" /\ pc' = [pc EXCEPT ![t] = "idle"] /\ req' = [req EXCEPT ![t] = None]
      /\ Retain(a) /\ UNCHANGED <<size, held, work, task, retained, working, independent, owners>>
  BY <1>1 DEF Insert, KeepSource, Become, Ask, ledger
<1>3. a \in held[t] /\ a \in Ids /\ Fresh(t)
  BY <1>0, <1>1, <1>2 DEF RequestOK, Fresh, HoldInv
<1>4. ASSUME Insert(t)
      PROVE  /\ HoldInv' /\ MemoInv' /\ slot' = slot
             /\ MemoIds(memo') \subseteq MemoIds(memo) \cup {a}
             /\ \A u \in Threads : u # t => old'[u] = old[u]
  <2>1. PICK k, b, n : InsertDoes(t, k, b, n)
    BY <1>0, <1>4, InsertFacts
  <2>2. b = a /\ slot' = slot /\ old' = [old EXCEPT ![t] = OldestIds(n)]
    BY <1>1, <2>1 DEF InsertDoes
  <2>3. HoldInv' /\ MemoInv'
    BY <1>0, <2>1, InsertHolds, InsertKeepsMemo
  <2>4. MemoIds(memo') = (MemoIds(memo) \ OldestIds(n)) \cup {b}
    BY <1>0, <2>1, InsertIds
  <2>5. \A u \in Threads : u # t => old'[u] = old[u]
    BY <1>0, <2>2 DEF HoldInv
  <2>6. QED
    BY <2>2, <2>3, <2>4, <2>5
<1>5. ASSUME KeepSource(t)
      PROVE  /\ HoldInv' /\ MemoInv' /\ slot' = a /\ t = Owner
             /\ MemoIds(memo') \subseteq MemoIds(memo) \cup {a}
             /\ \A u \in Threads : u # t => old'[u] = old[u]
  <2>1. slot' = a /\ UNCHANGED <<old, memo, recency, memoRetained>> /\ req[t].kind = "source"
    BY <1>1, <1>5 DEF KeepSource, store
  <2>2. HoldInv'
    BY <1>0, <1>5, KeepSourceKeeps
  <2>3. MemoInv'
    BY <1>0, <1>2, <2>1, MemoStands DEF HoldInv, Sizes
  <2>4. t = Owner
    BY <1>0, <2>1 DEF RequestOK
  <2>5. QED
    BY <2>1, <2>2, <2>3, <2>4
<1>6. /\ HoldInv' /\ MemoInv' /\ slot' \in {slot, a} /\ (slot' = slot \/ t = Owner)
      /\ MemoIds(memo') \subseteq MemoIds(memo) \cup {a}
      /\ \A u \in Threads : u # t => old'[u] = old[u]
  BY <1>4, <1>5
<1>7. WorkInv' /\ Used' <= Maximum
  BY <1>0, <1>2, WorkStutters DEF Used
<1>8. pc'[t] = "idle" /\ req'[t] = None /\ pc' \in [Threads -> Labels] /\ req' \in [Threads -> Requests]
  BY <1>0, <1>2, NoneIs DEF Labels
<1>9. RequestInv'
  <2>1. ASSUME NEW u \in Threads, u # t PROVE Spared(t, u)
    <3>1. /\ RequestOK(u) /\ pc'[u] = pc[u] /\ req'[u] = req[u] /\ old'[u] = old[u]
          /\ held'[u] = held[u]
      BY <1>0, <1>2, <1>6, <2>1 DEF RequestInv
    <3>2. req[u].kind = "source" => slot' = 0
      BY <1>6, <2>1, <3>1 DEF RequestOK
    <3>3. ASSUME pc[u] = "built"
          PROVE  /\ Fresh(u) /\ req[u].alloc # a /\ req[u].alloc \notin held[t]
      BY <1>3, <2>1, <3>1, <3>3 DEF RequestOK, Fresh
    <3>4. ASSUME pc[u] = "built"
          PROVE  /\ req[u].alloc \notin MemoIds(memo') /\ req[u].alloc # slot'
                 /\ req[u].alloc \notin held'[t]
      BY <1>2, <1>6, <3>3, <3>4 DEF Fresh
    <3>5. QED
      BY <1>2, <3>1, <3>2, <3>4 DEF Spared
  <2>2. RequestOK(t)'
    BY <1>8, NoneIs DEF RequestOK
  <2>3. QED
    BY <1>0, <1>8, <2>1, <2>2, SparedStand
<1>10. ClearInv'
  <2>1. \A u \in Threads : pc'[u] \in {"take", "again"} => pc'[u] = pc[u]
    BY <1>0, <1>2
  <2>2. QED
    BY <1>0, <1>2, <1>3, <1>6, <2>1, RetainKeepsClear
<1>11. QED
  BY <1>6, <1>7, <1>9, <1>10 DEF MemoryInv

\* A value or a source gets its bytes.
LEMMA AdmitInv ==
  ASSUME MemoryInv, UNCHANGED entrants, NEW t \in Threads, AdmitRetained(t) PROVE MemoryInv'
<1>0. /\ HoldInv /\ WorkInv /\ MemoInv /\ RequestInv /\ ClearInv /\ Used <= Maximum
      /\ RequestOK(t) /\ pc \in [Threads -> Labels] /\ req \in [Threads -> Requests]
      /\ since \in [Threads -> SUBSET Ids] /\ size \in Sizes
  BY DEF MemoryInv, RequestInv, ClearInv, HoldInv, Sizes
<1>1. PICK a \in Ids \ Live :
           /\ HoldInv' /\ Used' <= Maximum
           /\ size' = [size EXCEPT ![a] = req[t].bytes]
           /\ held' = [held EXCEPT ![t] = @ \cup {a}]
           /\ req' = [req EXCEPT ![t] = [req[t] EXCEPT !.alloc = a]]
           /\ a \notin References
           /\ UNCHANGED <<old, memo, slot>>
  BY <1>0, AdmitRetainedKeeps
<1>2. /\ pc' = [pc EXCEPT ![t] = "built"] /\ since' = [since EXCEPT ![t] = {}]
      /\ UNCHANGED <<recency, memoRetained, work, task, working, independent, owners>>
      /\ Reserving(t) /\ ~IsWork(t)
  BY DEF AdmitRetained, Become, store
<1>3. WorkInv'
  BY <1>0, <1>1, <1>2, WorkStutters
<1>4. MemoInv'
  <2>1. a \notin MemoIds(memo)
    BY <1>1, MemoRefers
  <2>2. size' \in Sizes /\ \A b \in MemoIds(memo) : size'[b] = size[b]
    BY <1>0, <1>1, <2>1 DEF HoldInv, MemoIds, Sizes
  <2>3. QED
    BY <1>0, <1>1, <1>2, <2>2, MemoStands
<1>5. PICK r : r = [req[t] EXCEPT !.alloc = a]
  OBVIOUS
<1>6. /\ r \in Requests /\ r.kind = req[t].kind /\ r.bytes = req[t].bytes /\ r.key = req[t].key
      /\ r.alloc = a /\ r.lanes = req[t].lanes
  <2>1. req[t] \in Requests
    BY <1>0
  <2>2. QED
    BY <1>5, <2>1 DEF Requests
<1>7. /\ pc'[t] = "built" /\ req'[t] = r /\ pc' \in [Threads -> Labels]
      /\ req' \in [Threads -> Requests] /\ since' \in [Threads -> SUBSET Ids]
  BY <1>0, <1>1, <1>2, <1>5, <1>6 DEF Labels
<1>8. a \notin MemoIds(memo) /\ a # slot /\ \A u \in Threads : a \notin held[u]
  BY <1>1 DEF References, Slotted, Handles, Ids
<1>9. RequestOK(t)'
  <2>1. /\ req[t].kind \in {"value", "source"} /\ old[t] = {}
    <3>1. req[t].kind \in Kinds /\ req[t].kind # "none" /\ old[t] = {}
      BY <1>0, <1>2 DEF RequestOK, Reserving, Requests
    <3>2. QED
      BY <1>2, <3>1 DEF Kinds, IsWork
  <2>2. /\ a \in held'[t] /\ size'[a] = r.bytes
        /\ \A u \in Threads : u # t => a \notin held'[u]
    BY <1>0, <1>1, <1>6, <1>8 DEF HoldInv, Sizes
  <2>3. a \notin MemoIds(memo') /\ a # slot' /\ MemoIds(memo)' = MemoIds(memo')
    BY <1>1, <1>8 DEF MemoIds
  <2>4. Fresh(t)'
    BY <1>6, <1>7, <2>2, <2>3 DEF Fresh
  <2>5. QED
    BY <1>0, <1>1, <1>6, <1>7, <2>1, <2>4 DEF RequestOK
<1>10. RequestInv'
  <2>1. ASSUME NEW u \in Threads, u # t PROVE Spared(t, u)
    <3>1. RequestOK(u) /\ pc'[u] = pc[u] /\ req'[u] = req[u] /\ held'[u] = held[u]
      BY <1>0, <1>1, <1>2, <2>1 DEF RequestInv, HoldInv
    <3>2. req[u].kind = "source" => slot' = 0
      BY <1>1, <3>1 DEF RequestOK
    <3>3. ASSUME pc[u] = "built"
          PROVE  /\ Fresh(u) /\ req[u].alloc # a /\ req[u].alloc \in Ids
      BY <1>0, <1>8, <3>1, <3>3 DEF RequestOK, Fresh, HoldInv
    <3>4. ASSUME pc[u] = "built"
          PROVE  /\ req[u].alloc \notin MemoIds(memo') /\ req[u].alloc # slot'
                 /\ req[u].alloc \notin held'[t] /\ size'[req[u].alloc] = size[req[u].alloc]
      <4>1. req[u].alloc \notin held[t] /\ held'[t] = held[t] \cup {a}
        BY <1>0, <1>1, <2>1, <3>3, <3>4 DEF Fresh, HoldInv
      <4>2. size'[req[u].alloc] = size[req[u].alloc]
        BY <1>0, <1>1, <3>3, <3>4 DEF Sizes
      <4>3. QED
        BY <1>1, <3>3, <3>4, <4>1, <4>2 DEF Fresh
    <3>5. QED
      BY <1>1, <3>1, <3>2, <3>4 DEF Spared
  <2>2. QED
    BY <1>0, <1>7, <1>9, <2>1, SparedStand
<1>11. ClearInv'
  <2>1. \A u \in Threads : \/ pc'[u] = pc[u] /\ since'[u] = since[u]
                           \/ pc'[u] \notin {"take", "again"}
    BY <1>0, <1>2
  <2>2. slot' \in {slot, 0} /\ MemoIds(memo') \subseteq MemoIds(memo)
    BY <1>1
  <2>3. QED
    BY <1>0, <1>7, <2>1, <2>2, ClearStands
<1>12. QED
  BY <1>1, <1>3, <1>4, <1>10, <1>11 DEF MemoryInv

-----------------------------------------------------------------------------
\* The theorems

LEMMA MemoryInit == ASSUME Init PROVE MemoryInv
<1>1. /\ size = [a \in Ids |-> 0] /\ held = [t \in Threads |-> {}] /\ old = [t \in Threads |-> {}]
      /\ memo = [k \in Keys |-> 0] /\ recency = <<>> /\ memoRetained = 0 /\ slot = 0
      /\ work = [t \in Threads |-> <<>>] /\ task = 0
      /\ retained = 0 /\ working = 0 /\ independent = 0 /\ owners = [t \in Threads |-> 0]
      /\ entrants \in Scopes /\ pc = [t \in Threads |-> "idle"]
      /\ req = [t \in Threads |-> None] /\ since = [t \in Threads |-> {}]
  BY DEF Init
<1>2. PICK none : none = {}
  OBVIOUS
<1>3. MemoIds(memo) = none /\ Slotted = none /\ Handles(held, old) = none
  BY <1>1, <1>2 DEF MemoIds, Slotted, Handles
<1>4. Live = none /\ References = none
  BY <1>1, <1>2, <1>3 DEF Live, References
<1>5. size \in Sizes
  BY <1>1 DEF Sizes
<1>6. BytesIn(size, none) = 0
  BY <1>2, <1>5, BytesOfNone
<1>7. Bytes(Live) = 0 /\ Bytes(MemoIds(memo)) = 0
  BY <1>3, <1>4, <1>6 DEF Bytes, BytesIn
<1>8. HoldInv
  <2>1. held \in [Threads -> SUBSET Ids] /\ old \in [Threads -> SUBSET Ids]
    BY <1>1
  <2>2. QED
    BY <1>1, <1>4, <1>5, <1>7, <2>1 DEF HoldInv, RetainedMatches, Sizes
<1>9. WorkInv
  <2>1. work \in [Threads -> Seq(Nat)] /\ \A t \in Threads : Len(work[t]) = 0
    BY <1>1
  <2>2. ASSUME NEW t \in Threads PROVE Workspaces(work)[t] = 0
    <3>1. Total(work[t], 0) = 0
      BY TotalOfNone
    <3>2. QED
      BY <2>1, <3>1 DEF Workspaces
  <2>3. PICK f : f = Workspaces(work)
    OBVIOUS
  <2>4. ThreadCount \in Nat /\ \A i \in 1..ThreadCount : f[i] = 0
    BY <2>2, <2>3, MemoryAssumption DEF Threads
  <2>5. Total(f, ThreadCount) = 0
    BY <2>4, TotalOfZeros
  <2>6. Total([t \in Threads |-> WorkOf(t)], ThreadCount) = 0
    BY <2>3, <2>5, WorkspacesAre
  <2>7. WorkingMatches
    BY <1>1, <2>1, <2>6 DEF WorkingMatches
  <2>8. owners \in [Threads -> Nat]
    BY <1>1
  <2>9. QED
    BY <1>1, <2>1, <2>7, <2>8 DEF WorkInv
<1>10. MemoInv
  <2>1. recency \in Seq(Keys) /\ DOMAIN recency = {}
    BY <1>1
  <2>2. MemoMatches
    BY <1>1, <1>7, <2>1, MemoryAssumption DEF MemoMatches
  <2>3. EntriesOwn
    BY <1>1 DEF EntriesOwn
  <2>4. QED
    BY <1>1, <2>1, <2>2, <2>3 DEF MemoInv
<1>11. RequestInv
  <2>1. pc \in [Threads -> Labels] /\ req \in [Threads -> Requests]
    BY <1>1, NoneIs DEF Labels
  <2>2. ASSUME NEW t \in Threads PROVE RequestOK(t)
    BY <1>1, NoneIs DEF RequestOK
  <2>3. QED
    BY <2>1, <2>2 DEF RequestInv
<1>12. ClearInv
  BY <1>1, MemoryAssumption DEF ClearInv, ClearOK
<1>13. Used <= Maximum
  BY <1>1, MemoryAssumption DEF Used
<1>14. QED
  BY <1>8, <1>9, <1>10, <1>11, <1>12, <1>13 DEF MemoryInv

LEMMA MemoryStep == ASSUME MemoryInv, [Next]_vars PROVE MemoryInv'
<1>1. CASE UNCHANGED vars
  <2>1. /\ UNCHANGED <<HoldVars, store, entrants, pc, req, since>>
        /\ UNCHANGED <<retained, work, task, working, independent, owners>>
    BY <1>1 DEF vars, HoldVars, store, ledger
  <2>2. WorkInv /\ Used <= Maximum
    BY DEF MemoryInv
  <2>3. WorkInv' /\ Used' <= Maximum
    BY <2>1, <2>2, WorkStutters DEF Used
  <2>4. QED
    BY <2>1, <2>3, OnlyWork DEF MemoryInv
<1>2. CASE Next
  <2>1. UNCHANGED entrants
    BY <1>2 DEF Next
  <2>2. ASSUME NEW t \in Threads, Proceed(t) PROVE MemoryInv'
    BY <2>1, <2>2, WorkKeeps, AdmitInv, AskingKeeps, EmptySlotInv, TakeInv, DropInv, KeepInv
       DEF Proceed
  <2>3. ASSUME NEW t \in Threads, Request(t) PROVE MemoryInv'
    BY <2>1, <2>3, HitKeeps, AskingKeeps, EmptySlotInv, DropInv DEF Request
  <2>4. ASSUME NEW t \in Threads, Release(t) PROVE MemoryInv'
    BY <2>1, <2>4, WorkKeeps
  <2>5. ASSUME StartTask \/ EndTask \/ Cancel PROVE MemoryInv'
    <3>1. Owner \in Threads
      BY MemoryAssumption
    <3>2. QED
      BY <2>1, <2>5, <3>1, WorkKeeps
  <2>6. QED
    BY <1>2, <2>2, <2>3, <2>4, <2>5 DEF Next
<1>3. QED
  BY <1>1, <1>2

LEMMA MemoryInvariant == Spec => []MemoryInv
<1>1. Init => MemoryInv
  BY MemoryInit
<1>2. MemoryInv /\ [Next]_vars => MemoryInv'
  BY MemoryStep
<1>3. QED
  BY <1>1, <1>2, PTL DEF Spec

\* The ledger of the run and the memo count exactly what is alive, for any number of threads, keys
\* and sizes: whoever drops the last reference to a value or a source, in whatever order and beside
\* whatever clear, Usage::retained loses what its reservation added (MemoryReservation::drop,
\* Memo::retained), and the run never charges more than maximum_bytes.
THEOREM ChargesMatchLifeAlways == Spec => []ChargesMatchLife
<1>1. MemoryInv => ChargesMatchLife
  BY DEF MemoryInv, HoldInv, WorkInv, MemoInv, ChargesMatchLife
<1>2. QED
  BY <1>1, MemoryInvariant, PTL

LEMMA RefusedForOthers ==
  ASSUME MemoryInv, NEW t \in Threads, pc[t] = "again", t \in entrants, ~cancelled, Refuse(t)
  PROVE  LET needed == (UNION {held[u] : u \in Threads})
                       \cup (UNION {old[u] : u \in Threads \ {t}}) \cup since[t]
         IN req[t].bytes > Maximum - (working + Bytes(needed \cap Live))
<1>0. PICK H, O : H = UNION {held[u] : u \in Threads} /\ O = UNION {old[u] : u \in Threads \ {t}}
  OBVIOUS
<1>1. PICK needed : needed = H \cup O \cup since[t]
  OBVIOUS
<1>2. old[t] = {} /\ ~Fits(req[t].bytes)
  BY DEF Refuse, Error, Reserving
<1>3. MemoIds(memo) \subseteq since[t] /\ Slotted \subseteq since[t]
  BY DEF MemoryInv, ClearInv, ClearOK
<1>4. Handles(held, old) \subseteq needed /\ since[t] \subseteq needed
  <2>2. ASSUME NEW x \in Handles(held, old) PROVE x \in H \cup O
    <3>1. PICK u \in Threads : x \in held[u] \/ x \in old[u]
      BY DEF Handles
    <3>2. CASE x \in held[u]
      BY <1>0, <3>2
    <3>3. CASE x \in old[u]
      <4>1. u \in Threads \ {t}
        BY <1>2, <3>3
      <4>2. QED
        BY <1>0, <3>3, <4>1
    <3>4. QED
      BY <3>1, <3>2, <3>3
  <2>3. QED
    BY <1>1, <2>2
<1>5. Live \subseteq needed
  <2>1. Live = Handles(held, old) \cup MemoIds(memo) \cup Slotted
    BY DEF MemoryInv, HoldInv, RetainedMatches, References
  <2>2. QED
    BY <1>3, <1>4, <2>1
<1>6. needed \cap Live = Live
  BY <1>5
<1>7. Bytes(needed \cap Live) = retained
  <2>1. Bytes(Live) = retained
    BY DEF MemoryInv, HoldInv, RetainedMatches
  <2>2. QED
    BY <1>6, <2>1
<1>8. PICK b, r, w : b = req[t].bytes /\ r = retained /\ w = working
  OBVIOUS
<1>9. b \in Nat /\ r \in Nat /\ w \in Nat /\ Maximum \in Nat
  BY <1>8, MemoryAssumption DEF MemoryInv, RequestInv, Requests, HoldInv, WorkInv
<1>10. ~(b <= Maximum - (r + w))
  BY <1>2, <1>8 DEF Fits, Used
<1>11. b > Maximum - (w + r)
  BY <1>9, <1>10
<1>12. QED
  BY <1>0, <1>1, <1>7, <1>8, <1>11

\* Optional retention never turns a request that fits into a refusal (ordered_map, reserve_working,
\* reserve_runtime), for any number of threads and whatever they do between the callbacks of the
\* clear, the taking of the memo and the second request.
THEOREM RefusalNeedsOthersAlways == Spec => RefusalNeedsOthers
<1>1. MemoryInv /\ [Next]_vars
        => [\A t \in Threads :
              pc[t] = "again" /\ t \in entrants /\ ~cancelled /\ Refuse(t)
              => LET needed == (UNION {held[u] : u \in Threads})
                               \cup (UNION {old[u] : u \in Threads \ {t}}) \cup since[t]
                 IN req[t].bytes > Maximum - (working + Bytes(needed \cap Live))]_vars
  BY RefusedForOthers
<1>2. QED
  BY <1>1, MemoryInvariant, PTL DEF Spec, RefusalNeedsOthers

-----------------------------------------------------------------------------
\* The look-ahead lane

Outcomes == [by : Nat, panic : BOOLEAN]

LaneTypes ==
  /\ slots \in [Jobs -> {"Queued", "Running", "Done", "DiscardRunning", "Closed"}]
  /\ outcome \in [Jobs -> Outcomes]
  /\ worker \in {"none", "look", "wait", "run", "exit"}
  /\ job \in Nat
  /\ claim \in [Claimants -> [job : Jobs, accepted : BOOLEAN]]
  /\ delivered \subseteq [job : Jobs, of : Outcomes]
  /\ inline \subseteq Jobs

\* The thread finds its slot by the slot's state: only the job it took last can
\* be in such a state, and only while the thread runs it.
ActiveIsJob == \A j \in Active : worker = "run" /\ j = job

\* A finished slot holds the outcome of its own job.
DoneIsOwn == \A j \in Finished : outcome[j].by = j

\* The inductive invariant behind OneResultPerJob.
LaneInv == LaneTypes /\ ActiveIsJob /\ DoneIsOwn /\ OneResultPerJob

\* The lane starts with every job queued and nothing handed out.
LEMMA LaneStarts == LaneInit => LaneInv
<1> SUFFICES ASSUME LaneInit PROVE LaneInv
  OBVIOUS
<1>1. LaneTypes
  BY LaneAssumption DEF LaneInit, LaneTypes, Outcomes, Nothing, Jobs
<1>2. ActiveIsJob /\ DoneIsOwn /\ OneResultPerJob
  BY DEF LaneInit, ActiveIsJob, DoneIsOwn, OneResultPerJob, Active, Finished
<1> QED BY <1>1, <1>2 DEF LaneInv

\* Taking the first queued job, which happens only when nothing is finished
\* and nothing runs.
LEMMA TakeJobKeeps == ASSUME LaneInv, TakeJob PROVE LaneInv'
<1> USE DEF LaneInv
<1>1. PICK j \in Waiting : job' = j /\ slots' = [slots EXCEPT ![j] = "Running"]
  BY DEF TakeJob
<1>2. /\ worker' = "run" /\ Finished = {} /\ Active = {}
      /\ UNCHANGED <<outcome, claim, delivered, inline>>
  BY DEF TakeJob, MayTake, ActiveIsJob
<1>3. LaneTypes'
  BY <1>1, <1>2 DEF LaneTypes, Waiting, Jobs
<1>4. Finished' = {}
  BY <1>1, <1>2 DEF Finished, Waiting, LaneTypes
<1>5. ActiveIsJob'
  BY <1>1, <1>2 DEF ActiveIsJob, Active, LaneTypes
<1>6. DoneIsOwn' /\ OneResultPerJob'
  BY <1>1, <1>2, <1>4 DEF DoneIsOwn, OneResultPerJob, Waiting, LaneTypes
<1> QED BY <1>3, <1>5, <1>6

\* Storing an outcome: the slot that is found is the job's own, unless a claim
\* has closed it, and then nothing is stored.
LEMMA FinishJobKeeps == ASSUME LaneInv, FinishJob PROVE LaneInv'
<1> USE DEF LaneInv
<1>1. /\ worker = "run" /\ worker' = "look" /\ Finished = {}
      /\ UNCHANGED <<job, claim, delivered, inline>>
  BY DEF FinishJob, OneResultPerJob
<1>2. CASE Active = {} /\ UNCHANGED <<slots, outcome>>
  <2>1. LaneTypes' BY <1>1, <1>2 DEF LaneTypes
  <2>2. Active' = {} /\ Finished' = {}
    BY <1>1, <1>2 DEF Active, Finished
  <2> QED BY <1>1, <1>2, <2>1, <2>2 DEF ActiveIsJob, DoneIsOwn, OneResultPerJob
<1>3. CASE \E j \in Active, out \in {[by |-> job, panic |-> FALSE],
                                     [by |-> job, panic |-> TRUE], Nothing} :
             LET kept == slots[j] = "Running" /\ out # Nothing IN
             /\ slots' = [slots EXCEPT ![j] = IF kept THEN "Done" ELSE "Closed"]
             /\ outcome' = [outcome EXCEPT ![j] = IF kept THEN out ELSE Nothing]
  <2>1. PICK j \in Active, out \in {[by |-> job, panic |-> FALSE],
                                    [by |-> job, panic |-> TRUE], Nothing} :
             LET kept == slots[j] = "Running" /\ out # Nothing IN
             /\ slots' = [slots EXCEPT ![j] = IF kept THEN "Done" ELSE "Closed"]
             /\ outcome' = [outcome EXCEPT ![j] = IF kept THEN out ELSE Nothing]
    BY <1>3
  <2>2. j = job /\ j \in Jobs /\ Active = {j}
    BY DEF ActiveIsJob, Active
  <2>3. out \in Outcomes /\ Nothing \in Outcomes /\ (out # Nothing => out.by = j)
    <3>1. job \in Nat BY DEF LaneTypes
    <3>2. Nothing \in Outcomes BY DEF Nothing, Outcomes
    <3>3. \A p \in BOOLEAN : [by |-> job, panic |-> p] \in Outcomes
      BY <3>1 DEF Outcomes
    <3>4. \A p \in BOOLEAN : [by |-> job, panic |-> p].by = job
      OBVIOUS
    <3> QED BY <2>2, <3>2, <3>3, <3>4
  <2>4. LaneTypes'
    BY <1>1, <2>1, <2>2, <2>3 DEF LaneTypes
  <2>5. Active' = {}
    BY <2>1, <2>2 DEF Active, LaneTypes
  <2>6. Finished' \subseteq {j}
    BY <1>1, <2>1, <2>2 DEF Finished, LaneTypes
  <2>7. j \in Finished' => slots[j] = "Running" /\ outcome'[j].by = j
    BY <2>1, <2>2, <2>3 DEF Finished, LaneTypes
  <2>8. DoneIsOwn'
    BY <2>6, <2>7 DEF DoneIsOwn
  <2>9. OneResultPerJob'
    <3>1. \A d \in delivered' : d.of.by = d.job /\ slots'[d.job] = "Closed"
      BY <1>1, <2>1, <2>2 DEF OneResultPerJob, Active, LaneTypes
    <3>2. \A i \in inline' : slots'[i] \in {"DiscardRunning", "Closed"}
      BY <1>1, <2>1, <2>2 DEF OneResultPerJob, LaneTypes
    <3> QED BY <1>1, <2>6, <3>1, <3>2 DEF OneResultPerJob
  <2> QED BY <1>1, <2>4, <2>5, <2>8, <2>9 DEF ActiveIsJob
<1> QED BY <1>2, <1>3 DEF FinishJob

\* The thread's end closes the queued jobs.
LEMMA ExitKeeps == ASSUME LaneInv, Exit PROVE LaneInv'
<1> USE DEF LaneInv
<1>1. /\ slots' = [j \in Jobs |-> IF slots[j] = "Queued" THEN "Closed" ELSE slots[j]]
      /\ worker = "look" /\ worker' = "exit"
      /\ UNCHANGED <<outcome, job, claim, delivered, inline>>
  BY DEF Exit
<1>2. LaneTypes' BY <1>1 DEF LaneTypes
<1>3. Active' = Active /\ Finished' = Finished
  BY <1>1 DEF Active, Finished, LaneTypes
<1>4. ActiveIsJob' /\ DoneIsOwn'
  BY <1>1, <1>3 DEF ActiveIsJob, DoneIsOwn
<1>5. OneResultPerJob'
  BY <1>1, <1>3 DEF OneResultPerJob, LaneTypes
<1> QED BY <1>2, <1>4, <1>5

\* A claim that closes or discards its slot; `Closing` is what Reject, Take and
\* Withdraw have in common.
Closing(c) ==
  LET j == claim[c].job IN
  /\ \/ slots' = [slots EXCEPT ![j] = "Closed"]
     \/ slots[j] \in {"Running", "DiscardRunning"}
        /\ slots' = [slots EXCEPT ![j] = "DiscardRunning"]
  /\ outcome' = [outcome EXCEPT ![j] = Nothing] \/ UNCHANGED outcome
  /\ worker' = WakeWorker
  /\ UNCHANGED <<job, claim>>

LEMMA ClosingFacts ==
  ASSUME LaneTypes, ActiveIsJob, NEW c \in Claimants, Closing(c)
  PROVE  /\ claim[c].job \in Jobs
         /\ slots' \in [Jobs -> {"Queued", "Running", "Done", "DiscardRunning", "Closed"}]
         /\ outcome' \in [Jobs -> Outcomes]
         /\ worker' \in {"none", "look", "wait", "run", "exit"}
         /\ worker' = "run" <=> worker = "run"
         /\ slots'[claim[c].job] \in {"DiscardRunning", "Closed"}
         /\ \A i \in Jobs : i # claim[c].job => slots'[i] = slots[i] /\ outcome'[i] = outcome[i]
         /\ Finished' \subseteq Finished
         /\ claim[c].job \notin Finished'
         /\ ActiveIsJob'
<1> DEFINE j == claim[c].job
<1>1. j \in Jobs /\ Nothing \in Outcomes
  BY DEF LaneTypes, Outcomes, Nothing
<1>2. /\ slots' \in [Jobs -> {"Queued", "Running", "Done", "DiscardRunning", "Closed"}]
      /\ slots'[j] \in {"DiscardRunning", "Closed"}
      /\ \A i \in Jobs : i # j => slots'[i] = slots[i]
      /\ slots'[j] = "DiscardRunning" => slots[j] \in {"Running", "DiscardRunning"}
  BY <1>1 DEF LaneTypes, Closing
<1>3. outcome' \in [Jobs -> Outcomes] /\ \A i \in Jobs : i # j => outcome'[i] = outcome[i]
  BY <1>1 DEF LaneTypes, Closing
<1>4. worker' \in {"none", "look", "wait", "run", "exit"} /\ (worker' = "run" <=> worker = "run")
  BY DEF LaneTypes, Closing, WakeWorker
<1>5. Finished' \subseteq Finished /\ j \notin Finished' /\ Active' \subseteq Active
  BY <1>1, <1>2 DEF Finished, Active
<1>6. ActiveIsJob'
  BY <1>4, <1>5 DEF ActiveIsJob, Closing
<1> QED BY <1>1, <1>2, <1>3, <1>4, <1>5, <1>6

\* Claims that answer: what is delivered is the slot's own outcome, what is
\* released stays closed.
LEMMA AnswerKeeps ==
  ASSUME LaneInv, NEW c \in Claimants, Reject(c) \/ Take(c) \/ Withdraw(c)
  PROVE  LaneInv'
<1> USE DEF LaneInv
<1> DEFINE j == claim[c].job
<1>1. Closing(c)
  BY DEF Reject, Take, Withdraw, Closing, Return, LaneTypes
<1>2. /\ j \in Jobs
      /\ slots' \in [Jobs -> {"Queued", "Running", "Done", "DiscardRunning", "Closed"}]
      /\ outcome' \in [Jobs -> Outcomes]
      /\ worker' \in {"none", "look", "wait", "run", "exit"}
      /\ worker' = "run" <=> worker = "run"
      /\ slots'[j] \in {"DiscardRunning", "Closed"}
      /\ \A i \in Jobs : i # j => slots'[i] = slots[i] /\ outcome'[i] = outcome[i]
      /\ Finished' \subseteq Finished
      /\ j \notin Finished'
      /\ ActiveIsJob'
  BY <1>1, ClosingFacts
<1>3. /\ delivered' = delivered /\ inline' = inline \cup {j}
      \/ /\ j \in Finished /\ slots'[j] = "Closed" /\ inline' = inline
         /\ delivered' = delivered \cup {[job |-> j, of |-> outcome[j]]}
  BY <1>2 DEF Reject, Take, Withdraw, Finished, LaneTypes
<1>4. LaneTypes'
  <2>1. outcome[j] \in Outcomes BY <1>2 DEF LaneTypes
  <2>2. delivered' \subseteq [job : Jobs, of : Outcomes] /\ inline' \subseteq Jobs
    BY <1>2, <1>3, <2>1 DEF LaneTypes
  <2> QED BY <1>1, <1>2, <2>2 DEF LaneTypes, Closing
<1>5. DoneIsOwn'
  BY <1>2 DEF DoneIsOwn, Finished
<1>6. \A d \in delivered : d.of.by = d.job /\ slots'[d.job] = "Closed"
  <2> TAKE d \in delivered
  <2>1. d.job \in Jobs /\ slots[d.job] = "Closed" /\ d.of.by = d.job
    BY DEF LaneTypes, OneResultPerJob
  <2> QED BY <1>1, <1>2, <2>1 DEF Closing, LaneTypes
<1>7. \A d \in delivered' : d.of.by = d.job /\ slots'[d.job] = "Closed"
  BY <1>3, <1>6 DEF DoneIsOwn
<1>8. \A i \in inline' : slots'[i] \in {"DiscardRunning", "Closed"}
  BY <1>2, <1>3 DEF OneResultPerJob, LaneTypes
<1>9. OneResultPerJob'
  BY <1>2, <1>7, <1>8 DEF OneResultPerJob
<1> QED BY <1>2, <1>4, <1>5, <1>9

\* Steps that leave the slots, the outcomes and the answers alone, and neither
\* start nor end a run.
LEMMA OtherKeeps ==
  ASSUME LaneInv, worker' \in {"none", "look", "wait", "run", "exit"},
         worker' = "run" <=> worker = "run",
         claim' \in [Claimants -> [job : Jobs, accepted : BOOLEAN]],
         UNCHANGED <<slots, outcome, job, delivered, inline>>
  PROVE  LaneInv'
<1> USE DEF LaneInv
<1>1. LaneTypes' BY DEF LaneTypes
<1>2. Active' = Active /\ Finished' = Finished BY DEF Active, Finished
<1>3. ActiveIsJob' /\ DoneIsOwn' BY <1>2 DEF ActiveIsJob, DoneIsOwn
<1>4. OneResultPerJob' BY <1>2 DEF OneResultPerJob
<1> QED BY <1>1, <1>3, <1>4

\* Before start_reserved there is no thread.
Unstarted == owner = "new" => worker = "none"

LEMMA UnstartedStep == Unstarted /\ [LaneNext]_laneVars => Unstarted'
<1> SUFFICES ASSUME Unstarted, [LaneNext]_laneVars PROVE Unstarted'
  OBVIOUS
<1>1. CASE Start \/ Decline \/ Stop \/ Notify \/ Join
  BY <1>1 DEF Unstarted, Start, Decline, Stop, Notify, Join
<1>2. CASE Lane
  BY <1>2 DEF Unstarted, Lane, WaitForClaim, TakeJob, Exit, FinishJob
<1>3. ASSUME NEW c \in Claimants, ReadKey(c) \/ Claiming(c) PROVE Unstarted'
  BY <1>3 DEF Unstarted, ReadKey, Claiming, Reject, WaitForJob, Take, Withdraw,
              Return, WakeWorker
<1>4. CASE UNCHANGED laneVars
  BY <1>4 DEF Unstarted, laneVars
<1> QED BY <1>1, <1>2, <1>3, <1>4 DEF LaneNext

\* Every step of the lane, of a claim and of the drop keeps the invariant.
LEMMA LaneStep == LaneInv /\ Unstarted /\ [LaneNext]_laneVars => LaneInv'
<1> SUFFICES ASSUME LaneInv, Unstarted, [LaneNext]_laneVars PROVE LaneInv'
  OBVIOUS
<1>0. LaneTypes BY DEF LaneInv
<1>1. CASE TakeJob BY <1>1, TakeJobKeeps
<1>2. CASE FinishJob BY <1>2, FinishJobKeeps
<1>3. CASE Exit BY <1>3, ExitKeeps
<1>4. ASSUME NEW c \in Claimants, Reject(c) \/ Take(c) \/ Withdraw(c) PROVE LaneInv'
  BY <1>4, AnswerKeeps
<1>5. ASSUME NEW c \in Claimants, ReadKey(c) PROVE LaneInv'
  <2>1. claim' \in [Claimants -> [job : Jobs, accepted : BOOLEAN]]
    BY <1>0, <1>5 DEF ReadKey, LaneTypes
  <2>2. UNCHANGED <<slots, outcome, worker, job, delivered, inline>>
    BY <1>5 DEF ReadKey
  <2> QED BY <1>0, <2>1, <2>2, OtherKeeps DEF LaneTypes
<1>6. ASSUME NEW c \in Claimants, WaitForJob(c) PROVE LaneInv'
  <2>1. UNCHANGED <<slots, outcome, worker, job, claim, delivered, inline>>
    BY <1>6 DEF WaitForJob
  <2> QED BY <1>0, <2>1, OtherKeeps DEF LaneTypes
<1>7. CASE Start \/ Decline \/ WaitForClaim \/ Stop \/ Notify \/ Join
  <2>1. UNCHANGED <<slots, outcome, job, claim, delivered, inline>>
    BY <1>7 DEF Start, Decline, WaitForClaim, Stop, Notify, Join
  <2>2. CASE ~Start
    <3>1. worker' \in {"none", "look", "wait", "run", "exit"} /\ (worker' = "run" <=> worker = "run")
      BY <1>0, <1>7, <2>2
      DEF Decline, WaitForClaim, Stop, Notify, Join, WakeWorker, LaneTypes
    <3> QED BY <1>0, <2>1, <3>1, OtherKeeps DEF LaneTypes
  <2>3. CASE Start
    <3>1. worker = "none" /\ worker' = "look"
      BY <2>3 DEF Start, Unstarted
    <3> QED BY <1>0, <2>1, <3>1, OtherKeeps DEF LaneTypes
  <2> QED BY <2>2, <2>3
<1>8. CASE UNCHANGED laneVars
  <2>1. UNCHANGED <<slots, outcome, worker, job, claim, delivered, inline>>
    BY <1>8 DEF laneVars
  <2> QED BY <1>0, <2>1, OtherKeeps DEF LaneTypes
<1> QED
  BY <1>1, <1>2, <1>3, <1>4, <1>5, <1>6, <1>7, <1>8 DEF LaneNext, Lane, Claiming

\* Whatever the number of jobs and however claims, the thread and the drop
\* interleave, a job's outcome is handed out at most once, for the job that
\* was asked for, and never when a claim has told its caller to compute inline
\* (capture_runtime.rs claim, start_reserved).
THEOREM LaneDeliversOnce == LaneSpec => []OneResultPerJob
<1>1. LaneInv => OneResultPerJob BY DEF LaneInv
<1>2. LaneInit => Unstarted BY DEF LaneInit, Unstarted
<1> QED BY LaneStarts, LaneStep, UnstartedStep, <1>1, <1>2, PTL DEF LaneSpec

=============================================================================
