------------------------------ MODULE RunMemory ------------------------------
(***************************************************************************)
(* The byte ledger of one run (xc-core run_resources.rs), the memo of      *)
(* validated values that spends it (xc-cache validated_memo.rs) and the    *)
(* three kinds of caller that ask it for memory: a validated value, a      *)
(* decoded source kept in an optional slot, and numerical work.            *)
(*                                                                         *)
(* An allocation is a number of 1..Maximum; it is alive, and charged, as   *)
(* long as somebody refers to it: a thread, the memo, the slot, or a       *)
(* thread that is about to drop what it took out of the memo.  A step is   *)
(* what a thread does under one acquisition of a mutex.                    *)
(***************************************************************************)
EXTENDS Naturals, FiniteSets, Sequences, SequencesExt, FiniteSetsExt, Sums

CONSTANTS
  ThreadCount,      \* threads 1..ThreadCount use the ledger
  Scopes,           \* sets of threads that may be inside the memo's scope
  Foreground,       \* those with a waiting_for_independent view
  Owner,            \* the thread that borrows the run and admits sources
  Maximum,          \* RunResources::maximum_bytes
  MemoMaximum,      \* the memo's own maximum_bytes
  Keys, Weight,     \* memo keys and the bytes of their values
  SourceBytes,      \* bytes of a decoded source
  WorkBytes,        \* sizes of a work request
  LaneBytes, MaxLanes, \* bytes of one lane of ordered_map, and its lanes
  TaskBytes,        \* bytes of an independent task
  MaxNested         \* bound: nested working reservations of one thread

Threads == 1..ThreadCount

ASSUME MemoryAssumption ==
  /\ ThreadCount \in Nat /\ Scopes \subseteq SUBSET Threads
  /\ Foreground \subseteq Threads /\ Owner \in Threads
  /\ Maximum \in Nat \ {0} /\ MemoMaximum \in 0..Maximum
  /\ Weight \in [Keys -> Nat \ {0}] /\ SourceBytes \in Nat \ {0}
  /\ WorkBytes \subseteq Nat /\ LaneBytes \in Nat /\ MaxLanes \in Nat
  /\ TaskBytes \in Nat /\ MaxNested \in Nat

VARIABLES
  size,        \* bytes of every live allocation, 0 for a free number
  held,        \* allocations a thread has a handle of
  old,         \* allocations a thread took out of the memo and is dropping
  memo,        \* Memo::entries: the allocation of a key, 0 if none
  recency,     \* Memo::recency: the keys, least recently used first
  memoRetained,\* Memo::retained
  slot,        \* the optional source slot behind the eviction callback, or 0
  work,        \* live working reservations of a thread, innermost last
  task,        \* bytes of the live IndependentReservation, or 0
  retained, working, independent, owners,  \* Usage
  cancelled,
  entrants,    \* the threads that called ValidatedValueMemo::enter; never changes
  asleep,      \* threads waiting on the condition variable
  pc, req,     \* what a thread is doing, and its current request
  since        \* allocations put in the memo or the slot since a thread's clear

ledger == <<retained, working, independent, owners>>
store  == <<memo, recency, memoRetained>>
vars == <<size, held, old, store, slot, work, task, ledger, cancelled, asleep,
          entrants, pc, req, since>>

Ids == 1..Maximum
Bytes(S) == Total([a \in Ids |-> IF a \in S THEN size[a] ELSE 0], Maximum)
Live == {a \in Ids : size[a] # 0}
MemoIds(m) == {m[k] : k \in Keys} \ {0}

\* Kinds of request: a validated value, an optional source, work that waits,
\* and the lanes of a parallel map.
None == [kind |-> "none", key |-> CHOOSE k \in Keys : TRUE, bytes |-> 0, lanes |-> 0,
         alloc |-> 0]

Init ==
  /\ size = [a \in Ids |-> 0]
  /\ held = [t \in Threads |-> {}] /\ old = [t \in Threads |-> {}]
  /\ memo = [k \in Keys |-> 0] /\ recency = <<>> /\ memoRetained = 0
  /\ slot = 0
  /\ work = [t \in Threads |-> <<>>] /\ task = 0
  /\ retained = 0 /\ working = 0 /\ independent = 0
  /\ owners = [t \in Threads |-> 0]
  /\ entrants \in Scopes /\ cancelled = FALSE /\ asleep = {}
  /\ pc = [t \in Threads |-> "idle"]
  /\ req = [t \in Threads |-> None]
  /\ since = [t \in Threads |-> {}]

Become(t, label) == pc' = [pc EXCEPT ![t] = label]
Finish(t) == /\ pc' = [pc EXCEPT ![t] = "idle"]
             /\ req' = [req EXCEPT ![t] = None]
             /\ since' = [since EXCEPT ![t] = {}]

\* A thread drops what it took out of the memo before it does anything else.
Ready(t) == pc[t] = "idle" /\ old[t] = {}

-----------------------------------------------------------------------------
(* The ledger. *)

Used == retained + working
Fits(b) == b <= Maximum - Used

IndependentCanAdmit(t, b) ==
  t \in Foreground /\ independent > 0 /\ b <= Maximum - (Used - independent)

\* Mutant: a thread waits whatever it holds already.
MayWaitNested(t, b, wait) ==
  \/ IndependentCanAdmit(t, b)
  \/ wait /\ working > 0 /\ b <= Maximum - retained

\* A thread that owns working bytes never waits for others' working bytes.
MayWait(t, b, wait) ==
  \/ IndependentCanAdmit(t, b)
  \/ wait /\ owners[t] = 0 /\ working > 0 /\ b <= Maximum - retained

\* Dropping references: `refs` are the references that remain anywhere.
\* MemoryReservation::drop runs for an allocation whose last reference goes.  That it
\* runs once is what Arc guarantees; it is assumed here, not checked.
Reclaim(refs) ==
  LET dead == Live \ refs IN
  /\ size' = [a \in Ids |-> IF a \in dead THEN 0 ELSE size[a]]
  /\ retained' = retained - Bytes(dead)
  /\ asleep' = IF dead = {} THEN asleep ELSE {}
  /\ UNCHANGED <<working, independent, owners>>

Handles(h, o) == UNION {h[t] \cup o[t] : t \in Threads}
Slotted == {slot} \ {0}

-----------------------------------------------------------------------------
(* Requests. *)

Ask(t, r) == req' = [req EXCEPT ![t] = r]

\* resolve_shared_runtime: the memo is consulted first, inside its scope only.
LookupHit(t, k) ==
  /\ Ready(t) /\ t \in entrants /\ memo[k] # 0
  /\ held' = [held EXCEPT ![t] = @ \cup {memo[k]}]
  /\ \E i \in DOMAIN recency :
       recency[i] = k /\ recency' = Append(RemoveAt(recency, i), k)
  /\ UNCHANGED <<size, old, memo, memoRetained, slot, work, task, ledger,
                 cancelled, asleep, pc, req, since>>

\* No entry, no scope, or a mode that computes without consulting the cache.
AskValue(t, k) ==
  /\ Ready(t)
  /\ Ask(t, [None EXCEPT !.kind = "value", !.key = k, !.bytes = Weight[k]])
  /\ Become(t, "reserve")
  /\ UNCHANGED <<size, held, old, store, slot, work, task, ledger, cancelled,
                 asleep, since>>

\* capture_runtime::reserve_working and root_execution::ordered_map.
AskWork(t) ==
  /\ Ready(t) /\ Len(work[t]) < MaxNested
  /\ \/ \E b \in WorkBytes : Ask(t, [None EXCEPT !.kind = "work", !.bytes = b])
     \/ \E n \in 1..MaxLanes :
          Ask(t, [None EXCEPT !.kind = "lanes", !.bytes = n * LaneBytes, !.lanes = n])
  /\ Become(t, "reserve")
  /\ UNCHANGED <<size, held, old, store, slot, work, task, ledger, cancelled,
                 asleep, since>>

\* capture_admission::admit: a valid candidate is used, a stale one (held
\* meanwhile and dropped) is taken out before anything is decoded.
SourceHit(t) ==
  /\ Ready(t) /\ t = Owner /\ slot # 0
  /\ held' = [held EXCEPT ![t] = @ \cup {slot}]
  /\ UNCHANGED <<size, old, store, slot, work, task, ledger, cancelled, asleep,
                 pc, req, since>>

SourceMiss(t) ==
  /\ Ready(t) /\ t = Owner
  /\ slot' = 0
  /\ Reclaim(Handles(held, old) \cup MemoIds(memo))
  /\ Ask(t, [None EXCEPT !.kind = "source", !.bytes = SourceBytes])
  /\ Become(t, "reserve")
  /\ UNCHANGED <<held, old, store, work, task, cancelled, since>>

DecodeFails(t) ==
  /\ pc[t] = "reserve" /\ req[t].kind = "source" /\ t \notin asleep
  /\ Finish(t)
  /\ UNCHANGED <<size, held, old, store, slot, work, task, ledger, cancelled, asleep>>

-----------------------------------------------------------------------------
(* RunResources::reserve, and what its callers do with the answer. *)

Reserving(t) == pc[t] \in {"reserve", "again"} /\ t \notin asleep /\ old[t] = {}
IsWork(t) == req[t].kind \in {"work", "lanes"}
Waits(t) == MayWait(t, req[t].bytes, req[t].kind = "work")

AdmitWork(t) ==
  /\ Reserving(t) /\ IsWork(t) /\ ~cancelled /\ Fits(req[t].bytes)
  /\ working' = working + req[t].bytes
  /\ owners' = [owners EXCEPT ![t] = @ + 1]
  /\ work' = [work EXCEPT ![t] = Append(@, req[t].bytes)]
  /\ Finish(t)
  /\ UNCHANGED <<size, held, old, store, slot, task, retained, independent,
                 cancelled, asleep>>

AdmitRetained(t) ==
  /\ Reserving(t) /\ ~IsWork(t) /\ ~cancelled /\ Fits(req[t].bytes)
  /\ LET a == Min(Ids \ Live) IN
       /\ size' = [size EXCEPT ![a] = req[t].bytes]
       /\ held' = [held EXCEPT ![t] = @ \cup {a}]
       /\ Ask(t, [req[t] EXCEPT !.alloc = a])
  /\ retained' = retained + req[t].bytes
  /\ Become(t, "built") /\ since' = [since EXCEPT ![t] = {}]
  /\ UNCHANGED <<old, store, slot, work, task, working, independent, owners,
                 cancelled, asleep>>

Sleep(t) ==
  /\ Reserving(t) /\ ~cancelled /\ ~Fits(req[t].bytes) /\ Waits(t)
  /\ asleep' = asleep \cup {t}
  /\ UNCHANGED <<size, held, old, store, slot, work, task, ledger, cancelled,
                 pc, req, since>>

Error(t) == Reserving(t) /\ (cancelled \/ (~Fits(req[t].bytes) /\ ~Waits(t)))

\* ordered_map gives up a lane before it gives up retained values.
FewerLanes(t) ==
  /\ Error(t) /\ pc[t] = "reserve" /\ req[t].kind = "lanes" /\ req[t].lanes > 1
  /\ Ask(t, [req[t] EXCEPT !.lanes = @ - 1, !.bytes = @ - LaneBytes])
  /\ UNCHANGED <<size, held, old, store, slot, work, task, ledger, cancelled,
                 asleep, pc, since>>

\* Whether the first error makes the caller clear the memo and ask again.
\* (Outside the scope a value is asked for a second time without a clear.)
ClearsFirst(t) ==
  /\ pc[t] = "reserve" /\ t \in entrants /\ req[t].kind # "source"
  /\ req[t].kind = "lanes" => req[t].lanes = 1

BeginClear(t) ==
  /\ Error(t) /\ ClearsFirst(t)
  /\ Become(t, "callbacks")
  /\ UNCHANGED <<size, held, old, store, slot, work, task, ledger, cancelled,
                 asleep, req, since>>

AskAgain(t) ==
  /\ Error(t) /\ pc[t] = "reserve" /\ t \notin entrants /\ req[t].kind = "value"
  /\ Become(t, "again")
  /\ UNCHANGED <<size, held, old, store, slot, work, task, ledger, cancelled,
                 asleep, req, since>>

\* The error reaches the caller; a source is used without being retained.
Refuse(t) ==
  /\ Error(t) /\ ~ClearsFirst(t)
  /\ pc[t] = "reserve" => /\ req[t].kind # "value"
                          /\ req[t].kind = "lanes" => req[t].lanes = 1
  /\ Finish(t)
  /\ UNCHANGED <<size, held, old, store, slot, work, task, ledger, cancelled,
                 asleep>>

-----------------------------------------------------------------------------
(* ValidatedValueMemo::clear. *)

\* Mutant: the clear forgets the registered callbacks.
RunCallbacksNone(t) ==
  /\ pc[t] = "callbacks"
  /\ Become(t, "take")
  /\ UNCHANGED <<size, held, old, store, slot, work, task, ledger, cancelled,
                 asleep, req, since>>

\* The callbacks run outside the memo's locks and empty the optional slot.
RunCallbacks(t) ==
  /\ pc[t] = "callbacks"
  /\ slot' = 0
  /\ Reclaim(Handles(held, old) \cup MemoIds(memo))
  /\ Become(t, "take")
  /\ UNCHANGED <<held, old, store, work, task, cancelled, req, since>>

TakeMemo(t) ==
  /\ pc[t] = "take"
  /\ old' = [old EXCEPT ![t] = MemoIds(memo)]
  /\ memo' = [k \in Keys |-> 0] /\ recency' = <<>> /\ memoRetained' = 0
  /\ Become(t, "again")
  /\ UNCHANGED <<size, held, slot, work, task, ledger, cancelled, asleep, req,
                 since>>

\* drop(old), drop(evicted): each reservation is released by itself.
DropOne(t) ==
  /\ \E a \in old[t] :
       /\ old' = [old EXCEPT ![t] = @ \ {a}]
       /\ Reclaim(Handles(held, old') \cup MemoIds(memo) \cup Slotted)
  /\ UNCHANGED <<held, store, slot, work, task, cancelled, pc, req, since>>

-----------------------------------------------------------------------------
(* What is done with an admitted value or source. *)

Retain(a) == since' = [u \in Threads |-> IF pc[u] \in {"take", "again"}
                                         THEN since[u] \cup {a} ELSE since[u]]

\* The bytes of the n oldest entries.
Freed(n) == Total([i \in 1..n |-> Weight[recency[i]]], n)

\* How many of the oldest entries make room for `b` bytes.
Evictions(b) ==
  Min({n \in 0..Len(recency) :
         n = Len(recency) \/ b <= MemoMaximum - (memoRetained - Freed(n))})

\* Mutant: the bytes of the evicted entries stay counted.
InsertKeepCount(t) ==
  LET k == req[t].key
      n == Evictions(Weight[k])
      out == {recency[i] : i \in 1..n}
  IN
  /\ pc[t] = "built" /\ req[t].kind = "value" /\ t \in entrants
  /\ Weight[k] <= MemoMaximum /\ memo[k] = 0
  /\ memo' = [j \in Keys |-> IF j = k THEN req[t].alloc
                             ELSE IF j \in out THEN 0 ELSE memo[j]]
  /\ recency' = Append(SubSeq(recency, n + 1, Len(recency)), k)
  /\ memoRetained' = memoRetained + Weight[k]
  /\ old' = [old EXCEPT ![t] = {memo[j] : j \in out}]
  /\ Retain(req[t].alloc) /\ Become(t, "idle") /\ Ask(t, None)
  /\ UNCHANGED <<size, held, slot, work, task, ledger, cancelled, asleep>>

\* ValidatedValueMemoBinding::insert
Insert(t) ==
  LET k == req[t].key
      a == req[t].alloc
      n == Evictions(Weight[k])
      out == {recency[i] : i \in 1..n}
  IN
  /\ pc[t] = "built" /\ req[t].kind = "value" /\ t \in entrants
  /\ Weight[k] <= MemoMaximum /\ memo[k] = 0
  /\ memo' = [j \in Keys |-> IF j = k THEN a ELSE IF j \in out THEN 0 ELSE memo[j]]
  /\ recency' = Append(SubSeq(recency, n + 1, Len(recency)), k)
  /\ memoRetained' = memoRetained - Freed(n) + Weight[k]
  /\ old' = [old EXCEPT ![t] = {memo[j] : j \in out}]
  /\ Retain(a) /\ Become(t, "idle") /\ Ask(t, None)
  /\ UNCHANGED <<size, held, slot, work, task, ledger, cancelled, asleep>>

\* No scope, a value too large, a key another thread inserted meanwhile, or a
\* computed value that is not written.
InsertNothing(t) ==
  /\ pc[t] = "built" /\ req[t].kind = "value"
  /\ Finish(t)
  /\ UNCHANGED <<size, held, old, store, slot, work, task, ledger, cancelled, asleep>>

\* The end of capture_admission::admit.
KeepSource(t) ==
  /\ pc[t] = "built" /\ req[t].kind = "source"
  /\ slot' = req[t].alloc
  /\ Retain(req[t].alloc) /\ Become(t, "idle") /\ Ask(t, None)
  /\ UNCHANGED <<size, held, old, store, work, task, ledger, cancelled, asleep>>

\* The last use of a handle; or the validator rejects what was reserved for.
DropHandle(t, a) ==
  /\ a \in held[t]
  /\ \/ Ready(t) /\ UNCHANGED <<pc, req, since>>
     \/ pc[t] = "built" /\ req[t].kind = "value" /\ a = req[t].alloc /\ Finish(t)
  /\ held' = [held EXCEPT ![t] = @ \ {a}]
  /\ Reclaim(Handles(held', old) \cup MemoIds(memo) \cup Slotted)
  /\ UNCHANGED <<old, store, slot, work, task, cancelled>>

\* MemoryReservation::drop of the innermost working reservation.
Release(t) ==
  /\ Ready(t) /\ work[t] # <<>>
  /\ working' = working - Last(work[t])
  /\ owners' = [owners EXCEPT ![t] = @ - 1]
  /\ work' = [work EXCEPT ![t] = Front(@)]
  /\ asleep' = {}
  /\ UNCHANGED <<size, held, old, store, slot, task, retained, independent,
                 cancelled, pc, req, since>>

\* try_reserve_independent and IndependentReservation::drop.
StartTask ==
  /\ task = 0 /\ ~cancelled /\ TaskBytes # 0 /\ Fits(TaskBytes)
  /\ task' = TaskBytes
  /\ working' = working + TaskBytes /\ independent' = independent + TaskBytes
  /\ UNCHANGED <<size, held, old, store, slot, work, retained, owners,
                 cancelled, asleep, pc, req, since>>

EndTask ==
  /\ task # 0
  /\ task' = 0
  /\ working' = working - task /\ independent' = independent - task
  /\ asleep' = {}
  /\ UNCHANGED <<size, held, old, store, slot, work, retained, owners,
                 cancelled, pc, req, since>>

Cancel ==
  /\ ~cancelled /\ cancelled' = TRUE /\ asleep' = {}
  /\ UNCHANGED <<size, held, old, store, slot, work, task, ledger, pc, req, since>>

-----------------------------------------------------------------------------
\* The steps of a thread in the middle of a request.
Proceed(t) ==
  \/ AdmitWork(t) \/ AdmitRetained(t) \/ Sleep(t) \/ FewerLanes(t)
  \/ BeginClear(t) \/ AskAgain(t) \/ Refuse(t)
  \/ RunCallbacks(t) \/ TakeMemo(t) \/ DropOne(t)
  \/ Insert(t) \/ InsertNothing(t) \/ KeepSource(t) \/ DecodeFails(t)

Request(t) ==
  \/ \E k \in Keys : LookupHit(t, k) \/ AskValue(t, k)
  \/ AskWork(t) \/ SourceHit(t) \/ SourceMiss(t)
  \/ \E a \in Ids : DropHandle(t, a)

Next ==
  /\ UNCHANGED entrants
  /\ \/ \E t \in Threads : Proceed(t) \/ Request(t) \/ Release(t)
     \/ StartTask \/ EndTask \/ Cancel

\* A thread finishes what it has begun; a working reservation is the guard of
\* a finite computation, so it is dropped at some time however many requests
\* its thread makes in between, none of which waits for a thread that sleeps;
\* an independent task ends by itself.
Fairness ==
  /\ \A t \in Threads : /\ WF_vars(Proceed(t) /\ UNCHANGED entrants)
                        /\ SF_vars(Release(t) /\ UNCHANGED entrants)
  /\ WF_vars(EndTask /\ UNCHANGED entrants)

Spec == Init /\ [][Next]_vars /\ Fairness

-----------------------------------------------------------------------------
\* The bytes of a thread's live working reservations.
WorkOf(t) == Total(work[t], Len(work[t]))

References == Handles(held, old) \cup MemoIds(memo) \cup Slotted

\* The ledger counts exactly the allocations somebody still refers to, ...
RetainedMatches == Live = References /\ retained = Bytes(Live)

\* ... exactly the live workspaces and the independent task, ...
WorkingMatches ==
  /\ working = task + Total([t \in Threads |-> WorkOf(t)], ThreadCount)
  /\ independent = task
  /\ \A t \in Threads : owners[t] = Len(work[t])

\* ... and the memo exactly its entries, each of them once in the recency order.
MemoMatches ==
  /\ memoRetained = Bytes(MemoIds(memo)) /\ memoRetained <= MemoMaximum
  /\ \A i, j \in DOMAIN recency : recency[i] = recency[j] => i = j
  /\ {recency[i] : i \in DOMAIN recency} = {k \in Keys : memo[k] # 0}

\* Every release subtracts what its reservation added, whoever drops the last
\* reference and in whatever order (Usage, Memo::retained): ledger and memo
\* count what is alive, and never more than the run may use.
ChargesMatchLife ==
  RetainedMatches /\ WorkingMatches /\ MemoMatches /\ Used <= Maximum

\* "Optional decoded/source retention must not turn a one-root workspace that
\* fits into a numerical refusal" (ordered_map, reserve_working,
\* reserve_runtime): a request is refused after its clear only when it would
\* not fit beside the working bytes, what threads hold or are dropping, and
\* what another thread retained after the clear took the memo.
RefusalNeedsOthers ==
  [][\A t \in Threads :
       pc[t] = "again" /\ t \in entrants /\ ~cancelled /\ Refuse(t)
       => LET needed == (UNION {held[u] : u \in Threads})
                        \cup (UNION {old[u] : u \in Threads \ {t}}) \cup since[t]
          IN req[t].bytes > Maximum - (working + Bytes(needed \cap Live))]_vars

\* Waiting never deadlocks (RunResources::reserve): a thread that sleeps for
\* memory is woken, although the threads it waits for may ask for more memory
\* themselves before they release any.
WaitersWake == \A t \in Threads : t \in asleep ~> t \notin asleep
=============================================================================
