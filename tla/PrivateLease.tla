---------------------------- MODULE PrivateLease ----------------------------
(***************************************************************************)
(* The renewable publication lease of one private shard                    *)
(* (crates/xc-cache/src/private_coordination.rs) as the family publisher   *)
(* (managed_publication.rs) drives it: acquire, re-read the cache head,    *)
(* renew, push batches that advance `main` and renew the lease in one      *)
(* atomic two-ref push, release.                                           *)
(*                                                                         *)
(* A remote update is a conditional push.  The caller learns that it was   *)
(* accepted, that it was refused, or nothing at all; a push of unknown     *)
(* fate stays in `late` and the server may still execute it at any later   *)
(* moment.  The transport (GitTransport) retries identical pushes, so an   *)
(* accepted push may leave such a duplicate behind too.                    *)
(***************************************************************************)
EXTENDS Naturals, FiniteSets, Sequences

CONSTANTS
    Publishers,    \* processes that publish to the shard
    NoOwner,       \* the owner of no lock
    LeaseSeconds,  \* PrivatePublicationLeasePolicy.lease_seconds
    Grace,         \* PrivatePublicationLeasePolicy.clock_skew_grace_seconds
    Skew,          \* a wall clock reads between the true time and Skew more
    MaxTime,       \* bound on the true time
    MaxRuns,       \* bound on the publication runs of one publisher
    MaxId,         \* bound on commits: no batch is pushed beyond it
    MaxFaults      \* bound on crashes, unknown outcomes and duplicates

ASSUME LeaseAssumption ==
    /\ LeaseSeconds \in Nat \ {0}
    /\ Grace \in Nat /\ Grace <= LeaseSeconds
    /\ Skew \in Nat
    /\ MaxTime \in Nat /\ MaxRuns \in Nat /\ MaxId \in Nat /\ MaxFaults \in Nat

ASSUME NoOwnerAssumption == NoOwner \notin Publishers \X Nat

VARIABLES
    time,      \* the true time, which no publisher can read exactly
    nextId,    \* commit identities below nextId have been used
    main,      \* the commit the cache branch names
    mainLog,   \* the runs whose batches advanced main, oldest first
    coord,     \* the commit the coordination branch names, Absent if none
    late,      \* pushes the server may still execute
    faults,    \* faults so far
    pc,        \* where each publisher stands
    run,       \* the number of each publisher's current run
    view,      \* what the run has read: main head, clock, coordination commit
    lease      \* the coordination commit the run holds, Absent if none

remote == <<main, mainLog, coord>>
vars == <<time, nextId, main, mainLog, coord, late, faults, pc, run, view, lease>>

-----------------------------------------------------------------------------
\* Documents and commits

Owners == Publishers \X Nat

\* coordination/publication-lock.json.  `stamped` is the true time at which
\* the owner read its clock; the program does not have it.
NoLock ==
    [owner |-> NoOwner, gen |-> 0, acquired |-> 0, heartbeat |-> 0, expires |-> 0, stamped |-> 0]
LockFields ==
    [owner : Owners, gen : Nat, acquired : Nat, heartbeat : Nat, expires : Nat, stamped : Nat]

\* PrivatePublicationLock::validate.  (That acquired_at is not 0 is left out: the time 0 of
\* the model is not that of the Unix clock.)
ValidLock(lock) ==
    /\ lock.gen # 0
    /\ lock.acquired <= lock.heartbeat /\ lock.heartbeat < lock.expires

Locks == {NoLock} \cup {lock \in LockFields : ValidLock(lock)}

\* A commit of the coordination branch: its identity, the fencing generation of
\* coordination/state.json and the lock document.  Identity 0 is no branch.
Commits == [id : Nat, gen : Nat, lock : Locks]
Absent == [id |-> 0, gen |-> 0, lock |-> NoLock]

\* A push: replace `exp` by `new` on the coordination branch and, when expMain
\* is not 0, expMain by newMain on the cache branch, both or neither.
Pushes == [by : Owners, exp : Commits, new : Commits, expMain : Nat, newMain : Nat]

Views == [main : Nat, observed : Nat, wall : Nat, at : Nat, seen : Commits]
NoView == [main |-> 0, observed |-> 0, wall |-> 0, at |-> 0, seen |-> Absent]

Steps == {"idle", "start", "probe", "create", "takeover", "moved",
          "held", "sidecar", "publishing", "releasing"}

\* Every value has its type; above all, every lock that is on the branch, on its
\* way there or held in memory passes PrivatePublicationLock::validate, which a
\* publisher that reads it requires before it does anything else.
TypeOK ==
    /\ time \in Nat /\ nextId \in Nat /\ main \in Nat /\ faults \in Nat
    /\ mainLog \in Seq(Owners)
    /\ coord \in Commits
    /\ late \in SUBSET Pushes
    /\ pc \in [Publishers -> Steps]
    /\ run \in [Publishers -> Nat]
    /\ view \in [Publishers -> Views]
    /\ lease \in [Publishers -> Commits]

Self(p) == <<p, run[p]>>

Later(a, b) == IF a < b THEN b ELSE a

\* Mutant: the lease duration is left out.
LockRecordWithoutLease(o, generation, wall, at) ==
    [owner |-> o, gen |-> generation, acquired |-> wall, heartbeat |-> wall,
     expires |-> wall, stamped |-> at]

\* lock_record
LockRecord(o, generation, wall, at) ==
    [owner |-> o, gen |-> generation, acquired |-> wall, heartbeat |-> wall,
     expires |-> wall + LeaseSeconds, stamped |-> at]

\* Mutant: the grace period is left out.
ExpiredAtWithoutGrace(lock, now) == now >= lock.expires

\* expired_at
ExpiredAt(lock, now) == now >= lock.expires + Grace

\* Mutant: the heartbeat follows a clock that was set back.
RenewedLockAtWallTime(lock, wall) ==
    [lock EXCEPT !.heartbeat = wall, !.expires = wall + LeaseSeconds, !.stamped = time]

\* renewed_lock_at
RenewedLockAt(lock, wall) ==
    LET now == Later(wall, lock.heartbeat)
    IN  [owner |-> lock.owner, gen |-> lock.gen, acquired |-> lock.acquired, heartbeat |-> now,
         expires |-> now + LeaseSeconds, stamped |-> time]

Init ==
    /\ time = 0 /\ nextId = 2 /\ main = 1 /\ faults = 0
    /\ mainLog = <<>>
    /\ coord = Absent
    /\ late = {}
    /\ pc = [p \in Publishers |-> "idle"]
    /\ run = [p \in Publishers |-> 0]
    /\ view = [p \in Publishers |-> NoView]
    /\ lease = [p \in Publishers |-> Absent]

-----------------------------------------------------------------------------
\* The remote

\* Mutants: a batch push is fenced on the cache branch only, or on nothing.
MatchesMainOnly(u) == IF u.expMain # 0 THEN main = u.expMain ELSE coord.id = u.exp.id
MatchesUnfenced(u) == u.expMain # 0 \/ coord.id = u.exp.id

\* --force-with-lease on every ref of the push
Matches(u) ==
    /\ coord.id = u.exp.id
    /\ u.expMain # 0 => main = u.expMain

Install(u) ==
    /\ coord' = u.new
    /\ main' = IF u.expMain # 0 THEN u.newMain ELSE main
    /\ mainLog' = IF u.expMain # 0 THEN Append(mainLog, u.by) ELSE mainLog

\* The caller learns nothing: the push may yet be executed.
Unknown(u) ==
    /\ faults < MaxFaults
    /\ faults' = faults + 1
    /\ nextId' = nextId + 1
    /\ late' = late \cup {u}
    /\ UNCHANGED remote

\* Executed and reported so; an earlier attempt may still be on its way.
Accepted(u) ==
    /\ Matches(u)
    /\ Install(u)
    /\ nextId' = nextId + 1
    /\ \/ UNCHANGED <<late, faults>>
       \/ /\ faults < MaxFaults
          /\ faults' = faults + 1
          /\ late' = late \cup {u}

\* A conflict was observed; an earlier attempt may still be on its way.
Refused(u) ==
    /\ ~Matches(u)
    /\ \/ UNCHANGED <<nextId, remote, late, faults>>
       \/ Unknown(u)

LateApply(u) ==
    /\ u \in late
    /\ Matches(u)
    /\ Install(u)
    /\ late' = late \ {u}
    /\ UNCHANGED <<time, nextId, faults, pc, run, view, lease>>

Tick ==
    /\ time < MaxTime
    /\ time' = time + 1
    /\ UNCHANGED <<nextId, remote, late, faults, pc, run, view, lease>>

-----------------------------------------------------------------------------
\* One publisher

Goto(p, step) == pc' = [pc EXCEPT ![p] = step]

\* The next round of the acquisition loop starts from fresh reads.
Again(p) ==
    /\ Goto(p, "start")
    /\ view' = [view EXCEPT ![p] = NoView]
    /\ UNCHANGED lease

Quit(p) ==
    /\ Goto(p, "idle")
    /\ view' = [view EXCEPT ![p] = NoView]
    /\ lease' = [lease EXCEPT ![p] = Absent]

\* The lease is returned to the publisher with the head it was acquired for.
Hold(p, c) ==
    /\ Goto(p, "held")
    /\ view' = [view EXCEPT ![p] = [NoView EXCEPT !.observed = view[p].main]]
    /\ lease' = [lease EXCEPT ![p] = c]

\* A failed step of the publication goes to the release of the lease as held.
Abort(p) ==
    /\ Goto(p, "releasing")
    /\ UNCHANGED <<view, lease>>

\* for_current_process: every run has an owner identity of its own
Begin(p) ==
    /\ pc[p] = "idle"
    /\ run[p] < MaxRuns
    /\ run' = [run EXCEPT ![p] = run[p] + 1]
    /\ Goto(p, "start")
    /\ UNCHANGED <<time, nextId, remote, late, faults, view, lease>>

\* Cancellation, or maximum_wait_seconds elapsed.
GiveUp(p) ==
    /\ pc[p] = "start"
    /\ Quit(p)
    /\ UNCHANGED <<time, nextId, remote, late, faults, run>>

ReadMain(p) ==
    /\ pc[p] = "start"
    /\ \E wall \in time..(time + Skew) :
          view' = [view EXCEPT ![p] = [NoView EXCEPT !.main = main, !.wall = wall, !.at = time]]
    /\ Goto(p, "probe")
    /\ UNCHANGED <<time, nextId, remote, late, faults, run, lease>>

\* Mutant: an existing lock is waited for whatever its expiry.
AvailableIfUnlocked(lock, now) == lock.owner = NoOwner

\* `available` in the acquisition loop
Available(lock, now) == lock.owner = NoOwner \/ ExpiredAt(lock, now)

\* The documents are read at the commit the ref named, so one snapshot serves
\* the branch, the state and the lock.  A lock of another generation than the
\* state's is an error; a lock that is held sends the publisher back to wait.
ReadCoordination(p) ==
    /\ pc[p] = "probe"
    /\ IF coord.lock.gen \notin {0, coord.gen} THEN Quit(p)
       ELSE IF coord.id # 0 /\ ~Available(coord.lock, view[p].wall) THEN Again(p)
       ELSE /\ Goto(p, IF coord.id = 0 THEN "create" ELSE "takeover")
            /\ view' = [view EXCEPT ![p].seen = coord]
            /\ UNCHANGED lease
    /\ UNCHANGED <<time, nextId, remote, late, faults, run>>

\* The push that acquires the lease from what the publisher saw.
AcquisitionPush(p) ==
    LET generation == view[p].seen.gen + 1
    IN  [by |-> Self(p), exp |-> view[p].seen, expMain |-> 0, newMain |-> 0,
         new |-> [id |-> nextId, gen |-> generation,
                  lock |-> LockRecord(Self(p), generation, view[p].wall, view[p].at)]]

\* create_ref_commit_if_absent: an existing branch restarts the loop, an error
\* ends the run.
CreateBranch(p) ==
    /\ pc[p] = "create"
    /\ LET u == AcquisitionPush(p)
       IN  \/ Accepted(u) /\ Hold(p, u.new)
           \/ Refused(u) /\ Again(p)
           \/ Unknown(u) /\ Quit(p)
    /\ UNCHANGED <<time, run>>

\* Mutant: an error whose branch has moved is taken for a success.
CheckMovedHolds(p) ==
    /\ pc[p] = "moved"
    /\ IF coord.id # view[p].seen.id THEN Hold(p, coord) ELSE Quit(p)
    /\ UNCHANGED <<time, nextId, remote, late, faults, run>>

\* compare_and_swap_commit on the commit seen: an error is examined first.
TakeOver(p) ==
    /\ pc[p] = "takeover"
    /\ LET u == AcquisitionPush(p)
       IN  \/ Accepted(u) /\ Hold(p, u.new)
           \/ Refused(u) /\ Again(p)
           \/ Unknown(u) /\ Goto(p, "moved") /\ UNCHANGED <<view, lease>>
    /\ UNCHANGED <<time, run>>

\* `moved`: after an error the loop continues only if the branch has moved.
CheckMoved(p) ==
    /\ pc[p] = "moved"
    /\ IF coord.id # view[p].seen.id THEN Again(p) ELSE Quit(p)
    /\ UNCHANGED <<time, nextId, remote, late, faults, run>>

\* ensure_managed_shard_sidecars re-reads the cache head under the lease.
RereadHead(p) ==
    /\ pc[p] = "held"
    /\ view' = [view EXCEPT ![p].main = main]
    /\ Goto(p, "sidecar")
    /\ UNCHANGED <<time, nextId, remote, late, faults, run, lease>>

\* prepare_private_lease_renewal; a renewal leaves the state document alone.
RenewalPush(p, wall, expMain) ==
    [by |-> Self(p), exp |-> lease[p], expMain |-> expMain,
     newMain |-> IF expMain = 0 THEN 0 ELSE nextId,
     new |-> [lease[p] EXCEPT !.id = nextId, !.lock = RenewedLockAt(lease[p].lock, wall)]]

\* renew_private_publication_lease, with the head that was re-read
Renew(p) ==
    /\ pc[p] = "sidecar"
    /\ \E wall \in time..(time + Skew) :
          LET u == RenewalPush(p, wall, 0)
          IN  \/ /\ Accepted(u)
                 /\ Goto(p, "publishing")
                 /\ view' = [view EXCEPT ![p].observed = view[p].main]
                 /\ lease' = [lease EXCEPT ![p] = u.new]
              \/ Refused(u) /\ Abort(p)
              \/ Unknown(u) /\ Abort(p)
    /\ UNCHANGED <<time, run>>

\* commit_private_batch_atomically, for the initial capacity ledger before the
\* renewal and for the batches of the family after it
CommitBatch(p) ==
    /\ pc[p] \in {"sidecar", "publishing"}
    /\ nextId <= MaxId
    /\ view[p].main = view[p].observed
    /\ \E wall \in time..(time + Skew) :
          LET u == RenewalPush(p, wall, view[p].main)
          IN  \/ /\ Accepted(u)
                 /\ UNCHANGED pc
                 /\ view' = [view EXCEPT ![p].main = u.newMain, ![p].observed = u.newMain]
                 /\ lease' = [lease EXCEPT ![p] = u.new]
              \/ Refused(u) /\ Abort(p)
              \/ Unknown(u) /\ Abort(p)
    /\ UNCHANGED <<time, run>>

\* Every batch is committed, or a check of the publication failed.
Finish(p) ==
    /\ pc[p] \in {"held", "sidecar", "publishing"}
    /\ Abort(p)
    /\ UNCHANGED <<time, nextId, remote, late, faults, run>>

\* delete_ref_if_head, or release_by_commit on a transport without deletion
ReleasePush(p, deletes) ==
    [by |-> Self(p), exp |-> lease[p], expMain |-> 0, newMain |-> 0,
     new |-> IF deletes THEN Absent ELSE [lease[p] EXCEPT !.id = nextId, !.lock = NoLock]]

\* release_private_publication_lease: whatever the answer, the run is over.
Release(p) ==
    /\ pc[p] = "releasing"
    /\ \E deletes \in BOOLEAN :
          LET u == ReleasePush(p, deletes)
          IN  Accepted(u) \/ Refused(u) \/ Unknown(u)
    /\ Quit(p)
    /\ UNCHANGED <<time, run>>

\* The process stops; whatever it had in memory is gone.
Crash(p) ==
    /\ pc[p] # "idle"
    /\ faults < MaxFaults
    /\ faults' = faults + 1
    /\ Quit(p)
    /\ UNCHANGED <<time, nextId, remote, late, run>>

Publisher(p) ==
    \/ Begin(p) \/ GiveUp(p) \/ ReadMain(p) \/ ReadCoordination(p)
    \/ CreateBranch(p) \/ TakeOver(p) \/ CheckMoved(p)
    \/ RereadHead(p) \/ Renew(p) \/ CommitBatch(p) \/ Finish(p)
    \/ Release(p) \/ Crash(p)

Next ==
    \/ \E p \in Publishers : Publisher(p)
    \/ \E u \in late : LateApply(u)
    \/ Tick

Spec == Init /\ [][Next]_vars

\* A publisher that is running keeps running, clocks advance.  Nothing makes a
\* publisher start a run, crash or give up.
Fairness ==
    /\ WF_vars(Tick)
    /\ \A p \in Publishers :
          WF_vars(\/ ReadMain(p) \/ ReadCoordination(p) \/ CreateBranch(p)
                  \/ TakeOver(p) \/ CheckMoved(p) \/ RereadHead(p)
                  \/ Renew(p) \/ Finish(p) \/ Release(p))

FairSpec == Spec /\ Fairness

-----------------------------------------------------------------------------
\* Properties

\* A publisher whose lease names the commit of the coordination branch is the
\* owner its lock names, so at most one publisher holds the fence, whatever
\* branches were deleted and recreated and whichever delayed pushes arrived.
FenceNamesOwner ==
    \A p \in Publishers :
        lease[p].id # 0 /\ lease[p].id = coord.id => coord.lock.owner = Self(p)

\* "A stale publisher cannot advance main after another publisher takes over":
\* a batch reaches main only from the run that the lock in force names, and in
\* the same push that run's lease is renewed.
StalePublisherFenced ==
    [][main' # main =>
          /\ coord.lock.owner # NoOwner
          /\ mainLog'[Len(mainLog')] = coord.lock.owner
          /\ coord'.lock.owner = coord.lock.owner]_vars

\* The lease seen from outside is a FencedBranch whose holder is the owner the lock
\* in force names: commits, expiry, renewals, deletions and delayed pushes are the
\* implementation.
Fence == INSTANCE FencedBranch WITH
    last <- IF mainLog = <<>> THEN NoOwner ELSE mainLog[Len(mainLog)],
    holder <- coord.lock.owner

ImplementsFence == Fence!Spec

\* The batches of one run follow each other on main: no batch of another run
\* comes between them, so the ledger and index a run computed from the head it
\* re-read stay current until its last batch.
BatchesContiguous ==
    \A i, k \in DOMAIN mainLog :
        i < k /\ mainLog[i] = mainLog[k] =>
            \A j \in i..k : mainLog[j] = mainLog[i]

\* The lock passes directly to another run.
Overtaken ==
    /\ coord.lock.owner # NoOwner
    /\ coord'.lock.owner # NoOwner
    /\ coord'.lock.owner # coord.lock.owner

\* With clocks that agree to within the grace period, a lock is taken over only
\* LeaseSeconds of true time after its owner last read its clock for it.
NoEarlyTakeover == [][Overtaken => time >= coord.lock.stamped + LeaseSeconds]_vars

\* The fencing generation increases with every takeover while the branch exists.
GenerationIncreases == [][Overtaken => coord'.gen > coord.gen]_vars

\* While a run keeps its lock, the expiry other publishers see never moves
\* backward, even when the owner's wall clock does.
LeaseNeverShrinks ==
    [][coord.lock.owner # NoOwner /\ coord'.lock.owner = coord.lock.owner =>
          coord'.lock.expires >= coord.lock.expires]_vars

\* The lock in force is held by no running publisher.
Orphaned ==
    /\ coord.lock.owner # NoOwner
    /\ \A p \in Publishers : lease[p].id # coord.id

CanExpire == coord.lock.expires + Grace <= MaxTime

\* A publisher that waits behind an orphaned lock (crashed owner, lost answer,
\* delayed duplicate) gets past it once it has expired, unless it gives up.
OrphanRecovered ==
    \A p \in Publishers :
        pc[p] = "start" /\ Orphaned /\ CanExpire
            ~> pc[p] = "idle" \/ ~Orphaned \/ ~CanExpire
=============================================================================
