------------------------- MODULE PrivateLeaseProofs -------------------------
(***************************************************************************)
(* Proofs about PrivateLease for every set of publishers and every bound.  *)
(***************************************************************************)
EXTENDS PrivateLease, TLAPS

-----------------------------------------------------------------------------
\* Types.  A renewal is built from the lease in memory, so the types depend on
\* when a publisher holds one.

Holding == {"held", "sidecar", "publishing", "releasing"}

\* A publisher has a lease exactly in the steps that use one, and its lock names
\* the publisher's current run.
LeaseHeld ==
    \A p \in Publishers :
        /\ pc[p] \in Holding <=> lease[p].id # 0
        /\ lease[p].id # 0 => lease[p].lock \in LockFields /\ lease[p].lock.owner = Self(p)

Typed == TypeOK /\ nextId >= 2 /\ LeaseHeld

\* The remote's part of the types.
RemoteTyped ==
    /\ nextId \in Nat /\ main \in Nat /\ faults \in Nat
    /\ mainLog \in Seq(Owners)
    /\ coord \in Commits
    /\ late \in SUBSET Pushes
    /\ nextId >= 2

Answered(u) == Accepted(u) \/ Refused(u) \/ Unknown(u)

\* A push of a well-formed update leaves the remote well-formed, whatever its fate.
LEMMA PushTyped ==
    ASSUME RemoteTyped, NEW u \in Pushes, Answered(u)
    PROVE  RemoteTyped'
<1>1. u.new \in Commits /\ u.newMain \in Nat /\ u.by \in Owners
  BY DEF Pushes
<1>2. CASE Accepted(u)
  BY <1>1, <1>2 DEF Accepted, Install, RemoteTyped
<1>3. CASE Refused(u) \/ Unknown(u)
  BY <1>3 DEF Refused, Unknown, RemoteTyped, remote
<1>4. QED
  BY <1>2, <1>3 DEF Answered

\* The push that creates or takes over the lock is well-formed and names its sender.
LEMMA AcquisitionPushTyped ==
    ASSUME Typed, NEW p \in Publishers
    PROVE  /\ AcquisitionPush(p) \in Pushes
           /\ AcquisitionPush(p).new.id = nextId
           /\ AcquisitionPush(p).new.lock \in LockFields
           /\ AcquisitionPush(p).new.lock.owner = Self(p)
<1> DEFINE generation == view[p].seen.gen + 1
           lock == LockRecord(Self(p), generation, view[p].wall, view[p].at)
           new == [id |-> nextId, gen |-> generation, lock |-> lock]
<1>1. Self(p) \in Owners
  BY DEF Typed, TypeOK, Self, Owners
<1>2. view[p] \in Views
  BY DEF Typed, TypeOK
<1>3. view[p].seen \in Commits /\ view[p].wall \in Nat /\ view[p].at \in Nat
  BY <1>2 DEF Views
<1>4. view[p].seen.gen \in Nat
  BY <1>3 DEF Commits
<1>5. lock \in LockFields /\ ValidLock(lock) /\ lock.owner = Self(p)
  BY <1>1, <1>3, <1>4, LeaseAssumption DEF LockRecord, LockFields, ValidLock
<1>6. new \in Commits
  BY <1>4, <1>5 DEF Commits, Locks, Typed, TypeOK
<1>7. AcquisitionPush(p) = [by |-> Self(p), exp |-> view[p].seen, expMain |-> 0,
                            newMain |-> 0, new |-> new]
  BY DEF AcquisitionPush
<1> HIDE DEF new
<1>8. AcquisitionPush(p) \in Pushes /\ AcquisitionPush(p).new = new
  BY <1>1, <1>3, <1>6, <1>7 DEF Pushes
<1>9. QED
  BY <1>5, <1>8 DEF new

\* A renewed lock is valid and never older than the lock or the clock it came from.
LEMMA RenewedLockTyped ==
    ASSUME NEW lock \in LockFields, ValidLock(lock), NEW wall \in Nat, time \in Nat
    PROVE  LET new == RenewedLockAt(lock, wall)
           IN  /\ new \in LockFields /\ ValidLock(new)
               /\ new.owner = lock.owner /\ new.gen = lock.gen /\ new.stamped = time
               /\ new.heartbeat >= wall /\ new.heartbeat >= lock.heartbeat
               /\ new.expires = new.heartbeat + LeaseSeconds
<1>1. Later(wall, lock.heartbeat) \in Nat
      /\ Later(wall, lock.heartbeat) >= wall
      /\ Later(wall, lock.heartbeat) >= lock.heartbeat
  BY DEF LockFields, Later
<1>2. QED
  BY <1>1, LeaseAssumption DEF RenewedLockAt, LockFields, ValidLock

\* A renewal of a held lease is well-formed and keeps owner and generation.
LEMMA RenewalPushTyped ==
    ASSUME Typed, NEW p \in Publishers, pc[p] \in Holding, NEW wall \in Nat, NEW expMain \in Nat
    PROVE  LET u == RenewalPush(p, wall, expMain)
           IN  /\ u \in Pushes /\ u.by = Self(p) /\ u.exp = lease[p] /\ u.expMain = expMain
               /\ u.new.id = nextId /\ u.new.gen = lease[p].gen
               /\ u.new.lock = RenewedLockAt(lease[p].lock, wall)
               /\ u.new.lock \in LockFields /\ u.new.lock.owner = Self(p)
               /\ u.newMain \in Nat
<1> DEFINE lock == RenewedLockAt(lease[p].lock, wall)
           new == [lease[p] EXCEPT !.id = nextId, !.lock = lock]
<1>1. lease[p] \in Commits /\ lease[p].id # 0 /\ lease[p].lock \in LockFields
      /\ lease[p].lock.owner = Self(p) /\ Self(p) \in Owners
  BY DEF Typed, TypeOK, LeaseHeld, Self, Owners
<1>2. lease[p].lock \in Locks
  BY <1>1 DEF Commits
<1>3. ValidLock(lease[p].lock)
  BY <1>1, <1>2, NoOwnerAssumption DEF Locks, NoLock, ValidLock, Owners
<1>4. lock \in LockFields /\ ValidLock(lock) /\ lock.owner = Self(p)
  BY <1>1, <1>3, RenewedLockTyped DEF Typed, TypeOK
<1> HIDE DEF lock
<1>5. new \in Commits /\ new.id = nextId /\ new.gen = lease[p].gen /\ new.lock = lock
  BY <1>1, <1>4 DEF Commits, Locks, Typed, TypeOK
<1>6. RenewalPush(p, wall, expMain) =
         [by |-> Self(p), exp |-> lease[p], expMain |-> expMain,
          newMain |-> IF expMain = 0 THEN 0 ELSE nextId, new |-> new]
  BY DEF RenewalPush, lock
<1> HIDE DEF new
<1>7. (IF expMain = 0 THEN 0 ELSE nextId) \in Nat
  BY DEF Typed, TypeOK
<1>8. QED
  BY <1>1, <1>4, <1>5, <1>6, <1>7 DEF Pushes, lock

\* A release of a held lease is well-formed, by deletion or by commit.
LEMMA ReleasePushTyped ==
    ASSUME Typed, NEW p \in Publishers, pc[p] \in Holding, NEW deletes \in BOOLEAN
    PROVE  LET u == ReleasePush(p, deletes)
           IN  /\ u \in Pushes /\ u.by = Self(p) /\ u.exp = lease[p] /\ u.expMain = 0
               /\ u.new.lock = NoLock
               /\ u.new = Absent \/ (u.new.id = nextId /\ u.new.gen = lease[p].gen)
<1>1. lease[p] \in Commits /\ Self(p) \in Owners /\ nextId \in Nat
  BY DEF Typed, TypeOK, Self, Owners
<1>2. NoLock \in Locks
  BY DEF Locks
<1>3. Absent \in Commits
  BY <1>2 DEF Absent, Commits
<1> DEFINE new == [lease[p] EXCEPT !.id = nextId, !.lock = NoLock]
<1>4. new \in Commits /\ new.id = nextId /\ new.gen = lease[p].gen /\ new.lock = NoLock
  BY <1>1, <1>2 DEF Commits
<1>5. ReleasePush(p, deletes) =
         [by |-> Self(p), exp |-> lease[p], expMain |-> 0, newMain |-> 0,
          new |-> IF deletes THEN Absent ELSE new]
  BY DEF ReleasePush
<1> HIDE DEF new
<1>6. CASE deletes
  BY <1>1, <1>3, <1>5, <1>6 DEF Pushes, Absent
<1>7. CASE ~deletes
  BY <1>1, <1>4, <1>5, <1>7 DEF Pushes
<1>8. QED
  BY <1>6, <1>7

\* What the publishers have in memory.
PublishersTyped ==
    /\ pc \in [Publishers -> Steps]
    /\ run \in [Publishers -> Nat]
    /\ view \in [Publishers -> Views]
    /\ lease \in [Publishers -> Commits]

\* The type invariant splits into the remote and the publishers.
LEMMA TypedParts == Typed <=> time \in Nat /\ RemoteTyped /\ PublishersTyped /\ LeaseHeld
  BY DEF Typed, TypeOK, RemoteTyped, PublishersTyped

\* The empty view and the absent branch are well-formed.
LEMMA NoViewTyped == NoView \in Views /\ Absent \in Commits /\ Absent.id = 0
<1>1. Absent \in Commits /\ Absent.id = 0
  BY DEF Absent, Commits, Locks
<1>2. QED
  BY <1>1 DEF NoView, Views

\* Starting another round keeps the publishers well-formed.
LEMMA AgainTyped ==
    ASSUME Typed, NEW p \in Publishers, Again(p), pc[p] \notin Holding, UNCHANGED run
    PROVE  PublishersTyped' /\ LeaseHeld'
  BY NoViewTyped DEF Typed, TypeOK, PublishersTyped, LeaseHeld, Again, Goto, Steps, Holding, Self

\* Ending a run keeps the publishers well-formed.
LEMMA QuitTyped ==
    ASSUME Typed, NEW p \in Publishers, Quit(p), UNCHANGED run
    PROVE  PublishersTyped' /\ LeaseHeld'
  BY NoViewTyped DEF Typed, TypeOK, PublishersTyped, LeaseHeld, Quit, Goto, Steps, Holding, Self

\* Taking a lease that names the publisher keeps the publishers well-formed.
LEMMA HoldTyped ==
    ASSUME Typed, NEW p \in Publishers, NEW c \in Commits, Hold(p, c), UNCHANGED run,
           c.id # 0, c.lock \in LockFields, c.lock.owner = Self(p)
    PROVE  PublishersTyped' /\ LeaseHeld'
<1>1. view[p].main \in Nat
  BY DEF Typed, TypeOK, Views
<1>2. [NoView EXCEPT !.observed = view[p].main] \in Views
  BY <1>1, NoViewTyped DEF NoView, Views
<1>3. QED
  BY <1>2 DEF Typed, TypeOK, PublishersTyped, LeaseHeld, Hold, Goto, Steps, Holding, Self

\* Going to the release with the lease as held keeps the publishers well-formed.
LEMMA AbortTyped ==
    ASSUME Typed, NEW p \in Publishers, Abort(p), UNCHANGED run, pc[p] \in Holding
    PROVE  PublishersTyped' /\ LeaseHeld'
  BY DEF Typed, TypeOK, PublishersTyped, LeaseHeld, Abort, Goto, Steps, Holding, Self

\* Every step keeps the types: one step per action.
LEMMA TypedStep ==
    ASSUME Typed, [Next]_vars
    PROVE  Typed'
<1>0. /\ time \in Nat /\ RemoteTyped /\ PublishersTyped /\ LeaseHeld
      /\ \A wall \in time..(time + Skew) : wall \in Nat
  BY TypedParts, LeaseAssumption
<1>1. ASSUME NEW p \in Publishers, Publisher(p)
      PROVE  Typed'
  <2>0. view[p] \in Views /\ view[p].main \in Nat /\ view[p].observed \in Nat
        /\ view[p].seen \in Commits /\ lease[p] \in Commits
        /\ view[p].wall \in Nat /\ view[p].at \in Nat
    BY <1>0 DEF PublishersTyped, Views
  <2>1. CASE Begin(p)
    <3>1. PublishersTyped' /\ LeaseHeld'
      BY <1>0, <2>1 DEF Begin, Goto, PublishersTyped, LeaseHeld, Steps, Holding, Self
    <3>2. RemoteTyped' /\ time' \in Nat
      BY <1>0, <2>1 DEF Begin, RemoteTyped, remote
    <3>3. QED
      BY <3>1, <3>2, TypedParts DEF Typed, TypeOK, RemoteTyped, PublishersTyped
  <2>2. CASE GiveUp(p) \/ Crash(p)
    <3>1. PublishersTyped' /\ LeaseHeld'
      BY <2>2, QuitTyped DEF GiveUp, Crash
    <3>2. RemoteTyped' /\ time' \in Nat
      BY <1>0, <2>2 DEF GiveUp, Crash, RemoteTyped, remote
    <3>3. QED
      BY <3>1, <3>2 DEF Typed, TypeOK, RemoteTyped, PublishersTyped
  <2>3. CASE ReadMain(p)
    <3>1. PICK wall \in time..(time + Skew) :
             view' = [view EXCEPT ![p] = [NoView EXCEPT !.main = main, !.wall = wall, !.at = time]]
      BY <2>3 DEF ReadMain
    <3>2. [NoView EXCEPT !.main = main, !.wall = wall, !.at = time] \in Views
      BY <1>0, NoViewTyped DEF NoView, Views, RemoteTyped
    <3>3. PublishersTyped' /\ LeaseHeld'
      BY <1>0, <2>3, <3>1, <3>2
      DEF ReadMain, Goto, PublishersTyped, LeaseHeld, Steps, Holding, Self
    <3>4. RemoteTyped' /\ time' \in Nat
      BY <1>0, <2>3 DEF ReadMain, RemoteTyped, remote
    <3>5. QED
      BY <3>3, <3>4 DEF Typed, TypeOK, RemoteTyped, PublishersTyped
  <2>4. CASE ReadCoordination(p)
    <3>1. RemoteTyped' /\ time' \in Nat /\ UNCHANGED run /\ pc[p] \notin Holding
      BY <1>0, <2>4 DEF ReadCoordination, RemoteTyped, remote, Holding
    <3>2. CASE Quit(p)
      BY <3>1, <3>2, QuitTyped DEF Typed, TypeOK, RemoteTyped, PublishersTyped
    <3>3. CASE Again(p)
      BY <3>1, <3>3, AgainTyped DEF Typed, TypeOK, RemoteTyped, PublishersTyped
    <3>4. CASE /\ Goto(p, IF coord.id = 0 THEN "create" ELSE "takeover")
               /\ view' = [view EXCEPT ![p].seen = coord]
               /\ UNCHANGED lease
      <4>1. [view[p] EXCEPT !.seen = coord] \in Views
        BY <1>0, <2>0 DEF RemoteTyped, Views
      <4>2. PublishersTyped' /\ LeaseHeld'
        BY <1>0, <3>1, <3>4, <4>1 DEF Goto, PublishersTyped, LeaseHeld, Steps, Holding, Self
      <4>3. QED
        BY <3>1, <4>2 DEF Typed, TypeOK, RemoteTyped, PublishersTyped
    <3>5. QED
      BY <2>4, <3>2, <3>3, <3>4 DEF ReadCoordination
  <2>5. CASE CreateBranch(p) \/ TakeOver(p)
    <3> DEFINE u == AcquisitionPush(p)
    <3>1. Answered(u) /\ UNCHANGED <<time, run>> /\ pc[p] \notin Holding
      BY <2>5 DEF CreateBranch, TakeOver, Answered, Holding
    <3>2. RemoteTyped' /\ time' \in Nat
      BY <1>0, <3>1, PushTyped, AcquisitionPushTyped
    <3>3. CASE Hold(p, u.new)
      <4>1. u.new \in Commits /\ u.new.id # 0
        BY <1>0, AcquisitionPushTyped DEF Pushes, RemoteTyped
      <4>2. PublishersTyped' /\ LeaseHeld'
        BY <3>1, <3>3, <4>1, AcquisitionPushTyped, HoldTyped
      <4>3. QED
        BY <3>2, <4>2 DEF Typed, TypeOK, RemoteTyped, PublishersTyped
    <3>4. CASE Again(p)
      BY <3>1, <3>2, <3>4, AgainTyped DEF Typed, TypeOK, RemoteTyped, PublishersTyped
    <3>5. CASE Quit(p)
      BY <3>1, <3>2, <3>5, QuitTyped DEF Typed, TypeOK, RemoteTyped, PublishersTyped
    <3>6. CASE Goto(p, "moved") /\ UNCHANGED <<view, lease>>
      <4>1. PublishersTyped' /\ LeaseHeld'
        BY <1>0, <3>1, <3>6 DEF Goto, PublishersTyped, LeaseHeld, Steps, Holding, Self
      <4>2. QED
        BY <3>2, <4>1 DEF Typed, TypeOK, RemoteTyped, PublishersTyped
    <3>7. QED
      BY <2>5, <3>3, <3>4, <3>5, <3>6 DEF CreateBranch, TakeOver
  <2>6. CASE CheckMoved(p)
    <3>1. RemoteTyped' /\ time' \in Nat /\ UNCHANGED run /\ pc[p] \notin Holding
      BY <1>0, <2>6 DEF CheckMoved, RemoteTyped, remote, Holding
    <3>2. PublishersTyped' /\ LeaseHeld'
      BY <2>6, <3>1, QuitTyped, AgainTyped DEF CheckMoved
    <3>3. QED
      BY <3>1, <3>2 DEF Typed, TypeOK, RemoteTyped, PublishersTyped
  <2>7. CASE RereadHead(p)
    <3>1. [view[p] EXCEPT !.main = main] \in Views
      BY <1>0, <2>0 DEF RemoteTyped, Views
    <3>2. PublishersTyped' /\ LeaseHeld'
      BY <1>0, <2>7, <3>1 DEF RereadHead, Goto, PublishersTyped, LeaseHeld, Steps, Holding, Self
    <3>3. RemoteTyped' /\ time' \in Nat
      BY <1>0, <2>7 DEF RereadHead, RemoteTyped, remote
    <3>4. QED
      BY <3>2, <3>3 DEF Typed, TypeOK, RemoteTyped, PublishersTyped
  <2>8. CASE Renew(p)
    <3>1. PICK wall \in time..(time + Skew) :
             LET u == RenewalPush(p, wall, 0)
             IN  \/ /\ Accepted(u)
                    /\ Goto(p, "publishing")
                    /\ view' = [view EXCEPT ![p].observed = view[p].main]
                    /\ lease' = [lease EXCEPT ![p] = u.new]
                 \/ Refused(u) /\ Abort(p)
                 \/ Unknown(u) /\ Abort(p)
      BY <2>8 DEF Renew
    <3> DEFINE u == RenewalPush(p, wall, 0)
    <3>2. /\ UNCHANGED <<time, run>> /\ pc[p] \in Holding
          /\ u \in Pushes /\ u.new.id = nextId
          /\ u.new.lock \in LockFields /\ u.new.lock.owner = Self(p)
      BY <1>0, <2>8, RenewalPushTyped DEF Renew, Holding
    <3>3. RemoteTyped' /\ time' \in Nat
      BY <1>0, <3>1, <3>2, PushTyped DEF Answered
    <3> HIDE DEF u
    <3>4. CASE Abort(p)
      BY <3>2, <3>3, <3>4, AbortTyped DEF Typed, TypeOK, RemoteTyped, PublishersTyped
    <3>5. CASE /\ Goto(p, "publishing")
               /\ view' = [view EXCEPT ![p].observed = view[p].main]
               /\ lease' = [lease EXCEPT ![p] = u.new]
      <4>1. [view[p] EXCEPT !.observed = view[p].main] \in Views
        BY <2>0 DEF Views
      <4>2. u.new \in Commits /\ u.new.id # 0
        BY <1>0, <3>2 DEF Pushes, RemoteTyped
      <4>3. PublishersTyped' /\ LeaseHeld'
        BY <1>0, <3>2, <3>5, <4>1, <4>2 DEF Goto, PublishersTyped, LeaseHeld, Steps, Holding, Self
      <4>4. QED
        BY <3>3, <4>3 DEF Typed, TypeOK, RemoteTyped, PublishersTyped
    <3>6. QED
      BY <3>1, <3>4, <3>5 DEF u
  <2>9. CASE CommitBatch(p)
    <3>1. PICK wall \in time..(time + Skew) :
             LET u == RenewalPush(p, wall, view[p].main)
             IN  \/ /\ Accepted(u)
                    /\ UNCHANGED pc
                    /\ view' = [view EXCEPT ![p].main = u.newMain, ![p].observed = u.newMain]
                    /\ lease' = [lease EXCEPT ![p] = u.new]
                 \/ Refused(u) /\ Abort(p)
                 \/ Unknown(u) /\ Abort(p)
      BY <2>9 DEF CommitBatch
    <3> DEFINE u == RenewalPush(p, wall, view[p].main)
    <3>2. /\ UNCHANGED <<time, run>> /\ pc[p] \in Holding
          /\ u \in Pushes /\ u.new.id = nextId /\ u.newMain \in Nat
          /\ u.new.lock \in LockFields /\ u.new.lock.owner = Self(p)
      BY <1>0, <2>0, <2>9, RenewalPushTyped DEF CommitBatch, Holding
    <3>3. RemoteTyped' /\ time' \in Nat
      BY <1>0, <3>1, <3>2, PushTyped DEF Answered
    <3> HIDE DEF u
    <3>4. CASE Abort(p)
      BY <3>2, <3>3, <3>4, AbortTyped DEF Typed, TypeOK, RemoteTyped, PublishersTyped
    <3>5. CASE /\ UNCHANGED pc
               /\ view' = [view EXCEPT ![p].main = u.newMain, ![p].observed = u.newMain]
               /\ lease' = [lease EXCEPT ![p] = u.new]
      <4>1. [[view[p] EXCEPT !.main = u.newMain] EXCEPT !.observed = u.newMain] \in Views
        BY <2>0, <3>2 DEF Views
      <4>2. view' = [view EXCEPT ![p] = [[view[p] EXCEPT !.main = u.newMain]
                                          EXCEPT !.observed = u.newMain]]
        BY <1>0, <3>5 DEF PublishersTyped
      <4>3. u.new \in Commits /\ u.new.id # 0
        BY <1>0, <3>2 DEF Pushes, RemoteTyped
      <4>4. PublishersTyped' /\ LeaseHeld'
        BY <1>0, <3>2, <3>5, <4>1, <4>2, <4>3 DEF PublishersTyped, LeaseHeld, Holding, Self
      <4>5. QED
        BY <3>3, <4>4 DEF Typed, TypeOK, RemoteTyped, PublishersTyped
    <3>6. QED
      BY <3>1, <3>4, <3>5 DEF u
  <2>10. CASE Finish(p)
    <3>1. RemoteTyped' /\ time' \in Nat /\ UNCHANGED run /\ pc[p] \in Holding
      BY <1>0, <2>10 DEF Finish, RemoteTyped, remote, Holding
    <3>2. PublishersTyped' /\ LeaseHeld'
      BY <2>10, <3>1, AbortTyped DEF Finish
    <3>3. QED
      BY <3>1, <3>2 DEF Typed, TypeOK, RemoteTyped, PublishersTyped
  <2>11. CASE Release(p)
    <3>1. PICK deletes \in BOOLEAN : Answered(ReleasePush(p, deletes))
      BY <2>11 DEF Release, Answered
    <3>2. pc[p] \in Holding /\ UNCHANGED <<time, run>> /\ Quit(p)
      BY <2>11 DEF Release, Holding
    <3>3. RemoteTyped' /\ time' \in Nat
      BY <1>0, <3>1, <3>2, ReleasePushTyped, PushTyped
    <3>4. PublishersTyped' /\ LeaseHeld'
      BY <3>2, QuitTyped
    <3>5. QED
      BY <3>3, <3>4 DEF Typed, TypeOK, RemoteTyped, PublishersTyped
  <2>12. QED
    BY <1>1, <2>1, <2>2, <2>3, <2>4, <2>5, <2>6, <2>7, <2>8, <2>9, <2>10, <2>11 DEF Publisher
<1>2. ASSUME NEW u \in late, LateApply(u)
      PROVE  Typed'
  <2>1. u \in Pushes /\ u.new \in Commits /\ u.newMain \in Nat /\ u.by \in Owners
    BY <1>0 DEF RemoteTyped, Pushes
  <2>2. RemoteTyped'
    BY <1>0, <1>2, <2>1 DEF LateApply, Install, RemoteTyped
  <2>3. PublishersTyped' /\ LeaseHeld' /\ time' \in Nat
    BY <1>0, <1>2 DEF LateApply, PublishersTyped, LeaseHeld, Self
  <2>4. QED
    BY <2>2, <2>3 DEF Typed, TypeOK, RemoteTyped, PublishersTyped
<1>3. CASE Tick \/ UNCHANGED vars
  BY <1>0, <1>3 DEF Tick, vars, remote, Typed, TypeOK, LeaseHeld, Self
<1>4. QED
  BY <1>1, <1>2, <1>3 DEF Next

\* The initial state is well-formed.
LEMMA TypedInit == Init => Typed
<1>1. NoView \in Views /\ Absent \in Commits /\ Absent.id = 0
  BY NoViewTyped
<1>2. QED
  BY <1>1 DEF Init, Typed, TypeOK, LeaseHeld, Holding, Steps

\* Every lock that any interleaving, crash or delayed push puts on the branch, in
\* flight or in memory is valid, and a lease is held exactly where it is used.
THEOREM TypeCorrect == Spec => []TypeOK
<1>1. Init => Typed
  BY TypedInit
<1>2. Typed /\ [Next]_vars => Typed'
  BY TypedStep
<1>3. Typed => TypeOK
  BY DEF Typed
<1>4. QED
  BY <1>1, <1>2, <1>3, PTL DEF Spec

-----------------------------------------------------------------------------
\* Fencing.  A lease is checked by commit identity alone, so the argument is that
\* an identity names one commit among all the commits anyone still remembers:
\* the branch, the publishers, and the pushes that are still on their way.

SeenCommits == {view[p].seen : p \in Publishers}
LeaseCommits == {lease[p] : p \in Publishers}
LateCommits == {u.exp : u \in late} \cup {u.new : u \in late}
Known == {coord} \cup SeenCommits \cup LeaseCommits \cup LateCommits

\* No branch is one value; a lock belongs to its commit's generation and expires
\* LeaseSeconds after a heartbeat that is not before the true time.
Good(c) ==
    /\ c.id = 0 => c = Absent
    /\ c.lock.owner # NoOwner =>
          /\ c.lock.gen = c.gen
          /\ c.lock.expires = c.lock.heartbeat + LeaseSeconds
          /\ c.lock.heartbeat >= c.lock.stamped

\* In S, identities below n name good commits, one each.
Names(S, n) ==
    /\ \A c \in S : c.id < n /\ Good(c)
    /\ \A c, d \in S : c.id = d.id => c = d

\* The three kinds of push.
Acquires(u) ==
    /\ u.expMain = 0
    /\ u.new.lock.owner = u.by
    /\ u.new.gen > u.exp.gen
    /\ u.exp.lock.owner # NoOwner =>
          /\ u.new.lock.expires >= u.exp.lock.expires
          /\ Skew <= Grace => time >= u.exp.lock.stamped + LeaseSeconds

Renews(u) ==
    /\ u.exp.lock.owner = u.by
    /\ u.new.lock.owner = u.by
    /\ u.new.lock.expires >= u.exp.lock.expires

Releases(u) == u.expMain = 0 /\ u.new.lock = NoLock

PushOK(u) == Acquires(u) \/ Renews(u) \/ Releases(u)

\* What a publisher read, and why it goes on to acquire.
ViewOK(p) ==
    /\ view[p].at <= view[p].wall /\ view[p].wall <= view[p].at + Skew
    /\ view[p].at <= time
    /\ pc[p] = "create" => view[p].seen.id = 0
    /\ pc[p] = "takeover" => Available(view[p].seen.lock, view[p].wall)

LateOK == \A u \in late : PushOK(u)
ViewsOK == \A p \in Publishers : ViewOK(p)

FenceInv == Typed /\ Names(Known, nextId) /\ LateOK /\ ViewsOK

\* The absent branch is a good commit without a lock.
LEMMA AbsentGood == Absent.id = 0 /\ Good(Absent) /\ Absent.lock = NoLock /\ NoLock.owner = NoOwner
  BY DEF Absent, Good, NoLock

\* Adding one commit with the next identity keeps identities names.
LEMMA NamesExtend ==
    ASSUME NEW n \in Nat, n >= 2, NEW S, NEW T, Names(S, n),
           S \in SUBSET Commits,
           NEW c \in Commits, c = Absent \/ (c.id = n /\ Good(c)),
           T \in SUBSET (S \cup {Absent, c})
    PROVE  Names(T, n + 1)
<1>1. \A d \in S : d.id \in Nat
  BY DEF Commits
<1>2. \A d \in S \cup {Absent} : d.id < n /\ Good(d) /\ d.id \in Nat
  BY <1>1, AbsentGood DEF Names
<1>3. \A d, e \in S \cup {Absent} : d.id = e.id => d = e
  BY <1>2, AbsentGood DEF Names, Good
<1>4. QED
  BY <1>2, <1>3, AbsentGood DEF Names

\* Forgetting commits keeps identities unambiguous.
LEMMA NamesKeep ==
    ASSUME NEW n \in Nat, n >= 2, NEW S, NEW T, Names(S, n),
           T \in SUBSET (S \cup {Absent})
    PROVE  Names(T, n)
<1>1. \A d \in S \cup {Absent} : d.id < n /\ Good(d)
  BY AbsentGood DEF Names
<1>2. \A d, e \in S \cup {Absent} : d.id = e.id => d = e
  BY <1>1, AbsentGood DEF Names, Good
<1>3. QED
  BY <1>1, <1>2 DEF Names

\* Every commit that anybody knows is well-formed.
LEMMA KnownTyped == Typed => Known \in SUBSET Commits
<1> SUFFICES ASSUME Typed PROVE Known \in SUBSET Commits
  OBVIOUS
<1>1. coord \in Commits /\ LeaseCommits \in SUBSET Commits
  BY DEF Typed, TypeOK, LeaseCommits
<1>2. SeenCommits \in SUBSET Commits
  BY DEF Typed, TypeOK, SeenCommits, Views
<1>3. LateCommits \in SUBSET Commits
  BY DEF Typed, TypeOK, LateCommits, Pushes
<1>4. QED
  BY <1>1, <1>2, <1>3 DEF Known

\* The commit a push would install has the next identity, or deletes the branch.
Fresh(u) == u.new = Absent \/ (u.new.id = nextId /\ Good(u.new))

\* After the step the publishers remember only commits known before it, or also c.
Recalls == \A q \in Publishers : /\ view'[q].seen \in Known \cup {Absent}
                                 /\ lease'[q] \in Known \cup {Absent}
RecallsOr(c) == \A q \in Publishers : /\ view'[q].seen \in Known \cup {Absent}
                                      /\ lease'[q] \in Known \cup {Absent, c}

\* They learn the commit of an accepted push only.
Learns(u) == Recalls \/ (Accepted(u) /\ RecallsOr(u.new))

\* A push, whatever its fate, and a memory that learns at most its commit.
LEMMA PushFenced ==
    ASSUME FenceInv, NEW u \in Pushes, Answered(u), UNCHANGED time,
           u.exp \in Known, PushOK(u),
           Fresh(u), Learns(u)
    PROVE  Names(Known, nextId)' /\ LateOK'
<1>1. Known \in SUBSET Commits /\ nextId \in Nat /\ nextId >= 2 /\ u.new \in Commits
  BY KnownTyped DEF FenceInv, Typed, TypeOK, Pushes
<1>2. SeenCommits' \in SUBSET (Known \cup {Absent})
  BY DEF SeenCommits, Learns, Recalls, RecallsOr
<1>3. CASE nextId' = nextId + 1
  <2>1. late' \in SUBSET (late \cup {u}) /\ coord' \in {coord, u.new}
    BY <1>1, <1>3 DEF Answered, Accepted, Refused, Unknown, Install, remote
  <2>2. LateCommits' \in SUBSET (Known \cup {u.new})
    BY <2>1 DEF LateCommits, Known
  <2>3. LeaseCommits' \in SUBSET (Known \cup {Absent, u.new})
    BY DEF LeaseCommits, Learns, Recalls, RecallsOr
  <2>4. Known' \in SUBSET (Known \cup {Absent, u.new})
    BY <1>2, <2>1, <2>2, <2>3 DEF Known
  <2>5. Names(Known', nextId + 1)
    BY <1>1, <2>4, NamesExtend DEF FenceInv, Fresh
  <2>6. LateOK'
    BY <2>1 DEF FenceInv, LateOK, PushOK, Acquires, Renews, Releases
  <2>7. QED
    BY <1>3, <2>5, <2>6 DEF Names, Good
<1>4. CASE nextId' # nextId + 1
  <2>1. UNCHANGED <<nextId, coord, late>> /\ ~Accepted(u)
    BY <1>4 DEF Answered, Accepted, Refused, Unknown, remote
  <2>2. LateCommits' \in SUBSET Known /\ coord' \in Known
    BY <2>1 DEF LateCommits, Known
  <2>3. LeaseCommits' \in SUBSET (Known \cup {Absent})
    BY <2>1 DEF LeaseCommits, Learns, Recalls
  <2>4. Known' \in SUBSET (Known \cup {Absent})
    BY <1>2, <2>2, <2>3 DEF Known
  <2>5. Names(Known', nextId)
    BY <1>1, <2>4, NamesKeep DEF FenceInv
  <2>6. LateOK'
    BY <2>1 DEF FenceInv, LateOK, PushOK, Acquires, Renews, Releases
  <2>7. QED
    BY <2>1, <2>5, <2>6 DEF Names, Good
<1>5. QED
  BY <1>3, <1>4

\* A step that leaves the remote alone.
LEMMA LocalFenced ==
    ASSUME FenceInv, UNCHANGED <<nextId, coord, late>>, time' >= time, time' \in Nat,
           Recalls
    PROVE  Names(Known, nextId)' /\ LateOK'
<1>1. nextId \in Nat /\ nextId >= 2 /\ time \in Nat /\ late \in SUBSET Pushes
  BY DEF FenceInv, Typed, TypeOK
<1>2. SeenCommits' \in SUBSET (Known \cup {Absent})
      /\ LeaseCommits' \in SUBSET (Known \cup {Absent})
  BY DEF SeenCommits, LeaseCommits, Recalls
<1>3. LateCommits' \in SUBSET Known /\ coord' \in Known
  BY DEF LateCommits, Known
<1>4. Known' \in SUBSET (Known \cup {Absent})
  BY <1>2, <1>3 DEF Known
<1>5. Names(Known', nextId)
  BY <1>1, <1>4, NamesKeep DEF FenceInv
<1>6. ASSUME NEW u \in late PROVE PushOK(u)'
  <2>1. PushOK(u)
    BY DEF FenceInv, LateOK
  <2>2. u.exp.lock.owner # NoOwner => u.exp.lock.stamped \in Nat
    BY <1>1, NoOwnerAssumption DEF Pushes, Commits, Locks, LockFields, NoLock
  <2>3. Acquires(u) => Acquires(u)'
    BY <1>1, <2>2, LeaseAssumption DEF Acquires
  <2>4. (Renews(u) => Renews(u)') /\ (Releases(u) => Releases(u)')
    BY DEF Renews, Releases
  <2>5. QED
    BY <2>1, <2>3, <2>4 DEF PushOK
<1>7. QED
  BY <1>5, <1>6 DEF LateOK, Names, Good

\* Every commit the publishers remember is known or absent.
Remembered == \A q \in Publishers : /\ view[q].seen \in Known \cup {Absent}
                                    /\ lease[q] \in Known \cup {Absent}

\* What a publisher remembers is known by definition.
LEMMA AlwaysRemembered == Remembered
  BY DEF Remembered, Known, SeenCommits, LeaseCommits

\* The empty view remembers nothing but the absent branch.
LEMMA NoViewOK == /\ NoView.seen = Absent
                  /\ NoView.at = 0 /\ NoView.wall = 0 /\ NoView.main = 0
  BY DEF NoView

\* The memory after each way to leave a step.
LEMMA AgainRemembers ==
    ASSUME FenceInv, NEW p \in Publishers, Again(p), UNCHANGED time
    PROVE  Recalls /\ ViewsOK'
<1>1. /\ view \in [Publishers -> Views] /\ pc \in [Publishers -> Steps] /\ time \in Nat
      /\ view' = [view EXCEPT ![p] = NoView] /\ lease' = lease
      /\ pc' = [pc EXCEPT ![p] = "start"]
  BY DEF FenceInv, Typed, TypeOK, Again, Goto
<1>2. ViewsOK'
  BY <1>1, NoViewOK, LeaseAssumption DEF FenceInv, ViewsOK, ViewOK, Available, ExpiredAt
<1>3. QED
  BY <1>1, <1>2, NoViewOK, AlwaysRemembered DEF Remembered, Recalls

\* A run that ends remembers no commit.
LEMMA QuitRemembers ==
    ASSUME FenceInv, NEW p \in Publishers, Quit(p), UNCHANGED time
    PROVE  Recalls /\ ViewsOK'
<1>1. /\ view \in [Publishers -> Views] /\ pc \in [Publishers -> Steps] /\ time \in Nat
      /\ lease \in [Publishers -> Commits]
      /\ view' = [view EXCEPT ![p] = NoView] /\ lease' = [lease EXCEPT ![p] = Absent]
      /\ pc' = [pc EXCEPT ![p] = "idle"]
  BY DEF FenceInv, Typed, TypeOK, Quit, Goto
<1>2. ViewsOK'
  BY <1>1, NoViewOK, LeaseAssumption DEF FenceInv, ViewsOK, ViewOK, Available, ExpiredAt
<1>3. QED
  BY <1>1, <1>2, NoViewOK, AlwaysRemembered DEF Remembered, Recalls

\* A publisher that takes a lease remembers the commit of that lease.
LEMMA HoldRemembers ==
    ASSUME FenceInv, NEW p \in Publishers, NEW c \in Commits, Hold(p, c), UNCHANGED time
    PROVE  RecallsOr(c) /\ ViewsOK'
<1> DEFINE v == [NoView EXCEPT !.observed = view[p].main]
<1>1. /\ view \in [Publishers -> Views] /\ pc \in [Publishers -> Steps] /\ time \in Nat
      /\ lease \in [Publishers -> Commits]
      /\ view' = [view EXCEPT ![p] = v] /\ lease' = [lease EXCEPT ![p] = c]
      /\ pc' = [pc EXCEPT ![p] = "held"]
  BY DEF FenceInv, Typed, TypeOK, Hold, Goto
<1>2. v.seen = Absent /\ v.at = 0 /\ v.wall = 0
  BY DEF NoView
<1> HIDE DEF v
<1>3. ViewsOK'
  BY <1>1, <1>2, LeaseAssumption DEF FenceInv, ViewsOK, ViewOK, Available, ExpiredAt
<1>4. QED
  BY <1>1, <1>2, <1>3, AlwaysRemembered DEF Remembered, RecallsOr

\* A step that keeps view and lease adds nothing to what is remembered.
LEMMA StayRemembers ==
    ASSUME FenceInv, NEW p \in Publishers, NEW step \in Steps \ {"create", "takeover"},
           Goto(p, step), UNCHANGED <<view, lease, time>>
    PROVE  Recalls /\ ViewsOK'
<1>1. pc \in [Publishers -> Steps] /\ pc' = [pc EXCEPT ![p] = step]
  BY DEF FenceInv, Typed, TypeOK, Goto
<1>2. ViewsOK'
  BY <1>1 DEF FenceInv, ViewsOK, ViewOK, Available, ExpiredAt
<1>3. QED
  BY <1>2, AlwaysRemembered DEF Remembered, Recalls

\* The pushes the publishers make are of one of the three kinds.
LEMMA AcquisitionPushOK ==
    ASSUME FenceInv, NEW p \in Publishers, pc[p] \in {"create", "takeover"}
    PROVE  LET u == AcquisitionPush(p)
           IN  u.exp \in Known /\ PushOK(u) /\ u.new.id = nextId /\ Good(u.new)
<1> DEFINE seen == view[p].seen
           generation == seen.gen + 1
           lock == LockRecord(Self(p), generation, view[p].wall, view[p].at)
           new == [id |-> nextId, gen |-> generation, lock |-> lock]
           u == AcquisitionPush(p)
<1>1. view[p] \in Views /\ seen \in Commits /\ nextId \in Nat /\ nextId >= 2 /\ time \in Nat
  BY DEF FenceInv, Typed, TypeOK, Views
<1>2. view[p].wall \in Nat /\ view[p].at \in Nat /\ seen.gen \in Nat /\ seen.lock \in Locks
  BY <1>1 DEF Views, Commits
<1>3. seen \in Known
  BY DEF Known, SeenCommits
<1>4. Good(seen) /\ ViewOK(p)
  BY <1>3 DEF FenceInv, Names, ViewsOK
<1>5. u = [by |-> Self(p), exp |-> seen, expMain |-> 0, newMain |-> 0, new |-> new]
  BY DEF AcquisitionPush
<1>6. /\ lock.owner = Self(p) /\ lock.gen = generation /\ lock.heartbeat = view[p].wall
      /\ lock.expires = view[p].wall + LeaseSeconds /\ lock.stamped = view[p].at
  BY DEF LockRecord
<1> HIDE DEF lock
<1>7. new.id = nextId /\ new.gen = generation /\ new.lock = lock
  OBVIOUS
<1> HIDE DEF new
<1>8. Good(new)
  BY <1>1, <1>4, <1>6, <1>7 DEF Good, ViewOK
<1>9. ASSUME seen.lock.owner # NoOwner
      PROVE  /\ lock.expires >= seen.lock.expires
             /\ Skew <= Grace => time >= seen.lock.stamped + LeaseSeconds
  <2>1. pc[p] = "takeover"
    BY <1>4, <1>9, AbsentGood DEF ViewOK, Good
  <2>2. view[p].wall >= seen.lock.expires + Grace
    BY <1>4, <1>9, <2>1 DEF ViewOK, Available, ExpiredAt
  <2>3. seen.lock.expires \in Nat /\ seen.lock.stamped \in Nat /\ seen.lock.heartbeat \in Nat
    BY <1>2, <1>9 DEF Locks, LockFields, NoLock
  <2>4. seen.lock.expires >= seen.lock.stamped + LeaseSeconds
    BY <1>4, <1>9, <2>3, LeaseAssumption DEF Good
  <2>5. QED
    BY <1>1, <1>2, <1>4, <1>6, <2>2, <2>3, <2>4, LeaseAssumption DEF ViewOK
<1>10. u.by = Self(p) /\ u.exp = seen /\ u.expMain = 0 /\ u.new = new
  BY <1>5
<1> HIDE DEF u, seen
<1>11. Acquires(u)
  BY <1>2, <1>6, <1>7, <1>9, <1>10 DEF Acquires
<1>12. QED
  BY <1>3, <1>7, <1>8, <1>10, <1>11 DEF PushOK, u

\* A renewal or batch push keeps the owner of the commit it expects.
LEMMA RenewalPushOK ==
    ASSUME FenceInv, NEW p \in Publishers, pc[p] \in Holding,
           NEW wall \in time..(time + Skew), NEW expMain \in Nat
    PROVE  LET u == RenewalPush(p, wall, expMain)
           IN  u.exp \in Known /\ PushOK(u) /\ u.new.id = nextId /\ Good(u.new)
<1> DEFINE u == RenewalPush(p, wall, expMain)
           new == RenewedLockAt(lease[p].lock, wall)
<1>1. /\ time \in Nat /\ wall \in Nat /\ wall >= time /\ nextId >= 2 /\ nextId \in Nat
      /\ lease[p] \in Commits /\ lease[p].id # 0
      /\ lease[p].lock \in LockFields /\ lease[p].lock.owner = Self(p) /\ Self(p) \in Owners
  BY LeaseAssumption DEF FenceInv, Typed, TypeOK, LeaseHeld, Self, Owners
<1>2. lease[p] \in Known
  BY DEF Known, LeaseCommits
<1>3. Good(lease[p])
  BY <1>2 DEF FenceInv, Names
<1>4. Self(p) # NoOwner
  BY <1>1, NoOwnerAssumption DEF Owners
<1>5. lease[p].lock \in Locks
  BY <1>1 DEF Commits
<1>6. ValidLock(lease[p].lock)
  BY <1>1, <1>4, <1>5 DEF Locks, NoLock
<1>7. /\ u.by = Self(p) /\ u.exp = lease[p] /\ u.new.id = nextId
      /\ u.new.gen = lease[p].gen /\ u.new.lock = new
  BY <1>1, RenewalPushTyped DEF FenceInv
<1>8. /\ new \in LockFields /\ new.owner = Self(p) /\ new.gen = lease[p].lock.gen
      /\ new.stamped = time /\ new.heartbeat >= wall
      /\ new.heartbeat >= lease[p].lock.heartbeat
      /\ new.expires = new.heartbeat + LeaseSeconds
  BY <1>1, <1>6, RenewedLockTyped
<1> HIDE DEF u, new
<1>9. new.heartbeat \in Nat /\ lease[p].lock.heartbeat \in Nat
  BY <1>1, <1>8 DEF LockFields
<1>10. Good(u.new)
  BY <1>1, <1>3, <1>4, <1>7, <1>8, <1>9 DEF Good
<1>11. Renews(u)
  BY <1>1, <1>3, <1>4, <1>7, <1>8, <1>9, LeaseAssumption DEF Renews, Good
<1>12. QED
  BY <1>2, <1>7, <1>10, <1>11 DEF PushOK, u

\* A release push names no owner.
LEMMA ReleasePushOK ==
    ASSUME FenceInv, NEW p \in Publishers, pc[p] \in Holding, NEW deletes \in BOOLEAN
    PROVE  LET u == ReleasePush(p, deletes)
           IN  /\ u.exp \in Known /\ PushOK(u)
               /\ u.new = Absent \/ (u.new.id = nextId /\ Good(u.new))
<1> DEFINE u == ReleasePush(p, deletes)
<1>1. /\ u.exp = lease[p] /\ u.expMain = 0 /\ u.new.lock = NoLock
      /\ u.new = Absent \/ u.new.id = nextId
  BY ReleasePushTyped DEF FenceInv
<1>2. lease[p] \in Known
  BY DEF Known, LeaseCommits
<1>3. nextId # 0
  BY DEF FenceInv, Typed, TypeOK
<1> HIDE DEF u
<1>4. QED
  BY <1>1, <1>2, <1>3, AbsentGood DEF PushOK, Releases, Good, u

\* Every step keeps the fencing invariant: one step per action.
LEMMA FenceStep ==
    ASSUME FenceInv, [Next]_vars
    PROVE  FenceInv'
<1>0. /\ Typed /\ Typed' /\ time \in Nat
      /\ pc \in [Publishers -> Steps] /\ view \in [Publishers -> Views]
      /\ lease \in [Publishers -> Commits] /\ Remembered
  BY TypedStep, AlwaysRemembered DEF FenceInv, Typed, TypeOK
<1>1. ASSUME NEW p \in Publishers, Publisher(p)
      PROVE  Names(Known, nextId)' /\ LateOK' /\ ViewsOK'
  <2>0. view[p] \in Views /\ view[p].main \in Nat
    BY <1>0 DEF Views
  <2>1. CASE Begin(p)
    <3>1. UNCHANGED <<nextId, coord, late, time, view, lease>> /\ Goto(p, "start")
      BY <2>1 DEF Begin, remote
    <3>2. QED
      BY <1>0, <3>1, StayRemembers, LocalFenced DEF Steps
  <2>2. CASE GiveUp(p) \/ Crash(p)
    <3>1. UNCHANGED <<nextId, coord, late, time>> /\ Quit(p)
      BY <2>2 DEF GiveUp, Crash, remote
    <3>2. QED
      BY <1>0, <3>1, QuitRemembers, LocalFenced
  <2>3. CASE ReadMain(p)
    <3>1. PICK wall \in time..(time + Skew) :
             view' = [view EXCEPT ![p] = [NoView EXCEPT !.main = main, !.wall = wall, !.at = time]]
      BY <2>3 DEF ReadMain
    <3> DEFINE v == [NoView EXCEPT !.main = main, !.wall = wall, !.at = time]
    <3>2. v.seen = Absent /\ v.wall = wall /\ v.at = time
      BY DEF NoView
    <3>3. /\ UNCHANGED <<nextId, coord, late, time, lease>> /\ view' = [view EXCEPT ![p] = v]
          /\ pc' = [pc EXCEPT ![p] = "probe"]
      BY <2>3, <3>1 DEF ReadMain, remote, Goto
    <3> HIDE DEF v
    <3>4. Recalls
      BY <1>0, <3>2, <3>3 DEF Remembered, Recalls
    <3>5. ViewsOK'
      BY <1>0, <3>2, <3>3, LeaseAssumption DEF FenceInv, ViewsOK, ViewOK, Available, ExpiredAt
    <3>6. QED
      BY <1>0, <3>3, <3>4, <3>5, LocalFenced
  <2>4. CASE ReadCoordination(p)
    <3>1. UNCHANGED <<nextId, coord, late, time>>
      BY <2>4 DEF ReadCoordination, remote
    <3>2. CASE Quit(p)
      BY <1>0, <3>1, <3>2, QuitRemembers, LocalFenced
    <3>3. CASE Again(p)
      BY <1>0, <3>1, <3>3, AgainRemembers, LocalFenced
    <3>4. CASE /\ ~(coord.id # 0 /\ ~Available(coord.lock, view[p].wall))
               /\ Goto(p, IF coord.id = 0 THEN "create" ELSE "takeover")
               /\ view' = [view EXCEPT ![p].seen = coord]
               /\ UNCHANGED lease
      <4> DEFINE v == [view[p] EXCEPT !.seen = coord]
      <4>1. v.seen = coord /\ v.wall = view[p].wall /\ v.at = view[p].at
        BY <2>0 DEF Views
      <4>2. /\ view' = [view EXCEPT ![p] = v]
            /\ pc' = [pc EXCEPT ![p] = IF coord.id = 0 THEN "create" ELSE "takeover"]
        BY <3>4 DEF Goto
      <4> HIDE DEF v
      <4>3. coord \in Known
        BY DEF Known
      <4>4. Recalls
        BY <1>0, <3>4, <4>1, <4>2, <4>3 DEF Remembered, Recalls
      <4>5. ViewsOK'
        BY <1>0, <3>1, <3>4, <4>1, <4>2 DEF FenceInv, ViewsOK, ViewOK, Available, ExpiredAt
      <4>6. QED
        BY <1>0, <3>1, <4>4, <4>5, LocalFenced
    <3>5. QED
      BY <2>4, <3>2, <3>3, <3>4 DEF ReadCoordination
  <2>5. CASE CreateBranch(p) \/ TakeOver(p)
    <3>0. PICK u \in Pushes : u = AcquisitionPush(p)
      BY <1>0, AcquisitionPushTyped
    <3>1. Answered(u) /\ UNCHANGED time /\ pc[p] \in {"create", "takeover"}
      BY <2>5, <3>0 DEF CreateBranch, TakeOver, Answered
    <3>2. /\ u.new \in Commits /\ u.exp \in Known /\ PushOK(u)
          /\ u.new.id = nextId /\ Good(u.new)
      BY <3>0, <3>1, AcquisitionPushOK DEF Pushes
    <3>3. CASE Accepted(u) /\ Hold(p, u.new)
      BY <3>1, <3>2, <3>3, HoldRemembers, PushFenced DEF Learns, Fresh
    <3>4. Recalls => Names(Known, nextId)' /\ LateOK'
      BY <3>1, <3>2, PushFenced DEF Learns, Fresh
    <3>5. CASE Again(p)
      BY <3>1, <3>4, <3>5, AgainRemembers
    <3>6. CASE Quit(p)
      BY <3>1, <3>4, <3>6, QuitRemembers
    <3>7. CASE Goto(p, "moved") /\ UNCHANGED <<view, lease>>
      <4>1. "moved" \in Steps \ {"create", "takeover"}
        BY DEF Steps
      <4>2. QED
        BY <3>1, <3>4, <3>7, <4>1, StayRemembers
    <3>8. QED
      BY <2>5, <3>0, <3>3, <3>5, <3>6, <3>7 DEF CreateBranch, TakeOver
  <2>6. CASE CheckMoved(p)
    <3>1. UNCHANGED <<nextId, coord, late, time>> /\ (Again(p) \/ Quit(p))
      BY <2>6 DEF CheckMoved, remote
    <3>2. QED
      BY <1>0, <3>1, AgainRemembers, QuitRemembers, LocalFenced
  <2>7. CASE RereadHead(p)
    <3> DEFINE v == [view[p] EXCEPT !.main = main]
    <3>1. v.seen = view[p].seen /\ v.wall = view[p].wall /\ v.at = view[p].at
      BY <2>0 DEF Views
    <3>2. /\ view' = [view EXCEPT ![p] = v] /\ pc' = [pc EXCEPT ![p] = "sidecar"]
          /\ UNCHANGED <<nextId, coord, late, time, lease>>
      BY <2>7 DEF RereadHead, Goto, remote
    <3> HIDE DEF v
    <3>3. Recalls
      BY <1>0, <3>1, <3>2 DEF Remembered, Recalls
    <3>4. ViewsOK'
      BY <1>0, <3>1, <3>2 DEF FenceInv, ViewsOK, ViewOK, Available, ExpiredAt
    <3>5. QED
      BY <1>0, <3>2, <3>3, <3>4, LocalFenced
  <2>8. CASE Renew(p)
    <3>1. PICK wall \in time..(time + Skew) :
             LET u == RenewalPush(p, wall, 0)
             IN  \/ /\ Accepted(u)
                    /\ Goto(p, "publishing")
                    /\ view' = [view EXCEPT ![p].observed = view[p].main]
                    /\ lease' = [lease EXCEPT ![p] = u.new]
                 \/ Refused(u) /\ Abort(p)
                 \/ Unknown(u) /\ Abort(p)
      BY <2>8 DEF Renew
    <3>0. UNCHANGED time /\ pc[p] \in Holding /\ wall \in Nat
      BY <1>0, <2>8, LeaseAssumption DEF Renew, Holding
    <3>b. PICK u \in Pushes : u = RenewalPush(p, wall, 0)
      BY <1>0, <3>0, RenewalPushTyped
    <3>2. UNCHANGED time /\ Answered(u)
      BY <3>0, <3>1, <3>b DEF Answered
    <3>3. /\ u.new \in Commits /\ u.exp \in Known /\ PushOK(u)
          /\ u.new.id = nextId /\ Good(u.new)
      BY <3>0, <3>b, RenewalPushOK DEF Pushes
    <3>4. CASE Abort(p)
      <4>1. "releasing" \in Steps \ {"create", "takeover"}
        BY DEF Steps
      <4>2. Recalls => Names(Known, nextId)' /\ LateOK'
        BY <3>2, <3>3, PushFenced DEF Learns, Fresh
      <4>3. QED
        BY <3>2, <3>4, <4>1, <4>2, StayRemembers DEF Abort
    <3>5. CASE /\ Accepted(u)
               /\ Goto(p, "publishing")
               /\ view' = [view EXCEPT ![p].observed = view[p].main]
               /\ lease' = [lease EXCEPT ![p] = u.new]
      <4> DEFINE v == [view[p] EXCEPT !.observed = view[p].main]
      <4>1. v.seen = view[p].seen /\ v.wall = view[p].wall /\ v.at = view[p].at
        BY <2>0 DEF Views
      <4>2. view' = [view EXCEPT ![p] = v] /\ pc' = [pc EXCEPT ![p] = "publishing"]
        BY <3>5 DEF Goto
      <4> HIDE DEF v
      <4>3. RecallsOr(u.new)
        BY <1>0, <3>5, <4>1, <4>2 DEF Remembered, RecallsOr
      <4>4. ViewsOK'
        BY <1>0, <3>2, <4>1, <4>2 DEF FenceInv, ViewsOK, ViewOK, Available, ExpiredAt
      <4>5. QED
        BY <3>2, <3>3, <3>5, <4>3, <4>4, PushFenced DEF Learns, Fresh
    <3>6. QED
      BY <3>1, <3>b, <3>4, <3>5
  <2>9. CASE CommitBatch(p)
    <3>1. PICK wall \in time..(time + Skew) :
             LET u == RenewalPush(p, wall, view[p].main)
             IN  \/ /\ Accepted(u)
                    /\ UNCHANGED pc
                    /\ view' = [view EXCEPT ![p].main = u.newMain, ![p].observed = u.newMain]
                    /\ lease' = [lease EXCEPT ![p] = u.new]
                 \/ Refused(u) /\ Abort(p)
                 \/ Unknown(u) /\ Abort(p)
      BY <2>9 DEF CommitBatch
    <3>0. UNCHANGED time /\ pc[p] \in Holding /\ wall \in Nat
      BY <1>0, <2>9, LeaseAssumption DEF CommitBatch, Holding
    <3>b. PICK u \in Pushes : u = RenewalPush(p, wall, view[p].main)
      BY <1>0, <2>0, <3>0, RenewalPushTyped
    <3>2. UNCHANGED time /\ Answered(u)
      BY <3>0, <3>1, <3>b DEF Answered
    <3>3. /\ u.new \in Commits /\ u.exp \in Known /\ PushOK(u)
          /\ u.new.id = nextId /\ Good(u.new)
      BY <2>0, <3>0, <3>b, RenewalPushOK DEF Pushes
    <3>4. CASE Abort(p)
      <4>1. "releasing" \in Steps \ {"create", "takeover"}
        BY DEF Steps
      <4>2. Recalls => Names(Known, nextId)' /\ LateOK'
        BY <3>2, <3>3, PushFenced DEF Learns, Fresh
      <4>3. QED
        BY <3>2, <3>4, <4>1, <4>2, StayRemembers DEF Abort
    <3>5. CASE /\ Accepted(u)
               /\ UNCHANGED pc
               /\ view' = [view EXCEPT ![p].main = u.newMain, ![p].observed = u.newMain]
               /\ lease' = [lease EXCEPT ![p] = u.new]
      <4> DEFINE v == [[view[p] EXCEPT !.main = u.newMain] EXCEPT !.observed = u.newMain]
      <4>1. v.seen = view[p].seen /\ v.wall = view[p].wall /\ v.at = view[p].at
        BY <2>0 DEF Views
      <4>2. view' = [view EXCEPT ![p] = v]
        BY <1>0, <3>5
      <4> HIDE DEF v
      <4>3. RecallsOr(u.new)
        BY <1>0, <3>5, <4>1, <4>2 DEF Remembered, RecallsOr
      <4>4. ViewsOK'
        BY <1>0, <3>2, <3>5, <4>1, <4>2 DEF FenceInv, ViewsOK, ViewOK, Available, ExpiredAt
      <4>5. QED
        BY <3>2, <3>3, <3>5, <4>3, <4>4, PushFenced DEF Learns, Fresh
    <3>6. QED
      BY <3>1, <3>b, <3>4, <3>5
  <2>10. CASE Finish(p)
    <3>1. "releasing" \in Steps \ {"create", "takeover"}
      BY DEF Steps
    <3>2. UNCHANGED <<nextId, coord, late, time, view, lease>> /\ Goto(p, "releasing")
      BY <2>10 DEF Finish, Abort, remote
    <3>3. QED
      BY <1>0, <3>1, <3>2, StayRemembers, LocalFenced
  <2>11. CASE Release(p)
    <3>1. PICK deletes \in BOOLEAN : Answered(ReleasePush(p, deletes))
      BY <2>11 DEF Release, Answered
    <3>2. pc[p] \in Holding /\ UNCHANGED time /\ Quit(p)
      BY <2>11 DEF Release, Holding
    <3>3. PICK u \in Pushes : u = ReleasePush(p, deletes)
      BY <1>0, <3>2, ReleasePushTyped
    <3>4. u.exp \in Known /\ PushOK(u) /\ (u.new = Absent \/ (u.new.id = nextId /\ Good(u.new)))
      BY <3>2, <3>3, ReleasePushOK
    <3>5. Answered(u)
      BY <3>1, <3>3
    <3>6. Recalls => Names(Known, nextId)' /\ LateOK'
      BY <3>2, <3>4, <3>5, PushFenced DEF Learns, Fresh
    <3>7. QED
      BY <3>2, <3>6, QuitRemembers
  <2>12. QED
    BY <1>1, <2>1, <2>2, <2>3, <2>4, <2>5, <2>6, <2>7, <2>8, <2>9, <2>10, <2>11 DEF Publisher
<1>2. ASSUME NEW u \in late, LateApply(u)
      PROVE  Names(Known, nextId)' /\ LateOK' /\ ViewsOK'
  <2>1. /\ coord' = u.new /\ late' = late \ {u}
        /\ UNCHANGED <<time, nextId, pc, view, lease>>
    BY <1>2 DEF LateApply, Install
  <2>2. u.new \in Known
    BY DEF Known, LateCommits
  <2>3. Known' \in SUBSET Known
    BY <2>1, <2>2 DEF Known, LateCommits, SeenCommits, LeaseCommits
  <2>4. Names(Known, nextId)'
    BY <2>1, <2>3 DEF FenceInv, Names, Good
  <2>5. LateOK'
    BY <2>1 DEF FenceInv, LateOK, PushOK, Acquires, Renews, Releases
  <2>6. ViewsOK'
    BY <2>1 DEF FenceInv, ViewsOK, ViewOK, Available, ExpiredAt
  <2>7. QED
    BY <2>4, <2>5, <2>6
<1>3. ASSUME Tick \/ UNCHANGED vars
      PROVE  Names(Known, nextId)' /\ LateOK' /\ ViewsOK'
  <2>1. /\ UNCHANGED <<nextId, coord, late, pc, view, lease>>
        /\ time' \in Nat /\ time' >= time
    BY <1>0, <1>3 DEF Tick, vars, remote
  <2>2. \A q \in Publishers : view[q].at \in Nat
    BY <1>0 DEF Views
  <2>3. ViewsOK'
    BY <1>0, <2>1, <2>2 DEF FenceInv, ViewsOK, ViewOK, Available, ExpiredAt
  <2>4. QED
    BY <1>0, <2>1, <2>3, LocalFenced DEF Remembered, Recalls
<1>4. QED
  BY <1>0, <1>1, <1>2, <1>3 DEF Next, FenceInv

\* The inductive invariant holds at the start.
LEMMA FenceInit == Init => FenceInv
<1> SUFFICES ASSUME Init PROVE FenceInv
  OBVIOUS
<1>1. coord = Absent /\ late = {} /\ nextId = 2 /\ time = 0
      /\ pc = [p \in Publishers |-> "idle"]
      /\ view = [p \in Publishers |-> NoView] /\ lease = [p \in Publishers |-> Absent]
  BY DEF Init
<1>2. Known \in SUBSET {Absent}
  BY <1>1, NoViewOK DEF Known, SeenCommits, LeaseCommits, LateCommits
<1>3. Names(Known, nextId)
  BY <1>1, <1>2, AbsentGood DEF Names
<1>4. ViewsOK
  BY <1>1, NoViewOK, LeaseAssumption DEF ViewsOK, ViewOK
<1>5. QED
  BY <1>1, <1>3, <1>4, TypedInit DEF FenceInv, LateOK

-----------------------------------------------------------------------------
\* What a step does to the remote: nothing, or one push of the three kinds that
\* finds exactly the commit it was made for.
Applied(u) == PushOK(u) /\ u.exp = coord /\ Matches(u) /\ Install(u)

\* Every step leaves the branches alone or applies one well-formed push to them.
LEMMA RemoteStep ==
    ASSUME FenceInv, [Next]_vars
    PROVE  UNCHANGED remote \/ \E u \in Pushes : Applied(u)
<1>0. /\ Typed /\ time \in Nat /\ coord \in Known
      /\ \A c, d \in Known : c.id = d.id => c = d
  BY DEF FenceInv, Typed, TypeOK, Known, Names
<1>1. ASSUME NEW u \in Pushes, Answered(u), u.exp \in Known, PushOK(u)
      PROVE  UNCHANGED remote \/ Applied(u)
  <2>1. CASE Accepted(u)
    BY <1>0, <1>1, <2>1 DEF Accepted, Matches, Applied
  <2>2. CASE Refused(u) \/ Unknown(u)
    BY <2>2 DEF Refused, Unknown, remote
  <2>3. QED
    BY <1>1, <2>1, <2>2 DEF Answered
<1>2. ASSUME NEW p \in Publishers, Publisher(p)
      PROVE  UNCHANGED remote \/ \E u \in Pushes : Applied(u)
  <2>1. CASE CreateBranch(p) \/ TakeOver(p)
    <3>1. PICK u \in Pushes : u = AcquisitionPush(p)
      BY <1>0, AcquisitionPushTyped
    <3>2. Answered(u) /\ pc[p] \in {"create", "takeover"}
      BY <2>1, <3>1 DEF CreateBranch, TakeOver, Answered
    <3>3. QED
      BY <1>1, <3>1, <3>2, AcquisitionPushOK
  <2>2. CASE Renew(p) \/ CommitBatch(p)
    <3>1. PICK wall \in time..(time + Skew), expMain \in Nat : Answered(RenewalPush(p, wall, expMain))
      <4>1. view[p].main \in Nat
        BY <1>0 DEF Typed, TypeOK, Views
      <4>2. QED
        BY <2>2, <4>1 DEF Renew, CommitBatch, Answered
    <3>2. pc[p] \in Holding /\ wall \in Nat
      BY <1>0, <2>2, LeaseAssumption DEF Renew, CommitBatch, Holding
    <3>3. PICK u \in Pushes : u = RenewalPush(p, wall, expMain)
      BY <1>0, <3>2, RenewalPushTyped
    <3>4. QED
      BY <1>1, <3>1, <3>2, <3>3, RenewalPushOK
  <2>3. CASE Release(p)
    <3>1. PICK deletes \in BOOLEAN : Answered(ReleasePush(p, deletes))
      BY <2>3 DEF Release, Answered
    <3>2. pc[p] \in Holding
      BY <2>3 DEF Release, Holding
    <3>3. PICK u \in Pushes : u = ReleasePush(p, deletes)
      BY <1>0, <3>2, ReleasePushTyped
    <3>4. QED
      BY <1>1, <3>1, <3>2, <3>3, ReleasePushOK
  <2>4. CASE \/ Begin(p) \/ GiveUp(p) \/ ReadMain(p) \/ ReadCoordination(p)
             \/ CheckMoved(p) \/ RereadHead(p) \/ Finish(p) \/ Crash(p)
    BY <2>4 DEF Begin, GiveUp, ReadMain, ReadCoordination, CheckMoved, RereadHead, Finish, Crash
  <2>5. QED
    BY <1>2, <2>1, <2>2, <2>3, <2>4 DEF Publisher
<1>3. ASSUME NEW u \in late, LateApply(u)
      PROVE  \E w \in Pushes : Applied(w)
  <2>1. u \in Pushes /\ u.exp \in Known /\ PushOK(u)
    BY DEF FenceInv, Typed, TypeOK, LateOK, Known, LateCommits
  <2>2. QED
    BY <1>0, <1>3, <2>1 DEF LateApply, Matches, Applied
<1>4. CASE Tick \/ UNCHANGED vars
  BY <1>4 DEF Tick, vars, remote
<1>5. QED
  BY <1>2, <1>3, <1>4 DEF Next

\* The inductive invariant holds in every state.
LEMMA FenceInvariant == Spec => []FenceInv
<1>1. FenceInv /\ [Next]_vars => FenceInv'
  BY FenceStep
<1>2. QED
  BY FenceInit, <1>1, PTL DEF Spec

\* The run whose lease names the commit of the coordination branch is the owner in
\* its lock: the fence that commit_private_batch_atomically relies on, for any
\* number of publishers, runs, crashes and delayed pushes.
THEOREM FenceNamesOwnerAlways == Spec => []FenceNamesOwner
<1>1. FenceInv => FenceNamesOwner
  <2> SUFFICES ASSUME FenceInv, NEW p \in Publishers, lease[p].id # 0, lease[p].id = coord.id
               PROVE  coord.lock.owner = Self(p)
    BY DEF FenceNamesOwner
  <2>1. lease[p] = coord
    BY DEF FenceInv, Names, Known, LeaseCommits
  <2>2. QED
    BY <2>1 DEF FenceInv, Typed, LeaseHeld
<1>2. QED
  BY <1>1, FenceInvariant, PTL

\* A publisher that lost its lease never advances main again, however late its
\* batch push is executed.
THEOREM StalePublisherAlwaysFenced == Spec => StalePublisherFenced
<1> DEFINE A == main' # main =>
                  /\ coord.lock.owner # NoOwner
                  /\ mainLog'[Len(mainLog')] = coord.lock.owner
                  /\ coord'.lock.owner = coord.lock.owner
<1>1. FenceInv /\ [Next]_vars => [A]_vars
  <2> SUFFICES ASSUME FenceInv, [Next]_vars, main' # main PROVE A
    OBVIOUS
  <2>1. PICK u \in Pushes : Applied(u)
    BY RemoteStep DEF remote
  <2>2. u.expMain # 0 /\ mainLog' = Append(mainLog, u.by) /\ coord' = u.new
    BY <2>1 DEF Applied, Install
  <2>3. u.exp.lock.owner = u.by /\ u.new.lock.owner = u.by /\ u.exp = coord
    BY <2>1, <2>2 DEF Applied, PushOK, Acquires, Renews, Releases
  <2>4. u.by \in Owners /\ mainLog \in Seq(Owners)
    BY DEF Pushes, FenceInv, Typed, TypeOK
  <2>5. mainLog'[Len(mainLog')] = u.by
    BY <2>2, <2>4
  <2>6. u.by # NoOwner
    BY <2>4, NoOwnerAssumption DEF Owners
  <2>7. QED
    BY <2>2, <2>3, <2>5, <2>6
<1>2. QED
  BY <1>1, FenceInvariant, PTL DEF Spec, StalePublisherFenced

\* Every takeover raises the fencing generation that state.json records.
THEOREM GenerationAlwaysIncreases == Spec => GenerationIncreases
<1>1. FenceInv /\ [Next]_vars => [Overtaken => coord'.gen > coord.gen]_vars
  <2> SUFFICES ASSUME FenceInv, [Next]_vars, Overtaken PROVE coord'.gen > coord.gen
    OBVIOUS
  <2>1. PICK u \in Pushes : Applied(u)
    BY RemoteStep DEF remote, Overtaken
  <2>2. QED
    BY <2>1 DEF Applied, Install, PushOK, Acquires, Renews, Releases, Overtaken, NoLock
<1>2. QED
  BY <1>1, FenceInvariant, PTL DEF Spec, GenerationIncreases

\* As long as a run keeps its lock, its expiry never moves backward.
THEOREM LeaseNeverShrinksAlways == Spec => LeaseNeverShrinks
<1> DEFINE A == coord.lock.owner # NoOwner /\ coord'.lock.owner = coord.lock.owner =>
                  coord'.lock.expires >= coord.lock.expires
<1>1. FenceInv /\ [Next]_vars => [A]_vars
  <2> SUFFICES ASSUME FenceInv, [Next]_vars, coord.lock.owner # NoOwner,
                      coord'.lock.owner = coord.lock.owner
               PROVE  coord'.lock.expires >= coord.lock.expires
    OBVIOUS
  <2>1. CASE UNCHANGED remote
    <3>1. coord.lock.expires \in Nat
      BY DEF FenceInv, Typed, TypeOK, Commits, Locks, LockFields, NoLock
    <3>2. QED
      BY <2>1, <3>1 DEF remote
  <2>2. CASE \E u \in Pushes : Applied(u)
    BY <2>2 DEF Applied, Install, PushOK, Acquires, Renews, Releases, NoLock
  <2>3. QED
    BY <2>1, <2>2, RemoteStep
<1>2. QED
  BY <1>1, FenceInvariant, PTL DEF Spec, LeaseNeverShrinks

\* When the clocks of the publishers agree to within the grace period, no lock is
\* taken from its owner within LeaseSeconds of the owner's last reading of its clock.
THEOREM NoTakeoverIsEarly ==
    ASSUME Skew <= Grace
    PROVE  Spec => NoEarlyTakeover
<1>1. FenceInv /\ [Next]_vars => [Overtaken => time >= coord.lock.stamped + LeaseSeconds]_vars
  <2> SUFFICES ASSUME FenceInv, [Next]_vars, Overtaken
               PROVE  time >= coord.lock.stamped + LeaseSeconds
    OBVIOUS
  <2>1. PICK u \in Pushes : Applied(u)
    BY RemoteStep DEF remote, Overtaken
  <2>2. QED
    BY <2>1 DEF Applied, Install, PushOK, Acquires, Renews, Releases, Overtaken, NoLock
<1>2. QED
  BY <1>1, FenceInvariant, PTL DEF Spec, NoEarlyTakeover

\* The lease implements FencedBranch: the initial states map to initial states and
\* every push that is executed maps to an acquisition, a release, an advance by the
\* holder or no change.
THEOREM LeaseImplementsFence == Spec => ImplementsFence
<1> DEFINE previous == IF mainLog = <<>> THEN NoOwner ELSE mainLog[Len(mainLog)]
<1>1. Init => Fence!Init
  BY DEF Init, Fence!Init, Absent, NoLock
<1>2. FenceInv /\ [Next]_vars => [Fence!Next]_<<main, previous, coord.lock.owner>>
  <2> SUFFICES ASSUME FenceInv, [Next]_vars
               PROVE  [Fence!Next]_<<main, previous, coord.lock.owner>>
    OBVIOUS
  <2>1. CASE UNCHANGED remote
    BY <2>1 DEF remote
  <2>2. CASE \E u \in Pushes : Applied(u)
    <3>1. PICK u \in Pushes : Applied(u)
      BY <2>2
    <3>2. u.by \in Owners /\ mainLog \in Seq(Owners) /\ u.newMain \in Nat
      BY DEF Pushes, FenceInv, Typed, TypeOK
    <3>3. coord' = u.new /\ coord = u.exp
      BY <3>1 DEF Applied, Install
    <3>4. CASE u.expMain # 0
      <4>1. u.exp.lock.owner = u.by /\ u.new.lock.owner = u.by
        BY <3>1, <3>4 DEF Applied, PushOK, Acquires, Renews, Releases
      <4>2. main' = u.newMain /\ mainLog' = Append(mainLog, u.by)
        BY <3>1, <3>4 DEF Applied, Install
      <4>3. previous' = u.by
        BY <3>2, <4>2
      <4>4. Fence!Advance
        BY <3>2, <3>3, <4>1, <4>2, <4>3 DEF Fence!Advance
      <4>5. QED
        BY <4>4 DEF Fence!Next
    <3>5. CASE u.expMain = 0
      <4>1. UNCHANGED <<main, mainLog>>
        BY <3>1, <3>5 DEF Applied, Install
      <4>2. u.new.lock.owner = u.by \/ u.new.lock.owner = NoOwner
        BY <3>1 DEF Applied, PushOK, Acquires, Renews, Releases, NoLock
      <4>3. Fence!Acquire \/ Fence!Release
        BY <3>2, <3>3, <4>1, <4>2 DEF Fence!Acquire, Fence!Release
      <4>4. QED
        BY <4>3 DEF Fence!Next
    <3>6. QED
      BY <3>4, <3>5
  <2>3. QED
    BY <2>1, <2>2, RemoteStep
<1>3. QED
  BY <1>1, <1>2, FenceInvariant, PTL DEF Spec, ImplementsFence, Fence!Spec

-----------------------------------------------------------------------------
\* Contiguity.  A head of the cache branch is named by its commit and never comes
\* back, and a run re-reads the head once, before its first batch.  So a push that
\* can still be executed belongs to a run whose batches end the log or are not in it.

Preparing == {"start", "probe", "create", "takeover", "moved", "held"}
Writing == {"sidecar", "publishing"}

\* A batch of o may follow the batches on main.
MayBatch(o) ==
    \/ mainLog = <<>>
    \/ mainLog[Len(mainLog)] = o
    \/ \A i \in DOMAIN mainLog : mainLog[i] # o

\* A head that somebody knows has been used.
HeadsBounded ==
    /\ main < nextId
    /\ \A p \in Publishers : view[p].main < nextId
    /\ \A u \in late : u.expMain < nextId /\ u.newMain < nextId

HeadsAdvance == \A u \in late : u.expMain # 0 => u.expMain < u.newMain

\* Whoever still expects the present head may follow the batches on main.
PushesInOrder ==
    /\ \A u \in late : u.expMain # 0 /\ u.expMain = main => MayBatch(u.by)
    /\ \A p \in Publishers : pc[p] \in Writing /\ view[p].main = main => MayBatch(Self(p))

\* Nobody expects the head of a push that can still be executed.
HeadsUnseen ==
    \A w \in late : w.expMain # 0 /\ w.expMain = main =>
        /\ \A u \in late : u.expMain # w.newMain
        /\ \A p \in Publishers : pc[p] \in Writing => view[p].main # w.newMain

\* A batch, pushed or on main, comes from a run that has begun.
RunsBegun ==
    /\ \A i \in DOMAIN mainLog : mainLog[i][2] <= run[mainLog[i][1]]
    /\ \A u \in late : u.by[2] <= run[u.by[1]]

\* A run that has not re-read the head has pushed no batch.
NoBatchYet ==
    \A p \in Publishers : pc[p] \in Preparing =>
        /\ \A i \in DOMAIN mainLog : mainLog[i] # Self(p)
        /\ \A u \in late : u.expMain # 0 => u.by # Self(p)

OrderOK ==
    /\ HeadsBounded /\ HeadsAdvance /\ PushesInOrder /\ HeadsUnseen
    /\ RunsBegun /\ NoBatchYet /\ BatchesContiguous

OrderInv == Typed /\ OrderOK

\* A batch of a run that may follow keeps the runs together.
LEMMA AppendContiguous ==
    ASSUME mainLog \in Seq(Owners), BatchesContiguous, NEW o \in Owners, MayBatch(o),
           mainLog' = Append(mainLog, o)
    PROVE  BatchesContiguous'
<1>1. /\ Len(mainLog) \in Nat /\ Len(mainLog') = Len(mainLog) + 1
      /\ DOMAIN mainLog = 1..Len(mainLog) /\ DOMAIN mainLog' = 1..(Len(mainLog) + 1)
      /\ \A i \in DOMAIN mainLog : mainLog'[i] = mainLog[i]
      /\ mainLog'[Len(mainLog) + 1] = o
  OBVIOUS
<1> SUFFICES ASSUME NEW i \in DOMAIN mainLog', NEW k \in DOMAIN mainLog', i < k,
                    mainLog'[i] = mainLog'[k], NEW j \in i..k
             PROVE  mainLog'[j] = mainLog'[i]
  BY DEF BatchesContiguous
<1>2. CASE k <= Len(mainLog)
  <2>1. i \in DOMAIN mainLog /\ k \in DOMAIN mainLog /\ j \in DOMAIN mainLog
    BY <1>1, <1>2
  <2>2. mainLog[j] = mainLog[i]
    BY <1>1, <2>1 DEF BatchesContiguous
  <2>3. QED
    BY <1>1, <2>1, <2>2
<1>3. CASE k = Len(mainLog) + 1
  <2>1. i \in DOMAIN mainLog /\ mainLog[i] = o /\ Len(mainLog) \in DOMAIN mainLog
    BY <1>1, <1>3
  <2>2. mainLog[Len(mainLog)] = o
    BY <2>1 DEF MayBatch
  <2>3. CASE j = k
    BY <2>3
  <2>4. CASE j # k /\ i = Len(mainLog)
    BY <1>1, <1>3, <2>4
  <2>5. CASE j # k /\ i # Len(mainLog)
    <3>1. j \in i..Len(mainLog) /\ j \in DOMAIN mainLog /\ i < Len(mainLog)
      BY <1>1, <1>3, <2>1, <2>5
    <3>2. mainLog[j] = mainLog[i]
      BY <2>1, <2>2, <3>1 DEF BatchesContiguous
    <3>3. QED
      BY <1>1, <2>1, <3>1, <3>2
  <2>6. QED
    BY <2>3, <2>4, <2>5
<1>4. QED
  BY <1>1, <1>2, <1>3

\* The last batch of a longer log is its own.
LEMMA AppendLast ==
    ASSUME NEW o \in Owners, mainLog \in Seq(Owners), mainLog' = Append(mainLog, o)
    PROVE  mainLog'[Len(mainLog')] = o
  OBVIOUS

\* What a publisher keeps of the head and of its run in a step that pushes no batch.
KeepsHead(q) ==
    /\ run'[q] = run[q]
    /\ view'[q].main < nextId
    /\ pc'[q] \in Writing => pc[q] \in Writing /\ view'[q].main = view[q].main
    /\ pc'[q] \in Preparing => pc[q] \in Preparing

\* A push that leaves the cache branch alone, of a run that has begun.
PlainPush(u) == u.expMain = 0 /\ u.newMain = 0 /\ u.by[2] <= run[u.by[1]]

\* A step that does not touch the cache branch and adds no batch push.
LEMMA PlainOrdered ==
    ASSUME OrderInv, UNCHANGED <<main, mainLog>>, nextId' \in {nextId, nextId + 1},
           \A w \in late' : w \in late \/ PlainPush(w),
           run \in [Publishers -> Nat], late' \in SUBSET Pushes,
           \A q \in Publishers : KeepsHead(q), run' = run, view' \in [Publishers -> Views]
    PROVE  OrderOK'
<1>1. /\ nextId \in Nat /\ nextId' \in Nat /\ nextId <= nextId' /\ nextId >= 2 /\ main \in Nat
      /\ \A w \in late \cup late' : w.expMain \in Nat /\ w.newMain \in Nat
      /\ \A q \in Publishers : view[q].main \in Nat /\ view'[q].main \in Nat
  BY DEF OrderInv, Typed, TypeOK, Pushes, Views
<1>2. HeadsBounded'
  BY <1>1 DEF OrderInv, OrderOK, HeadsBounded, KeepsHead, PlainPush
<1>3. HeadsAdvance'
  BY <1>1 DEF OrderInv, OrderOK, HeadsAdvance, PlainPush
<1>4. PushesInOrder'
  BY DEF OrderInv, OrderOK, PushesInOrder, MayBatch, KeepsHead, PlainPush, Self
<1>5. HeadsUnseen'
  <2> SUFFICES ASSUME NEW w \in late', w.expMain # 0, w.expMain = main
               PROVE  /\ \A u \in late' : u.expMain # w.newMain
                      /\ \A p \in Publishers : pc'[p] \in Writing => view'[p].main # w.newMain
    BY DEF HeadsUnseen
  <2>1. w \in late /\ w.newMain # 0
    BY <1>1 DEF PlainPush, OrderInv, OrderOK, HeadsAdvance
  <2>2. QED
    BY <2>1 DEF OrderInv, OrderOK, HeadsUnseen, KeepsHead, PlainPush
<1>6. RunsBegun'
  BY DEF OrderInv, OrderOK, RunsBegun, PlainPush
<1>7. NoBatchYet'
  BY DEF OrderInv, OrderOK, NoBatchYet, KeepsHead, PlainPush, Self
<1>8. BatchesContiguous'
  BY DEF OrderInv, OrderOK, BatchesContiguous
<1>9. QED
  BY <1>2, <1>3, <1>4, <1>5, <1>6, <1>7, <1>8 DEF OrderOK

\* A batch reaches main whose head nobody expects, except perhaps the run it is from.
LEMMA AdvanceOrdered ==
    ASSUME OrderInv, NEW u \in Pushes, u.expMain # 0, Matches(u), MayBatch(u.by),
           main' = u.newMain, mainLog' = Append(mainLog, u.by),
           nextId' \in {nextId, nextId + 1}, u.newMain < nextId', u.expMain < u.newMain,
           u.by[2] <= run[u.by[1]],
           \A q \in Publishers : pc[q] \in Preparing => u.by # Self(q),
           late' \in SUBSET (late \cup {u}),
           \A w \in late' : w.expMain # u.newMain,
           view' \in [Publishers -> Views],
           \A q \in Publishers :
               /\ view'[q].main < nextId'
               /\ pc'[q] \in Writing /\ view'[q].main = u.newMain => u.by = Self(q)
               /\ pc'[q] \in Preparing => pc[q] \in Preparing,
           run' = run
    PROVE  OrderOK'
<1>1. /\ nextId \in Nat /\ nextId' \in Nat /\ nextId <= nextId' /\ main \in Nat
      /\ late \in SUBSET Pushes /\ mainLog \in Seq(Owners) /\ u.by \in Owners
      /\ \A w \in late \cup {u} : w.expMain \in Nat /\ w.newMain \in Nat
  BY DEF OrderInv, Typed, TypeOK, Pushes
<1>2. HeadsBounded'
  BY <1>1 DEF OrderInv, OrderOK, HeadsBounded
<1>3. HeadsAdvance'
  BY <1>1 DEF OrderInv, OrderOK, HeadsAdvance
<1>4. PushesInOrder'
  BY <1>1, AppendLast DEF PushesInOrder, MayBatch, Self
<1>5. HeadsUnseen'
  BY DEF HeadsUnseen
<1>6. /\ DOMAIN mainLog' = DOMAIN mainLog \cup {Len(mainLog) + 1}
      /\ \A i \in DOMAIN mainLog : mainLog'[i] = mainLog[i]
      /\ mainLog'[Len(mainLog) + 1] = u.by
  BY <1>1
<1>7. RunsBegun'
  BY <1>6 DEF OrderInv, OrderOK, RunsBegun
<1>8. NoBatchYet'
  BY <1>6 DEF OrderInv, OrderOK, NoBatchYet, Self
<1>9. BatchesContiguous'
  BY <1>1, AppendContiguous DEF OrderInv, OrderOK
<1>10. QED
  BY <1>2, <1>3, <1>4, <1>5, <1>7, <1>8, <1>9 DEF OrderOK

\* A batch push whose answer is a failure may stay on its way.
LEMMA LostOrdered ==
    ASSUME OrderInv, NEW p \in Publishers, pc[p] \in Writing,
           NEW u \in Pushes, Refused(u) \/ Unknown(u), Abort(p), UNCHANGED run,
           u.by = Self(p), u.expMain = view[p].main,
           u.newMain = IF u.expMain = 0 THEN 0 ELSE nextId
    PROVE  OrderOK'
<1>1. /\ nextId \in Nat /\ nextId >= 2 /\ main \in Nat /\ late \in SUBSET Pushes
      /\ \A w \in late \cup {u} : w.expMain \in Nat /\ w.newMain \in Nat
      /\ \A q \in Publishers : view[q].main \in Nat /\ view[q].main < nextId
      /\ view \in [Publishers -> Views] /\ run \in [Publishers -> Nat]
      /\ pc \in [Publishers -> Steps] /\ Self(p) = <<p, run[p]>>
  BY DEF OrderInv, OrderOK, HeadsBounded, Typed, TypeOK, Pushes, Views, Self
<1>2. /\ UNCHANGED <<main, mainLog, view>> /\ pc' = [pc EXCEPT ![p] = "releasing"]
      /\ \/ UNCHANGED <<nextId, late>>
         \/ nextId' = nextId + 1 /\ late' = late \cup {u}
  BY DEF Refused, Unknown, Abort, Goto, remote
<1>3. \A q \in Publishers : KeepsHead(q)
  BY <1>1, <1>2 DEF KeepsHead, Preparing, Writing
<1>4. u.by[2] <= run[u.by[1]]
  BY <1>1
<1>5. CASE UNCHANGED <<nextId, late>> \/ u.expMain = 0
  <2>1. late' \in SUBSET Pushes /\ nextId' \in {nextId, nextId + 1}
    BY <1>1, <1>2
  <2>2. \A w \in late' : w \in late \/ PlainPush(w)
    BY <1>2, <1>4, <1>5 DEF PlainPush
  <2>3. QED
    BY <1>1, <1>2, <1>3, <2>1, <2>2, PlainOrdered
<1>6. CASE /\ nextId' = nextId + 1 /\ late' = late \cup {u}
           /\ u.expMain # 0
  <2>1. /\ u.newMain = nextId /\ u.expMain < nextId
        /\ \A w \in late : w.expMain < nextId /\ w.newMain < nextId
    BY <1>1, <1>6 DEF OrderInv, OrderOK, HeadsBounded
  <2>2. HeadsBounded'
    BY <1>1, <1>2, <1>6, <2>1 DEF OrderInv, OrderOK, HeadsBounded
  <2>3. HeadsAdvance'
    BY <1>1, <1>6, <2>1 DEF OrderInv, OrderOK, HeadsAdvance
  <2>4. PushesInOrder'
    <3>1. \A o : MayBatch(o)' <=> MayBatch(o)
      BY <1>2 DEF MayBatch
    <3>2. \A w \in late' : w.expMain # 0 /\ w.expMain = main => MayBatch(w.by)
      BY <1>6 DEF OrderInv, OrderOK, PushesInOrder
    <3>3. \A q \in Publishers : pc'[q] \in Writing /\ view'[q].main = main => MayBatch(Self(q))
      BY <1>3 DEF OrderInv, OrderOK, PushesInOrder, KeepsHead
    <3>4. \A q \in Publishers : Self(q)' = Self(q)
      BY DEF Self
    <3>5. QED
      BY <1>2, <3>1, <3>2, <3>3, <3>4 DEF PushesInOrder
  <2>5. HeadsUnseen'
    <3> SUFFICES ASSUME NEW w \in late', w.expMain # 0, w.expMain = main
                 PROVE  /\ \A v \in late' : v.expMain # w.newMain
                        /\ \A q \in Publishers : pc'[q] \in Writing => view'[q].main # w.newMain
      BY <1>2 DEF HeadsUnseen
    <3>1. CASE w \in late
      BY <1>2, <1>3, <1>6, <3>1 DEF OrderInv, OrderOK, HeadsUnseen, KeepsHead
    <3>2. CASE w = u
      BY <1>1, <1>2, <1>6, <2>1, <3>2
    <3>3. QED
      BY <1>6, <3>1, <3>2
  <2>6. RunsBegun'
    BY <1>2, <1>4, <1>6 DEF OrderInv, OrderOK, RunsBegun
  <2>7. NoBatchYet'
    <3>1. \A q \in Publishers : pc'[q] \in Preparing => pc[q] \in Preparing /\ q # p
      BY <1>1, <1>2 DEF Preparing, Writing
    <3>2. QED
      BY <1>1, <1>2, <1>6, <3>1 DEF OrderInv, OrderOK, NoBatchYet, Self
  <2>8. BatchesContiguous'
    BY <1>2 DEF OrderInv, OrderOK, BatchesContiguous
  <2>9. QED
    BY <2>2, <2>3, <2>4, <2>5, <2>6, <2>7, <2>8 DEF OrderOK
<1>7. QED
  BY <1>2, <1>5, <1>6

\* A push without batch leaves the cache branch alone, whatever its fate.
LEMMA PlainAnswered ==
    ASSUME NEW u \in Pushes, Answered(u), PlainPush(u), late \in SUBSET Pushes
    PROVE  /\ UNCHANGED <<main, mainLog>> /\ nextId' \in {nextId, nextId + 1}
           /\ late' \in SUBSET Pushes
           /\ \A w \in late' : w \in late \/ PlainPush(w)
  BY DEF Answered, Accepted, Refused, Unknown, Install, PlainPush, remote

\* Every step keeps the order: one step per action.
LEMMA OrderStep ==
    ASSUME OrderInv, [Next]_vars
    PROVE  OrderInv'
<1>0. /\ Typed /\ Typed' /\ nextId \in Nat /\ nextId >= 2 /\ main \in Nat
      /\ late \in SUBSET Pushes /\ late' \in SUBSET Pushes
      /\ view \in [Publishers -> Views] /\ view' \in [Publishers -> Views]
      /\ run \in [Publishers -> Nat] /\ pc \in [Publishers -> Steps]
      /\ lease \in [Publishers -> Commits] /\ mainLog \in Seq(Owners) /\ time \in Nat
      /\ \A q \in Publishers : /\ view[q].main \in Nat /\ view[q].main < nextId
                               /\ Self(q) \in Owners /\ Self(q)[2] <= run[Self(q)[1]]
      /\ main < nextId /\ NoView.main = 0 /\ 0 < nextId
  <2>1. Typed /\ Typed'
    BY TypedStep DEF OrderInv
  <2>2. \A q \in Publishers : Self(q) \in Owners /\ Self(q)[2] <= run[Self(q)[1]]
    BY <2>1 DEF Typed, TypeOK, Self, Owners
  <2>3. \A q \in Publishers : view[q].main \in Nat
    BY <2>1 DEF Typed, TypeOK, Views
  <2>4. main < nextId /\ \A q \in Publishers : view[q].main < nextId
    BY DEF OrderInv, OrderOK, HeadsBounded
  <2>5. QED
    BY <2>1, <2>2, <2>3, <2>4, NoViewOK DEF Typed, TypeOK
<1>1. ASSUME UNCHANGED <<main, mainLog, nextId, late, run>>,
             \A q \in Publishers : KeepsHead(q)
      PROVE  OrderOK'
  BY <1>0, <1>1, PlainOrdered
<1>2. ASSUME NEW u \in Pushes, Answered(u), PlainPush(u), UNCHANGED run,
             \A q \in Publishers : KeepsHead(q)
      PROVE  OrderOK'
  BY <1>0, <1>2, PlainAnswered, PlainOrdered
<1>3. ASSUME NEW p \in Publishers, UNCHANGED run, Quit(p)
      PROVE  \A q \in Publishers : KeepsHead(q)
  BY <1>0, <1>3 DEF Quit, Goto, KeepsHead, Preparing, Writing
<1>4. ASSUME NEW p \in Publishers, UNCHANGED run, Again(p), pc[p] \in Preparing
      PROVE  \A q \in Publishers : KeepsHead(q)
  BY <1>0, <1>4 DEF Again, Goto, KeepsHead, Preparing, Writing
<1>5. ASSUME NEW p \in Publishers, UNCHANGED run, Abort(p)
      PROVE  \A q \in Publishers : KeepsHead(q)
  BY <1>0, <1>5 DEF Abort, Goto, KeepsHead, Preparing, Writing
<1>6. ASSUME NEW p \in Publishers, Publisher(p)
      PROVE  OrderOK'
  <2>0. view[p] \in Views /\ view[p].main \in Nat /\ view[p].main < nextId
    BY <1>0
  <2>1. CASE Begin(p)
    <3>1. /\ UNCHANGED <<nextId, main, mainLog, late, view>>
          /\ run' = [run EXCEPT ![p] = run[p] + 1] /\ pc' = [pc EXCEPT ![p] = "start"]
      BY <2>1 DEF Begin, Goto, remote
    <3>2. \A q \in Publishers : run[q] <= run'[q]
      BY <1>0, <3>1
    <3>3. \A q \in Publishers : q # p => Self(q)' = Self(q) /\ pc'[q] = pc[q]
      BY <1>0, <3>1 DEF Self
    <3>4. pc'[p] \notin Writing /\ Self(p)' = <<p, run[p] + 1>>
      BY <1>0, <3>1 DEF Self, Writing
    <3>5. \A o \in Owners : o[1] \in Publishers /\ o[2] \in Nat
      BY DEF Owners
    <3>6. \A i \in DOMAIN mainLog : mainLog[i] \in Owners
      BY <1>0
    <3>7. \A u \in late : u.by \in Owners
      BY <1>0 DEF Pushes
    <3>8. RunsBegun'
      <4>1. \A o \in Owners : o[2] <= run[o[1]] => o[2] <= run'[o[1]]
        BY <1>0, <3>1, <3>2, <3>5
      <4>2. QED
        BY <3>1, <3>6, <3>7, <4>1 DEF OrderInv, OrderOK, RunsBegun
    <3>9. \A o \in Owners : o[2] <= run[o[1]] => o # <<p, run[p] + 1>>
      BY <1>0
    <3>10. NoBatchYet'
      BY <3>1, <3>3, <3>4, <3>6, <3>7, <3>9 DEF OrderInv, OrderOK, NoBatchYet, RunsBegun
    <3>11. PushesInOrder'
      BY <3>1, <3>3, <3>4 DEF OrderInv, OrderOK, PushesInOrder, MayBatch
    <3>12. HeadsUnseen'
      BY <3>1, <3>3, <3>4 DEF OrderInv, OrderOK, HeadsUnseen
    <3>13. HeadsBounded' /\ HeadsAdvance' /\ BatchesContiguous'
      BY <3>1 DEF OrderInv, OrderOK, HeadsBounded, HeadsAdvance, BatchesContiguous
    <3>14. QED
      BY <3>8, <3>10, <3>11, <3>12, <3>13 DEF OrderOK
  <2>2. CASE GiveUp(p) \/ Crash(p)
    BY <1>1, <1>3, <2>2 DEF GiveUp, Crash, remote
  <2>3. CASE ReadMain(p)
    <3>1. PICK wall \in time..(time + Skew) :
             view' = [view EXCEPT ![p] = [NoView EXCEPT !.main = main, !.wall = wall, !.at = time]]
      BY <2>3 DEF ReadMain
    <3>2. [NoView EXCEPT !.main = main, !.wall = wall, !.at = time].main = main
      BY DEF NoView
    <3>3. \A q \in Publishers : KeepsHead(q)
      BY <1>0, <2>3, <3>1, <3>2 DEF ReadMain, Goto, KeepsHead, Preparing, Writing
    <3>4. QED
      BY <1>1, <2>3, <3>3 DEF ReadMain, remote
  <2>4. CASE ReadCoordination(p)
    <3>1. UNCHANGED <<main, mainLog, nextId, late, run>> /\ pc[p] \in Preparing
      BY <2>4 DEF ReadCoordination, remote, Preparing
    <3>2. CASE Quit(p) \/ Again(p)
      BY <1>1, <1>3, <1>4, <3>1, <3>2
    <3>3. CASE /\ Goto(p, IF coord.id = 0 THEN "create" ELSE "takeover")
               /\ view' = [view EXCEPT ![p].seen = coord]
      <4>1. [view[p] EXCEPT !.seen = coord].main = view[p].main
        BY <2>0 DEF Views
      <4>2. \A q \in Publishers : KeepsHead(q)
        BY <1>0, <3>1, <3>3, <4>1 DEF Goto, KeepsHead, Preparing, Writing
      <4>3. QED
        BY <1>1, <3>1, <4>2
    <3>4. QED
      BY <2>4, <3>2, <3>3 DEF ReadCoordination
  <2>5. CASE CreateBranch(p) \/ TakeOver(p)
    <3>1. PICK u \in Pushes : u = AcquisitionPush(p)
      BY <1>0, AcquisitionPushTyped
    <3>2. Answered(u) /\ pc[p] \in Preparing /\ UNCHANGED run
      BY <2>5, <3>1 DEF CreateBranch, TakeOver, Answered, Preparing
    <3>3. PlainPush(u)
      BY <1>0, <3>1 DEF AcquisitionPush, PlainPush
    <3>4. CASE Hold(p, u.new)
      <4>1. [NoView EXCEPT !.observed = view[p].main].main = 0
        BY DEF NoView
      <4>2. \A q \in Publishers : KeepsHead(q)
        BY <1>0, <3>2, <3>4, <4>1 DEF Hold, Goto, KeepsHead, Preparing, Writing
      <4>3. QED
        BY <1>2, <3>2, <3>3, <4>2
    <3>5. CASE Again(p) \/ Quit(p)
      BY <1>2, <1>3, <1>4, <3>2, <3>3, <3>5
    <3>6. CASE Goto(p, "moved") /\ UNCHANGED <<view, lease>>
      <4>1. \A q \in Publishers : KeepsHead(q)
        BY <1>0, <3>2, <3>6 DEF Goto, KeepsHead, Preparing, Writing
      <4>2. QED
        BY <1>2, <3>2, <3>3, <4>1
    <3>7. QED
      BY <2>5, <3>1, <3>4, <3>5, <3>6 DEF CreateBranch, TakeOver
  <2>6. CASE CheckMoved(p)
    BY <1>1, <1>3, <1>4, <2>6 DEF CheckMoved, remote, Preparing
  <2>7. CASE RereadHead(p)
    <3>1. /\ UNCHANGED <<nextId, main, mainLog, late, run>> /\ pc[p] = "held"
          /\ view' = [view EXCEPT ![p].main = main] /\ pc' = [pc EXCEPT ![p] = "sidecar"]
      BY <2>7 DEF RereadHead, Goto, remote
    <3>2. view'[p].main = main /\ pc'[p] \notin Preparing /\ pc[p] \in Preparing
      BY <1>0, <3>1 DEF Preparing, Views
    <3>3. \A q \in Publishers : q # p => view'[q] = view[q] /\ pc'[q] = pc[q]
      BY <1>0, <3>1
    <3>4. \A q \in Publishers : Self(q)' = Self(q)
      BY <3>1 DEF Self
    <3>5. HeadsBounded' /\ HeadsAdvance'
      BY <1>0, <3>1, <3>2, <3>3 DEF OrderInv, OrderOK, HeadsBounded, HeadsAdvance
    <3>6. MayBatch(Self(p))
      BY <3>2 DEF OrderInv, OrderOK, NoBatchYet, MayBatch
    <3>7. PushesInOrder'
      BY <3>1, <3>3, <3>4, <3>6 DEF OrderInv, OrderOK, PushesInOrder, MayBatch
    <3>8. HeadsUnseen'
      <4>1. ASSUME NEW w \in late, w.expMain # 0, w.expMain = main PROVE w.newMain # main
        <5>1. w.expMain \in Nat /\ w.newMain \in Nat
          BY <1>0 DEF Pushes
        <5>2. w.expMain < w.newMain
          BY <4>1 DEF OrderInv, OrderOK, HeadsAdvance
        <5>3. QED
          BY <4>1, <5>1, <5>2
      <4>2. QED
        BY <3>1, <3>2, <3>3, <4>1 DEF OrderInv, OrderOK, HeadsUnseen
    <3>9. RunsBegun' /\ BatchesContiguous'
      BY <3>1 DEF OrderInv, OrderOK, RunsBegun, BatchesContiguous
    <3>10. NoBatchYet'
      BY <3>1, <3>2, <3>3, <3>4 DEF OrderInv, OrderOK, NoBatchYet
    <3>11. QED
      BY <3>5, <3>7, <3>8, <3>9, <3>10 DEF OrderOK
  <2>8. CASE Renew(p)
    <3>1. PICK wall \in time..(time + Skew) :
             LET u == RenewalPush(p, wall, 0)
             IN  \/ /\ Accepted(u)
                    /\ Goto(p, "publishing")
                    /\ view' = [view EXCEPT ![p].observed = view[p].main]
                    /\ lease' = [lease EXCEPT ![p] = u.new]
                 \/ Refused(u) /\ Abort(p)
                 \/ Unknown(u) /\ Abort(p)
      BY <2>8 DEF Renew
    <3>2. UNCHANGED run /\ pc[p] \in Holding /\ wall \in Nat /\ pc[p] \in Writing
      BY <1>0, <2>8, LeaseAssumption DEF Renew, Holding, Writing
    <3>3. PICK u \in Pushes : u = RenewalPush(p, wall, 0)
      BY <1>0, <3>2, RenewalPushTyped
    <3>4. PlainPush(u)
      BY <1>0, <3>3 DEF RenewalPush, PlainPush
    <3>5. Answered(u)
      BY <3>1, <3>3 DEF Answered
    <3>6. CASE Abort(p)
      BY <1>2, <1>5, <3>2, <3>4, <3>5, <3>6
    <3>7. CASE /\ Goto(p, "publishing")
               /\ view' = [view EXCEPT ![p].observed = view[p].main]
      <4>1. [view[p] EXCEPT !.observed = view[p].main].main = view[p].main
        BY <2>0 DEF Views
      <4>2. \A q \in Publishers : KeepsHead(q)
        BY <1>0, <3>2, <3>7, <4>1 DEF Goto, KeepsHead, Preparing, Writing
      <4>3. QED
        BY <1>2, <3>2, <3>4, <3>5, <4>2
    <3>8. QED
      BY <3>1, <3>6, <3>7
  <2>9. CASE CommitBatch(p)
    <3>1. PICK wall \in time..(time + Skew) :
             LET u == RenewalPush(p, wall, view[p].main)
             IN  \/ /\ Accepted(u)
                    /\ UNCHANGED pc
                    /\ view' = [view EXCEPT ![p].main = u.newMain, ![p].observed = u.newMain]
                    /\ lease' = [lease EXCEPT ![p] = u.new]
                 \/ Refused(u) /\ Abort(p)
                 \/ Unknown(u) /\ Abort(p)
      BY <2>9 DEF CommitBatch
    <3>2. UNCHANGED run /\ pc[p] \in Holding /\ wall \in Nat /\ pc[p] \in Writing
      BY <1>0, <2>9, LeaseAssumption DEF CommitBatch, Holding, Writing
    <3>3. PICK u \in Pushes : u = RenewalPush(p, wall, view[p].main)
      BY <1>0, <2>0, <3>2, RenewalPushTyped
    <3>4. /\ u.by = Self(p) /\ u.expMain = view[p].main
          /\ u.newMain = IF u.expMain = 0 THEN 0 ELSE nextId
      BY <3>3 DEF RenewalPush
    <3>5. CASE (Refused(u) \/ Unknown(u)) /\ Abort(p)
      BY <3>2, <3>4, <3>5, LostOrdered
    <3>6. CASE /\ Accepted(u)
               /\ UNCHANGED pc
               /\ view' = [view EXCEPT ![p].main = u.newMain, ![p].observed = u.newMain]
      <4>1. view' = [view EXCEPT ![p] = [[view[p] EXCEPT !.main = u.newMain]
                                          EXCEPT !.observed = u.newMain]]
        BY <1>0, <3>6
      <4>2. [[view[p] EXCEPT !.main = u.newMain] EXCEPT !.observed = u.newMain].main = u.newMain
        BY <2>0 DEF Views
      <4>3. view'[p].main = u.newMain /\ \A q \in Publishers : q # p => view'[q] = view[q]
        BY <1>0, <4>1, <4>2
      <4>4. CASE u.expMain = 0
        <5>1. PlainPush(u) /\ u.newMain = view[p].main
          BY <1>0, <3>4, <4>4 DEF PlainPush
        <5>2. \A q \in Publishers : KeepsHead(q)
          BY <1>0, <3>2, <3>6, <4>3, <5>1 DEF KeepsHead
        <5>3. QED
          BY <1>2, <3>2, <3>6, <5>1, <5>2 DEF Answered
      <4>5. CASE u.expMain # 0
        <5>1. /\ Matches(u) /\ main' = u.newMain /\ mainLog' = Append(mainLog, u.by)
              /\ nextId' = nextId + 1 /\ late' \in SUBSET (late \cup {u})
          BY <3>6, <4>5 DEF Accepted, Install
        <5>2. main = u.expMain /\ u.newMain = nextId
          BY <3>4, <4>5, <5>1 DEF Matches
        <5>3. MayBatch(u.by)
          BY <3>2, <3>4, <5>2 DEF OrderInv, OrderOK, PushesInOrder
        <5>4. \A w \in late' : w.expMain # u.newMain
          BY <1>0, <3>4, <5>1, <5>2 DEF OrderInv, OrderOK, HeadsBounded, Pushes
        <5>5. \A q \in Publishers : pc[q] \in Preparing => u.by # Self(q)
          BY <3>2, <3>4 DEF Self, Preparing, Writing
        <5>6. \A q \in Publishers :
                 /\ view'[q].main < nextId'
                 /\ pc'[q] \in Writing /\ view'[q].main = u.newMain => u.by = Self(q)
                 /\ pc'[q] \in Preparing => pc[q] \in Preparing
          BY <1>0, <3>4, <3>6, <4>3, <5>1, <5>2
        <5>7. u.by[2] <= run[u.by[1]] /\ u.expMain < u.newMain /\ u.newMain < nextId'
          BY <1>0, <3>4, <5>1, <5>2
        <5>8. QED
          BY <1>0, <3>2, <4>5, <5>1, <5>3, <5>4, <5>5, <5>6, <5>7, AdvanceOrdered
      <4>6. QED
        BY <4>4, <4>5
    <3>7. QED
      BY <3>1, <3>3, <3>5, <3>6
  <2>10. CASE Finish(p)
    BY <1>1, <1>5, <2>10 DEF Finish, remote
  <2>11. CASE Release(p)
    <3>1. PICK deletes \in BOOLEAN : Answered(ReleasePush(p, deletes))
      BY <2>11 DEF Release, Answered
    <3>2. pc[p] \in Holding /\ UNCHANGED run /\ Quit(p)
      BY <2>11 DEF Release, Holding
    <3>3. PICK u \in Pushes : u = ReleasePush(p, deletes)
      BY <1>0, <3>2, ReleasePushTyped
    <3>4. PlainPush(u)
      BY <1>0, <3>3 DEF ReleasePush, PlainPush
    <3>5. QED
      BY <1>2, <1>3, <3>1, <3>2, <3>3, <3>4
  <2>12. QED
    BY <1>6, <2>1, <2>2, <2>3, <2>4, <2>5, <2>6, <2>7, <2>8, <2>9, <2>10, <2>11 DEF Publisher
<1>7. ASSUME NEW u \in late, LateApply(u)
      PROVE  OrderOK'
  <2>1. /\ Matches(u) /\ Install(u) /\ late' = late \ {u} /\ u \in Pushes
        /\ UNCHANGED <<nextId, pc, run, view>>
    BY <1>0, <1>7 DEF LateApply
  <2>2. CASE u.expMain = 0
    <3>1. UNCHANGED <<main, mainLog>>
      BY <2>1, <2>2 DEF Install
    <3>2. \A q \in Publishers : KeepsHead(q)
      BY <1>0, <2>1 DEF KeepsHead
    <3>3. \A w \in late' : w \in late \/ PlainPush(w)
      BY <2>1
    <3>4. QED
      BY <1>0, <2>1, <3>1, <3>2, <3>3, PlainOrdered
  <2>3. CASE u.expMain # 0
    <3>1. main = u.expMain /\ main' = u.newMain /\ mainLog' = Append(mainLog, u.by)
      BY <2>1, <2>3 DEF Matches, Install
    <3>2. /\ MayBatch(u.by) /\ u.newMain < nextId /\ u.expMain < u.newMain
          /\ u.by[2] <= run[u.by[1]]
      BY <2>3, <3>1
      DEF OrderInv, OrderOK, PushesInOrder, HeadsBounded, HeadsAdvance, RunsBegun
    <3>3. /\ \A w \in late : w.expMain # u.newMain
          /\ \A q \in Publishers : pc[q] \in Writing => view[q].main # u.newMain
      BY <2>3, <3>1 DEF OrderInv, OrderOK, HeadsUnseen
    <3>4. \A q \in Publishers : pc[q] \in Preparing => u.by # Self(q)
      BY <2>3 DEF OrderInv, OrderOK, NoBatchYet
    <3>5. QED
      BY <1>0, <2>1, <2>3, <3>1, <3>2, <3>3, <3>4, AdvanceOrdered
  <2>4. QED
    BY <2>2, <2>3
<1>8. CASE Tick \/ UNCHANGED vars
  <2>1. UNCHANGED <<main, mainLog, nextId, late, run, pc, view>>
    BY <1>8 DEF Tick, vars, remote
  <2>2. \A q \in Publishers : KeepsHead(q)
    BY <1>0, <2>1 DEF KeepsHead
  <2>3. QED
    BY <1>0, <1>1, <2>1, <2>2 DEF OrderInv
<1>9. QED
  BY <1>0, <1>6, <1>7, <1>8 DEF Next, OrderInv

\* The batches of one run follow each other on main, however many runs, crashes and
\* delayed duplicates there are: the ledger and the index a run computed from the head
\* it re-read stay current until its last batch.
THEOREM BatchesAlwaysContiguous == Spec => []BatchesContiguous
<1>1. Init => OrderInv
  <2> SUFFICES ASSUME Init PROVE OrderInv
    OBVIOUS
  <2>1. /\ nextId = 2 /\ main = 1 /\ mainLog = <<>> /\ late = {}
        /\ pc = [p \in Publishers |-> "idle"] /\ view = [p \in Publishers |-> NoView]
    BY DEF Init
  <2>2. OrderOK
    BY <2>1, NoViewOK
    DEF OrderOK, HeadsBounded, HeadsAdvance, PushesInOrder, HeadsUnseen, RunsBegun,
        NoBatchYet, BatchesContiguous, Writing, Preparing
  <2>3. QED
    BY <2>2, TypedInit DEF OrderInv
<1>2. OrderInv /\ [Next]_vars => OrderInv'
  BY OrderStep
<1>3. OrderInv => BatchesContiguous
  BY DEF OrderInv, OrderOK
<1>4. QED
  BY <1>1, <1>2, <1>3, PTL DEF Spec

=============================================================================
