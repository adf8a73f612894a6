------------------------------ MODULE LookAhead ------------------------------
(***************************************************************************)
(* The look-ahead lane of a capture (xc-spectral ccm/capture_runtime.rs):  *)
(* one background thread runs jobs ahead of their turn and their owner     *)
(* claims the results where the serial code would compute them.  A step    *)
(* is what one thread does while it holds the lane's mutex once; a wait on *)
(* the condition variable ends the step.  An outcome is the number of the  *)
(* job that produced it and whether that was a panic.                      *)
(***************************************************************************)
EXTENDS Naturals

CONSTANTS
  JobCount,      \* jobs 1..JobCount, in the order given
  Claimants,     \* threads that call claim on the shared lane
  MaxClaims      \* bound: claims each of them makes

ASSUME LaneAssumption == JobCount \in Nat \ {0} /\ MaxClaims \in Nat \ {0}

VARIABLES
  slots,      \* the LookAheadSlot of every job
  outcome,    \* the outcome a Done slot holds
  stopped,
  worker,     \* the background thread: "none", "look", "wait", "run", "exit"
  job,        \* the job it took last
  owner,      \* life of the lane: "new", "open", "stopping", "joining", "gone"
  step,       \* a claimant: "idle", "claim", "wait"
  claim,      \* its claim: the job and whether the key was accepted
  claims,     \* claims each claimant has made
  delivered,  \* jobs whose outcome a claim returned, with what it returned
  inline      \* jobs some claim released to the caller to compute inline

laneVars == <<slots, outcome, stopped, worker, job, owner, step, claim, claims,
              delivered, inline>>

Jobs == 1..JobCount
Nothing == [by |-> 0, panic |-> FALSE]

LaneInit ==
  /\ slots = [j \in Jobs |-> "Queued"] /\ outcome = [j \in Jobs |-> Nothing]
  /\ stopped = FALSE
  /\ worker = "none" /\ job = 0 /\ owner = "new"
  /\ step = [c \in Claimants |-> "idle"]
  /\ claim = [c \in Claimants |-> [job |-> 1, accepted |-> FALSE]]
  /\ claims = [c \in Claimants |-> 0]
  /\ delivered = {} /\ inline = {}

\* changed.notify_all()
WakeWorker == IF worker = "wait" THEN "look" ELSE worker
WakeClaims == [c \in Claimants |-> IF step[c] = "wait" THEN "claim" ELSE step[c]]

-----------------------------------------------------------------------------
\* start_reserved: inside a memory budget, a capped policy or a Rayon pool, or
\* when no thread can be spawned, there is no lane and all is computed inline.
Start ==
  /\ owner = "new"
  /\ owner' = "open" /\ worker' = "look"
  /\ UNCHANGED <<slots, outcome, stopped, job, step, claim, claims, delivered, inline>>

Decline ==
  /\ owner = "new"
  /\ owner' = "gone"
  /\ UNCHANGED <<slots, outcome, stopped, worker, job, step, claim, claims,
                 delivered, inline>>

-----------------------------------------------------------------------------
(* The background thread. *)

Finished == {j \in Jobs : slots[j] = "Done"}
Waiting  == {j \in Jobs : slots[j] = "Queued"}
Active   == {j \in Jobs : slots[j] \in {"Running", "DiscardRunning"}}
First(j, S) == \A i \in S : j <= i

\* An unstopped thread waits while a finished result is unclaimed.
MayTake == ~stopped /\ Finished = {} /\ Waiting # {}

WaitForClaim ==
  /\ worker = "look" /\ ~stopped /\ Finished # {}
  /\ worker' = "wait"
  /\ UNCHANGED <<slots, outcome, stopped, job, owner, step, claim, claims,
                 delivered, inline>>

TakeJob ==
  /\ worker = "look" /\ MayTake
  /\ \E j \in Waiting :
       /\ First(j, Waiting)
       /\ job' = j /\ slots' = [slots EXCEPT ![j] = "Running"]
  /\ worker' = "run"
  /\ UNCHANGED <<outcome, stopped, owner, step, claim, claims, delivered, inline>>

Exit ==
  /\ worker = "look" /\ (stopped \/ Finished \cup Waiting = {})
  /\ slots' = [j \in Jobs |-> IF slots[j] = "Queued" THEN "Closed" ELSE slots[j]]
  /\ worker' = "exit" /\ step' = WakeClaims
  /\ UNCHANGED <<outcome, stopped, job, owner, claim, claims, delivered, inline>>

\* The outcome goes to the slot that is found running, not to the slot the job
\* was taken from.  A job that declines (exponent range, policy, size) leaves
\* nothing; a panic is an outcome.
FinishJob ==
  /\ worker = "run"
  /\ \E out \in {[by |-> job, panic |-> FALSE], [by |-> job, panic |-> TRUE], Nothing} :
       \/ Active = {} /\ UNCHANGED <<slots, outcome>>
       \/ \E j \in Active :
            LET kept == slots[j] = "Running" /\ out # Nothing IN
            /\ First(j, Active)
            /\ slots' = [slots EXCEPT ![j] = IF kept THEN "Done" ELSE "Closed"]
            /\ outcome' = [outcome EXCEPT ![j] = IF kept THEN out ELSE Nothing]
  /\ worker' = "look" /\ step' = WakeClaims
  /\ UNCHANGED <<stopped, job, owner, claim, claims, delivered, inline>>

-----------------------------------------------------------------------------
(* LookAhead::claim *)

\* The key is read under the lock and compared outside it.
ReadKey(c) ==
  /\ owner = "open" /\ step[c] = "idle" /\ claims[c] < MaxClaims
  /\ \E j \in Jobs, ok \in BOOLEAN :
       claim' = [claim EXCEPT ![c] = [job |-> j, accepted |-> ok]]
  /\ claims' = [claims EXCEPT ![c] = @ + 1]
  /\ step' = [step EXCEPT ![c] = "claim"]
  /\ UNCHANGED <<slots, outcome, stopped, worker, job, owner, delivered, inline>>

Return(c) == step' = [WakeClaims EXCEPT ![c] = "idle"] /\ worker' = WakeWorker

Reject(c) ==
  LET j == claim[c].job IN
  /\ step[c] = "claim" /\ ~claim[c].accepted
  /\ slots' = [slots EXCEPT ![j] =
                 IF @ \in {"Running", "DiscardRunning"} THEN "DiscardRunning" ELSE "Closed"]
  /\ outcome' = [outcome EXCEPT ![j] = Nothing]
  /\ inline' = inline \cup {j}
  /\ Return(c)
  /\ UNCHANGED <<stopped, job, owner, claim, claims, delivered>>

WaitForJob(c) ==
  /\ step[c] = "claim" /\ claim[c].accepted /\ slots[claim[c].job] = "Running"
  /\ step' = [step EXCEPT ![c] = "wait"]
  /\ UNCHANGED <<slots, outcome, stopped, worker, job, owner, claim, claims,
                 delivered, inline>>

Take(c) ==
  LET j == claim[c].job IN
  /\ step[c] = "claim" /\ claim[c].accepted /\ slots[j] = "Done"
  /\ delivered' = delivered \cup {[job |-> j, of |-> outcome[j]]}
  /\ slots' = [slots EXCEPT ![j] = "Closed"]
  /\ outcome' = [outcome EXCEPT ![j] = Nothing]
  /\ Return(c)
  /\ UNCHANGED <<stopped, job, owner, claim, claims, inline>>

\* Mutant: a job that has not started is left to the lane.
WithdrawNothing(c) ==
  LET j == claim[c].job IN
  /\ step[c] = "claim" /\ claim[c].accepted
  /\ slots[j] \in {"Queued", "Closed", "DiscardRunning"}
  /\ inline' = inline \cup {j}
  /\ Return(c)
  /\ UNCHANGED <<slots, outcome, stopped, job, owner, claim, claims, delivered>>

\* A job not yet started is withdrawn; one already discarded stays so.
Withdraw(c) ==
  LET j == claim[c].job IN
  /\ step[c] = "claim" /\ claim[c].accepted
  /\ slots[j] \in {"Queued", "Closed", "DiscardRunning"}
  /\ slots' = [slots EXCEPT ![j] = "Closed"]
  /\ inline' = inline \cup {j}
  /\ Return(c)
  /\ UNCHANGED <<outcome, stopped, job, owner, claim, claims, delivered>>

-----------------------------------------------------------------------------
(* Drop for LookAhead: the flag is set under the mutex, the wake-up is sent  *)
(* after it is released, then the thread is joined.                         *)

\* No claim is under way: each of them borrows the lane.
Stop ==
  /\ owner = "open" /\ \A c \in Claimants : step[c] = "idle"
  /\ stopped' = TRUE /\ owner' = "stopping"
  /\ UNCHANGED <<slots, outcome, worker, job, step, claim, claims, delivered, inline>>

\* Mutant: the thread is joined without a wake-up.
NotifyNobody ==
  /\ owner = "stopping"
  /\ owner' = "joining"
  /\ UNCHANGED <<slots, outcome, stopped, worker, job, step, claim, claims,
                 delivered, inline>>

Notify ==
  /\ owner = "stopping"
  /\ owner' = "joining" /\ worker' = WakeWorker
  /\ UNCHANGED <<slots, outcome, stopped, job, step, claim, claims, delivered, inline>>

Join ==
  /\ owner = "joining" /\ worker = "exit"
  /\ owner' = "gone"
  /\ UNCHANGED <<slots, outcome, stopped, worker, job, step, claim, claims,
                 delivered, inline>>

-----------------------------------------------------------------------------
Lane == WaitForClaim \/ TakeJob \/ Exit \/ FinishJob
Claiming(c) == Reject(c) \/ WaitForJob(c) \/ Take(c) \/ Withdraw(c)

LaneNext ==
  \/ Start \/ Decline \/ Lane
  \/ \E c \in Claimants : ReadKey(c) \/ Claiming(c)
  \/ Stop \/ Notify \/ Join

\* Threads that can run do; a job is a finite computation.  Nobody has to make
\* a claim or to drop the lane.
LaneFairness ==
  /\ WF_laneVars(Lane) /\ WF_laneVars(Notify \/ Join)
  /\ \A c \in Claimants : WF_laneVars(Claiming(c))

LaneSpec == LaneInit /\ [][LaneNext]_laneVars /\ LaneFairness

-----------------------------------------------------------------------------
\* What the owner computes inline, the lane never hands out as well, and what
\* it hands out is the result of the job asked for, although the thread looks
\* for the slot by its state (`find ... Running | DiscardRunning`): a job is
\* delivered at most once, only with its own outcome, never after a claim
\* has released it; and "At most one finished result is retained", none
\* of them while another job runs.
OneResultPerJob ==
  /\ \A d \in delivered : d.of.by = d.job /\ slots[d.job] = "Closed"
  /\ \A j \in inline : slots[j] \in {"DiscardRunning", "Closed"}
  /\ \A i, j \in Finished : i = j
  /\ worker = "run" => Finished = {}

\* No wake-up is lost (claim, Drop): a claim that waits for a running job
\* returns, and dropping the lane ends, also while the thread waits for a
\* result to be claimed that nobody will claim any more.
LaneEnds ==
  /\ \A c \in Claimants : step[c] # "idle" ~> step[c] = "idle"
  /\ owner = "stopping" ~> owner = "gone"
=============================================================================
