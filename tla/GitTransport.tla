---------------------------- MODULE GitTransport ----------------------------
(***************************************************************************)
(* Conditional updates of remote refs (crates/xc-cache/src/                *)
(* git_transport.rs): compare_and_swap_commit, its atomic form over two    *)
(* refs, create_ref_commit_if_absent and delete_ref_if_head, all through   *)
(* the retry loop push_with_ref_reconciliation.                            *)
(*                                                                         *)
(* A `git push` that fails tells nothing: the server may have executed it, *)
(* may still do so, or never will.  The loop reads the refs afresh and     *)
(* concludes from them, or repeats the identical push.  The callers of     *)
(* different processes are each other's concurrent writers.                *)
(***************************************************************************)
EXTENDS Naturals, Sequences, FiniteSets

CONSTANTS
    Callers,      \* processes with an operation under way
    MaxAttempts,  \* MAX_ATTEMPTS
    MaxOps,       \* bound on operations
    MaxDelayed    \* bound on pushes that the server executes after their failure

ASSUME TransportAssumption ==
    MaxAttempts \in Nat \ {0} /\ MaxOps \in Nat /\ MaxDelayed \in Nat

\* The cache branch, which exists from the start and is never deleted, and the
\* coordination branch, which comes and goes.
Branches == {"main", "coord"}
Absent == 0

VARIABLES
    refs,     \* the commit each remote branch names
    count,    \* operations so far: their number, and that of the commits they make
    op,       \* the operation of each caller
    pc,       \* where each caller stands
    attempt,  \* the current attempt
    retry,    \* whether the failure of the last push was transient
    delayed,  \* failed pushes that the server may still execute
    log,      \* the pushes the server has executed, oldest first
    answers   \* the kind of each operation and what it returned

vars == <<refs, count, op, pc, attempt, retry, delayed, log, answers>>

\* The refs of one push: what they must be and what they become.
Scopes == {{"main"}, {"coord"}, Branches}
NoOp == [num |-> 0, kind |-> "swap", scope |-> {}, exp |-> <<>>, new |-> <<>>]

Init ==
    /\ refs = [b \in Branches |-> IF b = "main" THEN MaxOps + 1 ELSE Absent]
    /\ count = 0
    /\ op = [c \in Callers |-> NoOp]
    /\ pc = [c \in Callers |-> "idle"]
    /\ attempt = [c \in Callers |-> 1]
    /\ retry = [c \in Callers |-> FALSE]
    /\ delayed = {} /\ log = <<>> /\ answers = <<>>

-----------------------------------------------------------------------------
\* The server

\* Every ref of the push is what --force-with-lease says.
Matches(o) == \A b \in o.scope : refs[b] = o.exp[b]

\* --atomic: all refs of the push
Execute(o) ==
    /\ Matches(o)
    /\ refs' = [b \in Branches |-> IF b \in o.scope THEN o.new[b] ELSE refs[b]]
    /\ log' = Append(log, o)

LateExecute(o) ==
    /\ o \in delayed
    /\ Execute(o)
    /\ delayed' = delayed \ {o}
    /\ UNCHANGED <<count, op, pc, attempt, retry, answers>>

-----------------------------------------------------------------------------
\* One operation

\* The preliminary read found what the caller expects; otherwise the operation
\* returns at once and nothing has happened.
Begin(c, kind, scope) ==
    /\ pc[c] = "idle"
    /\ count < MaxOps
    /\ count' = count + 1
    /\ op' = [op EXCEPT ![c] =
          [num |-> count + 1, kind |-> kind, scope |-> scope,
           exp |-> [b \in scope |-> refs[b]],
           new |-> [b \in scope |-> IF kind = "delete" THEN Absent ELSE count + 1]]]
    /\ pc' = [pc EXCEPT ![c] = "push"]
    /\ attempt' = [attempt EXCEPT ![c] = 1]
    /\ answers' = Append(answers, <<kind, "open">>)
    /\ UNCHANGED <<refs, retry, delayed, log>>

\* compare_and_swap_commit, compare_and_swap_commits_atomically
Swap(c) ==
    \E scope \in Scopes :
        /\ \A b \in scope : refs[b] # Absent
        /\ Begin(c, "swap", scope)

\* create_ref_commit_if_absent
Create(c) == refs["coord"] = Absent /\ Begin(c, "create", {"coord"})

\* delete_ref_if_head
Delete(c) == refs["coord"] # Absent /\ Begin(c, "delete", {"coord"})

Answer(c, answer) ==
    /\ answers' = [answers EXCEPT ![op[c].num][2] = answer]
    /\ op' = [op EXCEPT ![c] = NoOp]
    /\ pc' = [pc EXCEPT ![c] = "idle"]
    /\ attempt' = [attempt EXCEPT ![c] = 1]
    /\ retry' = [retry EXCEPT ![c] = FALSE]

\* `git push` exits with an error, transient or not.
Fails(c) ==
    /\ pc' = [pc EXCEPT ![c] = "reconcile"]
    /\ \E transient \in BOOLEAN : retry' = [retry EXCEPT ![c] = transient]
    /\ UNCHANGED <<op, attempt, answers>>

\* The push is acknowledged, or its acknowledgement is lost, or it is not executed
\* by the time it fails and perhaps later.
Push(c) ==
    /\ pc[c] = "push"
    /\ \/ Execute(op[c]) /\ Answer(c, "ok") /\ UNCHANGED delayed
       \/ Execute(op[c]) /\ Fails(c) /\ UNCHANGED delayed
       \/ /\ Fails(c)
          /\ \/ UNCHANGED delayed
             \/ Cardinality(delayed) < MaxDelayed /\ delayed' = delayed \cup {op[c]}
          /\ UNCHANGED <<refs, log>>
    /\ UNCHANGED count

\* Mutant: refs that have moved are taken for the effect of the push.
DoneIfMoved(o) == \A b \in o.scope : refs[b] # o.exp[b]

\* The refs are exactly what the push makes them.
Done(o) == \A b \in o.scope : refs[b] = o.new[b]

\* A single ref that has disappeared is NotFound to compare_and_swap_commit.
ConflictAnswer(o) ==
    IF o.kind = "swap" /\ o.scope # Branches /\ \A b \in o.scope : refs[b] = Absent
    THEN "error" ELSE "conflict"

\* Mutant: a retry renews its expectation from the refs it has just read.
ReconcileRebased(c) ==
    /\ pc[c] = "reconcile"
    /\ \/ Answer(c, "error")
       \/ Done(op[c]) /\ Answer(c, "ok")
       \/ /\ ~Done(op[c])
          /\ retry[c] /\ attempt[c] < MaxAttempts
          /\ op' = [op EXCEPT ![c].exp = [b \in op[c].scope |-> refs[b]]]
          /\ attempt' = [attempt EXCEPT ![c] = @ + 1]
          /\ pc' = [pc EXCEPT ![c] = "push"]
          /\ UNCHANGED <<retry, answers>>
    /\ UNCHANGED <<refs, count, delayed, log>>

\* Mutant: a retry starts its count afresh.
ReconcileForever(c) ==
    /\ pc[c] = "reconcile"
    /\ \/ Answer(c, "error")
       \/ Done(op[c]) /\ Answer(c, "ok")
       \/ ~Done(op[c]) /\ ~Matches(op[c]) /\ Answer(c, ConflictAnswer(op[c]))
       \/ /\ ~Done(op[c]) /\ Matches(op[c]) /\ retry[c]
          /\ pc' = [pc EXCEPT ![c] = "push"]
          /\ UNCHANGED <<op, attempt, retry, answers>>
    /\ UNCHANGED <<refs, count, delayed, log>>

\* Mutant: a push that failed over unchanged refs is reported as a conflict.
ReconcileConflict(c) ==
    /\ pc[c] = "reconcile"
    /\ \/ Answer(c, "error")
       \/ Done(op[c]) /\ Answer(c, "ok")
       \/ ~Done(op[c]) /\ Answer(c, ConflictAnswer(op[c]))
    /\ UNCHANGED <<refs, count, delayed, log>>

\* The fresh read after a failed push, unless it fails itself.
Reconcile(c) ==
    /\ pc[c] = "reconcile"
    /\ \/ Answer(c, "error")
       \/ Done(op[c]) /\ Answer(c, "ok")
       \/ ~Done(op[c]) /\ ~Matches(op[c]) /\ Answer(c, ConflictAnswer(op[c]))
       \/ /\ ~Done(op[c]) /\ Matches(op[c])
          /\ retry[c] /\ attempt[c] < MaxAttempts
          /\ attempt' = [attempt EXCEPT ![c] = @ + 1]
          /\ pc' = [pc EXCEPT ![c] = "push"]
          /\ UNCHANGED <<op, retry, answers>>
    /\ UNCHANGED <<refs, count, delayed, log>>

Next ==
    \/ \E c \in Callers : Swap(c) \/ Create(c) \/ Delete(c) \/ Push(c) \/ Reconcile(c)
    \/ \E o \in delayed : LateExecute(o)

Spec == Init /\ [][Next]_vars

\* An operation that has begun is carried on; nobody needs to begin one.
FairSpec == Spec /\ \A c \in Callers : WF_vars(Push(c) \/ Reconcile(c))

-----------------------------------------------------------------------------
\* Properties

Executed(n) == {i \in DOMAIN log : log[i].num = n}

\* An operation that was answered "ok" was executed by the server, or it was a
\* deletion whose branch is observed absent, whoever deleted it: success is never
\* inferred from refs that another writer moved.
OkMeansExecuted ==
    \A n \in DOMAIN answers :
        answers[n][2] = "ok" =>
            \/ Executed(n) # {}
            \/ answers[n][1] = "delete" /\ \E i \in DOMAIN log : log[i].kind = "delete"

\* Repeated and delayed copies of a push move the cache branch once at most.
MovesMainOnce ==
    \A i, j \in DOMAIN log :
        i # j /\ "main" \in log[i].scope => log[i].num # log[j].num

\* Once a conflict of a push to the cache branch alone has been reported, no copy of
\* it is executed any more: the caller may plan anew from the head it now reads.  (A
\* push that also needs the coordination branch has no such guarantee: a delayed
\* creation can bring the commit it expects back.)
ConflictIsFinal ==
    [][\A n \in DOMAIN answers :
          answers[n][2] = "conflict" /\ log' # log =>
              LET o == log'[Len(log')] IN o.num = n => o.scope # {"main"}]_vars

\* Every operation is answered: the loop ends whatever the network does.
EventuallyAnswered ==
    \A n \in 1..MaxOps :
        (n \in DOMAIN answers) ~> (n \in DOMAIN answers /\ answers[n][2] # "open")
=============================================================================
