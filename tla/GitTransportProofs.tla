------------------------- MODULE GitTransportProofs -------------------------
(***************************************************************************)
(* Safety of GitTransport for every number of callers, attempts,           *)
(* operations and delayed pushes.                                          *)
(***************************************************************************)
EXTENDS GitTransport, SequenceTheorems, TLAPS

Kinds == {"swap", "create", "delete"}
Results == {"open", "ok", "error", "conflict"}
RefValues == [{"main"} -> Nat] \cup [{"coord"} -> Nat] \cup [Branches -> Nat]

Ops == [num : Nat, kind : Kinds, scope : Scopes, exp : RefValues, new : RefValues]

Active == {c \in Callers : pc[c] # "idle"}

\* Every operation there is a copy of: under way, delayed or executed.
Known == {op[c] : c \in Active} \cup delayed \cup {log[i] : i \in DOMAIN log}

\* The commit the cache branch starts with is older than any an operation makes.
Age(commit) == IF commit = MaxOps + 1 THEN 0 ELSE commit

Types ==
    /\ refs \in [Branches -> Nat]
    /\ count \in 0..MaxOps
    /\ pc \in [Callers -> {"idle", "push", "reconcile"}]
    /\ op \in [Callers -> Ops \cup {NoOp}]
    /\ \A c \in Active : op[c] \in Ops
    /\ delayed \subseteq Ops
    /\ log \in Seq(Ops)
    /\ answers \in Seq(Kinds \X Results) /\ Len(answers) = count

\* What an operation is made of, however old the copy.
OpWellFormed(o) ==
    /\ o.num \in 1..count
    /\ o.kind = answers[o.num][1]
    /\ \A b \in o.scope : o.exp[b] \in Nat
    /\ \A b \in o.scope : o.new[b] = IF o.kind = "delete" THEN Absent ELSE o.num
    /\ "main" \in o.scope => /\ o.kind = "swap" /\ o.exp["main"] # Absent
                              /\ Age(o.exp["main"]) < o.num

\* All copies of an operation are the same.
CopiesAgree ==
    /\ \A o \in Known : OpWellFormed(o)
    /\ \A o1, o2 \in Known : o1.num = o2.num => o1 = o2

\* An operation under way is not answered, and one caller's alone.
ActiveOpen ==
    /\ \A c \in Active : answers[op[c].num][2] = "open"
    /\ \A c, d \in Active : op[c].num = op[d].num => c = d

\* The cache branch only becomes younger: no copy expects a younger head, and no
\* executed push made one.
MainYoungest ==
    /\ refs["main"] \in 1..(MaxOps + 1)
    /\ \A o \in Known : "main" \in o.scope => Age(o.exp["main"]) <= Age(refs["main"])
    /\ \A i \in DOMAIN log : "main" \in log[i].scope => log[i].num <= Age(refs["main"])

\* A commit that a branch names was put there by an executed push.
RefsExecuted ==
    \A b \in Branches :
        refs[b] \in {Absent, MaxOps + 1} \/ \E i \in DOMAIN log : log[i].num = refs[b]

DeleteExecuted == \E i \in DOMAIN log : log[i].kind = "delete"

\* A deletion begins at an existing branch: that it is gone is the work of a deletion.
DeletionsDelete ==
    (\E o \in Known : o.kind = "delete") /\ refs["coord"] = Absent => DeleteExecuted

\* The copies of a push to the cache branch whose conflict was reported are too old.
ConflictsStale ==
    \A o \in Known : o.scope = {"main"} /\ answers[o.num][2] = "conflict" =>
        Age(o.exp["main"]) < Age(refs["main"])

\* The inductive invariant.
TransportInv ==
    /\ Types /\ CopiesAgree /\ ActiveOpen
    /\ MainYoungest /\ RefsExecuted /\ DeletionsDelete /\ ConflictsStale
    /\ MovesMainOnce /\ OkMeansExecuted

-----------------------------------------------------------------------------
\* The server's part.

\* Executing a push adds it to the log and gives the refs of its scope their new value.
LEMMA ExecuteEffect ==
    ASSUME Types, NEW o \in Ops, Execute(o)
    PROVE  /\ Len(log') = Len(log) + 1 /\ log' \in Seq(Ops)
           /\ DOMAIN log = 1..Len(log) /\ DOMAIN log' = 1..(Len(log) + 1)
           /\ log'[Len(log) + 1] = o
           /\ \A i \in DOMAIN log : log'[i] = log[i]
           /\ \A b \in Branches : refs'[b] = IF b \in o.scope THEN o.new[b] ELSE refs[b]
           /\ \A b \in o.scope : refs[b] = o.exp[b]
           /\ o.scope \subseteq Branches
<1>1. log \in Seq(Ops) BY DEF Types
<1>2. log' = Append(log, o) BY DEF Execute
<1>3. /\ log' \in Seq(Ops) /\ Len(log') = Len(log) + 1
      /\ log'[Len(log) + 1] = o
      /\ \A i \in 1..Len(log) : log'[i] = log[i]
  BY <1>1, <1>2
<1>4. DOMAIN log = 1..Len(log) /\ DOMAIN log' = 1..(Len(log) + 1) /\ Len(log) \in Nat
  BY <1>1, <1>3
<1>5. o.scope \subseteq Branches
  BY DEF Ops, Scopes, Branches
<1> QED BY <1>3, <1>4, <1>5 DEF Execute, Matches

\* Whatever copy is executed, the branches keep their history.
LEMMA ServerKeeps ==
    ASSUME TransportInv, NEW o \in Known, Execute(o), Known' \subseteq Known
    PROVE  /\ MainYoungest' /\ RefsExecuted' /\ DeletionsDelete' /\ MovesMainOnce'
           /\ Age(refs["main"]) <= Age(refs'["main"])
<1>1. o \in Ops
  BY DEF TransportInv, Known, Types
<1> DEFINE n == Len(log) + 1
<1>2. /\ DOMAIN log = 1..Len(log) /\ DOMAIN log' = 1..n /\ Len(log) \in Nat
      /\ log'[n] = o
      /\ \A i \in DOMAIN log : log'[i] = log[i]
      /\ \A b \in Branches : refs'[b] = IF b \in o.scope THEN o.new[b] ELSE refs[b]
      /\ \A b \in o.scope : refs[b] = o.exp[b]
      /\ o.scope \subseteq Branches
  BY <1>1, ExecuteEffect DEF TransportInv, Types
<1>3. /\ OpWellFormed(o) /\ o.num \in 1..MaxOps
      /\ o.kind \in Kinds /\ MaxOps \in Nat
      /\ refs \in [Branches -> Nat]
  BY <1>1, TransportAssumption DEF TransportInv, CopiesAgree, OpWellFormed, Types, Ops
<1>4. \A i \in DOMAIN log : log[i] \in Known
  BY DEF Known
<1>5. \A b \in o.scope : refs'[b] = IF o.kind = "delete" THEN Absent ELSE o.num
  BY <1>2, <1>3 DEF OpWellFormed
<1>6. CASE "main" \in o.scope
  <2>1. /\ refs'["main"] = o.num /\ Age(refs["main"]) < o.num
        /\ Age(refs'["main"]) = o.num
    BY <1>2, <1>3, <1>5, <1>6 DEF OpWellFormed, Age
  <2>2. Age(refs["main"]) \in Nat
    BY <1>3 DEF Age, Branches
  <2>3. refs'["main"] \in 1..(MaxOps + 1)
    BY <1>3, <2>1
  <2>4. \A q \in Known' : "main" \in q.scope => Age(q.exp["main"]) <= Age(refs'["main"])
    <3> SUFFICES ASSUME NEW q \in Known', "main" \in q.scope
                 PROVE  Age(q.exp["main"]) <= Age(refs'["main"])
      OBVIOUS
    <3>1. q.exp["main"] \in Nat
      BY DEF TransportInv, CopiesAgree, OpWellFormed
    <3> QED BY <2>1, <2>2, <3>1, <1>3 DEF TransportInv, MainYoungest, Age
  <2>5. \A i \in DOMAIN log : "main" \in log[i].scope => log[i].num < o.num
    <3> SUFFICES ASSUME NEW i \in DOMAIN log, "main" \in log[i].scope PROVE log[i].num < o.num
      OBVIOUS
    <3>1. log[i].num <= Age(refs["main"]) /\ log[i].num \in Nat
      BY <1>2, <1>4 DEF TransportInv, MainYoungest, CopiesAgree, OpWellFormed, Types
    <3> QED BY <2>1, <2>2, <3>1, <1>3
  <2>6. \A i \in DOMAIN log' : "main" \in log'[i].scope => log'[i].num <= Age(refs'["main"])
    <3> SUFFICES ASSUME NEW i \in DOMAIN log', "main" \in log'[i].scope
                 PROVE  log'[i].num <= o.num
      BY <2>1
    <3>1. CASE i = n BY <1>2, <1>3, <3>1
    <3>2. CASE i \in DOMAIN log
      <4>1. log[i].num < o.num /\ log[i].num \in Nat
        BY <1>2, <1>4, <2>5, <3>2 DEF TransportInv, CopiesAgree, OpWellFormed, Types
      <4> QED BY <1>2, <1>3, <3>2, <4>1
    <3> QED BY <1>2, <3>1, <3>2
  <2>7. MovesMainOnce'
    <3> SUFFICES ASSUME NEW i \in DOMAIN log', NEW j \in DOMAIN log', i # j,
                        "main" \in log'[i].scope
                 PROVE  log'[i].num # log'[j].num
      BY DEF MovesMainOnce
    <3>1. CASE i \in DOMAIN log /\ j \in DOMAIN log
      BY <1>2, <3>1 DEF TransportInv, MovesMainOnce
    <3>2. CASE i \in DOMAIN log /\ j = n
      <4>1. log[i].num < o.num /\ log[i].num \in Nat
        BY <1>2, <1>4, <2>5, <3>2 DEF TransportInv, CopiesAgree, OpWellFormed, Types
      <4> QED BY <1>2, <1>3, <3>2, <4>1
    <3>3. CASE i = n /\ j \in DOMAIN log
      <4>1. SUFFICES ASSUME log[j].num = o.num PROVE FALSE
        BY <1>2, <3>3
      <4>2. log[j] = o
        BY <1>4, <3>3, <4>1 DEF TransportInv, CopiesAgree
      <4> QED BY <1>3, <1>6, <2>5, <3>3, <4>2
    <3> QED BY <1>2, <3>1, <3>2, <3>3
  <2>8. RefsExecuted'
    BY <1>2, <1>3, <1>5 DEF TransportInv, RefsExecuted
  <2>9. DeletionsDelete'
    <3>1. o.kind = "swap" BY <1>3, <1>6 DEF OpWellFormed
    <3>2. refs'["coord"] = Absent => refs["coord"] = Absent
      BY <1>2, <1>3, <1>5, <3>1 DEF Absent, Branches
    <3>3. DeleteExecuted => DeleteExecuted'
      BY <1>2 DEF DeleteExecuted
    <3> QED BY <3>2, <3>3 DEF TransportInv, DeletionsDelete
  <2> QED BY <1>3, <2>1, <2>2, <2>3, <2>4, <2>6, <2>7, <2>8, <2>9 DEF MainYoungest
<1>7. CASE "main" \notin o.scope
  <2>1. refs'["main"] = refs["main"]
    BY <1>2, <1>7 DEF Branches
  <2>2. MainYoungest'
    BY <1>2, <1>7, <2>1 DEF TransportInv, MainYoungest
  <2>3. MovesMainOnce'
    <3> SUFFICES ASSUME NEW i \in DOMAIN log', NEW j \in DOMAIN log', i # j,
                        "main" \in log'[i].scope
                 PROVE  log'[i].num # log'[j].num
      BY DEF MovesMainOnce
    <3>1. i \in DOMAIN log /\ log'[i] = log[i]
      BY <1>2, <1>7
    <3>2. CASE j \in DOMAIN log
      BY <1>2, <3>1, <3>2 DEF TransportInv, MovesMainOnce
    <3>3. CASE j = n
      BY <1>2, <1>4, <1>7, <3>1, <3>3 DEF TransportInv, CopiesAgree
    <3> QED BY <1>2, <3>2, <3>3
  <2>4. RefsExecuted'
    BY <1>2, <1>3, <1>5 DEF TransportInv, RefsExecuted
  <2>5. DeletionsDelete'
    <3>1. CASE o.kind = "delete"
      BY <1>2, <3>1 DEF DeletionsDelete, DeleteExecuted
    <3>2. CASE o.kind # "delete"
      <4>1. refs'["coord"] = Absent => refs["coord"] = Absent
        BY <1>2, <1>3, <1>5, <3>2 DEF Absent, Branches
      <4>2. DeleteExecuted => DeleteExecuted'
        BY <1>2 DEF DeleteExecuted
      <4> QED BY <4>1, <4>2 DEF TransportInv, DeletionsDelete
    <3> QED BY <3>1, <3>2
  <2>6. Age(refs["main"]) \in Nat
    BY <1>3 DEF Age, Branches
  <2> QED BY <2>1, <2>2, <2>3, <2>4, <2>5, <2>6
<1> QED BY <1>6, <1>7

\* The refs it writes are commits of operations or nothing.
LEMMA ExecuteTyped ==
    ASSUME TransportInv, NEW o \in Known, Execute(o) PROVE refs' \in [Branches -> Nat]
<1>1. refs' = [b \in Branches |-> IF b \in o.scope THEN o.new[b] ELSE refs[b]]
  BY DEF Execute
<1>2. \A b \in o.scope : o.new[b] \in Nat
  BY DEF TransportInv, CopiesAgree, OpWellFormed, Absent, Types
<1> QED BY <1>1, <1>2 DEF TransportInv, Types

\* A step that leaves refs and log alone.
LEMMA InertKeeps ==
    ASSUME TransportInv, UNCHANGED <<refs, log>>, Known' \subseteq Known
    PROVE  /\ MainYoungest' /\ RefsExecuted' /\ DeletionsDelete' /\ MovesMainOnce'
           /\ refs' = refs
  BY DEF TransportInv, MainYoungest, RefsExecuted, DeletionsDelete, DeleteExecuted,
         MovesMainOnce

\* An operation's number and kind stay what they are.
LEMMA CopiesKeep ==
    ASSUME TransportInv, Known' \subseteq Known, count' = count,
           \A n \in 1..count : answers'[n][1] = answers[n][1]
    PROVE  CopiesAgree'
<1>1. \A o \in Known' : OpWellFormed(o)'
  BY DEF TransportInv, CopiesAgree, OpWellFormed
<1> QED BY <1>1 DEF TransportInv, CopiesAgree

-----------------------------------------------------------------------------
\* The beginning and the end of an operation.

\* A new operation has a number of its own and expects what the refs are.
LEMMA BeginKeeps ==
    ASSUME TransportInv, NEW c \in Callers, NEW kind \in Kinds, NEW scope \in Scopes,
           Begin(c, kind, scope),
           kind = "swap" \/ scope = {"coord"},
           kind = "delete" => refs["coord"] # Absent
    PROVE  TransportInv'
<1>0. PICK new : new = [num |-> count + 1, kind |-> kind, scope |-> scope,
                        exp |-> [b \in scope |-> refs[b]],
                        new |-> [b \in scope |-> IF kind = "delete" THEN Absent ELSE count + 1]]
  OBVIOUS
<1>1. /\ Types /\ MaxOps \in Nat /\ count \in Nat /\ count + 1 \in 1..MaxOps
      /\ scope \subseteq Branches
  BY TransportAssumption DEF TransportInv, Types, Begin, Scopes, Branches
<1>2. new \in Ops
  <2>1. [b \in scope |-> refs[b]] \in RefValues
    BY <1>1 DEF RefValues, Types, Scopes
  <2>2. [b \in scope |-> IF kind = "delete" THEN Absent ELSE count + 1] \in RefValues
    BY <1>1 DEF RefValues, Scopes, Absent
  <2> QED BY <1>0, <1>1, <2>1, <2>2 DEF Ops
<1>3. /\ pc[c] = "idle" /\ pc' = [pc EXCEPT ![c] = "push"]
      /\ op' = [op EXCEPT ![c] = new] /\ count' = count + 1
      /\ answers' = Append(answers, <<kind, "open">>)
      /\ UNCHANGED <<refs, delayed, log>>
  BY <1>0 DEF Begin
<1>4. /\ new.num = count + 1 /\ new.kind = kind /\ new.scope = scope
      /\ \A b \in scope : new.exp[b] = refs[b]
      /\ \A b \in scope : new.new[b] = IF kind = "delete" THEN Absent ELSE count + 1
  BY <1>0
<1>5. /\ answers' \in Seq(Kinds \X Results) /\ Len(answers') = count + 1
      /\ answers'[count + 1] = <<kind, "open">>
      /\ \A n \in 1..count : answers'[n] = answers[n]
      /\ DOMAIN answers = 1..count /\ DOMAIN answers' = 1..(count + 1)
  <2>1. answers \in Seq(Kinds \X Results) /\ Len(answers) = count
    BY <1>1 DEF Types
  <2>2. <<kind, "open">> \in Kinds \X Results
    BY DEF Results
  <2> HIDE DEF Kinds, Results
  <2>3. answers' \in Seq(Kinds \X Results) /\ Len(answers') = count + 1
    BY <1>3, <2>1, <2>2, AppendProperties
  <2>4. answers'[count + 1] = <<kind, "open">> /\ \A n \in 1..count : answers'[n] = answers[n]
    BY <1>3, <2>1, <2>2, AppendProperties
  <2> QED BY <2>1, <2>3, <2>4
<1>6. /\ c \notin Active /\ Active' = Active \cup {c}
      /\ op'[c] = new /\ \A d \in Active : op'[d] = op[d]
  BY <1>1, <1>3 DEF Active, Types
<1>7. Known' = Known \cup {new}
  BY <1>3, <1>6 DEF Known
<1>8. Types'
  BY <1>1, <1>2, <1>3, <1>5, <1>6 DEF Types, Active
<1>9. \A o \in Known : OpWellFormed(o) /\ OpWellFormed(o)'
  BY <1>1, <1>3, <1>5 DEF TransportInv, CopiesAgree, OpWellFormed
<1>10. MainYoungest'
  BY <1>1, <1>3, <1>4, <1>7 DEF TransportInv, MainYoungest, Types, Age, Branches
<1>11. CopiesAgree'
  <2>1. OpWellFormed(new)'
    <3>1. "main" \in scope => /\ kind = "swap" /\ new.exp["main"] # Absent
                              /\ Age(new.exp["main"]) < count + 1
      <4> SUFFICES ASSUME "main" \in scope PROVE Age(refs["main"]) < count + 1
        BY <1>1, <1>4 DEF TransportInv, MainYoungest, Absent
      <4>1. CASE refs["main"] = MaxOps + 1
        BY <1>1, <4>1 DEF Age
      <4>2. CASE refs["main"] # MaxOps + 1
        <5>1. refs["main"] \in 1..MaxOps
          BY <1>1, <4>2 DEF TransportInv, MainYoungest
        <5>2. PICK i \in DOMAIN log : log[i].num = refs["main"]
          BY <4>2, <5>1 DEF TransportInv, RefsExecuted, Branches, Absent
        <5>3. log[i] \in Known /\ log[i].num \in 1..count
          BY <1>9, <5>2 DEF Known, OpWellFormed
        <5> QED BY <1>1, <4>2, <5>2, <5>3 DEF Age
      <4> QED BY <4>1, <4>2
    <3>2. \A b \in scope : refs[b] \in Nat
      BY <1>1 DEF Types
    <3>3. new.num \in 1..(count + 1) /\ new.kind = answers'[new.num][1]
      BY <1>1, <1>4, <1>5
    <3> QED BY <1>3, <1>4, <3>1, <3>2, <3>3 DEF OpWellFormed
  <2>2. \A o \in Known : o.num # new.num
    BY <1>1, <1>4, <1>9 DEF OpWellFormed
  <2> QED BY <1>7, <1>9, <2>1, <2>2 DEF TransportInv, CopiesAgree
<1>12. ActiveOpen'
  <2>1. \A d \in Active : op[d] \in Known
    BY DEF Known
  <2>2. \A d \in Active : op[d].num \in 1..count
    BY <1>9, <2>1 DEF OpWellFormed
  <2>3. \A d \in Active' : answers'[op'[d].num][2] = "open"
    BY <1>4, <1>5, <1>6, <2>2 DEF TransportInv, ActiveOpen
  <2>4. \A d, e \in Active' : op'[d].num = op'[e].num => d = e
    BY <1>1, <1>4, <1>6, <2>2 DEF TransportInv, ActiveOpen
  <2> QED BY <2>3, <2>4 DEF ActiveOpen
<1>13. RefsExecuted' /\ MovesMainOnce'
  BY <1>3 DEF TransportInv, RefsExecuted, MovesMainOnce
<1>14. DeletionsDelete'
  BY <1>3, <1>4, <1>7 DEF TransportInv, DeletionsDelete, DeleteExecuted
<1>15. ConflictsStale'
  <2>1. answers'[new.num][2] = "open"
    BY <1>4, <1>5
  <2>2. \A o \in Known : o.num \in 1..count /\ answers'[o.num] = answers[o.num]
    BY <1>5, <1>9 DEF OpWellFormed
  <2> QED BY <1>3, <1>7, <2>1, <2>2 DEF TransportInv, ConflictsStale
<1>16. OkMeansExecuted'
  <2> SUFFICES ASSUME NEW n \in DOMAIN answers', answers'[n][2] = "ok"
               PROVE  \/ Executed(n)' # {}
                      \/ answers'[n][1] = "delete" /\ \E i \in DOMAIN log' : log'[i].kind = "delete"
    BY DEF OkMeansExecuted
  <2>1. n \in DOMAIN answers /\ answers'[n] = answers[n]
    BY <1>1, <1>5
  <2>2. Executed(n)' = Executed(n)
    BY <1>3 DEF Executed
  <2> QED BY <1>3, <2>1, <2>2 DEF TransportInv, OkMeansExecuted
<1> QED
  BY <1>8, <1>10, <1>11, <1>12, <1>13, <1>14, <1>15, <1>16 DEF TransportInv

\* An answer ends one operation and touches no other.
LEMMA AnswerEffect ==
    ASSUME TransportInv, NEW c \in Active, NEW result \in Results, Answer(c, result)
    PROVE  /\ Active' = Active \ {c} /\ \A d \in Active' : op'[d] = op[d]
           /\ op' \in [Callers -> Ops \cup {NoOp}]
           /\ pc' \in [Callers -> {"idle", "push", "reconcile"}]
           /\ answers' \in Seq(Kinds \X Results) /\ Len(answers') = count
           /\ answers'[op[c].num] = <<op[c].kind, result>>
           /\ \A n \in 1..count : n # op[c].num => answers'[n] = answers[n]
           /\ \A n \in 1..count : answers'[n][1] = answers[n][1]
           /\ DOMAIN answers = 1..count /\ DOMAIN answers' = 1..count
<1>1. Types /\ c \in Callers
  BY DEF TransportInv, Active
<1>2. op[c] \in Known /\ op[c].num \in 1..count /\ op[c].kind = answers[op[c].num][1]
  BY DEF TransportInv, CopiesAgree, OpWellFormed, Known
<1>3. PICK n \in 1..count : n = op[c].num
  BY <1>2
<1>4. answers \in Seq(Kinds \X Results) /\ Len(answers) = count /\ DOMAIN answers = 1..count
  BY <1>1 DEF Types
<1>5. answers[n] \in Kinds \X Results
  BY <1>4
<1>6. answers' = [answers EXCEPT ![n] = [answers[n] EXCEPT ![2] = result]]
  BY <1>3 DEF Answer
<1>7. [answers[n] EXCEPT ![2] = result] = <<answers[n][1], result>>
  BY <1>5
<1>8. <<answers[n][1], result>> \in Kinds \X Results
  BY <1>5
<1>9. answers' = [answers EXCEPT ![n] = <<answers[n][1], result>>]
  BY <1>6, <1>7
<1>10. answers' \in Seq(Kinds \X Results) /\ Len(answers') = Len(answers)
  BY <1>4, <1>8, <1>9, ExceptSeq
<1>11. /\ answers'[n] = <<answers[n][1], result>>
       /\ \A m \in 1..count : m # n => answers'[m] = answers[m]
       /\ DOMAIN answers' = 1..count
  BY <1>4, <1>9
<1>12. Active' = Active \ {c} /\ \A d \in Active' : op'[d] = op[d]
  BY <1>1 DEF Answer, Active, Types
<1>13. /\ op' \in [Callers -> Ops \cup {NoOp}]
       /\ pc' \in [Callers -> {"idle", "push", "reconcile"}]
  BY <1>1 DEF Answer, Types
<1>14. \A m \in 1..count : answers'[m][1] = answers[m][1]
  BY <1>11
<1> QED BY <1>2, <1>3, <1>4, <1>10, <1>11, <1>12, <1>13, <1>14

\* After an answer nobody else's operation has become answered or shared.
LEMMA AnswerKeepsActive ==
    ASSUME TransportInv, NEW c \in Active, NEW result \in Results, Answer(c, result)
    PROVE  ActiveOpen'
<1>1. /\ Active' = Active \ {c} /\ \A d \in Active' : op'[d] = op[d]
      /\ \A n \in 1..count : n # op[c].num => answers'[n] = answers[n]
  BY AnswerEffect
<1>2. \A d \in Active : op[d] \in Known /\ op[d].num \in 1..count
  BY DEF TransportInv, CopiesAgree, OpWellFormed, Known
<1>3. \A d \in Active' : op[d].num # op[c].num
  BY <1>1 DEF TransportInv, ActiveOpen
<1> QED BY <1>1, <1>2, <1>3 DEF TransportInv, ActiveOpen

\* A failed push leaves everything but the caller's place as it was.
LEMMA FailsEffect ==
    ASSUME TransportInv, NEW c \in Active, Fails(c)
    PROVE  /\ Active' = Active /\ op' = op /\ answers' = answers
           /\ pc' \in [Callers -> {"idle", "push", "reconcile"}]
  BY DEF Fails, Active, TransportInv, Types

\* The log only grows, so an "ok" that was justified stays justified.
LEMMA OkStays ==
    ASSUME TransportInv, NEW n \in DOMAIN answers, answers[n][2] = "ok",
           answers'[n][1] = answers[n][1],
           log' = log \/ \E o \in Ops : Execute(o)
    PROVE  \/ Executed(n)' # {}
           \/ answers'[n][1] = "delete" /\ \E i \in DOMAIN log' : log'[i].kind = "delete"
<1>1. \A i \in DOMAIN log : i \in DOMAIN log' /\ log'[i] = log[i]
  <2>1. CASE log' = log BY <2>1
  <2>2. ASSUME NEW o \in Ops, Execute(o) 
        PROVE  \A i \in DOMAIN log : i \in DOMAIN log' /\ log'[i] = log[i]
    <3>1. /\ DOMAIN log = 1..Len(log) /\ DOMAIN log' = 1..(Len(log) + 1)
          /\ \A i \in DOMAIN log : log'[i] = log[i]
      BY <2>2, ExecuteEffect DEF TransportInv
    <3>2. Len(log) \in Nat
      BY DEF TransportInv, Types
    <3> QED BY <3>1, <3>2
  <2> QED BY <2>1, <2>2
<1>2. Executed(n) \subseteq Executed(n)'
  BY <1>1 DEF Executed
<1> QED BY <1>1, <1>2 DEF TransportInv, OkMeansExecuted

-----------------------------------------------------------------------------
\* One lemma per action.

\* A push: acknowledged, executed without acknowledgement, or not executed.
LEMMA PushKeeps == ASSUME TransportInv, NEW c \in Callers, Push(c) PROVE TransportInv'
<1>1. /\ c \in Active /\ op[c] \in Known /\ op[c] \in Ops
      /\ OpWellFormed(op[c]) /\ op[c].num \in 1..count /\ op[c].kind \in Kinds
      /\ count' = count /\ DOMAIN answers = 1..count
  BY DEF Push, Active, Known, TransportInv, Types, CopiesAgree, OpWellFormed, Ops
<1>2. CASE Execute(op[c]) /\ Answer(c, "ok") /\ UNCHANGED delayed
  <2>1. /\ Active' = Active \ {c} /\ \A d \in Active' : op'[d] = op[d]
        /\ op' \in [Callers -> Ops \cup {NoOp}]
        /\ pc' \in [Callers -> {"idle", "push", "reconcile"}]
        /\ answers' \in Seq(Kinds \X Results) /\ Len(answers') = count
        /\ answers'[op[c].num] = <<op[c].kind, "ok">>
        /\ \A n \in 1..count : n # op[c].num => answers'[n] = answers[n]
        /\ \A n \in 1..count : answers'[n][1] = answers[n][1]
        /\ DOMAIN answers' = 1..count
    BY <1>1, <1>2, AnswerEffect DEF Results
  <2>2. /\ log' \in Seq(Ops) /\ DOMAIN log = 1..Len(log) /\ DOMAIN log' = 1..(Len(log) + 1)
        /\ log'[Len(log) + 1] = op[c] /\ \A i \in DOMAIN log : log'[i] = log[i]
        /\ \A b \in Branches : refs'[b] = IF b \in op[c].scope THEN op[c].new[b] ELSE refs[b]
        /\ Len(log) \in Nat
    BY <1>1, <1>2, ExecuteEffect DEF TransportInv, Types
  <2>3. Known' \subseteq Known
    <3>1. {op'[d] : d \in Active'} \subseteq {op[d] : d \in Active}
      BY <2>1
    <3>2. {log'[i] : i \in DOMAIN log'} \subseteq {log[i] : i \in DOMAIN log} \cup {op[c]}
      BY <2>2
    <3> QED BY <1>1, <1>2, <3>1, <3>2 DEF Known
  <2>4. Types'
    BY <1>1, <1>2, <2>1, <2>2, ExecuteTyped DEF TransportInv, Types
  <2>5. CopiesAgree'
    BY <1>1, <2>1, <2>3, CopiesKeep
  <2>6. ActiveOpen'
    BY <1>1, <1>2, AnswerKeepsActive DEF Results
  <2>7. /\ MainYoungest' /\ RefsExecuted' /\ DeletionsDelete' /\ MovesMainOnce'
        /\ Age(refs["main"]) <= Age(refs'["main"])
    BY <1>1, <1>2, <2>3, ServerKeeps
  <2>8. ConflictsStale'
    <3> SUFFICES ASSUME NEW o \in Known', o.scope = {"main"}, answers'[o.num][2] = "conflict"
                 PROVE  Age(o.exp["main"]) < Age(refs'["main"])
      BY DEF ConflictsStale
    <3>1. o \in Known /\ OpWellFormed(o)
      BY <2>3 DEF TransportInv, CopiesAgree
    <3>2. o.num # op[c].num
      BY <2>1
    <3>3. answers[o.num][2] = "conflict"
      BY <2>1, <3>1, <3>2 DEF OpWellFormed
    <3>4. Age(o.exp["main"]) < Age(refs["main"])
      BY <3>1, <3>3 DEF TransportInv, ConflictsStale
    <3>5. o.exp["main"] \in Nat /\ refs["main"] \in Nat /\ refs'["main"] \in Nat /\ MaxOps \in Nat
      BY <2>4, <3>1, TransportAssumption DEF OpWellFormed, TransportInv, Types, Branches
    <3> QED BY <2>7, <3>4, <3>5 DEF Age
  <2>9. OkMeansExecuted'
    <3> SUFFICES ASSUME NEW n \in DOMAIN answers', answers'[n][2] = "ok"
                 PROVE  \/ Executed(n)' # {}
                        \/ /\ answers'[n][1] = "delete"
                           /\ \E i \in DOMAIN log' : log'[i].kind = "delete"
      BY DEF OkMeansExecuted
    <3>1. CASE n = op[c].num
      BY <2>2, <3>1 DEF Executed
    <3>2. CASE n # op[c].num
      BY <1>1, <1>2, <2>1, <3>2, OkStays
    <3> QED BY <3>1, <3>2
  <2> QED BY <2>4, <2>5, <2>6, <2>7, <2>8, <2>9 DEF TransportInv
<1>3. CASE Execute(op[c]) /\ Fails(c) /\ UNCHANGED delayed
  <2>1. /\ Active' = Active /\ op' = op /\ answers' = answers
        /\ pc' \in [Callers -> {"idle", "push", "reconcile"}]
    BY <1>1, <1>3, FailsEffect
  <2>2. /\ log' \in Seq(Ops) /\ DOMAIN log = 1..Len(log) /\ DOMAIN log' = 1..(Len(log) + 1)
        /\ log'[Len(log) + 1] = op[c] /\ \A i \in DOMAIN log : log'[i] = log[i]
        /\ Len(log) \in Nat
    BY <1>1, <1>3, ExecuteEffect DEF TransportInv, Types
  <2>3. Known' \subseteq Known
    BY <1>1, <1>3, <2>1, <2>2 DEF Known
  <2>4. Types'
    BY <1>1, <1>3, <2>1, <2>2, ExecuteTyped DEF TransportInv, Types
  <2>5. CopiesAgree'
    BY <1>1, <2>1, <2>3, CopiesKeep
  <2>6. ActiveOpen'
    BY <2>1 DEF TransportInv, ActiveOpen
  <2>7. /\ MainYoungest' /\ RefsExecuted' /\ DeletionsDelete' /\ MovesMainOnce'
        /\ Age(refs["main"]) <= Age(refs'["main"])
    BY <1>1, <1>3, <2>3, ServerKeeps
  <2>8. ConflictsStale'
    <3> SUFFICES ASSUME NEW o \in Known', o.scope = {"main"}, answers[o.num][2] = "conflict"
                 PROVE  Age(o.exp["main"]) < Age(refs'["main"])
      BY <2>1 DEF ConflictsStale
    <3>1. o \in Known /\ OpWellFormed(o)
      BY <2>3 DEF TransportInv, CopiesAgree
    <3>2. Age(o.exp["main"]) < Age(refs["main"])
      BY <3>1 DEF TransportInv, ConflictsStale
    <3>3. o.exp["main"] \in Nat /\ refs["main"] \in Nat /\ refs'["main"] \in Nat /\ MaxOps \in Nat
      BY <2>4, <3>1, TransportAssumption DEF OpWellFormed, TransportInv, Types, Branches
    <3> QED BY <2>7, <3>2, <3>3 DEF Age
  <2>9. OkMeansExecuted'
    BY <1>1, <1>3, <2>1, OkStays DEF OkMeansExecuted
  <2> QED BY <2>4, <2>5, <2>6, <2>7, <2>8, <2>9 DEF TransportInv
<1>4. CASE /\ Fails(c) /\ UNCHANGED <<refs, log>>
           /\ delayed' = delayed \/ delayed' = delayed \cup {op[c]}
  <2>1. /\ Active' = Active /\ op' = op /\ answers' = answers
        /\ pc' \in [Callers -> {"idle", "push", "reconcile"}]
    BY <1>1, <1>4, FailsEffect
  <2>2. Known' \subseteq Known
    BY <1>1, <1>4, <2>1 DEF Known
  <2>3. Types'
    BY <1>1, <1>4, <2>1 DEF TransportInv, Types
  <2>4. CopiesAgree'
    BY <1>1, <2>1, <2>2, CopiesKeep
  <2>5. /\ MainYoungest' /\ RefsExecuted' /\ DeletionsDelete' /\ MovesMainOnce'
    BY <1>4, <2>2, InertKeeps
  <2>6. ActiveOpen' /\ ConflictsStale'
    BY <1>4, <2>1, <2>2 DEF TransportInv, ActiveOpen, ConflictsStale
  <2>7. OkMeansExecuted'
    BY <1>4, <2>1 DEF TransportInv, OkMeansExecuted, Executed
  <2> QED BY <2>3, <2>4, <2>5, <2>6, <2>7 DEF TransportInv
<1> QED BY <1>2, <1>3, <1>4 DEF Push

\* The fresh read after a failure: an answer the refs justify, or the same push again.
LEMMA ReconcileKeeps ==
    ASSUME TransportInv, NEW c \in Callers, Reconcile(c) PROVE TransportInv'
<1>1. /\ c \in Active /\ op[c] \in Known /\ op[c] \in Ops
      /\ OpWellFormed(op[c]) /\ op[c].num \in 1..count /\ op[c].kind \in Kinds
      /\ UNCHANGED <<refs, count, delayed, log>> /\ DOMAIN answers = 1..count
      /\ Len(answers) = count
  BY DEF Reconcile, Active, Known, TransportInv, Types, CopiesAgree, OpWellFormed, Ops
<1>2. ASSUME NEW result \in Results, Answer(c, result),
             result = "ok" => Done(op[c]),
             result = "conflict" => ~Matches(op[c])
      PROVE  TransportInv'
  <2>1. /\ Active' = Active \ {c} /\ \A d \in Active' : op'[d] = op[d]
        /\ op' \in [Callers -> Ops \cup {NoOp}]
        /\ pc' \in [Callers -> {"idle", "push", "reconcile"}]
        /\ answers' \in Seq(Kinds \X Results) /\ Len(answers') = count
        /\ answers'[op[c].num] = <<op[c].kind, result>>
        /\ \A n \in 1..count : n # op[c].num => answers'[n] = answers[n]
        /\ \A n \in 1..count : answers'[n][1] = answers[n][1]
        /\ DOMAIN answers' = 1..count
    BY <1>1, <1>2, AnswerEffect
  <2>2. Known' \subseteq Known
    <3>1. {op'[d] : d \in Active'} \subseteq {op[d] : d \in Active}
      BY <2>1
    <3> QED BY <1>1, <3>1 DEF Known
  <2>3. Types'
    BY <1>1, <2>1 DEF TransportInv, Types
  <2>4. CopiesAgree'
    BY <1>1, <2>1, <2>2, CopiesKeep
  <2>5. ActiveOpen'
    BY <1>1, <1>2, AnswerKeepsActive
  <2>6. /\ MainYoungest' /\ RefsExecuted' /\ DeletionsDelete' /\ MovesMainOnce'
    BY <1>1, <2>2, InertKeeps
  <2>7. ConflictsStale'
    <3> SUFFICES ASSUME NEW o \in Known', o.scope = {"main"}, answers'[o.num][2] = "conflict"
                 PROVE  Age(o.exp["main"]) < Age(refs["main"])
      BY <1>1 DEF ConflictsStale
    <3>1. o \in Known /\ OpWellFormed(o)
      BY <2>2 DEF TransportInv, CopiesAgree
    <3>2. CASE o.num # op[c].num
      <4>1. answers[o.num][2] = "conflict"
        BY <2>1, <3>1, <3>2 DEF OpWellFormed
      <4> QED BY <3>1, <4>1 DEF TransportInv, ConflictsStale
    <3>3. CASE o.num = op[c].num
      <4>1. o = op[c] /\ result = "conflict"
        BY <1>1, <2>1, <3>1, <3>3 DEF TransportInv, CopiesAgree
      <4>2. refs["main"] # o.exp["main"]
        BY <1>2, <4>1 DEF Matches
      <4>3. Age(o.exp["main"]) <= Age(refs["main"]) /\ refs["main"] \in 1..(MaxOps + 1)
        BY <3>1 DEF TransportInv, MainYoungest
      <4>4. o.exp["main"] \in Nat /\ MaxOps \in Nat
        BY <3>1, TransportAssumption DEF OpWellFormed
      <4>5. o.exp["main"] # 0
        BY <3>1 DEF OpWellFormed, Absent
      <4> QED BY <4>2, <4>3, <4>4, <4>5 DEF Age
    <3> QED BY <3>2, <3>3
  <2>8. OkMeansExecuted'
    <3> SUFFICES ASSUME NEW n \in DOMAIN answers', answers'[n][2] = "ok"
                 PROVE  \/ Executed(n)' # {}
                        \/ /\ answers'[n][1] = "delete"
                           /\ \E i \in DOMAIN log' : log'[i].kind = "delete"
      BY DEF OkMeansExecuted
    <3>1. CASE n # op[c].num
      BY <1>1, <2>1, <3>1, OkStays
    <3>2. CASE n = op[c].num /\ op[c].kind = "delete"
      <4>1. "coord" \in op[c].scope
        BY <1>1, <3>2 DEF OpWellFormed, Ops, Scopes, Branches
      <4>2. refs["coord"] = Absent
        BY <1>1, <1>2, <2>1, <3>2, <4>1 DEF Done, OpWellFormed
      <4> QED BY <1>1, <2>1, <3>2, <4>2 DEF TransportInv, DeletionsDelete, DeleteExecuted
    <3>3. CASE n = op[c].num /\ op[c].kind # "delete"
      <4>1. PICK b \in op[c].scope : b \in Branches
        BY <1>1 DEF Ops, Scopes, Branches
      <4>2. refs[b] = n
        BY <1>1, <1>2, <2>1, <3>3, <4>1 DEF Done, OpWellFormed
      <4>3. n \in 1..MaxOps
        BY <1>1, <3>3, TransportAssumption DEF TransportInv, Types
      <4>4. PICK i \in DOMAIN log : log[i].num = n
        BY <4>1, <4>2, <4>3, TransportAssumption DEF TransportInv, RefsExecuted, Absent
      <4> QED BY <1>1, <4>4 DEF Executed
    <3> QED BY <3>1, <3>2, <3>3
  <2> QED BY <2>3, <2>4, <2>5, <2>6, <2>7, <2>8 DEF TransportInv
<1>3. CASE /\ pc' = [pc EXCEPT ![c] = "push"] /\ UNCHANGED <<op, answers>>
  <2>1. Active' = Active /\ pc' \in [Callers -> {"idle", "push", "reconcile"}]
    BY <1>1, <1>3 DEF Active, TransportInv, Types
  <2>2. Known' = Known
    BY <1>1, <1>3, <2>1 DEF Known
  <2>3. Types'
    BY <1>1, <1>3, <2>1 DEF TransportInv, Types
  <2>4. CopiesAgree'
    BY <1>1, <1>3, <2>2, CopiesKeep
  <2>5. /\ MainYoungest' /\ RefsExecuted' /\ DeletionsDelete' /\ MovesMainOnce'
    BY <1>1, <2>2, InertKeeps
  <2>6. ActiveOpen' /\ ConflictsStale'
    BY <1>1, <1>3, <2>1, <2>2 DEF TransportInv, ActiveOpen, ConflictsStale
  <2>7. OkMeansExecuted'
    BY <1>1, <1>3 DEF TransportInv, OkMeansExecuted, Executed
  <2> QED BY <2>3, <2>4, <2>5, <2>6, <2>7 DEF TransportInv
<1>4. CASE Answer(c, "error")
  BY <1>2, <1>4 DEF Results
<1>5. CASE Done(op[c]) /\ Answer(c, "ok")
  BY <1>2, <1>5 DEF Results
<1>6. CASE ~Matches(op[c]) /\ Answer(c, ConflictAnswer(op[c]))
  <2>1. ConflictAnswer(op[c]) \in {"error", "conflict"}
    BY DEF ConflictAnswer
  <2> QED BY <1>2, <1>6, <2>1 DEF Results
<1> QED BY <1>3, <1>4, <1>5, <1>6 DEF Reconcile

\* A push that its sender has given up on.
LEMMA LateKeeps ==
    ASSUME TransportInv, NEW o \in delayed, LateExecute(o) PROVE TransportInv'
<1>1. /\ o \in Known /\ o \in Ops /\ Execute(o) /\ delayed' = delayed \ {o}
      /\ UNCHANGED <<count, op, pc, answers>>
  BY DEF LateExecute, Known, TransportInv, Types
<1>2. /\ log' \in Seq(Ops) /\ DOMAIN log = 1..Len(log) /\ DOMAIN log' = 1..(Len(log) + 1)
      /\ log'[Len(log) + 1] = o /\ \A i \in DOMAIN log : log'[i] = log[i]
      /\ Len(log) \in Nat
  BY <1>1, ExecuteEffect DEF TransportInv, Types
<1>3. Active' = Active
  BY <1>1 DEF Active
<1>4. Known' \subseteq Known
  <2>1. {log'[i] : i \in DOMAIN log'} \subseteq {log[i] : i \in DOMAIN log} \cup {o}
    BY <1>2
  <2> QED BY <1>1, <1>3, <2>1 DEF Known
<1>5. Types'
  BY <1>1, <1>2, <1>3, ExecuteTyped DEF TransportInv, Types
<1>6. CopiesAgree'
  BY <1>1, <1>4, CopiesKeep
<1>7. ActiveOpen'
  BY <1>1, <1>3 DEF TransportInv, ActiveOpen
<1>8. /\ MainYoungest' /\ RefsExecuted' /\ DeletionsDelete' /\ MovesMainOnce'
      /\ Age(refs["main"]) <= Age(refs'["main"])
  BY <1>1, <1>4, ServerKeeps
<1>9. ConflictsStale'
  <2> SUFFICES ASSUME NEW q \in Known', q.scope = {"main"}, answers[q.num][2] = "conflict"
               PROVE  Age(q.exp["main"]) < Age(refs'["main"])
    BY <1>1 DEF ConflictsStale
  <2>1. q \in Known /\ OpWellFormed(q)
    BY <1>4 DEF TransportInv, CopiesAgree
  <2>2. Age(q.exp["main"]) < Age(refs["main"])
    BY <2>1 DEF TransportInv, ConflictsStale
  <2>3. q.exp["main"] \in Nat /\ refs["main"] \in Nat /\ refs'["main"] \in Nat /\ MaxOps \in Nat
    BY <1>5, <2>1, TransportAssumption DEF OpWellFormed, TransportInv, Types, Branches
  <2> QED BY <1>8, <2>2, <2>3 DEF Age
<1>10. OkMeansExecuted'
  BY <1>1, OkStays DEF OkMeansExecuted
<1> QED BY <1>5, <1>6, <1>7, <1>8, <1>9, <1>10 DEF TransportInv

\* Before the first operation.
LEMMA TransportInit == Init => TransportInv
<1> SUFFICES ASSUME Init PROVE TransportInv
  OBVIOUS
<1> USE TransportAssumption DEF Init
<1>1. Active = {} /\ Known = {}
  BY DEF Active, Known
<1>2. Types
  <2>1. <<>> \in Seq(Ops) /\ <<>> \in Seq(Kinds \X Results) /\ Len(<<>>) = 0
    OBVIOUS
  <2> QED BY <1>1, <2>1 DEF Types, Branches, Absent
<1>3. MainYoungest /\ RefsExecuted
  BY <1>1 DEF MainYoungest, RefsExecuted, Branches, Absent
<1>4. CopiesAgree /\ ActiveOpen /\ DeletionsDelete /\ ConflictsStale
  BY <1>1 DEF CopiesAgree, ActiveOpen, DeletionsDelete, ConflictsStale
<1>5. MovesMainOnce /\ OkMeansExecuted
  BY DEF MovesMainOnce, OkMeansExecuted
<1> QED BY <1>2, <1>3, <1>4, <1>5 DEF TransportInv

\* Every step keeps the invariant.
LEMMA TransportNext == TransportInv /\ [Next]_vars => TransportInv'
<1> SUFFICES ASSUME TransportInv, [Next]_vars PROVE TransportInv'
  OBVIOUS
<1>1. ASSUME NEW c \in Callers, Swap(c) PROVE TransportInv'
  BY <1>1, BeginKeeps DEF Swap, Kinds
<1>2. ASSUME NEW c \in Callers, Create(c) PROVE TransportInv'
  BY <1>2, BeginKeeps DEF Create, Kinds, Scopes
<1>3. ASSUME NEW c \in Callers, Delete(c) PROVE TransportInv'
  BY <1>3, BeginKeeps DEF Delete, Kinds, Scopes
<1>4. CASE UNCHANGED vars
  <2>1. Known' = Known /\ Active' = Active
    BY <1>4 DEF vars, Known, Active
  <2>2. Types' /\ ActiveOpen' /\ ConflictsStale'
    BY <1>4, <2>1 DEF vars, TransportInv, Types, ActiveOpen, ConflictsStale
  <2>3. CopiesAgree'
    BY <1>4, <2>1, CopiesKeep DEF vars
  <2>4. MainYoungest' /\ RefsExecuted' /\ DeletionsDelete' /\ MovesMainOnce'
    BY <1>4, <2>1, InertKeeps DEF vars
  <2>5. OkMeansExecuted'
    BY <1>4 DEF vars, TransportInv, OkMeansExecuted, Executed
  <2> QED BY <2>2, <2>3, <2>4, <2>5 DEF TransportInv
<1> QED BY <1>1, <1>2, <1>3, <1>4, PushKeeps, ReconcileKeeps, LateKeeps DEF Next

-----------------------------------------------------------------------------
\* Whatever the pushes' fates, an operation answered "ok" was executed, or its branch
\* was deleted by somebody (push_with_ref_reconciliation).
THEOREM OkAlwaysExecuted == Spec => []OkMeansExecuted
<1>1. TransportInv => OkMeansExecuted
  BY DEF TransportInv
<1> QED BY <1>1, TransportInit, TransportNext, PTL DEF Spec

\* Whatever copies of a push arrive, the cache branch moves once for it
\* (--force-with-lease with the expectation of the first attempt).
THEOREM MainMovesOnce == Spec => []MovesMainOnce
<1>1. TransportInv => MovesMainOnce
  BY DEF TransportInv
<1> QED BY <1>1, TransportInit, TransportNext, PTL DEF Spec

\* After a conflict of a push to the cache branch none of its copies is executed.
THEOREM ConflictsAreFinal == Spec => ConflictIsFinal
<1> DEFINE A == \A n \in DOMAIN answers :
                   answers[n][2] = "conflict" /\ log' # log =>
                       LET o == log'[Len(log')] IN o.num = n => o.scope # {"main"}
<1>1. TransportInv /\ [Next]_vars => [A]_vars
  <2> SUFFICES ASSUME TransportInv, Next, NEW n \in DOMAIN answers,
                      answers[n][2] = "conflict", log' # log,
                      log'[Len(log')].num = n, log'[Len(log')].scope = {"main"}
               PROVE  FALSE
    OBVIOUS
  <2>1. PICK o \in Known : Execute(o)
    <3>1. ASSUME NEW c \in Callers, Push(c) PROVE \E q \in Known : Execute(q)
      BY <3>1 DEF Push, Known, Active
    <3>2. ASSUME NEW o \in delayed, LateExecute(o) PROVE \E q \in Known : Execute(q)
      BY <3>2 DEF LateExecute, Known
    <3> QED BY <3>1, <3>2 DEF Next, Swap, Create, Delete, Begin, Reconcile
  <2>2. o \in Ops
    BY DEF TransportInv, Known, Types
  <2>3. Len(log') = Len(log) + 1 /\ log'[Len(log) + 1] = o /\ Matches(o)
    BY <2>1, <2>2, ExecuteEffect DEF TransportInv, Execute
  <2>4. o.num = n /\ o.scope = {"main"}
    BY <2>3
  <2>5. Age(o.exp["main"]) < Age(refs["main"]) /\ refs["main"] = o.exp["main"]
    BY <2>3, <2>4 DEF TransportInv, ConflictsStale, Matches
  <2>6. Age(refs["main"]) \in Nat
    BY TransportAssumption DEF TransportInv, Types, Age, Branches
  <2> QED BY <2>5, <2>6
<1>2. Spec => [][A]_vars
  BY <1>1, TransportInit, TransportNext, PTL DEF Spec
<1> QED BY <1>2 DEF ConflictIsFinal
=============================================================================
