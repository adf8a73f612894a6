------------------------ MODULE BatchAccountingProofs ------------------------
(***************************************************************************)
(* The ledger loop, the batch planner and the accounting of a publication, *)
(* for all totals, document lengths, capacities, limits and parts.         *)
(***************************************************************************)
EXTENDS BatchAccounting, Enumerations, SequenceTheorems

-----------------------------------------------------------------------------
\* The ledger counts itself

\* Until the batch is admitted the caller keeps the old ledger; an admitted ledger
\* is the candidate whose own length was counted in it.
Settled ==
    /\ status # "ok" => new = old
    /\ status = "ok" => /\ new = Candidate
                        /\ Length(Candidate) = size
                        /\ new.payload + new.metadata <= Capacity
    /\ old.payload + old.metadata <= Capacity

\* Before the first attempt nothing is committed.
LEMMA SettledInit == Init => Settled
  BY DEF Init, Settled

\* Neither another attempt nor the settling one breaks Settled.
LEMMA SettledNext == Settled /\ [Next]_vars => Settled'
<1> SUFFICES ASSUME Settled, [Next]_vars PROVE Settled'
  OBVIOUS
<1>1. CASE Retry
  BY <1>1 DEF Retry, Settled
<1>2. CASE Settle
  <2>1. Candidate' = Candidate /\ Length(Candidate)' = Length(Candidate)
    BY <1>2 DEF Settle, Candidate, Length
  <2>2. CASE Candidate.payload + Candidate.metadata <= Capacity
    BY <1>2, <2>1, <2>2 DEF Settle, Settled
  <2>3. CASE ~(Candidate.payload + Candidate.metadata <= Capacity)
    BY <1>2, <2>3 DEF Settle, Settled
  <2> QED
    BY <2>2, <2>3
<1>3. CASE UNCHANGED vars
  <2>1. Candidate' = Candidate /\ Length(Candidate)' = Length(Candidate)
    BY <1>3 DEF vars, Candidate, Length
  <2> QED
    BY <1>3, <2>1 DEF vars, Settled
<1> QED
  BY <1>1, <1>2, <1>3 DEF Next

\* Whatever the totals, a committed ledger counts its own document to the byte.
THEOREM LedgerAlwaysCountsItself == Spec => []LedgerCountsItself
<1>1. Settled => LedgerCountsItself
  BY DEF Settled, LedgerCountsItself, Candidate, Length
<1> QED
  BY <1>1, SettledInit, SettledNext, PTL DEF Spec

\* Whatever the totals, an admitted batch and its ledger fit the capacity.
THEOREM CapacityAlwaysRespected == Spec => []AdmittedWithinCapacity
<1>1. Settled => AdmittedWithinCapacity
  BY DEF Settled, AdmittedWithinCapacity
<1> QED
  BY <1>1, SettledInit, SettledNext, PTL DEF Spec

-----------------------------------------------------------------------------
\* The ledger's length

LEMMA PowersAre ==
    /\ Power[0] = 1
    /\ \A k \in 1..19 : Power[k] = 10 * Power[k - 1]
<1> DEFINE F(g) == [k \in 0..19 |-> IF k = 0 THEN 1 ELSE 10 * g[k - 1]]
           s == [i \in 1..19 |-> [x \in Nat |-> 10 * x]]
<1>1. s \in [1..19 -> [Nat -> Nat]]
  OBVIOUS
<1>2. PICK g \in [0..19 -> Nat] : g[0] = 1 /\ \A i \in 1..19 : g[i] = s[i][g[i - 1]]
  <2> HIDE DEF s
  <2>1. \E g \in [0..19 -> Nat] : IsFold(g, 19, 1, s)
    BY <1>1, FoldExists
  <2>2. QED
    BY <2>1 DEF IsFold
<1>3. ASSUME NEW i \in 1..19 PROVE g[i] = 10 * g[i - 1]
  <2>1. g[i - 1] \in Nat
    OBVIOUS
  <2>2. s[i][g[i - 1]] = 10 * g[i - 1]
    BY <2>1
  <2>3. QED
    BY <1>2, <2>2
<1>4. PICK h : h = (CHOOSE x : x = F(x))
  OBVIOUS
<1>5. h = F(h)
  <2>1. PICK G : G = F(g)
    OBVIOUS
  <2>2. DOMAIN G = 0..19 /\ G = [i \in DOMAIN G |-> G[i]] /\ \A i \in 0..19 : G[i] = g[i]
    BY <1>2, <1>3, <2>1
  <2>3. g = F(g)
    BY <2>1, <2>2
  <2>4. QED
    BY <1>4, <2>3
<1>6. Power = h
  BY <1>4 DEF Power
<1>7. QED
  BY <1>5, <1>6

\* Powers grow, and by 90 at least from the first on.
LEMMA PowersGrow ==
    /\ \A k \in 0..19 : Power[k] \in Nat /\ Power[k] >= 1
    /\ \A j, k \in 0..19 : j <= k => Power[j] <= Power[k]
    /\ \A k \in 1..18 : Power[k + 1] >= Power[k] + 90
<1> DEFINE Done == {n \in Nat : n <= 19 =>
                       /\ Power[n] \in Nat /\ Power[n] >= 1
                       /\ \A j \in 0..n : Power[j] <= Power[n]}
<1>1. 0 \in Done
  BY PowersAre
<1>2. ASSUME NEW n \in Nat, n \in Done PROVE n + 1 \in Done
  <2> SUFFICES ASSUME n + 1 <= 19
               PROVE  /\ Power[n + 1] \in Nat /\ Power[n + 1] >= 1
                      /\ \A j \in 0..(n + 1) : Power[j] <= Power[n + 1]
    OBVIOUS
  <2>1. Power[n + 1] = 10 * Power[n]
    <3>1. n + 1 \in 1..19 /\ (n + 1) - 1 = n
      OBVIOUS
    <3>2. Power[n + 1] = 10 * Power[(n + 1) - 1]
      BY <3>1, PowersAre
    <3>3. QED
      BY <3>1, <3>2
  <2>2. Power[n] \in Nat /\ Power[n] >= 1 /\ \A j \in 0..n : Power[j] <= Power[n]
    BY <1>2
  <2>3. Power[n + 1] \in Nat /\ Power[n] <= Power[n + 1] /\ Power[n + 1] >= 1
    BY <2>1, <2>2
  <2>4. ASSUME NEW j \in 0..(n + 1) PROVE Power[j] <= Power[n + 1]
    <3>1. CASE j = n + 1
      BY <2>3, <3>1
    <3>2. CASE j \in 0..n
      <4>1. PICK i \in Nat : i <= n /\ i = j
        BY <3>2
      <4>2. i <= 19 /\ i \in 0..n
        BY <4>1
      <4>3. Power[j] <= Power[n]
        BY <2>2, <3>2
      <4>4. CASE j = n
        BY <2>3, <4>4
      <4>5. CASE j # n
        <5>1. Power[j] \in Nat
          <6> DEFINE Typed == {m \in Nat : m <= 19 => Power[m] \in Nat}
          <6>1. 0 \in Typed
            BY PowersAre
          <6>2. ASSUME NEW m \in Nat, m \in Typed PROVE m + 1 \in Typed
            <7> SUFFICES ASSUME m + 1 <= 19 PROVE Power[m + 1] \in Nat
              OBVIOUS
            <7>1. m + 1 \in 1..19 /\ (m + 1) - 1 = m
              OBVIOUS
            <7>2. Power[m + 1] = 10 * Power[(m + 1) - 1]
              BY <7>1, PowersAre
            <7>3. QED
              BY <6>2, <7>1, <7>2
          <6>3. i \in Typed
            <7> HIDE DEF Typed
            <7> QED BY <6>1, <6>2, SetInduction
          <6>4. QED
            BY <4>1, <4>2, <6>3
        <5>2. QED
          BY <2>2, <2>3, <4>3, <5>1
      <4>6. QED
        BY <4>4, <4>5
    <3>3. QED
      BY <3>1, <3>2
  <2>5. QED
    BY <2>3, <2>4
<1>3. \A n \in Nat : n \in Done
  <2> HIDE DEF Done
  <2> QED BY <1>1, <1>2, SetInduction
<1>4. \A k \in 0..19 : Power[k] \in Nat /\ Power[k] >= 1
  BY <1>3
<1>5. ASSUME NEW j \in 0..19, NEW k \in 0..19, j <= k PROVE Power[j] <= Power[k]
  <2>1. k \in Done /\ j \in 0..k
    BY <1>3, <1>5
  <2>2. QED
    BY <2>1
<1>6. ASSUME NEW k \in 1..18 PROVE Power[k + 1] >= Power[k] + 90
  <2>1. k + 1 \in 1..19 /\ (k + 1) - 1 = k /\ k \in 0..19 /\ 1 \in 0..19
    OBVIOUS
  <2>2. Power[k + 1] = 10 * Power[(k + 1) - 1]
    BY <2>1, PowersAre
  <2>3. Power[1] = 10 * Power[1 - 1] /\ 1 - 1 = 0
    BY PowersAre
  <2>4. Power[1] <= Power[k] /\ Power[k] \in Nat
    BY <1>4, <1>5, <2>1
  <2>5. Power[1] = 10
    BY <2>3, PowersAre
  <2>6. QED
    BY <2>1, <2>2, <2>4, <2>5
<1>7. QED
  BY <1>4, <1>5, <1>6

\* Every number has digits.
LEMMA DigitsAre ==
    ASSUME NEW n \in Nat, NEW d, d = Digits(n)
    PROVE  /\ d \in 1..20 /\ (d = 20 \/ n < Power[d]) /\ (d = 1 \/ Power[d - 1] <= n)
<1>1. PICK S : S = {k \in 1..20 : k = 20 \/ n < Power[k]}
  OBVIOUS
<1>2. 20 \in S /\ S \in SUBSET Nat
  BY <1>1
<1>3. PICK k \in S : \A j \in S : k <= j
  BY <1>2, LeastNatural
<1>4. k \in 1..20 /\ (k = 20 \/ n < Power[k])
  BY <1>1
<1>5. k = 1 \/ Power[k - 1] <= n
  <2> SUFFICES ASSUME k # 1 PROVE Power[k - 1] <= n
    OBVIOUS
  <2>1. k - 1 \in 1..20 /\ k - 1 # 20 /\ k - 1 \in 0..19
    BY <1>4
  <2>2. k - 1 \notin S
    BY <1>3, <1>4, <2>1
  <2>3. ~(n < Power[k - 1]) /\ Power[k - 1] \in Nat
    BY <1>1, <2>1, <2>2, PowersGrow
  <2>4. QED
    BY <2>3
<1>6. QED
  BY <1>4, <1>5 DEF Digits

\* A larger number has as many digits at least.
LEMMA DigitsGrow ==
    ASSUME NEW m \in Nat, NEW n \in Nat, m <= n
    PROVE  Digits(m) <= Digits(n)
<1>1. PICK c, d : c = Digits(m) /\ d = Digits(n)
  OBVIOUS
<1>2. /\ c \in 1..20 /\ (c = 1 \/ Power[c - 1] <= m)
      /\ d \in 1..20 /\ (d = 20 \/ n < Power[d])
  BY <1>1, DigitsAre
<1>3. ASSUME d < c PROVE FALSE
  <2>1. c - 1 \in 0..19 /\ d \in 0..19 /\ d <= c - 1 /\ c # 1 /\ d # 20
    BY <1>2, <1>3
  <2>2. Power[d] <= Power[c - 1] /\ Power[d] \in Nat /\ Power[c - 1] \in Nat
    BY <2>1, PowersGrow
  <2>3. QED
    BY <1>2, <2>1, <2>2
<1>4. c <= d
  BY <1>2, <1>3
<1>5. QED
  BY <1>1, <1>4

\* A few bytes more are a digit more at most, and then the next few are none.
LEMMA DigitsStep ==
    ASSUME NEW m \in Nat, NEW x \in 0..60
    PROVE  Digits(m + x) <= Digits(m) + 1
<1>1. PICK n, c, d : n = m + x /\ c = Digits(m) /\ d = Digits(n)
  OBVIOUS
<1>2. n \in Nat /\ n = m + x /\ x <= 60
  BY <1>1
<1>3. /\ c \in 1..20 /\ (c = 20 \/ m < Power[c])
      /\ d \in 1..20 /\ (d = 1 \/ Power[d - 1] <= n)
  BY <1>1, <1>2, DigitsAre
<1>4. ASSUME d > c + 1 PROVE FALSE
  <2>1. c \in 1..18 /\ c + 1 \in 0..19 /\ d - 1 \in 0..19 /\ c + 1 <= d - 1 /\ d # 1 /\ c # 20
        /\ c \in 0..19
    BY <1>3, <1>4
  <2>2. Power[c + 1] <= Power[d - 1] /\ Power[c + 1] >= Power[c] + 90
    BY <2>1, PowersGrow
  <2>3. Power[c] \in Nat /\ Power[c + 1] \in Nat /\ Power[d - 1] \in Nat
    BY <2>1, PowersGrow
  <2>4. m < Power[c] /\ Power[d - 1] <= m + x
    BY <1>2, <1>3, <2>1
  <2>5. QED
    BY <1>2, <2>2, <2>3, <2>4
<1>5. d <= c + 1
  BY <1>3, <1>4
<1>6. QED
  BY <1>1, <1>5

\* The length the loop finds when it has counted s bytes for the document.
Found(p, m, s) == Fixed + Digits(p) + Digits(m + s)

\* The fourth length is the third: the first guess leaves the document out, the second and the
\* third differ by the digits that the document itself adds, and at most one digit is left to add.
LEMMA FourthIsThird ==
    ASSUME NEW p \in Nat, NEW m \in Nat, NEW a, NEW b, NEW c,
           a = Found(p, m, 0), b = Found(p, m, a), c = Found(p, m, b)
    PROVE  a \in Nat /\ b \in Nat /\ c \in Nat /\ Found(p, m, c) = c
<1>0. PICK f, d1 : f = Fixed + Digits(p) /\ d1 = Digits(m + 0)
  OBVIOUS
<1>1. f \in Nat /\ d1 \in 1..20
  BY <1>0, DigitsAre, LedgerAssumption
<1>2. a = f + d1 /\ a \in Nat
  BY <1>0, <1>1 DEF Found
<1>3. PICK n, d2 : n = m + a /\ d2 = Digits(n) /\ n \in Nat
  BY <1>2
<1>4. d2 \in 1..20 /\ d1 <= d2
  <2>1. m + 0 \in Nat /\ m + 0 <= n
    BY <1>2, <1>3
  <2>2. QED
    BY <1>0, <1>3, <2>1, DigitsAre, DigitsGrow
<1>5. b = f + d2 /\ b \in Nat
  BY <1>0, <1>1, <1>3, <1>4 DEF Found
<1>6. PICK e, d3 : e = d2 - d1 /\ d3 = Digits(n + e) /\ e \in 0..19
  BY <1>1, <1>4
<1>7. m + b = n + e
  BY <1>1, <1>2, <1>3, <1>4, <1>5, <1>6
<1>8. c = f + d3
  BY <1>0, <1>6, <1>7 DEF Found
<1>9. d3 \in 1..20 /\ d2 <= d3 /\ d3 <= d2 + 1
  <2>1. n + e \in Nat /\ n <= n + e /\ e \in 0..60
    BY <1>3, <1>6
  <2>2. QED
    BY <1>3, <1>6, <2>1, DigitsAre, DigitsGrow, DigitsStep
<1>10. c \in Nat
  BY <1>1, <1>8, <1>9
<1>11. PICK x, d4 : x = e + (d3 - d2) /\ d4 = Digits(n + x) /\ x \in 0..60
  BY <1>4, <1>6, <1>9
<1>12. m + c = n + x
  BY <1>1, <1>2, <1>3, <1>4, <1>6, <1>8, <1>9, <1>11
<1>13. d4 \in 1..20 /\ d3 <= d4 /\ d4 <= d2 + 1
  <2>1. e <= x
    BY <1>4, <1>6, <1>9, <1>11
  <2>2. n + x \in Nat /\ n + e \in Nat /\ n + e <= n + x
    BY <1>3, <1>6, <1>11, <2>1
  <2>3. QED
    BY <1>3, <1>6, <1>11, <2>2, DigitsAre, DigitsGrow, DigitsStep
<1>14. CASE d3 = d2
  <2>1. x = e
    BY <1>4, <1>6, <1>11, <1>14
  <2>2. d4 = d3
    BY <1>6, <1>11, <2>1
  <2>3. QED
    BY <1>0, <1>2, <1>5, <1>8, <1>10, <1>11, <1>12, <2>2 DEF Found
<1>15. CASE d3 = d2 + 1
  <2>1. d4 = d3
    BY <1>4, <1>9, <1>13, <1>15
  <2>2. QED
    BY <1>0, <1>2, <1>5, <1>8, <1>10, <1>11, <1>12, <2>1 DEF Found
<1>16. QED
  BY <1>4, <1>9, <1>14, <1>15

\* What the loop has counted after each attempt.
Attempts ==
    LET p == old.payload + added.payload
        m == old.metadata + added.metadata
        a == Found(p, m, 0)
        b == Found(p, m, a)
    IN  /\ tries \in 0..3
        /\ tries = 0 => size = 0
        /\ tries = 1 => size = a
        /\ tries = 2 => size = b
        /\ tries = 3 => size = Found(p, m, b)

Counts == [payload : Nat, metadata : Nat]

Converging ==
    /\ new \in Counts
    /\ status = "run" => old \in Counts /\ added \in Counts /\ size \in Nat /\ Attempts

\* An attempt either settles or counts the next length.
LEMMA ConvergingNext == ASSUME Converging, Next PROVE Converging'
<1>1. status = "run" /\ old \in Counts /\ added \in Counts /\ size \in Nat /\ Attempts /\ new \in Counts
  BY DEF Next, Retry, Settle, Converging
<1>2. PICK p, m, a, b, c :
         /\ p = old.payload + added.payload /\ m = old.metadata + added.metadata
         /\ a = Found(p, m, 0) /\ b = Found(p, m, a) /\ c = Found(p, m, b)
  OBVIOUS
<1>3. p \in Nat /\ m \in Nat
  BY <1>1, <1>2 DEF Counts
<1>4. a \in Nat /\ b \in Nat /\ c \in Nat /\ Found(p, m, c) = c
  BY <1>2, <1>3, FourthIsThird
<1>5. Length(Candidate) = Found(p, m, size)
  BY <1>2 DEF Length, Candidate, Found
<1>6. /\ tries \in 0..3 /\ (tries = 0 => size = 0) /\ (tries = 1 => size = a)
      /\ (tries = 2 => size = b) /\ (tries = 3 => size = c)
  BY <1>1, <1>2 DEF Attempts
<1>7. CASE Retry
  <2>1. /\ size' = Found(p, m, size) /\ tries' = tries + 1 /\ Found(p, m, size) # size
        /\ UNCHANGED <<old, added, new, status>>
    BY <1>5, <1>7 DEF Retry
  <2>2. tries # 3
    BY <1>4, <1>6, <2>1
  <2>3. /\ tries' \in 0..3 /\ (tries' = 0 => size' = 0) /\ (tries' = 1 => size' = a)
        /\ (tries' = 2 => size' = b) /\ (tries' = 3 => size' = c)
    <3>1. CASE tries = 0
      BY <1>2, <1>6, <2>1, <3>1
    <3>2. CASE tries = 1
      BY <1>2, <1>6, <2>1, <3>2
    <3>3. CASE tries = 2
      BY <1>2, <1>6, <2>1, <3>3
    <3>4. QED
      BY <1>6, <2>2, <3>1, <3>2, <3>3
  <2>4. size' \in Nat
    BY <1>4, <2>1, <2>2, <2>3, <1>6
  <2>5. Attempts'
    <3>1. old' = old /\ added' = added
      BY <2>1
    <3>2. QED
      BY <1>2, <2>3, <3>1 DEF Attempts, Found, Digits, Power
  <2>6. QED
    BY <1>1, <2>1, <2>4, <2>5 DEF Converging
<1>8. CASE Settle
  <2>1. status' # "run" /\ (new' = Candidate \/ new' = new)
    BY <1>8 DEF Settle
  <2>2. Candidate \in Counts
    BY <1>1 DEF Candidate, Counts
  <2>3. QED
    BY <1>1, <2>1, <2>2 DEF Converging
<1>9. QED
  BY <1>7, <1>8 DEF Next

\* In whatever state the publication is, a ledger that is being counted has an attempt left.
LEMMA ConvergingIsEnough == Converging => LengthConverges
  BY LedgerAssumption DEF Converging, Attempts, LengthConverges

-----------------------------------------------------------------------------
\* Selections

Within(seq, X, n) == \A i \in 1..n : seq[i] \in X

\* The recursion, step by step.
Selects(g, seq, S, n) ==
    /\ g[0] = <<>> /\ SelectedTo(seq, S, n) = g[n]
    /\ \A i \in 1..n : g[i] = IF i \in S THEN Append(g[i - 1], seq[i]) ELSE g[i - 1]

LEMMA SelectedRun ==
    ASSUME NEW n \in Nat, NEW seq, NEW X, NEW S, Within(seq, X, n)
    PROVE  \E g \in [0..n -> Seq(X)] : Selects(g, seq, S, n)
<1> DEFINE s == [i \in 1..n |-> [x \in Seq(X) |-> IF i \in S THEN Append(x, seq[i]) ELSE x]]
           F(g) == [i \in 0..n |-> IF i = 0 THEN <<>>
                                   ELSE IF i \in S THEN Append(g[i - 1], seq[i])
                                   ELSE g[i - 1]]
<1>1. s \in [1..n -> [Seq(X) -> Seq(X)]]
  BY DEF Within
<1>2. PICK g \in [0..n -> Seq(X)] : g[0] = <<>> /\ \A i \in 1..n : g[i] = s[i][g[i - 1]]
  <2> HIDE DEF s
  <2>0. <<>> \in Seq(X)
    OBVIOUS
  <2>1. PICK none \in Seq(X) : none = <<>>
    BY <2>0
  <2>2. \E g \in [0..n -> Seq(X)] : IsFold(g, n, none, s)
    BY <1>1, FoldExists
  <2>3. QED
    BY <2>1, <2>2 DEF IsFold
<1>3. ASSUME NEW i \in 1..n PROVE g[i] = IF i \in S THEN Append(g[i - 1], seq[i]) ELSE g[i - 1]
  <2>1. g[i - 1] \in Seq(X)
    OBVIOUS
  <2>2. s[i][g[i - 1]] = IF i \in S THEN Append(g[i - 1], seq[i]) ELSE g[i - 1]
    BY <2>1
  <2>3. QED
    BY <1>2, <2>2
<1>4. PICK h : h = (CHOOSE x : x = F(x))
  OBVIOUS
<1>5. h = F(h)
  <2>1. PICK G : G = F(g)
    OBVIOUS
  <2>2. DOMAIN G = 0..n /\ G = [i \in DOMAIN G |-> G[i]] /\ \A i \in 0..n : G[i] = g[i]
    <3> HIDE DEF s
    <3>1. DOMAIN G = 0..n /\ G = [i \in DOMAIN G |-> G[i]]
      BY <2>1
    <3>2. ASSUME NEW i \in 0..n PROVE G[i] = g[i]
      <4>1. CASE i = 0
        BY <1>2, <2>1, <4>1
      <4>2. CASE i # 0
        <5>1. i \in 1..n
          BY <4>2
        <5>2. G[i] = IF i \in S THEN Append(g[i - 1], seq[i]) ELSE g[i - 1]
          BY <2>1, <5>1
        <5>3. QED
          BY <1>3, <5>1, <5>2
      <4>3. QED
        BY <4>1, <4>2
    <3>3. QED
      BY <3>1, <3>2
  <2>3. g = F(g)
    BY <2>1, <2>2
  <2>4. QED
    BY <1>4, <2>3
<1>6. SelectedTo(seq, S, n) = h[n]
  BY <1>4 DEF SelectedTo
<1>7. h[0] = <<>> /\ \A i \in 1..n : h[i] = IF i \in S THEN Append(h[i - 1], seq[i]) ELSE h[i - 1]
  <2> HIDE DEF s
  <2>1. \A i \in 0..n : h[i] = IF i = 0 THEN <<>>
                               ELSE IF i \in S THEN Append(h[i - 1], seq[i]) ELSE h[i - 1]
    BY <1>5
  <2>2. QED
    BY <2>1
<1>8. h[n] = g[n]
  <2> HIDE DEF F, s
  <2>1. \A i \in 1..n : h[i - 1] = g[i - 1] => h[i] = g[i]
    BY <1>3, <1>7
  <2>2. h[0] = g[0]
    BY <1>2, <1>7
  <2>3. QED
    BY <2>1, <2>2, SameRun
<1>9. QED
  BY <1>2, <1>3, <1>6, <1>8 DEF Selects

LEMMA SelectedType ==
    ASSUME NEW n \in Nat, NEW seq, NEW X, NEW S, Within(seq, X, n)
    PROVE  SelectedTo(seq, S, n) \in Seq(X)
  BY SelectedRun DEF Selects

LEMMA SelectedOfNone == ASSUME NEW seq, NEW S PROVE SelectedTo(seq, S, 0) = <<>>
<1>1. PICK X : Within(seq, X, 0)
  BY DEF Within
<1>2. QED
  BY <1>1, SelectedRun DEF Selects

\* Two selections of the same first n members.
LEMMA SelectedSame ==
    ASSUME NEW n \in Nat, NEW seq, NEW other, NEW S, NEW T,
           \A i \in 1..n : seq[i] = other[i] /\ (i \in S <=> i \in T)
    PROVE  SelectedTo(seq, S, n) = SelectedTo(other, T, n)
<1>1. PICK X : X = {seq[i] : i \in 1..n}
  OBVIOUS
<1>2. Within(seq, X, n) /\ Within(other, X, n)
  BY <1>1 DEF Within
<1>3. PICK g \in [0..n -> Seq(X)] : Selects(g, seq, S, n)
  BY <1>2, SelectedRun
<1>4. PICK h \in [0..n -> Seq(X)] : Selects(h, other, T, n)
  BY <1>2, SelectedRun
<1>5. \A i \in 1..n : h[i - 1] = g[i - 1] => h[i] = g[i]
  BY <1>3, <1>4 DEF Selects
<1>6. h[0] = g[0]
  BY <1>3, <1>4 DEF Selects
<1>7. h[n] = g[n]
  BY <1>5, <1>6, SameRun
<1>8. QED
  BY <1>3, <1>4, <1>7 DEF Selects

\* One position more.
LEMMA SelectedOfMore ==
    ASSUME NEW n \in Nat, NEW seq, NEW S
    PROVE  SelectedTo(seq, S, n + 1) = IF n + 1 \in S THEN Append(SelectedTo(seq, S, n), seq[n + 1])
                                       ELSE SelectedTo(seq, S, n)
<1>1. PICK X : X = {seq[i] : i \in 1..(n + 1)}
  OBVIOUS
<1>2. Within(seq, X, n + 1) /\ Within(seq, X, n) /\ n + 1 \in Nat
  BY <1>1 DEF Within
<1>3. PICK g \in [0..n -> Seq(X)] : Selects(g, seq, S, n)
  BY <1>2, SelectedRun
<1>4. PICK m : m = n + 1 /\ m \in Nat /\ Within(seq, X, m)
  BY <1>2
<1>5. PICK h \in [0..m -> Seq(X)] : Selects(h, seq, S, m)
  BY <1>4, SelectedRun
<1>6. ASSUME NEW i \in 1..n, h[i - 1] = g[i - 1] PROVE h[i] = g[i]
  <2>1. i \in 1..m
    BY <1>4
  <2>2. h[i] = IF i \in S THEN Append(h[i - 1], seq[i]) ELSE h[i - 1]
    BY <1>5, <2>1 DEF Selects
  <2>3. g[i] = IF i \in S THEN Append(g[i - 1], seq[i]) ELSE g[i - 1]
    BY <1>3 DEF Selects
  <2>4. QED
    BY <1>6, <2>2, <2>3
<1>7. h[0] = g[0]
  BY <1>3, <1>5 DEF Selects
<1>8. h[n] = g[n]
  BY <1>6, <1>7, SameRun
<1>9. m \in 1..m /\ m - 1 = n
  BY <1>4
<1>10. h[m] = IF m \in S THEN Append(h[n], seq[m]) ELSE h[n]
  BY <1>5, <1>9 DEF Selects
<1>11. QED
  BY <1>3, <1>4, <1>5, <1>8, <1>10 DEF Selects

\* What is selected from a concatenation.
LEMMA SelectedOfConcat ==
    ASSUME NEW X, NEW s \in Seq(X), NEW t \in Seq(X), NEW S, NEW T,
           \A i \in 1..Len(t) : i \in T <=> Len(s) + i \in S
    PROVE  Selected(s \o t, S) = Selected(s, S) \o Selected(t, T)
<1>1. PICK n, m, u, r : n = Len(s) /\ m = Len(t) /\ u = s \o t /\ r = SelectedTo(s, S, n)
  OBVIOUS
<1>2. /\ n \in Nat /\ m \in Nat /\ Len(u) = n + m /\ u \in Seq(X)
      /\ (\A i \in 1..n : u[i] = s[i]) /\ \A i \in 1..m : u[n + i] = t[i]
  <2>1. /\ n \in Nat /\ m \in Nat /\ Len(u) = n + m /\ u \in Seq(X)
        /\ \A i \in 1..(n + m) : u[i] = IF i <= n THEN s[i] ELSE t[i - n]
    BY <1>1, ConcatProperties
  <2>2. ASSUME NEW i \in 1..m PROVE u[n + i] = t[i]
    <3>1. n + i \in 1..(n + m) /\ ~(n + i <= n) /\ (n + i) - n = i
      BY <2>1
    <3>2. QED
      BY <2>1, <3>1
  <2>3. QED
    BY <2>1, <2>2
<1>3. r \in Seq(X) /\ r = Selected(s, S)
  <2>1. Within(s, X, n)
    BY <1>1, <1>2 DEF Within
  <2>2. QED
    BY <1>1, <1>2, <2>1, SelectedType DEF Selected
<1> DEFINE Done == {k \in Nat : k <= m => SelectedTo(u, S, n + k) = r \o SelectedTo(t, T, k)}
<1>4. 0 \in Done
  <2>1. SelectedTo(t, T, 0) = <<>>
    BY SelectedOfNone
  <2>2. SelectedTo(u, S, n) = SelectedTo(s, S, n)
    <3>1. \A i \in 1..n : u[i] = s[i] /\ (i \in S <=> i \in S)
      BY <1>2
    <3>2. QED
      BY <1>2, <3>1, SelectedSame
  <2>3. r \o <<>> = r /\ n + 0 = n
    BY <1>2, <1>3
  <2>4. SelectedTo(u, S, n + 0) = r \o SelectedTo(t, T, 0)
    BY <1>1, <2>1, <2>2, <2>3
  <2>5. QED
    BY <2>4
<1>5. ASSUME NEW k \in Nat, k \in Done PROVE k + 1 \in Done
  <2> SUFFICES ASSUME k + 1 <= m PROVE SelectedTo(u, S, n + (k + 1)) = r \o SelectedTo(t, T, k + 1)
    OBVIOUS
  <2>1. PICK l : l = n + k /\ l \in Nat /\ n + (k + 1) = l + 1
    BY <1>2
  <2>2. SelectedTo(u, S, l + 1) = IF l + 1 \in S THEN Append(SelectedTo(u, S, l), u[l + 1])
                                  ELSE SelectedTo(u, S, l)
    BY <2>1, SelectedOfMore
  <2>3. SelectedTo(t, T, k + 1) = IF k + 1 \in T THEN Append(SelectedTo(t, T, k), t[k + 1])
                                  ELSE SelectedTo(t, T, k)
    BY SelectedOfMore
  <2>4. k + 1 \in 1..m /\ u[l + 1] = t[k + 1] /\ (l + 1 \in S <=> k + 1 \in T)
    BY <1>1, <1>2, <2>1
  <2>5. SelectedTo(u, S, n + k) = r \o SelectedTo(t, T, k)
    <3>1. k <= m
      BY <1>2
    <3>2. QED
      BY <1>5, <3>1
  <2> PICK q : q = SelectedTo(t, T, k)
    OBVIOUS
  <2>6. q \in Seq(X) /\ t[k + 1] \in X
    <3>1. Within(t, X, k)
      BY <1>1, <1>2 DEF Within
    <3>2. t[k + 1] \in X
      BY <1>1, <2>4
    <3>3. QED
      BY <3>1, <3>2, SelectedType
  <2>7. Append(r \o q, t[k + 1]) = r \o Append(q, t[k + 1])
    <3>1. PICK x \in X : x = t[k + 1]
      BY <2>6
    <3>2. r \in Seq(X) /\ q \in Seq(X)
      BY <1>3, <2>6
    <3>3. Append(r \o q, x) = r \o Append(q, x)
      <4>1. r \o q \in Seq(X) /\ <<x>> \in Seq(X)
        BY <3>2
      <4>2. Append(r \o q, x) = (r \o q) \o <<x>> /\ Append(q, x) = q \o <<x>>
        BY <3>2, <4>1, AppendIsConcat
      <4>3. (r \o q) \o <<x>> = r \o (q \o <<x>>)
        BY <3>2, <4>1, ConcatAssociative
      <4>4. QED
        BY <4>2, <4>3
    <3>4. QED
      BY <3>1, <3>3
  <2>8. QED
    BY <2>1, <2>2, <2>3, <2>4, <2>5, <2>7
<1>6. m \in Done
  <2> HIDE DEF Done
  <2> QED BY <1>2, <1>4, <1>5, SetInduction
<1>7. QED
  BY <1>1, <1>2, <1>3, <1>6 DEF Selected

-----------------------------------------------------------------------------
\* Bytes of sequences of parts

\* The bytes of the first n parts.
LoadTo(s, n) == Total([i \in DOMAIN s |-> s[i].size], n)
Load(s) == LoadTo(s, Len(s))

LEMMA PlanBytes == ASSUME NEW s PROVE Plan!Bytes(s) = Load(s)
  BY DEF Plan!Bytes, Plan!Total, Load, LoadTo, Total

Sized(X) == \A x \in X : x.size \in Nat

LEMMA LoadSummable ==
    ASSUME NEW X, Sized(X), NEW s \in Seq(X), NEW n \in 0..Len(s)
    PROVE  Summable([i \in DOMAIN s |-> s[i].size], n) /\ n \in Nat /\ LoadTo(s, n) \in Nat
<1>1. PICK f : f = [i \in DOMAIN s |-> s[i].size]
  OBVIOUS
<1>2. n \in Nat /\ Summable(f, n)
  <2>1. ASSUME NEW i \in 1..n PROVE f[i] \in Nat
    <3>1. i \in DOMAIN s /\ s[i] \in X
      OBVIOUS
    <3>2. QED
      BY <1>1, <3>1 DEF Sized
  <2>2. QED
    BY <2>1 DEF Summable
<1>3. QED
  BY <1>1, <1>2, TotalType DEF LoadTo

LEMMA LoadOfConcat ==
    ASSUME NEW X, Sized(X), NEW s \in Seq(X), NEW t \in Seq(X)
    PROVE  Load(s \o t) = Load(s) + Load(t) /\ Load(s) \in Nat /\ Load(t) \in Nat
<1>1. PICK u, f, g, h : /\ u = s \o t /\ f = [i \in DOMAIN s |-> s[i].size]
                        /\ g = [i \in DOMAIN t |-> t[i].size] /\ h = [i \in DOMAIN u |-> u[i].size]
  OBVIOUS
<1>2. PICK n, m : n = Len(s) /\ m = Len(t)
  OBVIOUS
<1>3. /\ n \in Nat /\ m \in Nat /\ Len(u) = n + m /\ u \in Seq(X)
      /\ \A i \in 1..(n + m) : u[i] = IF i <= n THEN s[i] ELSE t[i - n]
  BY <1>1, <1>2, ConcatProperties
<1>4. Joins(h, f, g, n, m)
  <2>1. DOMAIN u = 1..(n + m) /\ DOMAIN s = 1..n /\ DOMAIN t = 1..m
    BY <1>2, <1>3
  <2>2. ASSUME NEW i \in 1..n PROVE h[i] = f[i]
    BY <1>1, <1>3, <2>1
  <2>3. ASSUME NEW j \in 1..m PROVE h[n + j] = g[j]
    <3>1. n + j \in 1..(n + m) /\ ~(n + j <= n) /\ (n + j) - n = j
      BY <1>3
    <3>2. u[n + j] = t[j]
      BY <1>3, <3>1
    <3>3. QED
      BY <1>1, <2>1, <3>1, <3>2
  <2>4. QED
    BY <2>2, <2>3 DEF Joins
<1>5. Summable(f, n) /\ Summable(g, m) /\ LoadTo(s, n) \in Nat /\ LoadTo(t, m) \in Nat
  <2>1. n \in 0..Len(s) /\ m \in 0..Len(t)
    BY <1>2, <1>3
  <2>2. QED
    BY <1>1, <2>1, LoadSummable
<1>6. Total(h, n + m) = Total(f, n) + Total(g, m)
  BY <1>3, <1>4, <1>5, TotalOfJoined
<1>7. Load(u) = Total(h, n + m) /\ Load(s) = Total(f, n) /\ Load(t) = Total(g, m)
  BY <1>1, <1>2, <1>3 DEF Load, LoadTo
<1>8. QED
  BY <1>1, <1>2, <1>5, <1>6, <1>7 DEF Load

LEMMA LoadOfNone == Load(<<>>) = 0
<1>1. PICK s : s = <<>>
  OBVIOUS
<1>2. Len(s) = 0
  BY <1>1
<1>3. LoadTo(s, 0) = 0
  BY TotalOfNone DEF LoadTo
<1>4. QED
  BY <1>1, <1>2, <1>3 DEF Load

LEMMA LoadOfOne ==
    ASSUME NEW x, x.size \in Nat PROVE Load(<<x>>) = x.size
<1>1. PICK s : s = <<x>>
  OBVIOUS
<1>2. Len(s) = 1 /\ DOMAIN s = 1..1 /\ s[1] = x
  BY <1>1
<1>3. PICK f : f = [i \in DOMAIN s |-> s[i].size]
  OBVIOUS
<1>4. f[1] = x.size /\ Summable(f, 0 + 1)
  BY <1>2, <1>3 DEF Summable
<1>5. Total(f, 0 + 1) = Total(f, 0) + f[0 + 1]
  BY <1>4, TotalOfMore
<1>6. Total(f, 0) = 0
  BY TotalOfNone
<1>7. Total(f, 1) = x.size
  BY <1>4, <1>5, <1>6
<1>8. QED
  BY <1>1, <1>2, <1>3, <1>7 DEF Load, LoadTo

\* One part more.
LEMMA LoadOfMore ==
    ASSUME NEW X, Sized(X), NEW s \in Seq(X), NEW n \in Nat, n < Len(s)
    PROVE  /\ LoadTo(s, n + 1) = LoadTo(s, n) + s[n + 1].size
           /\ LoadTo(s, n) \in Nat /\ LoadTo(s, n + 1) \in Nat /\ s[n + 1].size \in Nat
<1>1. PICK f : f = [i \in DOMAIN s |-> s[i].size]
  OBVIOUS
<1>2. n \in 0..Len(s) /\ n + 1 \in 0..Len(s) /\ n + 1 \in DOMAIN s /\ s[n + 1] \in X
  OBVIOUS
<1>3. Summable(f, n + 1) /\ LoadTo(s, n) \in Nat /\ LoadTo(s, n + 1) \in Nat
  BY <1>1, <1>2, LoadSummable
<1>4. Total(f, n + 1) = Total(f, n) + f[n + 1]
  BY <1>3, TotalOfMore
<1>5. f[n + 1] = s[n + 1].size /\ s[n + 1].size \in Nat
  BY <1>1, <1>2 DEF Sized
<1>6. QED
  BY <1>1, <1>3, <1>4, <1>5 DEF LoadTo

\* What a segment holds.
LEMMA SegmentType ==
    ASSUME NEW X, NEW s \in Seq(X), NEW a \in Nat, NEW c \in Nat, a <= c, c <= Len(s)
    PROVE  /\ SubSeq(s, a + 1, c) \in Seq(X) /\ Len(SubSeq(s, a + 1, c)) = c - a
           /\ \A i \in 1..(c - a) : SubSeq(s, a + 1, c)[i] = s[a + i]
<1>1. \A i \in (a + 1)..c : s[i] \in X
  OBVIOUS
<1>2. PICK k \in Int : k = a + 1
  OBVIOUS
<1>3. /\ SubSeq(s, k, c) \in Seq(X) /\ Len(SubSeq(s, k, c)) = IF k <= c THEN c - k + 1 ELSE 0
      /\ \A i \in 1..(c - k + 1) : SubSeq(s, k, c)[i] = s[k + i - 1]
  <2>1. c \in Int /\ \A i \in k..c : s[i] \in X
    BY <1>1, <1>2
  <2>2. QED
    BY <2>1, SubSeqProperties
<1>4. c - k + 1 = c - a /\ (k <= c \/ c - a = 0) /\ \A i \in 1..(c - a) : k + i - 1 = a + i
  BY <1>2
<1>5. QED
  BY <1>2, <1>3, <1>4

LEMMA SegmentOfOne ==
    ASSUME NEW X, NEW s \in Seq(X), NEW c \in Nat, NEW e \in Nat, e = c + 1, e <= Len(s)
    PROVE  SubSeq(s, c + 1, e) = <<s[e]>> /\ s[e] \in X
<1>1. PICK t : t = SubSeq(s, c + 1, e)
  OBVIOUS
<1>2. t \in Seq(X) /\ Len(t) = e - c /\ \A i \in 1..(e - c) : t[i] = s[c + i]
  BY <1>1, SegmentType
<1>3. PICK n : n = e - c /\ n = 1
  OBVIOUS
<1>4. Len(t) = n /\ \A i \in 1..n : t[i] = s[c + i]
  BY <1>2, <1>3
<1>5. t[1] = s[c + 1] /\ Len(t) = 1
  BY <1>3, <1>4
<1>6. t = <<s[e]>>
  BY <1>2, <1>5
<1>7. s[e] \in X
  <2>1. e \in DOMAIN s
    OBVIOUS
  <2>2. QED
    BY <2>1
<1>8. QED
  BY <1>1, <1>6, <1>7

\* The bytes of a segment.
LEMMA LoadOfSegment ==
    ASSUME NEW X, Sized(X), NEW s \in Seq(X), NEW a \in Nat, NEW c \in Nat, a <= c, c <= Len(s)
    PROVE  /\ LoadTo(s, c) = LoadTo(s, a) + Load(SubSeq(s, a + 1, c))
           /\ LoadTo(s, a) \in Nat /\ LoadTo(s, c) \in Nat /\ Load(SubSeq(s, a + 1, c)) \in Nat
<1>1. PICK t, m : t = SubSeq(s, a + 1, c) /\ m = c - a
  OBVIOUS
<1>2. m \in Nat /\ a + m = c /\ a \in 0..Len(s) /\ c \in 0..Len(s)
  BY <1>1
<1>3. t \in Seq(X) /\ Len(t) = m /\ \A i \in 1..m : t[i] = s[a + i]
  BY <1>1, SegmentType
<1>4. PICK f, g : f = [i \in DOMAIN s |-> s[i].size] /\ g = [i \in DOMAIN t |-> t[i].size]
  OBVIOUS
<1>5. Joins(f, f, g, a, m)
  <2>1. ASSUME NEW j \in 1..m PROVE f[a + j] = g[j]
    <3>1. a + j \in DOMAIN s /\ j \in DOMAIN t
      BY <1>2, <1>3
    <3>2. QED
      BY <1>3, <1>4, <3>1
  <2>2. QED
    BY <2>1 DEF Joins
<1>6. Summable(f, a) /\ Summable(g, m) /\ LoadTo(s, a) \in Nat /\ LoadTo(s, c) \in Nat /\ LoadTo(t, m) \in Nat
  <2>1. m \in 0..Len(t)
    BY <1>2, <1>3
  <2>2. QED
    BY <1>2, <1>3, <1>4, <2>1, LoadSummable
<1>7. Total(f, a + m) = Total(f, a) + Total(g, m)
  BY <1>2, <1>5, <1>6, TotalOfJoined
<1>8. LoadTo(s, c) = Total(f, a + m) /\ LoadTo(s, a) = Total(f, a) /\ Load(t) = Total(g, m)
  BY <1>2, <1>3, <1>4 DEF Load, LoadTo
<1>9. QED
  BY <1>1, <1>3, <1>6, <1>7, <1>8 DEF Load

\* More parts, no fewer bytes.
LEMMA LoadGrows ==
    ASSUME NEW X, Sized(X), NEW s \in Seq(X), NEW a \in Nat, NEW c \in Nat, a <= c, c <= Len(s)
    PROVE  LoadTo(s, a) <= LoadTo(s, c) /\ LoadTo(s, a) \in Nat /\ LoadTo(s, c) \in Nat
<1>1. PICK x, y, z : x = LoadTo(s, a) /\ y = LoadTo(s, c) /\ z = Load(SubSeq(s, a + 1, c))
  OBVIOUS
<1>2. x \in Nat /\ y \in Nat /\ z \in Nat /\ y = x + z
  BY <1>1, LoadOfSegment
<1>3. x <= y
  BY <1>2
<1>4. QED
  BY <1>1, <1>2, <1>3

-----------------------------------------------------------------------------
\* The greedy cut is the shortest

\* bs cuts s after the positions b, into batches that are not empty and within the limit.
CutAt(b, bs, s) ==
    /\ b \in [0..Len(bs) -> 0..Len(s)] /\ b[0] = 0
    /\ \A j \in 1..Len(bs) : /\ b[j - 1] < b[j]
                             /\ bs[j] = SubSeq(s, b[j - 1] + 1, b[j])
                             /\ LoadTo(s, b[j]) <= LoadTo(s, b[j - 1]) + Limit

\* The first batches are full: the next part would have exceeded the limit.
FullTo(b, s, n) ==
    \A j \in 1..n : b[j] < Len(s) /\ LoadTo(s, b[j] + 1) > LoadTo(s, b[j - 1]) + Limit

\* The positions grow.
LEMMA CutsGrow ==
    ASSUME NEW m \in Nat, NEW b \in [0..m -> Nat], \A j \in 1..m : b[j - 1] < b[j],
           NEW i \in 0..m, NEW k \in 0..m, i <= k
    PROVE  b[i] <= b[k]
<1> DEFINE Done == {l \in Nat : i + l <= m => b[i] <= b[i + l]}
<1>1. 0 \in Done
  <2>1. i + 0 = i /\ b[i] \in Nat
    OBVIOUS
  <2>2. QED
    BY <2>1
<1>2. ASSUME NEW l \in Nat, l \in Done PROVE l + 1 \in Done
  <2> SUFFICES ASSUME i + (l + 1) <= m PROVE b[i] <= b[i + (l + 1)]
    OBVIOUS
  <2>1. b[i] <= b[i + l]
    BY <1>2
  <2>2. i + (l + 1) \in 1..m /\ (i + (l + 1)) - 1 = i + l /\ i + l \in 0..m
    OBVIOUS
  <2>3. b[i + l] < b[i + (l + 1)]
    BY <2>2
  <2>4. b[i] \in Nat /\ b[i + l] \in Nat /\ b[i + (l + 1)] \in Nat
    BY <2>2
  <2>5. QED
    BY <2>1, <2>3, <2>4
<1>3. k - i \in Nat /\ k - i \in Done
  <2>1. k - i \in Nat
    OBVIOUS
  <2> HIDE DEF Done
  <2>2. QED
    BY <1>1, <1>2, <2>1, SetInduction
<1>4. QED
  BY <1>3

\* A set of numbers with a bound has a greatest member, and Max finds it.
LEMMA MaxIs ==
    ASSUME NEW n \in Nat, NEW S \in SUBSET (0..n), S # {}
    PROVE  Max(S) \in S /\ \A y \in S : y <= Max(S)
<1> DEFINE T == {k \in Nat : \A y \in S : y <= k}
<1>1. n \in T
  OBVIOUS
<1>2. PICK x \in T : \A y \in T : x <= y
  <2>1. T \in SUBSET Nat /\ T # {}
    BY <1>1
  <2> HIDE DEF T
  <2>2. QED
    BY <2>1, LeastNatural
<1>3. x \in S
  <2> SUFFICES ASSUME x \notin S PROVE FALSE
    OBVIOUS
  <2>0. \A y \in S : y \in Nat
    OBVIOUS
  <2>1. PICK z \in S : z \in Nat
    <3>1. PICK z : z \in S
      OBVIOUS
    <3>2. QED
      BY <2>0, <3>1
  <2>2. x \in Nat /\ \A y \in S : y \in Nat /\ y <= x /\ y # x
    OBVIOUS
  <2>3. x # 0 /\ x - 1 \in Nat
    BY <2>1, <2>2
  <2>4. x - 1 \in T
    BY <2>2, <2>3
  <2>5. QED
    BY <1>2, <2>2, <2>3, <2>4
<1>4. x \in S /\ \A y \in S : x >= y
  BY <1>3
<1>5. Max(S) \in S /\ \A y \in S : Max(S) >= y
  BY <1>4 DEF Max
<1>6. QED
  BY <1>5

\* Where the batch j of the greedy cut ends, every cut within the limit has cut before.
LEMMA CutsMeet ==
    ASSUME NEW X, Sized(X), NEW s \in Seq(X), NEW lo \in Nat, NEW hi \in Nat, lo < hi, hi < Len(s),
           LoadTo(s, hi + 1) > LoadTo(s, lo) + Limit,
           NEW cut \in SUBSET (1..(Len(s) - 1)),
           \A i \in cut \cup {Len(s)} : Load(Plan!Segment(s, cut, i)) <= Limit
    PROVE  \E c \in cut : lo < c /\ c <= hi
<1> SUFFICES ASSUME \A c \in cut : c <= lo \/ c > hi PROVE FALSE
  OBVIOUS
<1>0. PICK n : n = Len(s) /\ n \in Nat
  OBVIOUS
<1>1. PICK T : T = {i \in cut \cup {n} : i > hi}
  OBVIOUS
<1> \A c \in cut : c \in Nat /\ c <= n
  BY <1>0
<1>2. T \in SUBSET Nat /\ T # {}
  <2>1. n \in T
    BY <1>0, <1>1
  <2>2. \A i \in T : i \in Nat
    BY <1>0, <1>1
  <2>3. QED
    BY <2>1, <2>2
<1>3. PICK i \in T : \A y \in T : i <= y
  BY <1>2, LeastNatural
<1>4. i \in cut \cup {n} /\ i \in Nat /\ i > hi /\ i <= n
  BY <1>0, <1>1, <1>3
<1>5. PICK S : S = {0} \cup {c \in cut : c < i}
  OBVIOUS
<1>6. S \in SUBSET (0..n) /\ S # {}
  <2>1. \A y \in S : y \in 0..n
    BY <1>0, <1>5
  <2>2. 0 \in S
    BY <1>5
  <2>3. QED
    BY <2>1, <2>2
<1>7. PICK a : a = Max(S) /\ a \in S
  BY <1>0, <1>6, MaxIs
<1>8. a \in Nat /\ a <= lo
  <2>1. CASE a = 0
    BY <2>1
  <2>2. CASE a \in cut /\ a < i
    <3>1. a \in Nat
      BY <2>2
    <3>2. CASE a > hi
      <4>1. a \in T
        BY <1>1, <2>2, <3>2
      <4>2. QED
        BY <1>3, <1>4, <2>2, <3>1, <4>1
    <3>3. QED
      BY <2>2, <3>1, <3>2
  <2>3. QED
    BY <1>5, <1>7, <2>1, <2>2
<1>9. Plan!Segment(s, cut, i) = SubSeq(s, a + 1, i)
  BY <1>5, <1>7 DEF Plan!Segment, Plan!Max, Max
<1>10. Load(SubSeq(s, a + 1, i)) <= Limit
  BY <1>0, <1>4, <1>9
<1>11. PICK w, x, y, z, l : /\ w = LoadTo(s, a) /\ x = LoadTo(s, lo) /\ y = LoadTo(s, hi + 1)
                            /\ z = LoadTo(s, i) /\ l = Load(SubSeq(s, a + 1, i))
  OBVIOUS
<1>12. w \in Nat /\ x \in Nat /\ w <= x
  <2>1. lo <= Len(s)
    OBVIOUS
  <2>2. QED
    BY <1>8, <1>11, <2>1, LoadGrows
<1>13. y \in Nat /\ z \in Nat /\ y <= z
  <2>1. PICK k \in Nat : k = hi + 1
    OBVIOUS
  <2>2. k <= i /\ i <= Len(s)
    BY <1>0, <1>4, <2>1
  <2>3. QED
    BY <1>4, <1>11, <2>1, <2>2, LoadGrows
<1>14. l \in Nat /\ z = w + l
  <2>1. a <= i /\ i <= Len(s)
    BY <1>0, <1>4, <1>8
  <2>2. QED
    BY <1>4, <1>8, <1>11, <2>1, LoadOfSegment
<1>15. y > x + Limit /\ l <= Limit /\ Limit \in Nat
  BY <1>10, <1>11, AccountingAssumption
<1>16. QED
  BY <1>12, <1>13, <1>14, <1>15

\* No cut within the limit has fewer segments than the greedy one.
LEMMA GreedyIsShortest ==
    ASSUME NEW X, Sized(X), NEW s \in Seq(X), NEW bs, NEW m \in Nat, Len(bs) = m, NEW b,
           CutAt(b, bs, s), FullTo(b, s, m - 1),
           NEW cut \in SUBSET (1..(Len(s) - 1)),
           \A i \in cut \cup {Len(s)} : Load(Plan!Segment(s, cut, i)) <= Limit
    PROVE  Cardinality(cut) + 1 >= m
<1>0. PICK n : n = Len(s) /\ n \in Nat
  OBVIOUS
<1>1. IsFiniteSet(cut) /\ Cardinality(cut) \in Nat
  <2>1. \A c \in cut : c \in Nat /\ c <= n
    BY <1>0
  <2>2. cut \in SUBSET Nat
    BY <2>1
  <2>3. IsFiniteSet(cut)
    BY <1>0, <2>1, <2>2, FS_BoundedSetOfNaturals
  <2>4. QED
    BY <2>3, FS_CardinalityType
<1>2. CASE m = 0
  BY <1>1, <1>2
<1>3. CASE m > 0
  <2>1. PICK k \in Nat : k = m - 1
    BY <1>3
  <2>2. b \in [0..m -> Nat] /\ (\A j \in 1..m : b[j - 1] < b[j])
    BY DEF CutAt
  <2>3. ASSUME NEW j \in 1..k PROVE \E c \in cut : b[j - 1] < c /\ c <= b[j]
    <3>1. j \in 1..m /\ j - 1 \in 0..m /\ j \in 0..m /\ j \in 1..(m - 1)
      BY <2>1
    <3>2. PICK lo \in Nat, hi \in Nat : lo = b[j - 1] /\ hi = b[j]
      BY <2>2, <3>1
    <3>3. lo < hi /\ hi < Len(s) /\ LoadTo(s, hi + 1) > LoadTo(s, lo) + Limit
      BY <2>2, <3>1, <3>2 DEF FullTo
    <3>4. QED
      BY <3>2, <3>3, CutsMeet
  <2>4. PICK f : f = [j \in 1..k |-> CHOOSE c \in cut : b[j - 1] < c /\ c <= b[j]]
    OBVIOUS
  <2>5. ASSUME NEW j \in 1..k PROVE f[j] \in cut /\ b[j - 1] < f[j] /\ f[j] <= b[j]
    BY <2>3, <2>4
  <2>6. f \in [1..k -> cut]
    BY <2>4, <2>5
  <2>7. ASSUME NEW i \in 1..k, NEW j \in 1..k, i < j PROVE f[i] # f[j]
    <3>1. i \in 0..m /\ j - 1 \in 0..m /\ i <= j - 1
      BY <2>1, <2>7
    <3>2. b[i] <= b[j - 1]
      BY <2>2, <3>1, CutsGrow
    <3>3. f[i] <= b[i] /\ b[j - 1] < f[j]
      BY <2>5
    <3>4. f[i] \in Nat /\ f[j] \in Nat /\ b[i] \in Nat /\ b[j - 1] \in Nat
      <4>1. f[i] \in cut /\ f[j] \in cut
        BY <2>5
      <4>2. \A c \in cut : c \in Nat
        OBVIOUS
      <4>3. b[i] \in Nat /\ b[j - 1] \in Nat
        BY <2>2, <3>1
      <4>4. QED
        BY <4>1, <4>2, <4>3
    <3>5. QED
      BY <3>2, <3>3, <3>4
  <2>8. f \in Injection(1..k, cut)
    <3>1. ASSUME NEW i \in 1..k, NEW j \in 1..k, f[i] = f[j] PROVE i = j
      <4>1. i < j \/ j < i \/ i = j
        OBVIOUS
      <4>2. QED
        BY <2>7, <3>1, <4>1
    <3>2. QED
      BY <2>6, <3>1 DEF Injection, IsInjective
  <2>9. Cardinality(1..k) <= Cardinality(cut)
    BY <1>1, <2>8, FS_Injection
  <2>10. Cardinality(1..k) = k
    BY FS_Interval
  <2>11. QED
    BY <1>1, <2>1, <2>9, <2>10
<1>4. QED
  BY <1>2, <1>3

\* The segment up to c and the next one.
LEMMA SegmentsJoin ==
    ASSUME NEW X, NEW s \in Seq(X), NEW k \in Nat, NEW a \in Nat, NEW c \in Nat,
           k <= a, a <= c, c <= Len(s)
    PROVE  SubSeq(s, k + 1, a) \o SubSeq(s, a + 1, c) = SubSeq(s, k + 1, c)
<1>1. PICK l : l = k + 1 /\ l \in 1..(Len(s) + 1) /\ a \in (l - 1)..Len(s) /\ c \in a..Len(s)
  OBVIOUS
<1>2. SubSeq(s, l, a) \o SubSeq(s, a + 1, c) = SubSeq(s, l, c)
  BY <1>1, ConcatAdjacentSubSeq
<1>3. QED
  BY <1>1, <1>2

\* Segments that follow one another flatten to the sequence they cut.
LEMMA CutFlattens ==
    ASSUME NEW X, NEW s \in Seq(X), NEW bs, NEW m \in Nat, Len(bs) = m, m = 0 => bs = <<>>,
           NEW b, CutAt(b, bs, s)
    PROVE  FlattenSeq(bs) = SubSeq(s, 1, b[m])
<1>0. /\ b \in [0..m -> Nat] /\ b[0] = 0 /\ (\A j \in 0..m : b[j] <= Len(s))
      /\ \A j \in 1..m : b[j - 1] < b[j] /\ bs[j] = SubSeq(s, b[j - 1] + 1, b[j])
  <2>1. Len(s) \in Nat /\ b \in [0..m -> 0..Len(s)]
    BY DEF CutAt
  <2>2. \A j \in 0..m : b[j] \in Nat /\ b[j] <= Len(s)
    BY <2>1
  <2>3. b \in [0..m -> Nat]
    BY <2>1, <2>2
  <2>4. QED
    BY <2>2, <2>3 DEF CutAt
<1>1. ASSUME NEW j \in 1..m PROVE SubSeq(s, 1, b[j - 1]) \o bs[j] = SubSeq(s, 1, b[j])
  <2>1. PICK a \in Nat, c \in Nat : a = b[j - 1] /\ c = b[j]
    <3>1. j - 1 \in 0..m /\ j \in 0..m
      OBVIOUS
    <3>2. QED
      BY <1>0, <3>1
  <2>2. 0 <= a /\ a <= c /\ c <= Len(s)
    BY <1>0, <2>1
  <2>3. PICK z \in Nat : z = 0
    OBVIOUS
  <2>4. SubSeq(s, z + 1, a) \o SubSeq(s, a + 1, c) = SubSeq(s, z + 1, c)
    BY <2>2, <2>3, SegmentsJoin
  <2>5. z + 1 = 1 /\ bs[j] = SubSeq(s, a + 1, c)
    BY <1>0, <2>1, <2>3
  <2>6. QED
    BY <2>1, <2>4, <2>5
<1>2. CASE m = 0
  <2>1. SubSeq(s, 1, 0) = <<>>
    BY SubSeqEmpty
  <2>2. FlattenSeq(bs) = <<>>
    BY <1>2 DEF FlattenSeq
  <2>3. QED
    BY <1>0, <1>2, <2>1, <2>2
<1>3. CASE m # 0
  <2> DEFINE F(g) == [i \in 1..Len(bs) |-> IF i = 1 THEN bs[i] ELSE g[i - 1] \o bs[i]]
  <2>1. PICK g : g = [i \in 1..m |-> SubSeq(s, 1, b[i])]
    OBVIOUS
  <2>2. PICK h : h = (CHOOSE x : x = F(x))
    OBVIOUS
  <2>3. g = F(g)
    <3>1. ASSUME NEW i \in 1..m PROVE g[i] = IF i = 1 THEN bs[i] ELSE g[i - 1] \o bs[i]
      <4>1. CASE i = 1
        <5>1. bs[i] = SubSeq(s, b[i - 1] + 1, b[i]) /\ g[i] = SubSeq(s, 1, b[i])
          BY <1>0, <2>1
        <5>2. i - 1 = 0 /\ b[i - 1] + 1 = 1
          BY <1>0, <4>1
        <5>3. QED
          BY <4>1, <5>1, <5>2
      <4>2. CASE i # 1
        <5>1. i - 1 \in 1..m
          BY <4>2
        <5>2. g[i - 1] = SubSeq(s, 1, b[i - 1]) /\ g[i] = SubSeq(s, 1, b[i])
          BY <2>1, <5>1
        <5>3. QED
          BY <1>1, <4>2, <5>2
      <4>3. QED
        BY <4>1, <4>2
    <3>2. PICK G : G = F(g)
      OBVIOUS
    <3>3. DOMAIN G = 1..m /\ G = [i \in DOMAIN G |-> G[i]]
      BY <3>2
    <3>4. \A i \in 1..m : G[i] = g[i]
      BY <3>1, <3>2
    <3>5. g = G
      BY <2>1, <3>3, <3>4
    <3>6. QED
      BY <3>2, <3>5
  <2>4. h = F(h)
    BY <2>2, <2>3
  <2>5. FlattenSeq(bs) = h[m]
    BY <1>3, <2>2 DEF FlattenSeq
  <2>6. \A i \in 1..m : h[i] = IF i = 1 THEN bs[i] ELSE h[i - 1] \o bs[i]
    BY <2>4
  <2>7. \A i \in 1..m : g[i] = IF i = 1 THEN bs[i] ELSE g[i - 1] \o bs[i]
    BY <2>3
  <2> HIDE DEF F
  <2> DEFINE Done == {i \in Nat : i + 1 <= m => h[i + 1] = g[i + 1]}
  <2>8. 0 \in Done
    <3>1. 0 + 1 = 1 /\ 1 \in 1..m
      BY <1>3
    <3>2. h[1] = bs[1] /\ g[1] = bs[1]
      BY <2>6, <2>7, <3>1
    <3>3. QED
      BY <3>1, <3>2
  <2>9. ASSUME NEW i \in Nat, i \in Done PROVE i + 1 \in Done
    <3> SUFFICES ASSUME (i + 1) + 1 <= m PROVE h[(i + 1) + 1] = g[(i + 1) + 1]
      OBVIOUS
    <3>1. h[i + 1] = g[i + 1]
      BY <2>9
    <3>2. PICK l : l = (i + 1) + 1 /\ l \in 1..m /\ l # 1 /\ l - 1 = i + 1
      OBVIOUS
    <3>3. h[l] = h[l - 1] \o bs[l] /\ g[l] = g[l - 1] \o bs[l]
      BY <2>6, <2>7, <3>2
    <3>4. QED
      BY <3>1, <3>2, <3>3
  <2>10. m - 1 \in Nat /\ m - 1 \in Done
    <3>1. m - 1 \in Nat
      BY <1>3
    <3> HIDE DEF Done
    <3>2. QED
      BY <2>8, <2>9, <3>1, SetInduction
  <2>11. h[m] = g[m]
    <3>1. (m - 1) + 1 = m
      OBVIOUS
    <3>2. QED
      BY <2>10, <3>1
  <2>12. g[m] = SubSeq(s, 1, b[m])
    <3>1. m \in 1..m
      BY <1>3
    <3>2. QED
      BY <2>1, <3>1
  <2>13. QED
    BY <2>5, <2>11, <2>12
<1>4. QED
  BY <1>2, <1>3

-----------------------------------------------------------------------------
\* The plan

\* Prefix(r, t): r is where t begins.
Prefix(r, t) == Len(r) <= Len(t) /\ \A i \in 1..Len(r) : t[i] = r[i]

\* What is selected from fewer positions is where the selection begins.
LEMMA SelectedPrefix ==
    ASSUME NEW X, NEW seq, NEW S, NEW N \in Nat, Within(seq, X, N), NEW n \in Nat, n <= N
    PROVE  Prefix(SelectedTo(seq, S, n), SelectedTo(seq, S, N))
<1> DEFINE Done == {k \in Nat : n + k <= N => Prefix(SelectedTo(seq, S, n), SelectedTo(seq, S, n + k))}
<1>0. ASSUME NEW k \in Nat, k <= N PROVE Within(seq, X, k) /\ SelectedTo(seq, S, k) \in Seq(X)
  <2>1. Within(seq, X, k)
    BY <1>0 DEF Within
  <2>2. QED
    BY <2>1, SelectedType
<1>1. 0 \in Done
  <2>1. Prefix(SelectedTo(seq, S, n), SelectedTo(seq, S, n))
    BY <1>0 DEF Prefix
  <2>2. n + 0 = n
    OBVIOUS
  <2>3. QED
    BY <2>1, <2>2
<1>2. ASSUME NEW k \in Nat, k \in Done PROVE k + 1 \in Done
  <2> SUFFICES ASSUME n + (k + 1) <= N PROVE Prefix(SelectedTo(seq, S, n), SelectedTo(seq, S, n + (k + 1)))
    OBVIOUS
  <2>1. PICK l \in Nat : l = n + k /\ n + (k + 1) = l + 1
    OBVIOUS
  <2>2. PICK r, t : r = SelectedTo(seq, S, n) /\ t = SelectedTo(seq, S, l)
    OBVIOUS
  <2>3. Prefix(r, t) /\ r \in Seq(X) /\ t \in Seq(X) /\ seq[l + 1] \in X
    <3>1. l + 1 \in 1..N /\ l <= N
      BY <2>1
    <3>2. QED
      BY <1>0, <1>2, <2>1, <2>2, <3>1 DEF Within
  <2>4. SelectedTo(seq, S, l + 1) = Append(t, seq[l + 1]) \/ SelectedTo(seq, S, l + 1) = t
    BY <2>2, SelectedOfMore
  <2>5. PICK x \in X : x = seq[l + 1]
    BY <2>3
  <2>6. Prefix(r, Append(t, x))
    <3>1. PICK u : u = Append(t, x)
      OBVIOUS
    <3>2. Len(u) = Len(t) + 1 /\ \A i \in 1..Len(t) : u[i] = t[i]
      BY <2>3, <3>1, AppendProperties
    <3>3. Len(r) <= Len(t) /\ Len(r) \in Nat /\ Len(t) \in Nat /\ \A i \in 1..Len(r) : t[i] = r[i]
      BY <2>3 DEF Prefix
    <3>4. \A i \in 1..Len(r) : i \in 1..Len(t)
      BY <3>3
    <3>5. QED
      BY <3>1, <3>2, <3>3, <3>4 DEF Prefix
  <2>7. QED
    BY <2>1, <2>2, <2>3, <2>4, <2>5, <2>6
<1>3. N - n \in Nat /\ N - n \in Done
  <2>1. N - n \in Nat
    OBVIOUS
  <2> HIDE DEF Done
  <2>2. QED
    BY <1>1, <1>2, <2>1, SetInduction
<1>4. n + (N - n) = N
  OBVIOUS
<1>5. QED
  BY <1>3, <1>4

\* The place of the next selected member in the whole selection.
LEMMA SelectedPlace ==
    ASSUME NEW X, NEW seq, NEW S, NEW N \in Nat, Within(seq, X, N), NEW n \in Nat, n < N, n + 1 \in S
    PROVE  LET c == Len(SelectedTo(seq, S, n))
               t == SelectedTo(seq, S, N)
           IN  /\ c \in Nat /\ t \in Seq(X) /\ Len(SelectedTo(seq, S, n + 1)) = c + 1
               /\ c + 1 <= Len(t) /\ t[c + 1] = seq[n + 1]
<1>1. PICK r, u, t : r = SelectedTo(seq, S, n) /\ u = SelectedTo(seq, S, n + 1) /\ t = SelectedTo(seq, S, N)
  OBVIOUS
<1>2. r \in Seq(X) /\ t \in Seq(X) /\ seq[n + 1] \in X
  <2>1. Within(seq, X, n) /\ n + 1 \in 1..N
    BY DEF Within
  <2>2. QED
    BY <1>1, <2>1, SelectedType DEF Within
<1>3. PICK x \in X : x = seq[n + 1]
  BY <1>2
<1>4. u = Append(r, x)
  BY <1>1, <1>3, SelectedOfMore
<1>5. Len(u) = Len(r) + 1 /\ u[Len(r) + 1] = x
  BY <1>2, <1>4, AppendProperties
<1>6. Prefix(u, t)
  <2>1. PICK m \in Nat : m = n + 1 /\ m <= N
    OBVIOUS
  <2>2. QED
    BY <1>1, <2>1, SelectedPrefix
<1>7. Len(r) \in Nat /\ Len(r) + 1 \in 1..Len(u)
  BY <1>2, <1>5
<1>8. QED
  BY <1>1, <1>2, <1>3, <1>5, <1>6, <1>7 DEF Prefix

\* The parts under new paths, where each first occurs.
Fresh(p) == {i \in DOMAIN p : ~\E j \in 1..(i - 1) : p[j].path = p[i].path}
Firsts(p) == Selected(p, Fresh(p))

\* How many of them are among the first n parts.
Reach(p, n) == Len(SelectedTo(p, Fresh(p), n))

\* What the planner has made of the parts before n.
Planning(b, p, n, cur, bs) ==
    /\ CutAt(b, bs, Firsts(p)) /\ FullTo(b, Firsts(p), Len(bs))
    /\ b[Len(bs)] <= Reach(p, n - 1)
    /\ b[Len(bs)] = Reach(p, n - 1) => Len(bs) = 0
    /\ cur = SubSeq(Firsts(p), b[Len(bs)] + 1, Reach(p, n - 1))
    /\ LoadTo(Firsts(p), Reach(p, n - 1)) <= LoadTo(Firsts(p), b[Len(bs)]) + Limit

\* What it has made of them all.
Planned(b, p, bs) ==
    /\ CutAt(b, bs, Firsts(p)) /\ FullTo(b, Firsts(p), Len(bs) - 1)
    /\ b[Len(bs)] = Len(Firsts(p))

PartsOf == [path : Paths, size : 0..MaxSize, digest : Digests]

PlanInv ==
    /\ parts \in Seq(PartsOf) /\ planned \in {"run", "ok", "error"}
    /\ batches \in Seq(Seq(PartsOf))
    /\ planned = "run" => /\ next \in 1..(Len(parts) + 1)
                          /\ \E b : Planning(b, parts, next, current, batches)
    /\ planned = "ok" => \E b : Planned(b, parts, batches)

LEMMA PartsSized == Sized(PartsOf)
  BY AccountingAssumption DEF PartsOf, Sized

LEMMA FirstsType ==
    ASSUME NEW p \in Seq(PartsOf)
    PROVE  /\ Firsts(p) \in Seq(PartsOf) /\ Within(p, PartsOf, Len(p)) /\ Len(p) \in Nat
           /\ Len(Firsts(p)) \in Nat
<1>1. Within(p, PartsOf, Len(p)) /\ Len(p) \in Nat
  BY DEF Within
<1>2. QED
  BY <1>1, SelectedType DEF Firsts, Selected

LEMMA DistinctIs == Plan!Distinct = Firsts(parts)
  BY DEF Plan!Distinct, Plan!Selected, Plan!SelectedTo, Firsts, Selected, SelectedTo, Fresh, Plan!Seen

\* Before the first part nothing is planned.
LEMMA PlanningStart ==
    ASSUME NEW p \in Seq(PartsOf), NEW none, none = <<>>
    PROVE  \E b : Planning(b, p, 1, none, none)
<1>1. PICK D : D = Firsts(p) /\ D \in Seq(PartsOf) /\ Len(D) \in Nat
  BY FirstsType
<1>2. PICK b : b = [j \in 0..0 |-> 0]
  OBVIOUS
<1>3. Len(none) = 0 /\ b \in [0..0 -> 0..Len(D)] /\ b[0] = 0
  BY <1>1, <1>2
<1>4. Reach(p, 1 - 1) = 0
  <2>1. SelectedTo(p, Fresh(p), 0) = <<>>
    BY SelectedOfNone
  <2>2. 1 - 1 = 0
    OBVIOUS
  <2>3. QED
    BY <2>1, <2>2 DEF Reach
<1>5. CutAt(b, none, D) /\ FullTo(b, D, Len(none))
  BY <1>3 DEF CutAt, FullTo
<1>6. none = SubSeq(D, b[0] + 1, 0)
  <2>1. SubSeq(D, 1, 0) = <<>>
    BY SubSeqEmpty
  <2>2. QED
    BY <1>3, <2>1
<1>7. LoadTo(D, 0) <= LoadTo(D, 0) + Limit
  <2>1. 0 \in 0..Len(D)
    BY <1>1
  <2>2. LoadTo(D, 0) \in Nat
    BY <1>1, <2>1, LoadSummable, PartsSized
  <2>3. QED
    BY <2>2, AccountingAssumption
<1>8. Planning(b, p, 1, none, none)
  BY <1>1, <1>3, <1>4, <1>5, <1>6, <1>7 DEF Planning
<1>9. QED
  BY <1>8

\* A part whose path was there before changes nothing.
LEMMA PlanningSkip ==
    ASSUME NEW p \in Seq(PartsOf), NEW n \in 1..Len(p), n \notin Fresh(p),
           NEW b, NEW cur, NEW bs, Planning(b, p, n, cur, bs)
    PROVE  Planning(b, p, n + 1, cur, bs)
<1>1. PICK k \in Nat : k = n - 1 /\ k + 1 = n /\ (n + 1) - 1 = k + 1
  OBVIOUS
<1>2. SelectedTo(p, Fresh(p), k + 1) = SelectedTo(p, Fresh(p), k)
  BY <1>1, SelectedOfMore
<1>3. Reach(p, (n + 1) - 1) = Reach(p, n - 1)
  BY <1>1, <1>2 DEF Reach
<1>4. QED
  BY <1>3 DEF Planning

\* Where the planner stands: its last cut, the parts it has reached and the next one.
Stands(b, p, n, bs, D, m, a, c) ==
    /\ D = Firsts(p) /\ D \in Seq(PartsOf) /\ Len(D) \in Nat
    /\ m = Len(bs) /\ m \in Nat /\ b \in [0..m -> 0..Len(D)] /\ a = b[m] /\ a \in Nat
    /\ c = Reach(p, n - 1) /\ c \in Nat /\ a <= c /\ c <= Len(D)

LEMMA PlanningStands ==
    ASSUME NEW p \in Seq(PartsOf), NEW n \in 1..(Len(p) + 1),
           NEW b, NEW cur, NEW bs \in Seq(Seq(PartsOf)), Planning(b, p, n, cur, bs)
    PROVE  \E D, m, a, c : Stands(b, p, n, bs, D, m, a, c)
<1>1. PICK D : D = Firsts(p) /\ D \in Seq(PartsOf) /\ Len(D) \in Nat
  BY FirstsType
<1>2. PICK m : m = Len(bs) /\ m \in Nat
  OBVIOUS
<1>3. b \in [0..m -> 0..Len(D)]
  BY <1>1, <1>2 DEF Planning, CutAt
<1>4. PICK a : a = b[m] /\ a \in Nat
  <2>1. m \in 0..m
    BY <1>2
  <2>2. b[m] \in 0..Len(D)
    BY <1>3, <2>1
  <2>3. QED
    BY <1>1, <2>2
<1>5. PICK c : c = Reach(p, n - 1)
  OBVIOUS
<1>6. c \in Nat /\ c <= Len(D)
  <2>1. PICK k \in Nat : k = n - 1 /\ k <= Len(p)
    OBVIOUS
  <2>2. Within(p, PartsOf, Len(p)) /\ Len(p) \in Nat
    BY FirstsType
  <2>3. Within(p, PartsOf, k)
    BY <2>1, <2>2 DEF Within
  <2>4. SelectedTo(p, Fresh(p), k) \in Seq(PartsOf)
    BY <2>3, SelectedType
  <2>5. Prefix(SelectedTo(p, Fresh(p), k), SelectedTo(p, Fresh(p), Len(p)))
    BY <2>1, <2>2, SelectedPrefix
  <2>6. QED
    BY <1>1, <1>5, <2>1, <2>4, <2>5 DEF Prefix, Reach, Firsts, Selected
<1>7. a <= c
  BY <1>2, <1>4, <1>5 DEF Planning
<1>8. QED
  BY <1>1, <1>2, <1>3, <1>4, <1>5, <1>6, <1>7 DEF Stands

\* A part under a new path is the next of the distinct ones.
LEMMA NextIsFresh ==
    ASSUME NEW p \in Seq(PartsOf), NEW n \in 1..Len(p), n \in Fresh(p),
           NEW D, D = Firsts(p), NEW c, c = Reach(p, n - 1)
    PROVE  c \in Nat /\ c + 1 <= Len(D) /\ D[c + 1] = p[n] /\ Reach(p, (n + 1) - 1) = c + 1
<1>1. PICK k \in Nat : k = n - 1 /\ k + 1 = n /\ (n + 1) - 1 = k + 1 /\ k < Len(p)
  OBVIOUS
<1>2. Within(p, PartsOf, Len(p)) /\ Len(p) \in Nat
  BY FirstsType
<1>3. k + 1 \in Fresh(p)
  BY <1>1
<1>4. PICK S, N, r, t : /\ S = Fresh(p) /\ N = Len(p) /\ r = SelectedTo(p, S, k)
                        /\ t = SelectedTo(p, S, N)
  OBVIOUS
<1>5. /\ Len(r) \in Nat /\ Len(SelectedTo(p, S, k + 1)) = Len(r) + 1
      /\ Len(r) + 1 <= Len(t) /\ t[Len(r) + 1] = p[k + 1]
  BY <1>1, <1>2, <1>3, <1>4, SelectedPlace
<1>6. c = Len(r) /\ D = t
  BY <1>1, <1>4 DEF Reach, Firsts, Selected
<1>7. QED
  BY <1>1, <1>4, <1>5, <1>6 DEF Reach

\* A part that fits joins the current batch.
LEMMA PlanningAdd ==
    ASSUME NEW p \in Seq(PartsOf), NEW n \in 1..Len(p), n \in Fresh(p), p[n].size <= Limit,
           NEW b, NEW cur, NEW bs \in Seq(Seq(PartsOf)), Planning(b, p, n, cur, bs),
           cur = <<>> \/ Load(cur) + p[n].size <= Limit
    PROVE  Planning(b, p, n + 1, Append(cur, p[n]), bs)
<1>0. n \in 1..(Len(p) + 1)
  OBVIOUS
<1>1. PICK D, m, a, c : Stands(b, p, n, bs, D, m, a, c)
  BY <1>0, PlanningStands
<1>2. c + 1 <= Len(D) /\ D[c + 1] = p[n] /\ Reach(p, (n + 1) - 1) = c + 1
  BY <1>1, NextIsFresh DEF Stands
<1>3. cur = SubSeq(D, a + 1, c)
  BY <1>1 DEF Planning, Stands
<1>4. D \in Seq(PartsOf) /\ a \in Nat /\ c \in Nat /\ a <= c /\ c <= Len(D) /\ Len(D) \in Nat
  BY <1>1 DEF Stands
<1>5. PICK e \in Nat : e = c + 1 /\ c <= e /\ e <= Len(D) /\ a < e
  BY <1>2, <1>4
<1>6. Append(cur, p[n]) = SubSeq(D, a + 1, e)
  <2>1. SubSeq(D, a + 1, c) \o SubSeq(D, c + 1, e) = SubSeq(D, a + 1, e)
    BY <1>4, <1>5, SegmentsJoin
  <2>2. SubSeq(D, c + 1, e) = <<D[e]>> /\ D[e] \in PartsOf
    BY <1>4, <1>5, SegmentOfOne
  <2>3. cur \in Seq(PartsOf)
    BY <1>3, <1>4, SegmentType
  <2>4. PICK x \in PartsOf : x = p[n] /\ x = D[e]
    BY <1>2, <1>5, <2>2
  <2>5. Append(cur, x) = cur \o <<x>>
    BY <2>3, AppendIsConcat
  <2>6. QED
    BY <1>3, <2>1, <2>2, <2>4, <2>5
<1>7. LoadTo(D, e) <= LoadTo(D, a) + Limit
  <2>1. PICK x, y, z, l, q : /\ x = LoadTo(D, a) /\ y = LoadTo(D, c) /\ z = LoadTo(D, e) /\ l = Load(cur)
                             /\ q = p[n].size
    OBVIOUS
  <2>2. x \in Nat /\ y \in Nat /\ l \in Nat /\ y = x + l
    BY <1>3, <1>4, <2>1, LoadOfSegment, PartsSized
  <2>3. z \in Nat /\ q \in Nat /\ z = y + q
    <3>1. c < Len(D)
      BY <1>2, <1>4
    <3>2. QED
      BY <1>2, <1>4, <1>5, <2>1, <3>1, LoadOfMore, PartsSized
  <2>4. l = 0 \/ l + q <= Limit
    BY <2>1, LoadOfNone
  <2>5. q <= Limit /\ Limit \in Nat
    BY <2>1, AccountingAssumption
  <2>6. z <= x + Limit
    BY <2>2, <2>3, <2>4, <2>5
  <2>7. QED
    BY <2>1, <2>6
<1>8. /\ CutAt(b, bs, D) /\ FullTo(b, D, Len(bs)) /\ b[Len(bs)] = a /\ D = Firsts(p)
      /\ Reach(p, (n + 1) - 1) = e
  BY <1>1, <1>2, <1>5 DEF Planning, Stands
<1>9. a <= e /\ a # e
  BY <1>4, <1>5
<1>10. QED
  BY <1>6, <1>7, <1>8, <1>9 DEF Planning

\* One batch more.
Extended(d, b, bs, cur, s, m, c) ==
    /\ CutAt(d, Append(bs, cur), s) /\ d[m + 1] = c /\ (\A j \in 0..m : d[j] = b[j])
    /\ Len(Append(bs, cur)) = m + 1

LEMMA CutExtends ==
    ASSUME NEW X, NEW s \in Seq(X), NEW Y, NEW bs \in Seq(Y), NEW m, m = Len(bs), NEW b,
           CutAt(b, bs, s), NEW a, a = b[m], NEW c \in Nat, a < c, c <= Len(s),
           NEW cur \in Y, cur = SubSeq(s, a + 1, c), LoadTo(s, c) <= LoadTo(s, a) + Limit
    PROVE  \E d : Extended(d, b, bs, cur, s, m, c)
<1>1. m \in Nat /\ Len(s) \in Nat /\ c \in 0..Len(s)
  OBVIOUS
<1>2. PICK d : d = [j \in 0..(m + 1) |-> IF j <= m THEN b[j] ELSE c]
  OBVIOUS
<1>3. b \in [0..m -> 0..Len(s)] /\ b[0] = 0
  BY DEF CutAt
<1>4. d[m + 1] = c /\ (\A j \in 0..m : d[j] = b[j]) /\ d \in [0..(m + 1) -> 0..Len(s)] /\ d[0] = 0
  BY <1>1, <1>2, <1>3
<1>5. PICK u : u = Append(bs, cur)
  OBVIOUS
<1>6. Len(u) = m + 1 /\ (\A j \in 1..m : u[j] = bs[j]) /\ u[m + 1] = cur
  <2>1. PICK t \in Seq(Y), x \in Y : t = bs /\ x = cur
    OBVIOUS
  <2>2. /\ Len(Append(t, x)) = Len(t) + 1 /\ (\A j \in 1..Len(t) : Append(t, x)[j] = t[j])
        /\ Append(t, x)[Len(t) + 1] = x
    BY ONLY <2>1, AppendProperties
  <2>3. QED
    BY <1>5, <2>1, <2>2
<1>7. ASSUME NEW j \in 1..(m + 1)
      PROVE  /\ d[j - 1] < d[j] /\ u[j] = SubSeq(s, d[j - 1] + 1, d[j])
             /\ LoadTo(s, d[j]) <= LoadTo(s, d[j - 1]) + Limit
  <2>1. CASE j \in 1..m
    <3>1. d[j] = b[j] /\ d[j - 1] = b[j - 1] /\ u[j] = bs[j]
      <4>1. j \in 0..m /\ j - 1 \in 0..m
        BY <1>1, <2>1
      <4>2. QED
        BY <1>4, <1>6, <2>1, <4>1
    <3>2. /\ b[j - 1] < b[j] /\ bs[j] = SubSeq(s, b[j - 1] + 1, b[j])
          /\ LoadTo(s, b[j]) <= LoadTo(s, b[j - 1]) + Limit
      BY <2>1 DEF CutAt
    <3>3. QED
      BY <3>1, <3>2
  <2>2. CASE j = m + 1
    <3>1. d[j] = c /\ j - 1 = m /\ d[j - 1] = a /\ u[j] = cur
      BY <1>1, <1>4, <1>6, <2>2
    <3>2. QED
      BY <3>1
  <2>3. QED
    BY <1>1, <2>1, <2>2
<1>8. CutAt(d, u, s)
  BY <1>4, <1>6, <1>7 DEF CutAt
<1>9. QED
  BY <1>4, <1>5, <1>6, <1>8 DEF Extended

\* A part that does not fit closes the current batch and opens the next.
LEMMA PlanningCut ==
    ASSUME NEW p \in Seq(PartsOf), NEW n \in 1..Len(p), n \in Fresh(p), p[n].size <= Limit,
           NEW b, NEW cur, NEW bs \in Seq(Seq(PartsOf)), Planning(b, p, n, cur, bs),
           cur # <<>>, Load(cur) + p[n].size > Limit
    PROVE  cur \in Seq(PartsOf) /\ \E d : Planning(d, p, n + 1, <<p[n]>>, Append(bs, cur))
<1>0. n \in 1..(Len(p) + 1)
  OBVIOUS
<1>1. PICK D, m, a, c : Stands(b, p, n, bs, D, m, a, c)
  BY <1>0, PlanningStands
<1>2. c + 1 <= Len(D) /\ D[c + 1] = p[n] /\ Reach(p, (n + 1) - 1) = c + 1
  BY <1>1, NextIsFresh DEF Stands
<1>3. cur = SubSeq(D, a + 1, c) /\ LoadTo(D, c) <= LoadTo(D, a) + Limit
  BY <1>1 DEF Planning, Stands
<1>4. /\ D \in Seq(PartsOf) /\ a \in Nat /\ c \in Nat /\ a <= c /\ c <= Len(D) /\ Len(D) \in Nat
      /\ m = Len(bs) /\ m \in Nat /\ b[m] = a /\ D = Firsts(p)
  BY <1>1 DEF Stands
<1>5. cur \in Seq(PartsOf) /\ Len(cur) = c - a
  BY <1>3, <1>4, SegmentType
<1>6. a < c
  BY <1>4, <1>5
<1>7. CutAt(b, bs, D) /\ FullTo(b, D, m)
  BY <1>4 DEF Planning
<1>8. PICK d : CutAt(d, Append(bs, cur), D) /\ d[m + 1] = c /\ (\A j \in 0..m : d[j] = b[j])
                 /\ Len(Append(bs, cur)) = m + 1
  <2>1. PICK Y : Y = Seq(PartsOf)
    OBVIOUS
  <2>2. bs \in Seq(Y) /\ cur \in Y
    BY <1>5, <2>1
  <2>3. \E d : Extended(d, b, bs, cur, D, m, c)
    BY <1>3, <1>4, <1>6, <1>7, <2>2, CutExtends
  <2>4. QED
    BY <2>3 DEF Extended
<1>9. PICK x, y, z, l, q : /\ x = LoadTo(D, a) /\ y = LoadTo(D, c) /\ z = LoadTo(D, c + 1) /\ l = Load(cur)
                           /\ q = p[n].size
  OBVIOUS
<1>10. x \in Nat /\ y \in Nat /\ l \in Nat /\ y = x + l
  BY <1>3, <1>4, <1>9, LoadOfSegment, PartsSized
<1>11. z \in Nat /\ q \in Nat /\ z = y + q
  <2>1. c < Len(D)
    BY <1>2, <1>4
  <2>2. QED
    BY <1>2, <1>4, <1>9, <2>1, LoadOfMore, PartsSized
<1>12. l + q > Limit /\ q <= Limit /\ Limit \in Nat
  BY <1>9, AccountingAssumption
<1>13. z > x + Limit /\ z <= y + Limit
  BY <1>10, <1>11, <1>12
<1>14. FullTo(d, D, m + 1)
  <2>1. ASSUME NEW j \in 1..(m + 1)
        PROVE  d[j] < Len(D) /\ LoadTo(D, d[j] + 1) > LoadTo(D, d[j - 1]) + Limit
    <3>1. CASE j \in 1..m
      <4>1. j \in 0..m /\ j - 1 \in 0..m
        BY <1>4, <3>1
      <4>2. d[j] = b[j] /\ d[j - 1] = b[j - 1]
        BY <1>8, <4>1
      <4>3. QED
        BY <1>7, <3>1, <4>2 DEF FullTo
    <3>2. CASE j = m + 1
      <4>1. d[j] = c /\ j - 1 = m /\ d[j - 1] = a
        BY <1>4, <1>8, <3>2
      <4>2. QED
        BY <1>2, <1>4, <1>9, <1>13, <4>1
    <3>3. QED
      BY <1>4, <3>1, <3>2
  <2>2. QED
    BY <2>1 DEF FullTo
<1>15. PICK e \in Nat : e = c + 1 /\ e <= Len(D)
  BY <1>2, <1>4
<1>16. <<p[n]>> = SubSeq(D, c + 1, e)
  <2>1. SubSeq(D, c + 1, e) = <<D[e]>>
    BY <1>4, <1>15, SegmentOfOne
  <2>2. QED
    BY <1>2, <1>15, <2>1
<1>17. PICK u : u = Append(bs, cur) /\ Len(u) = m + 1
  BY <1>8
<1>18. Planning(d, p, n + 1, <<p[n]>>, u)
  <2>1. CutAt(d, u, D) /\ FullTo(d, D, Len(u)) /\ d[Len(u)] = c /\ Reach(p, (n + 1) - 1) = e
    BY <1>2, <1>8, <1>14, <1>15, <1>17
  <2>2. c <= e /\ c # e
    BY <1>4, <1>15
  <2>3. LoadTo(D, e) <= LoadTo(D, c) + Limit
    BY <1>9, <1>13, <1>15
  <2>4. QED
    BY <1>4, <1>16, <2>1, <2>2, <2>3 DEF Planning
<1>19. QED
  BY <1>5, <1>17, <1>18

\* After the last part the current batch, if there is one, is the last.
LEMMA PlanningFinish ==
    ASSUME NEW p \in Seq(PartsOf), NEW n, n = Len(p) + 1,
           NEW b, NEW cur, NEW bs \in Seq(Seq(PartsOf)), Planning(b, p, n, cur, bs)
    PROVE  /\ cur = <<>> => Planned(b, p, bs)
           /\ cur # <<>> => cur \in Seq(PartsOf) /\ \E d : Planned(d, p, Append(bs, cur))
<1>0. n \in 1..(Len(p) + 1) /\ n - 1 = Len(p)
  OBVIOUS
<1>1. PICK D, m, a, c : Stands(b, p, n, bs, D, m, a, c)
  BY <1>0, PlanningStands
<1>2. /\ D \in Seq(PartsOf) /\ a \in Nat /\ c \in Nat /\ a <= c /\ c <= Len(D) /\ Len(D) \in Nat
      /\ m = Len(bs) /\ m \in Nat /\ b[m] = a /\ D = Firsts(p)
  BY <1>1 DEF Stands
<1>3. c = Len(D)
  BY <1>0, <1>1 DEF Stands, Reach, Firsts, Selected
<1>4. cur = SubSeq(D, a + 1, c) /\ LoadTo(D, c) <= LoadTo(D, a) + Limit /\ CutAt(b, bs, D) /\ FullTo(b, D, m)
  BY <1>1 DEF Planning, Stands
<1>5. cur \in Seq(PartsOf) /\ Len(cur) = c - a
  BY <1>2, <1>4, SegmentType
<1>6. ASSUME cur = <<>> PROVE Planned(b, p, bs)
  <2>1. a = c
    BY <1>2, <1>5, <1>6
  <2>2. FullTo(b, D, m - 1)
    BY <1>2, <1>4 DEF FullTo
  <2>3. QED
    BY <1>2, <1>3, <1>4, <2>1, <2>2 DEF Planned
<1>7. ASSUME cur # <<>> PROVE \E d : Planned(d, p, Append(bs, cur))
  <2>1. a < c
    BY <1>2, <1>5, <1>7
  <2>2. PICK d : CutAt(d, Append(bs, cur), D) /\ d[m + 1] = c /\ (\A j \in 0..m : d[j] = b[j])
                   /\ Len(Append(bs, cur)) = m + 1
    <3>1. PICK Y : Y = Seq(PartsOf)
      OBVIOUS
    <3>2. bs \in Seq(Y) /\ cur \in Y
      BY <1>5, <3>1
    <3>3. \E d : Extended(d, b, bs, cur, D, m, c)
      BY <1>2, <1>4, <2>1, <3>2, CutExtends
    <3>4. QED
      BY <3>3 DEF Extended
  <2>3. PICK u : u = Append(bs, cur) /\ Len(u) = m + 1
    BY <2>2
  <2>4. FullTo(d, D, Len(u) - 1)
    <3>1. Len(u) - 1 = m
      BY <1>2, <2>3
    <3>2. ASSUME NEW j \in 1..m PROVE d[j] = b[j] /\ d[j - 1] = b[j - 1]
      <4>1. j \in 0..m /\ j - 1 \in 0..m
        BY <1>2
      <4>2. QED
        BY <2>2, <4>1
    <3>3. QED
      BY <1>4, <3>1, <3>2 DEF FullTo
  <2>5. Planned(d, p, u)
    BY <1>2, <1>3, <2>2, <2>3, <2>4 DEF Planned
  <2>6. QED
    BY <2>3, <2>5
<1>8. QED
  BY <1>5, <1>6, <1>7

LEMMA PlanInit == Plan!Init => PlanInv
<1> SUFFICES ASSUME Plan!Init PROVE PlanInv
  OBVIOUS
<1>1. PICK n \in 1..MaxParts : parts \in [1..n -> Plan!Parts]
  BY DEF Plan!Init
<1>2. parts \in Seq(PartsOf)
  <2>1. n \in Nat
    BY <1>1, AccountingAssumption
  <2>2. Plan!Parts = PartsOf
    BY DEF Plan!Parts, PartsOf
  <2>3. parts \in [1..n -> PartsOf]
    BY <1>1, <2>2
  <2>4. QED
    BY <2>1, <2>3
<1>3. PICK p, none : p = parts /\ none = <<>>
  OBVIOUS
<1>4. p \in Seq(PartsOf)
  BY <1>2, <1>3
<1>5. \E b : Planning(b, p, 1, none, none)
  BY <1>3, <1>4, PlanningStart
<1>6. next = 1 /\ current = <<>> /\ batches = <<>> /\ planned = "run"
  BY DEF Plan!Init
<1>7. \E b : Planning(b, parts, next, current, batches)
  BY <1>3, <1>5, <1>6
<1>8. next \in 1..(Len(parts) + 1)
  BY <1>2, <1>6
<1>9. batches \in Seq(Seq(PartsOf))
  BY <1>6
<1>10. QED
  BY <1>2, <1>6, <1>7, <1>8, <1>9 DEF PlanInv

LEMMA FreshIs == ASSUME NEW n \in DOMAIN parts PROVE Plan!Seen(n) <=> n \notin Fresh(parts)
  BY DEF Plan!Seen, Fresh

LEMMA PlanNext == ASSUME PlanInv, Plan!Next PROVE PlanInv'
<1>1. parts \in Seq(PartsOf) /\ planned = "run" /\ batches \in Seq(Seq(PartsOf)) /\ parts' = parts
  BY DEF PlanInv, Plan!Next, Plan!Reject, Plan!Skip, Plan!Add, Plan!Finish
<1>2. PICK p, n, cur, bs : p = parts /\ n = next /\ cur = current /\ bs = batches
  OBVIOUS
<1>3. p \in Seq(PartsOf) /\ bs \in Seq(Seq(PartsOf)) /\ n \in 1..(Len(p) + 1) /\ Len(p) \in Nat
  BY <1>1, <1>2 DEF PlanInv
<1>4. PICK b : Planning(b, p, n, cur, bs)
  BY <1>1, <1>2 DEF PlanInv
<1>5. CASE Plan!Reject
  BY <1>1, <1>5 DEF PlanInv, Plan!Reject
<1>6. CASE Plan!Skip
  <2>1. n \in 1..Len(p) /\ n \notin Fresh(p)
    <3>1. n <= Len(p) /\ Plan!Seen(n)
      BY <1>2, <1>6 DEF Plan!Skip
    <3>2. n \in 1..Len(p) /\ n \in DOMAIN parts
      BY <1>2, <1>3, <3>1
    <3>3. QED
      BY <1>2, <3>1, <3>2, FreshIs
  <2>2. Planning(b, p, n + 1, cur, bs)
    BY <1>3, <1>4, <2>1, PlanningSkip
  <2>3. next' = n + 1 /\ current' = cur /\ batches' = bs /\ parts' = p /\ planned' = "run"
    BY <1>1, <1>2, <1>6 DEF Plan!Skip
  <2>4. next' \in 1..(Len(parts') + 1)
    BY <1>3, <2>1, <2>3
  <2>5. \E d : Planning(d, parts', next', current', batches')
    BY <2>2, <2>3
  <2>6. QED
    BY <1>3, <2>3, <2>4, <2>5 DEF PlanInv
<1>7. CASE Plan!Add
  <2>1. n \in 1..Len(p) /\ n \in Fresh(p) /\ p[n].size <= Limit
    <3>1. n <= Len(p) /\ ~Plan!Seen(n) /\ ~(p[n].size > Limit)
      BY <1>2, <1>7 DEF Plan!Add, Plan!Oversized
    <3>2. n \in 1..Len(p) /\ n \in DOMAIN parts
      BY <1>2, <1>3, <3>1
    <3>3. p[n].size \in Nat /\ Limit \in Nat
      <4>1. p[n] \in PartsOf
        BY <1>3, <3>2
      <4>2. QED
        BY <4>1, PartsSized, AccountingAssumption DEF Sized
    <3>4. QED
      BY <1>2, <3>1, <3>2, <3>3, FreshIs
  <2>2. next' = n + 1 /\ parts' = p /\ planned' = "run"
    BY <1>1, <1>2, <1>7 DEF Plan!Add
  <2>3. next' \in 1..(Len(parts') + 1)
    BY <1>3, <2>1, <2>2
  <2>4. Plan!Overflows(p[n]) <=> cur # <<>> /\ Load(cur) + p[n].size > Limit
    BY <1>2, PlanBytes DEF Plan!Overflows
  <2>5. CASE Plan!Overflows(p[n])
    <3>1. batches' = Append(bs, cur) /\ current' = <<p[n]>>
      BY <1>2, <1>7, <2>5 DEF Plan!Add
    <3>2. cur \in Seq(PartsOf) /\ \E d : Planning(d, p, n + 1, <<p[n]>>, Append(bs, cur))
      BY <1>3, <1>4, <2>1, <2>4, <2>5, PlanningCut
    <3>3. batches' \in Seq(Seq(PartsOf))
      BY <1>3, <3>1, <3>2
    <3>4. \E d : Planning(d, parts', next', current', batches')
      BY <2>2, <3>1, <3>2
    <3>5. QED
      BY <1>3, <2>2, <2>3, <3>3, <3>4 DEF PlanInv
  <2>6. CASE ~Plan!Overflows(p[n])
    <3>1. batches' = bs /\ current' = Append(cur, p[n])
      BY <1>2, <1>7, <2>6 DEF Plan!Add
    <3>2. cur = <<>> \/ Load(cur) + p[n].size <= Limit
      <4>1. CASE cur # <<>>
        <5>1. PICK D, m, a, c : Stands(b, p, n, bs, D, m, a, c)
          BY <1>3, <1>4, PlanningStands
        <5>2. cur = SubSeq(D, a + 1, c)
          BY <1>4, <5>1 DEF Planning, Stands
        <5>3. Load(cur) \in Nat
          BY <5>1, <5>2, LoadOfSegment, PartsSized DEF Stands
        <5>4. p[n] \in PartsOf
          BY <1>3, <2>1
        <5>5. p[n].size \in Nat /\ Limit \in Nat
          BY <5>4, PartsSized, AccountingAssumption DEF Sized
        <5>6. QED
          BY <2>4, <2>6, <5>3, <5>5
      <4>2. QED
        BY <4>1
    <3>3. Planning(b, p, n + 1, Append(cur, p[n]), bs)
      BY <1>3, <1>4, <2>1, <3>2, PlanningAdd
    <3>4. \E d : Planning(d, parts', next', current', batches')
      BY <2>2, <3>1, <3>3
    <3>5. QED
      BY <1>3, <2>2, <2>3, <3>1, <3>4 DEF PlanInv
  <2>7. QED
    BY <2>5, <2>6
<1>8. CASE Plan!Finish
  <2>1. n = Len(p) + 1
    <3>1. n > Len(p)
      BY <1>2, <1>8 DEF Plan!Finish
    <3>2. QED
      BY <1>3, <3>1
  <2>2. parts' = p /\ planned' = "ok" /\ batches' = IF cur = <<>> THEN bs ELSE Append(bs, cur)
    BY <1>1, <1>2, <1>8 DEF Plan!Finish
  <2>3. /\ cur = <<>> => Planned(b, p, bs)
        /\ cur # <<>> => cur \in Seq(PartsOf) /\ \E d : Planned(d, p, Append(bs, cur))
    BY <1>3, <1>4, <2>1, PlanningFinish
  <2>4. batches' \in Seq(Seq(PartsOf))
    BY <1>3, <2>2, <2>3
  <2>5. \E d : Planned(d, parts', batches')
    BY <2>2, <2>3
  <2>6. QED
    BY <1>3, <2>2, <2>4, <2>5 DEF PlanInv
<1>9. QED
  BY <1>5, <1>6, <1>7, <1>8 DEF Plan!Next

\* The cut flattens to the distinct parts.
LEMMA PlanInvOrder == PlanInv => PlanKeepsOrder
<1> SUFFICES ASSUME PlanInv, planned = "ok" PROVE Plan!FlattenSeq(batches) = Plan!Distinct
  BY DEF PlanKeepsOrder, Plan!PlanKeepsOrder
<1>1. PICK D, bs, m : D = Firsts(parts) /\ bs = batches /\ m = Len(batches)
  OBVIOUS
<1>2. PICK b : Planned(b, parts, bs)
  BY <1>1 DEF PlanInv
<1>3. D \in Seq(PartsOf) /\ m \in Nat /\ Len(bs) = m /\ (m = 0 => bs = <<>>)
  BY <1>1, FirstsType DEF PlanInv
<1>4. CutAt(b, bs, D) /\ b[m] = Len(D)
  BY <1>1, <1>2 DEF Planned
<1>5. FlattenSeq(bs) = SubSeq(D, 1, b[m])
  BY <1>3, <1>4, CutFlattens
<1>6. SubSeq(D, 1, Len(D)) = D
  BY <1>3, SubSeqFull
<1>7. Plan!FlattenSeq(bs) = FlattenSeq(bs)
  BY DEF Plan!FlattenSeq, FlattenSeq
<1>8. QED
  BY <1>1, <1>4, <1>5, <1>6, <1>7, DistinctIs

\* The cut is greedy, so it is the shortest.
LEMMA PlanInvShortest == PlanInv => PlanIsShortest
<1> SUFFICES ASSUME PlanInv, planned = "ok"
             PROVE  /\ \A i \in DOMAIN batches : Plan!Bytes(batches[i]) <= Limit
                    /\ \A cut \in Plan!Cuts(Plan!Distinct) :
                         \/ Cardinality(cut) + 1 >= Len(batches)
                         \/ \E i \in cut \cup {Len(Plan!Distinct)} :
                              Plan!Bytes(Plan!Segment(Plan!Distinct, cut, i)) > Limit
  BY DEF PlanIsShortest, Plan!PlanIsShortest, Plan!Cardinality, Cardinality
<1>1. PICK D, bs, m : D = Firsts(parts) /\ bs = batches /\ m = Len(batches)
  OBVIOUS
<1>2. PICK b : Planned(b, parts, bs)
  BY <1>1 DEF PlanInv
<1>3. D \in Seq(PartsOf) /\ m \in Nat /\ Len(bs) = m /\ bs \in Seq(Seq(PartsOf)) /\ DOMAIN bs = 1..m
  BY <1>1, FirstsType DEF PlanInv
<1>4. CutAt(b, bs, D) /\ FullTo(b, D, m - 1)
  BY <1>1, <1>2 DEF Planned
<1>5. ASSUME NEW i \in 1..m PROVE Load(bs[i]) <= Limit
  <2>1. /\ b \in [0..m -> 0..Len(D)] /\ b[i - 1] < b[i] /\ bs[i] = SubSeq(D, b[i - 1] + 1, b[i])
        /\ LoadTo(D, b[i]) <= LoadTo(D, b[i - 1]) + Limit
    BY <1>3, <1>4 DEF CutAt
  <2>2. i \in 0..m /\ i - 1 \in 0..m
    BY <1>3
  <2>3. PICK a, c : a = b[i - 1] /\ c = b[i] /\ a \in 0..Len(D) /\ c \in 0..Len(D)
    BY <2>1, <2>2
  <2>4. a \in Nat /\ c \in Nat /\ a <= c /\ c <= Len(D)
    BY <1>3, <2>1, <2>3
  <2>5. PICK x, y, l : x = LoadTo(D, a) /\ y = LoadTo(D, c) /\ l = Load(SubSeq(D, a + 1, c))
    OBVIOUS
  <2>6. x \in Nat /\ y \in Nat /\ l \in Nat /\ y = x + l
    BY <1>3, <2>4, <2>5, LoadOfSegment, PartsSized
  <2>7. y <= x + Limit /\ Limit \in Nat
    BY <2>1, <2>3, <2>5, AccountingAssumption
  <2>8. l <= Limit
    BY <2>6, <2>7
  <2>9. QED
    BY <2>1, <2>3, <2>5, <2>8
<1>6. ASSUME NEW cut \in SUBSET (1..(Len(D) - 1)), ~(Cardinality(cut) + 1 >= m)
      PROVE  \E i \in cut \cup {Len(D)} : Load(Plan!Segment(D, cut, i)) > Limit
  <2>1. PICK i \in cut \cup {Len(D)} : ~(Load(Plan!Segment(D, cut, i)) <= Limit)
    BY <1>3, <1>4, <1>6, GreedyIsShortest, PartsSized
  <2>2. Load(Plan!Segment(D, cut, i)) \in Nat
    <3>1. PICK S : S = {0} \cup {c \in cut : c < i}
      OBVIOUS
    <3>2. \A c \in cut : c \in Nat /\ c <= Len(D)
      BY <1>3
    <3>3. i \in Nat /\ i <= Len(D) /\ Len(D) \in Nat
      BY <1>3, <2>1, <3>2
    <3>4. S \in SUBSET (0..i) /\ S # {}
      <4>1. \A y \in S : y \in 0..i
        BY <3>1, <3>2, <3>3
      <4>2. 0 \in S
        BY <3>1
      <4>3. QED
        BY <4>1, <4>2
    <3>5. PICK a : a = Max(S) /\ a \in S
      BY <3>3, <3>4, MaxIs
    <3>6. a \in Nat /\ a <= i
      BY <3>3, <3>4, <3>5
    <3>7. Plan!Segment(D, cut, i) = SubSeq(D, a + 1, i)
      BY <3>1, <3>5 DEF Plan!Segment, Plan!Max, Max
    <3>8. QED
      BY <1>3, <3>3, <3>6, <3>7, LoadOfSegment, PartsSized
  <2>3. QED
    BY <2>1, <2>2, AccountingAssumption
<1>7. Plan!Cuts(D) = SUBSET (1..(Len(D) - 1))
  BY DEF Plan!Cuts
<1>8. Plan!Distinct = D
  BY <1>1, DistinctIs
<1>9. \A i \in DOMAIN batches : Plan!Bytes(batches[i]) <= Limit
  BY <1>1, <1>3, <1>5, PlanBytes
<1>10. ASSUME NEW cut \in Plan!Cuts(Plan!Distinct), ~(Cardinality(cut) + 1 >= Len(batches))
       PROVE  \E i \in cut \cup {Len(Plan!Distinct)} :
                 Plan!Bytes(Plan!Segment(Plan!Distinct, cut, i)) > Limit
  BY <1>1, <1>6, <1>7, <1>8, <1>10, PlanBytes
<1>11. QED
  BY <1>9, <1>10

-----------------------------------------------------------------------------
\* The accounts of the whole plan

\* The members of s whose paths are in P.
ByPath(s, P) == Selected(s, {i \in DOMAIN s : s[i].path \in P})

\* Selecting every position selects all.
LEMMA SelectedAll ==
    ASSUME NEW X, NEW s \in Seq(X), NEW S, \A i \in 1..Len(s) : i \in S
    PROVE  Selected(s, S) = s
<1>0. PICK n : n = Len(s) /\ n \in Nat
  OBVIOUS
<1> DEFINE Done == {k \in Nat : k <= n => SelectedTo(s, S, k) = SubSeq(s, 1, k)}
<1>1. 0 \in Done
  <2>1. SelectedTo(s, S, 0) = <<>>
    BY SelectedOfNone
  <2>2. SubSeq(s, 1, 0) = <<>>
    BY SubSeqEmpty
  <2>3. QED
    BY <2>1, <2>2
<1>2. ASSUME NEW k \in Nat, k \in Done PROVE k + 1 \in Done
  <2> SUFFICES ASSUME k + 1 <= n PROVE SelectedTo(s, S, k + 1) = SubSeq(s, 1, k + 1)
    OBVIOUS
  <2>1. k + 1 \in 1..Len(s) /\ k + 1 \in S /\ k <= n
    BY <1>0
  <2>2. SelectedTo(s, S, k + 1) = Append(SubSeq(s, 1, k), s[k + 1])
    BY <1>2, <2>1, SelectedOfMore
  <2>3. PICK e \in Nat : e = k + 1 /\ e <= Len(s)
    BY <1>0
  <2>4. SubSeq(s, k + 1, e) = <<s[e]>> /\ s[e] \in X
    BY <2>3, SegmentOfOne
  <2>5. PICK z \in Nat : z = 0 /\ z + 1 = 1 /\ z <= k /\ k <= e
    BY <2>3
  <2>6. SubSeq(s, z + 1, k) \o SubSeq(s, k + 1, e) = SubSeq(s, z + 1, e)
    BY <2>3, <2>5, SegmentsJoin
  <2>7. SubSeq(s, z + 1, k) \in Seq(X)
    <3>1. k <= Len(s)
      BY <2>3
    <3>2. QED
      BY <2>5, <3>1, SegmentType
  <2>8. PICK r \in Seq(X), x \in X : r = SubSeq(s, z + 1, k) /\ x = s[e]
    BY <2>4, <2>7
  <2>9. Append(r, x) = r \o <<x>>
    BY AppendIsConcat
  <2>10. QED
    BY <2>2, <2>3, <2>4, <2>5, <2>6, <2>8, <2>9
<1>3. n \in Done
  <2> HIDE DEF Done
  <2> QED BY <1>0, <1>1, <1>2, SetInduction
<1>4. SubSeq(s, 1, Len(s)) = s
  BY SubSeqFull
<1>5. QED
  BY <1>0, <1>3, <1>4 DEF Selected

\* Selecting no position selects nothing.
LEMMA SelectedNothing ==
    ASSUME NEW s, NEW n \in Nat, NEW S, \A i \in 1..n : i \notin S
    PROVE  SelectedTo(s, S, n) = <<>>
<1> DEFINE Done == {k \in Nat : k <= n => SelectedTo(s, S, k) = <<>>}
<1>1. 0 \in Done
  BY SelectedOfNone
<1>2. ASSUME NEW k \in Nat, k \in Done PROVE k + 1 \in Done
  <2> SUFFICES ASSUME k + 1 <= n PROVE SelectedTo(s, S, k + 1) = <<>>
    OBVIOUS
  <2>1. k + 1 \notin S /\ k <= n
    OBVIOUS
  <2>2. QED
    BY <1>2, <2>1, SelectedOfMore
<1>3. n \in Done
  <2> HIDE DEF Done
  <2> QED BY <1>1, <1>2, SetInduction
<1>4. QED
  BY <1>3

LEMMA ByPathType ==
    ASSUME NEW X, NEW s \in Seq(X), NEW P PROVE ByPath(s, P) \in Seq(X)
<1>1. Within(s, X, Len(s)) /\ Len(s) \in Nat
  BY DEF Within
<1>2. QED
  BY <1>1, SelectedType DEF ByPath, Selected

LEMMA ByPathAll ==
    ASSUME NEW X, NEW s \in Seq(X), NEW P, \A x \in X : x.path \in P
    PROVE  ByPath(s, P) = s
<1>1. PICK S : S = {i \in DOMAIN s : s[i].path \in P}
  OBVIOUS
<1>2. \A i \in 1..Len(s) : i \in S
  <2>1. ASSUME NEW i \in 1..Len(s) PROVE i \in S
    <3>1. i \in DOMAIN s /\ s[i] \in X
      OBVIOUS
    <3>2. QED
      BY <1>1, <3>1
  <2>2. QED
    BY <2>1
<1>3. Selected(s, S) = s
  BY <1>2, SelectedAll
<1>4. QED
  BY <1>1, <1>3 DEF ByPath

LEMMA ByPathNone ==
    ASSUME NEW X, NEW s \in Seq(X), NEW P, \A x \in X : x.path \notin P
    PROVE  ByPath(s, P) = <<>>
<1>1. PICK S : S = {i \in DOMAIN s : s[i].path \in P}
  OBVIOUS
<1>2. \A i \in 1..Len(s) : i \notin S
  <2>1. ASSUME NEW i \in 1..Len(s) PROVE i \notin S
    <3>1. i \in DOMAIN s /\ s[i] \in X
      OBVIOUS
    <3>2. QED
      BY <1>1, <3>1
  <2>2. QED
    BY <2>1
<1>3. Len(s) \in Nat
  OBVIOUS
<1>4. SelectedTo(s, S, Len(s)) = <<>>
  BY <1>2, <1>3, SelectedNothing
<1>5. QED
  BY <1>1, <1>4 DEF ByPath, Selected

LEMMA ByPathOfConcat ==
    ASSUME NEW X, NEW s \in Seq(X), NEW t \in Seq(X), NEW P
    PROVE  ByPath(s \o t, P) = ByPath(s, P) \o ByPath(t, P)
<1>1. PICK u, S, R, T : /\ u = s \o t /\ S = {i \in DOMAIN u : u[i].path \in P}
                        /\ R = {i \in DOMAIN s : s[i].path \in P}
                        /\ T = {i \in DOMAIN t : t[i].path \in P}
  OBVIOUS
<1>2. PICK n, m : n = Len(s) /\ m = Len(t) /\ n \in Nat /\ m \in Nat
  OBVIOUS
<1>3. /\ Len(u) = n + m /\ u \in Seq(X)
      /\ \A i \in 1..(n + m) : u[i] = IF i <= n THEN s[i] ELSE t[i - n]
  BY <1>1, <1>2, ConcatProperties
<1>4. DOMAIN u = 1..(n + m) /\ DOMAIN s = 1..n /\ DOMAIN t = 1..m
  BY <1>2, <1>3
<1>5. \A i \in 1..m : i \in T <=> n + i \in S
  <2>1. ASSUME NEW i \in 1..m PROVE i \in T <=> n + i \in S
    <3>1. n + i \in 1..(n + m) /\ ~(n + i <= n) /\ (n + i) - n = i
      BY <1>2
    <3>2. u[n + i] = t[i]
      BY <1>3, <3>1
    <3>3. QED
      BY <1>1, <1>4, <3>1, <3>2
  <2>2. QED
    BY <2>1
<1>6. Selected(s \o t, S) = Selected(s, S) \o Selected(t, T)
  BY <1>2, <1>5, SelectedOfConcat
<1>7. SelectedTo(s, S, n) = SelectedTo(s, R, n)
  <2>1. ASSUME NEW i \in 1..n PROVE s[i] = s[i] /\ (i \in S <=> i \in R)
    <3>1. i \in 1..(n + m) /\ i <= n
      BY <1>2
    <3>2. u[i] = s[i]
      BY <1>3, <3>1
    <3>3. QED
      BY <1>1, <1>4, <3>1, <3>2
  <2>2. QED
    BY <1>2, <2>1, SelectedSame
<1>8. QED
  BY <1>1, <1>2, <1>6, <1>7 DEF ByPath, Selected

\* The bytes under the paths in P.
Weigh(s, P) == Load(ByPath(s, P))

LEMMA WeighOfConcat ==
    ASSUME NEW X, Sized(X), NEW s \in Seq(X), NEW t \in Seq(X), NEW P
    PROVE  Weigh(s \o t, P) = Weigh(s, P) + Weigh(t, P) /\ Weigh(s, P) \in Nat /\ Weigh(t, P) \in Nat
<1>1. PICK r \in Seq(X), q \in Seq(X) : r = ByPath(s, P) /\ q = ByPath(t, P)
  BY ByPathType
<1>2. ByPath(s \o t, P) = r \o q
  <2>1. ByPath(s \o t, P) = ByPath(s, P) \o ByPath(t, P)
    BY ByPathOfConcat
  <2>2. QED
    BY <1>1, <2>1
<1>3. Load(r \o q) = Load(r) + Load(q) /\ Load(r) \in Nat /\ Load(q) \in Nat
  BY LoadOfConcat
<1>4. QED
  BY <1>1, <1>2, <1>3 DEF Weigh

\* What is committed: the parts of the plan and ledgers.
SentOf == PartsOf \cup [path : {LedgerPath}, size : Nat]

LEMMA SentSized == Sized(SentOf) /\ PartsOf \subseteq SentOf
  BY AccountingAssumption DEF SentOf, PartsOf, Sized

\* Paths that are not payload.
Rest == (Paths \cup {LedgerPath}) \ ObjectPaths

LEMMA WeighIs ==
    ASSUME NEW s \in Seq(SentOf)
    PROVE  /\ BytesOf(s, TRUE) = Weigh(s, ObjectPaths) /\ BytesOf(s, FALSE) = Weigh(s, Rest)
           /\ BytesOf(s, TRUE) \in Nat /\ BytesOf(s, FALSE) \in Nat
<1>1. ASSUME NEW i \in DOMAIN s
      PROVE  /\ ((s[i].path \in ObjectPaths) = TRUE) <=> s[i].path \in ObjectPaths
             /\ ((s[i].path \in ObjectPaths) = FALSE) <=> s[i].path \in Rest
  <2>1. s[i] \in SentOf
    OBVIOUS
  <2>2. s[i].path \in Paths \cup {LedgerPath}
    BY <2>1 DEF SentOf, PartsOf
  <2>3. QED
    BY <2>2 DEF Rest
<1>2. {i \in DOMAIN s : (s[i].path \in ObjectPaths) = TRUE} = {i \in DOMAIN s : s[i].path \in ObjectPaths}
  BY <1>1
<1>3. {i \in DOMAIN s : (s[i].path \in ObjectPaths) = FALSE} = {i \in DOMAIN s : s[i].path \in Rest}
  BY <1>1
<1>4. BytesOf(s, TRUE) = Weigh(s, ObjectPaths)
  BY <1>2, PlanBytes DEF BytesOf, Weigh, ByPath
<1>5. BytesOf(s, FALSE) = Weigh(s, Rest)
  BY <1>3, PlanBytes DEF BytesOf, Weigh, ByPath
<1>6. Weigh(s, ObjectPaths) \in Nat /\ Weigh(s, Rest) \in Nat
  BY SentSized, WeighOfConcat
<1>7. QED
  BY <1>4, <1>5, <1>6

\* u is s with a commit of the parts t and a ledger of n bytes.
Weighed(u, s, t, n) ==
    /\ u \in Seq(SentOf)
    /\ BytesOf(u, TRUE) = BytesOf(s, TRUE) + BytesOf(t, TRUE)
    /\ BytesOf(u, FALSE) = BytesOf(s, FALSE) + BytesOf(t, FALSE) + n
    /\ ByPath(u, Paths) = ByPath(s, Paths) \o t

\* The bytes of a commit: those of its parts, and the ledger's among the metadata.
LEMMA CommitWeighs ==
    ASSUME NEW s \in Seq(SentOf), NEW t \in Seq(PartsOf), NEW n \in Nat,
           NEW e, e = [path |-> LedgerPath, size |-> n], NEW u, u = Append(s \o t, e)
    PROVE  Weighed(u, s, t, n)
<1>1. e \in SentOf /\ e.path = LedgerPath /\ e.size = n /\ e.path \notin Paths /\ e.path \notin ObjectPaths
      /\ e.path \in Rest
  BY AccountingAssumption DEF SentOf, Rest
<1>2. t \in Seq(SentOf)
  BY SentSized
<1>3. PICK E : E = {e}
  OBVIOUS
<1>4. PICK l : l = <<e>>
  OBVIOUS
<1>5. l \in Seq(E) /\ l \in Seq(SentOf)
  BY <1>1, <1>3, <1>4
<1>6. s \o t \in Seq(SentOf)
  BY <1>2, ConcatProperties
<1>7. PICK r \in Seq(SentOf) : r = s \o t
  BY <1>6
<1>8. u = r \o l
  BY <1>1, <1>4, <1>7, AppendIsConcat
<1>9. u \in Seq(SentOf)
  BY <1>5, <1>8, ConcatProperties
<1>10. ByPath(l, ObjectPaths) = <<>> /\ ByPath(l, Paths) = <<>> /\ ByPath(l, Rest) = l
  <2>1. /\ \A x \in E : x.path \notin ObjectPaths
        /\ \A x \in E : x.path \notin Paths
        /\ \A x \in E : x.path \in Rest
    BY <1>1, <1>3
  <2>2. QED
    BY <1>5, <2>1, ByPathNone, ByPathAll
<1>11. Weigh(l, ObjectPaths) = 0 /\ Weigh(l, Rest) = n
  <2>1. Load(l) = n
    BY <1>1, <1>4, LoadOfOne
  <2>2. QED
    BY <1>10, <2>1, LoadOfNone DEF Weigh
<1>12. /\ Weigh(u, ObjectPaths) = Weigh(r, ObjectPaths) + Weigh(l, ObjectPaths)
       /\ Weigh(u, Rest) = Weigh(r, Rest) + Weigh(l, Rest)
  <2>1. Weigh(r \o l, ObjectPaths) = Weigh(r, ObjectPaths) + Weigh(l, ObjectPaths)
    BY <1>5, SentSized, WeighOfConcat
  <2>2. Weigh(r \o l, Rest) = Weigh(r, Rest) + Weigh(l, Rest)
    BY <1>5, SentSized, WeighOfConcat
  <2>3. QED
    BY <1>8, <2>1, <2>2
<1>13. /\ Weigh(r, ObjectPaths) = Weigh(s, ObjectPaths) + Weigh(t, ObjectPaths)
       /\ Weigh(r, Rest) = Weigh(s, Rest) + Weigh(t, Rest)
  BY <1>2, <1>7, SentSized, WeighOfConcat
<1>14. /\ BytesOf(u, TRUE) = Weigh(u, ObjectPaths) /\ BytesOf(u, FALSE) = Weigh(u, Rest)
       /\ BytesOf(s, TRUE) = Weigh(s, ObjectPaths) /\ BytesOf(s, FALSE) = Weigh(s, Rest)
       /\ BytesOf(t, TRUE) = Weigh(t, ObjectPaths) /\ BytesOf(t, FALSE) = Weigh(t, Rest)
       /\ BytesOf(s, TRUE) \in Nat /\ BytesOf(t, TRUE) \in Nat
  BY <1>2, <1>9, WeighIs
<1>15. ByPath(u, Paths) = ByPath(s, Paths) \o t
  <2>1. ByPath(r \o l, Paths) = ByPath(r, Paths) \o ByPath(l, Paths)
    BY <1>5, ByPathOfConcat
  <2>2. ByPath(s \o t, Paths) = ByPath(s, Paths) \o ByPath(t, Paths)
    BY <1>2, ByPathOfConcat
  <2>3. ByPath(t, Paths) = t
    <3>1. \A x \in PartsOf : x.path \in Paths
      BY DEF PartsOf
    <3>2. QED
      BY <3>1, ByPathAll
  <2>4. ByPath(r, Paths) \in Seq(SentOf)
    BY ByPathType
  <2>5. ByPath(r, Paths) \o <<>> = ByPath(r, Paths)
    BY <2>4, ConcatEmptySeq
  <2>6. QED
    BY <1>7, <1>8, <1>10, <2>1, <2>2, <2>3, <2>5
<1>16. BytesOf(u, TRUE) = BytesOf(s, TRUE) + BytesOf(t, TRUE)
  <2>1. PICK x \in Nat, y \in Nat : x = BytesOf(s, TRUE) /\ y = BytesOf(t, TRUE)
    BY <1>14
  <2>2. BytesOf(u, TRUE) = (x + y) + 0
    BY <1>11, <1>12, <1>13, <1>14, <2>1
  <2>3. (x + y) + 0 = x + y
    OBVIOUS
  <2>4. QED
    BY <2>1, <2>2, <2>3
<1>17. BytesOf(u, FALSE) = BytesOf(s, FALSE) + BytesOf(t, FALSE) + n
  BY <1>11, <1>12, <1>13, <1>14
<1>18. QED
  BY <1>9, <1>15, <1>16, <1>17 DEF Weighed

\* The parts of s that a head with these files lacks.
Lacking(s, fs) == {i \in DOMAIN s : fs[s[i].path] # s[i].digest}

\* What is left to send meets the files the publication began with, and what is sent is what they lack.
Progress(s, a, base, fs, out) ==
    /\ \A i \in DOMAIN s : i > a => fs[s[i].path] = base[s[i].path]
    /\ ByPath(out, Paths) = SelectedTo(s, Lacking(s, base), a)

\* chosen is what the first head lacks of the parts after a, up to c.
ChosenOf(chosen, s, a, c, base, out) ==
    /\ chosen \in Seq(PartsOf)
    /\ SelectedTo(s, Lacking(s, base), c) = ByPath(out, Paths) \o chosen
    /\ \A j \in DOMAIN chosen : \E i \in (a + 1)..c : chosen[j] = s[i]

\* The parts chosen of the next batch are the ones that the first head lacks.
LEMMA ChosenAreLacking ==
    ASSUME NEW s \in Seq(PartsOf), NEW a \in Nat, NEW c \in Nat, a <= c, c <= Len(s),
           NEW base, NEW fs, NEW out, Progress(s, a, base, fs, out),
           NEW batch, batch = SubSeq(s, a + 1, c),
           NEW chosen, chosen = Selected(batch, Lacking(batch, fs))
    PROVE  ChosenOf(chosen, s, a, c, base, out)
<1>1. /\ batch \in Seq(PartsOf) /\ Len(batch) = c - a /\ c - a \in Nat
      /\ \A i \in 1..(c - a) : batch[i] = s[a + i]
  BY SegmentType
<1>2. PICK S, T : S = Lacking(s, base) /\ T = Lacking(batch, fs)
  OBVIOUS
<1>3. ASSUME NEW i \in 1..Len(batch) PROVE i \in T <=> a + i \in S
  <2>1. i \in DOMAIN batch /\ a + i \in DOMAIN s /\ a + i > a /\ batch[i] = s[a + i]
    BY <1>1
  <2>2. fs[s[a + i].path] = base[s[a + i].path]
    BY <2>1 DEF Progress
  <2>3. QED
    BY <1>2, <2>1, <2>2 DEF Lacking
<1>4. PICK z \in Nat : z = 0 /\ z + 1 = 1 /\ z <= a
  OBVIOUS
<1>5. PICK head, both : head = SubSeq(s, z + 1, a) /\ both = SubSeq(s, z + 1, c)
  OBVIOUS
<1>6. /\ head \in Seq(PartsOf) /\ Len(head) = a - z /\ (\A i \in 1..(a - z) : head[i] = s[z + i])
      /\ both \in Seq(PartsOf) /\ Len(both) = c - z /\ (\A i \in 1..(c - z) : both[i] = s[z + i])
  <2>1. a <= Len(s) /\ z <= c
    BY <1>4
  <2>2. QED
    BY <1>4, <1>5, <2>1, SegmentType
<1>7. /\ Len(head) = a /\ (\A i \in 1..a : head[i] = s[i])
      /\ Len(both) = c /\ \A i \in 1..c : both[i] = s[i]
  <2>1. a - z = a /\ c - z = c
    BY <1>4
  <2>2. \A i \in 1..c : z + i = i
    BY <1>4
  <2>3. \A i \in 1..a : i \in 1..c
    OBVIOUS
  <2>4. QED
    BY <1>6, <2>1, <2>2, <2>3
<1>8. both = head \o batch
  BY <1>4, <1>5, SegmentsJoin
<1>9. Selected(head \o batch, S) = Selected(head, S) \o Selected(batch, T)
  <2>1. \A i \in 1..Len(batch) : i \in T <=> Len(head) + i \in S
    BY <1>3, <1>7
  <2>2. head \in Seq(PartsOf) /\ batch \in Seq(PartsOf)
    BY <1>1, <1>6
  <2>3. PICK x \in Seq(PartsOf), y \in Seq(PartsOf) : x = head /\ y = batch
    BY <2>2
  <2>4. \A i \in 1..Len(y) : i \in T <=> Len(x) + i \in S
    BY <2>1, <2>3
  <2>5. Selected(x \o y, S) = Selected(x, S) \o Selected(y, T)
    BY ONLY <2>3, <2>4, SelectedOfConcat
  <2>6. QED
    BY <2>3, <2>5
<1>10. Selected(both, S) = SelectedTo(s, S, c) /\ Selected(head, S) = SelectedTo(s, S, a)
  <2>0. /\ \A i \in 1..c : both[i] = s[i] /\ (i \in S <=> i \in S)
        /\ \A i \in 1..a : head[i] = s[i] /\ (i \in S <=> i \in S)
    BY <1>7
  <2>1. SelectedTo(both, S, c) = SelectedTo(s, S, c)
    BY <2>0, SelectedSame
  <2>2. SelectedTo(head, S, a) = SelectedTo(s, S, a)
    BY <2>0, SelectedSame
  <2>3. QED
    BY <1>7, <2>1, <2>2 DEF Selected
<1>11. SelectedTo(s, S, c) = ByPath(out, Paths) \o chosen
  BY <1>2, <1>8, <1>9, <1>10 DEF Progress
<1>12. chosen \in Seq(PartsOf) /\ chosen \in Seq({s[i] : i \in (a + 1)..c})
  <2>1. Within(batch, PartsOf, Len(batch))
    BY <1>1 DEF Within
  <2>2. PICK X : X = {s[i] : i \in (a + 1)..c}
    OBVIOUS
  <2>3. Within(batch, X, Len(batch))
    <3>1. ASSUME NEW i \in 1..Len(batch) PROVE batch[i] \in X
      <4>1. a + i \in (a + 1)..c /\ batch[i] = s[a + i]
        BY <1>1
      <4>2. QED
        BY <2>2, <4>1
    <3>2. QED
      BY <3>1 DEF Within
  <2>4. Len(batch) \in Nat
    BY <1>1
  <2>5. chosen \in Seq(PartsOf) /\ chosen \in Seq(X)
    BY <2>1, <2>3, <2>4, SelectedType DEF Selected
  <2>6. QED
    BY <2>2, <2>5
<1>13. ASSUME NEW j \in DOMAIN chosen PROVE \E i \in (a + 1)..c : chosen[j] = s[i]
  <2>1. PICK X : X = {s[i] : i \in (a + 1)..c}
    OBVIOUS
  <2>2. chosen \in Seq(X)
    BY <1>12, <2>1
  <2>3. chosen[j] \in X
    BY <2>2
  <2>4. QED
    BY <2>1, <2>3
<1>14. QED
  BY <1>2, <1>11, <1>12, <1>13 DEF ChosenOf

\* The distinct parts have distinct paths.
LEMMA FirstsDistinct ==
    ASSUME NEW p \in Seq(PartsOf)
    PROVE  \A i, j \in DOMAIN Firsts(p) : Firsts(p)[i].path = Firsts(p)[j].path => i = j
<1>0. PICK N, S : N = Len(p) /\ S = Fresh(p) /\ N \in Nat
  OBVIOUS
<1> DEFINE One(r) == \A i, j \in 1..Len(r) : r[i].path = r[j].path => i = j
           From(r, n) == \A i \in 1..Len(r) : \E k \in 1..n : r[i].path = p[k].path
           Done == {n \in Nat : n <= N => One(SelectedTo(p, S, n)) /\ From(SelectedTo(p, S, n), n)}
<1>1. 0 \in Done
  <2>1. SelectedTo(p, S, 0) = <<>>
    BY SelectedOfNone
  <2>2. PICK r : r = SelectedTo(p, S, 0) /\ Len(r) = 0
    BY <2>1
  <2>3. One(r) /\ From(r, 0)
    BY <2>2
  <2>4. QED
    BY <2>2, <2>3
<1>2. ASSUME NEW n \in Nat, n \in Done PROVE n + 1 \in Done
  <2> SUFFICES ASSUME n + 1 <= N
               PROVE  One(SelectedTo(p, S, n + 1)) /\ From(SelectedTo(p, S, n + 1), n + 1)
    OBVIOUS
  <2>1. PICK r, u : r = SelectedTo(p, S, n) /\ u = SelectedTo(p, S, n + 1)
    OBVIOUS
  <2>2. One(r) /\ From(r, n)
    <3>1. n <= N
      BY <1>0
    <3> HIDE DEF One, From
    <3>2. QED
      BY <1>2, <2>1, <3>1
  <2>3. r \in Seq(PartsOf) /\ p[n + 1] \in PartsOf /\ n + 1 \in DOMAIN p
    <3>1. Within(p, PartsOf, n)
      BY <1>0 DEF Within
    <3>2. n + 1 \in DOMAIN p /\ p[n + 1] \in PartsOf
      BY <1>0
    <3>3. QED
      BY <2>1, <3>1, <3>2, SelectedType
  <2>4. u = IF n + 1 \in S THEN Append(r, p[n + 1]) ELSE r
    BY <2>1, SelectedOfMore
  <2>5. CASE n + 1 \notin S
    <3>1. u = r
      BY <2>4, <2>5
    <3>2. From(u, n + 1)
      <4>1. \A k \in 1..n : k \in 1..(n + 1)
        OBVIOUS
      <4>2. QED
        BY <2>2, <3>1, <4>1
    <3>3. QED
      BY <2>1, <2>2, <3>1, <3>2
  <2>6. CASE n + 1 \in S
    <3>1. PICK x \in PartsOf : x = p[n + 1]
      BY <2>3
    <3>2. PICK l : l = Len(r) /\ l \in Nat
      BY <2>3
    <3>3. Len(u) = l + 1 /\ (\A i \in 1..l : u[i] = r[i]) /\ u[l + 1] = x
      BY <2>3, <2>4, <2>6, <3>1, <3>2, AppendProperties
    <3>4. \A k \in 1..n : p[k].path # x.path
      <4>1. (n + 1) - 1 = n
        OBVIOUS
      <4>2. QED
        BY <1>0, <2>6, <3>1, <4>1 DEF Fresh
    <3>5. \A i \in 1..l : r[i].path # x.path
      BY <2>2, <3>2, <3>4
    <3>6. \A i \in 1..(l + 1) : i \in 1..l \/ i = l + 1
      BY <3>2
    <3>7. One(u)
      <4>1. ASSUME NEW i \in 1..Len(u), NEW j \in 1..Len(u), u[i].path = u[j].path PROVE i = j
        <5>1. (i \in 1..l \/ i = l + 1) /\ (j \in 1..l \/ j = l + 1)
          BY <3>3, <3>6
        <5>2. QED
          BY <2>2, <3>2, <3>3, <3>5, <4>1, <5>1
      <4>2. QED
        BY <4>1
    <3>8. From(u, n + 1)
      <4>1. ASSUME NEW i \in 1..Len(u) PROVE \E k \in 1..(n + 1) : u[i].path = p[k].path
        <5>1. i \in 1..l \/ i = l + 1
          BY <3>3, <3>6
        <5>2. CASE i \in 1..l
          <6>1. PICK k \in 1..n : r[i].path = p[k].path
            BY <2>2, <3>2, <5>2
          <6>2. k \in 1..(n + 1) /\ u[i] = r[i]
            BY <3>3, <5>2
          <6>3. QED
            BY <6>1, <6>2
        <5>3. CASE i = l + 1
          <6>1. n + 1 \in 1..(n + 1)
            OBVIOUS
          <6>2. QED
            BY <3>1, <3>3, <5>3, <6>1
        <5>4. QED
          BY <5>1, <5>2, <5>3
      <4>2. QED
        BY <4>1
    <3>9. QED
      BY <2>1, <3>7, <3>8
  <2>7. QED
    BY <2>5, <2>6
<1>3. N \in Done
  <2> HIDE DEF Done
  <2> QED BY <1>0, <1>1, <1>2, SetInduction
<1>4. One(Firsts(p))
  BY <1>0, <1>3 DEF Firsts, Selected
<1>5. DOMAIN Firsts(p) = 1..Len(Firsts(p))
  BY FirstsType
<1>6. QED
  BY <1>4, <1>5

-----------------------------------------------------------------------------
\* The publication

\* The accounts after d batches: where they stand in the plan, what is sent and the totals.
Booked(p, bs, bg, fs, d, out, t) ==
    /\ d \in 0..Len(bs) /\ out \in Seq(SentOf) /\ bg.totals \in Counts
    /\ \E b : Planned(b, p, bs) /\ Progress(Firsts(p), b[d], bg.files, fs, out)
    /\ t = [payload |-> bg.totals.payload + BytesOf(out, TRUE),
            metadata |-> bg.totals.metadata + BytesOf(out, FALSE)]

\* The parts chosen of a batch, and their bytes.
Chosen(batch, fs) == Selected(batch, Lacking(batch, fs))
Addition(batch, fs) == [payload |-> BytesOf(Chosen(batch, fs), TRUE),
                    metadata |-> BytesOf(Chosen(batch, fs), FALSE)]

AccountInv ==
    /\ status = "plan" => done = 0 /\ sent = <<>>
    /\ status # "plan" => planned = "ok" /\ Booked(parts, batches, begun, files, done, sent, new)
    /\ status = "run" => /\ done < Len(batches) /\ old = new
                         /\ added = Addition(batches[done + 1], files)

\* An admitted ledger is the candidate whose length was counted.
Admitted == status = "ok" => new = Candidate /\ Length(Candidate) = size

PublicationInv == PlanInv /\ Converging /\ AccountInv /\ Admitted

LEMMA PublicationInit == BeginPlan => PublicationInv
<1> SUFFICES ASSUME BeginPlan PROVE PublicationInv
  OBVIOUS
<1>1. PlanInv
  BY PlanInit DEF BeginPlan
<1>2. status = "plan" /\ new = [payload |-> 0, metadata |-> 0] /\ done = 0 /\ sent = <<>>
  BY DEF BeginPlan, NoTotals
<1>3. Converging
  BY <1>2 DEF Converging, Counts
<1>4. QED
  BY <1>1, <1>2, <1>3 DEF PublicationInv, AccountInv, Admitted

\* A state whose plan is unchanged keeps the plan's invariant.
LEMMA PlanKept == ASSUME PlanInv, UNCHANGED planVars PROVE PlanInv'
  BY DEF PlanInv, planVars

\* The plan is made before the publication begins.
LEMMA PublicationPlan == ASSUME PublicationInv, PlanStep PROVE PublicationInv'
<1>1. PlanInv' /\ planned # "ok"
  BY PlanNext DEF PublicationInv, PlanStep, Plan!Next, Plan!Reject, Plan!Skip, Plan!Add, Plan!Finish
<1>2. UNCHANGED vars
  BY DEF PlanStep
<1>3. status' = status /\ status = "plan" /\ new' = new /\ UNCHANGED <<done, sent>>
  BY <1>1, <1>2 DEF PublicationInv, AccountInv, vars, PlanStep, loopVars
<1>4. Converging'
  BY <1>3 DEF PublicationInv, Converging
<1>5. AccountInv'
  BY <1>3 DEF PublicationInv, AccountInv
<1>6. QED
  BY <1>1, <1>3, <1>4, <1>5 DEF PublicationInv, Admitted

\* Before anything is sent the accounts are those of the head.
LEMMA OpenBooked ==
    ASSUME NEW p \in Seq(PartsOf), NEW bs \in Seq(Seq(PartsOf)), \E b : Planned(b, p, bs),
           NEW bg, bg.totals \in Counts, NEW fs, fs = bg.files, NEW t, t = bg.totals,
           NEW none, none = <<>>
    PROVE  Booked(p, bs, bg, fs, 0, none, t)
<1>1. PICK b : Planned(b, p, bs)
  OBVIOUS
<1>2. b[0] = 0
  BY <1>1 DEF Planned, CutAt
<1>3. PICK E : E = {}
  OBVIOUS
<1>4. none \in Seq(E) /\ none \in Seq(SentOf)
  OBVIOUS
<1>5. \A P : ByPath(none, P) = <<>>
  <2>1. \A x \in E : FALSE
    BY <1>3
  <2>2. QED
    BY <1>4, <2>1, ByPathNone
<1>6. BytesOf(none, TRUE) = 0 /\ BytesOf(none, FALSE) = 0
  <2>1. Weigh(none, ObjectPaths) = 0 /\ Weigh(none, Rest) = 0
    BY <1>5, LoadOfNone DEF Weigh
  <2>2. QED
    BY <1>4, <2>1, WeighIs
<1>7. Progress(Firsts(p), b[0], bg.files, fs, none)
  <2>1. PICK S : S = Lacking(Firsts(p), bg.files)
    OBVIOUS
  <2>2. SelectedTo(Firsts(p), S, 0) = <<>>
    BY SelectedOfNone
  <2>3. QED
    BY <1>2, <1>5, <2>1, <2>2 DEF Progress
<1>8. t = [payload |-> bg.totals.payload + 0, metadata |-> bg.totals.metadata + 0]
  BY DEF Counts
<1>9. 0 \in 0..Len(bs)
  OBVIOUS
<1>10. QED
  BY <1>1, <1>4, <1>6, <1>7, <1>8, <1>9 DEF Booked

\* The first head: nothing is sent.
LEMMA PublicationOpen == ASSUME PublicationInv, Open PROVE PublicationInv'
<1>1. status = "plan" /\ planned = "ok" /\ begun' \in Heads /\ new' = begun'.totals /\ files' = begun'.files
      /\ status' = "open" /\ UNCHANGED <<planVars, done, sent>>
  BY DEF Open
<1>2. PlanInv'
  BY <1>1, PlanKept DEF PublicationInv
<1>3. begun'.totals \in Counts
  BY <1>1, AccountingAssumption, LedgerAssumption DEF Counts
<1>4. Converging'
  BY <1>1, <1>3 DEF Converging
<1>5. Booked(parts', batches', begun', files', 0, <<>>, new')
  BY <1>1, <1>3, OpenBooked DEF PublicationInv, PlanInv, planVars
<1>6. AccountInv'
  BY <1>1, <1>5 DEF PublicationInv, AccountInv, planVars
<1>7. QED
  BY <1>1, <1>2, <1>4, <1>6 DEF PublicationInv, Admitted

\* Where the next batch lies in the plan.
NextAt(b, p, bs, bg, fs, d, out, D, a, c) ==
    /\ Planned(b, p, bs) /\ D = Firsts(p) /\ D \in Seq(PartsOf)
    /\ a = b[d] /\ c = b[d + 1] /\ a \in Nat /\ c \in Nat /\ a < c /\ c <= Len(D)
    /\ bs[d + 1] = SubSeq(D, a + 1, c)
    /\ Progress(D, a, bg.files, fs, out)

LEMMA NextBatch ==
    ASSUME NEW p \in Seq(PartsOf), NEW bs \in Seq(Seq(PartsOf)), NEW bg, NEW fs, NEW d, NEW out, NEW t,
           Booked(p, bs, bg, fs, d, out, t), d < Len(bs)
    PROVE  \E b, D, a, c : NextAt(b, p, bs, bg, fs, d, out, D, a, c)
<1>1. PICK b : Planned(b, p, bs) /\ Progress(Firsts(p), b[d], bg.files, fs, out)
  BY DEF Booked
<1>2. PICK D, m : D = Firsts(p) /\ m = Len(bs)
  OBVIOUS
<1>3. D \in Seq(PartsOf) /\ Len(D) \in Nat /\ m \in Nat /\ d \in Nat /\ d \in 0..m /\ d + 1 \in 1..m
  <2>1. d \in 0..Len(bs) /\ Len(bs) \in Nat
    BY DEF Booked
  <2>2. QED
    BY <1>2, <2>1, FirstsType
<1>4. CutAt(b, bs, D)
  BY <1>1, <1>2 DEF Planned
<1>5. b \in [0..m -> 0..Len(D)]
  BY <1>2, <1>4 DEF CutAt
<1>6. PICK j : j = d + 1 /\ j \in 1..m /\ j \in 0..m /\ j - 1 = d
  BY <1>3
<1>7. b[j - 1] < b[j] /\ bs[j] = SubSeq(D, b[j - 1] + 1, b[j])
  BY <1>2, <1>4, <1>6 DEF CutAt
<1>8. PICK a, c : a = b[d] /\ c = b[d + 1] /\ a \in 0..Len(D) /\ c \in 0..Len(D)
  BY <1>3, <1>5, <1>6
<1>9. a \in Nat /\ c \in Nat /\ c <= Len(D)
  BY <1>3, <1>8
<1>10. a < c /\ bs[d + 1] = SubSeq(D, a + 1, c)
  BY <1>6, <1>7, <1>8
<1>11. NextAt(b, p, bs, bg, fs, d, out, D, a, c)
  BY <1>1, <1>2, <1>3, <1>8, <1>9, <1>10 DEF NextAt
<1>12. QED
  BY <1>11

LEMMA NextChosen ==
    ASSUME NEW b, NEW p, NEW bs, NEW bg, NEW fs, NEW d, NEW out, NEW D, NEW a, NEW c,
           NextAt(b, p, bs, bg, fs, d, out, D, a, c),
           NEW chosen, chosen = Chosen(bs[d + 1], fs)
    PROVE  ChosenOf(chosen, D, a, c, bg.files, out)
<1>1. PICK base, batch : base = bg.files /\ batch = bs[d + 1]
  OBVIOUS
<1>2. /\ D \in Seq(PartsOf) /\ a \in Nat /\ c \in Nat /\ a <= c /\ c <= Len(D)
      /\ batch = SubSeq(D, a + 1, c) /\ Progress(D, a, base, fs, out)
      /\ chosen = Selected(batch, Lacking(batch, fs))
  BY <1>1 DEF NextAt, Chosen
<1>3. ChosenOf(chosen, D, a, c, base, out)
  BY <1>2, ChosenAreLacking
<1>4. QED
  BY <1>1, <1>3

\* A batch with nothing new is done.
LEMMA BookedPass ==
    ASSUME NEW p \in Seq(PartsOf), NEW bs \in Seq(Seq(PartsOf)), NEW bg, NEW fs, NEW d, NEW out, NEW t,
           Booked(p, bs, bg, fs, d, out, t), d < Len(bs), Chosen(bs[d + 1], fs) = <<>>
    PROVE  Booked(p, bs, bg, fs, d + 1, out, t)
<1>1. PICK b, D, a, c : NextAt(b, p, bs, bg, fs, d, out, D, a, c)
  BY NextBatch
<1>2. PICK chosen : chosen = Chosen(bs[d + 1], fs)
  OBVIOUS
<1>3. SelectedTo(D, Lacking(D, bg.files), c) = ByPath(out, Paths) \o chosen
  <2>1. ChosenOf(chosen, D, a, c, bg.files, out)
    BY <1>1, <1>2, NextChosen
  <2>2. QED
    BY <2>1 DEF ChosenOf
<1>4. out \in Seq(SentOf)
  BY DEF Booked
<1>5. ByPath(out, Paths) \in Seq(SentOf)
  BY <1>4, ByPathType
<1>6. ByPath(out, Paths) \o <<>> = ByPath(out, Paths)
  BY <1>5, ConcatEmptySeq
<1>7. ASSUME NEW i \in DOMAIN D, i > c PROVE fs[D[i].path] = bg.files[D[i].path]
  <2>1. i > a
    <3>1. a \in Nat /\ c \in Nat /\ a < c /\ i \in Nat
      BY <1>1 DEF NextAt
    <3>2. QED
      BY <1>7, <3>1
  <2>2. QED
    BY <1>1, <2>1 DEF NextAt, Progress
<1>8. Progress(D, c, bg.files, fs, out)
  BY <1>2, <1>3, <1>6, <1>7 DEF Progress
<1>9. Planned(b, p, bs) /\ Progress(Firsts(p), b[d + 1], bg.files, fs, out)
  BY <1>1, <1>8 DEF NextAt
<1>10. d + 1 \in 0..Len(bs)
  BY DEF Booked
<1>11. QED
  BY <1>9, <1>10 DEF Booked

\* A commit changes the files under its own paths only.
Keeps(gs, fs, chosen) == \A q \in Paths : (~\E i \in DOMAIN chosen : chosen[i].path = q) => gs[q] = fs[q]

\* A commit: its parts and its ledger are sent, and counted in the totals.
LEMMA BookedCommit ==
    ASSUME NEW p \in Seq(PartsOf), NEW bs \in Seq(Seq(PartsOf)), NEW bg, NEW fs, NEW d, NEW out, NEW t,
           Booked(p, bs, bg, fs, d, out, t), d < Len(bs),
           NEW chosen, chosen = Chosen(bs[d + 1], fs), NEW n \in Nat,
           NEW gs, Keeps(gs, fs, chosen),
           NEW e, e = [path |-> LedgerPath, size |-> n], NEW more, more = Append(out \o chosen, e),
           NEW u, u = [payload |-> t.payload + BytesOf(chosen, TRUE),
                       metadata |-> t.metadata + BytesOf(chosen, FALSE) + n]
    PROVE  Booked(p, bs, bg, gs, d + 1, more, u)
<1>1. PICK b, D, a, c : NextAt(b, p, bs, bg, fs, d, out, D, a, c)
  BY NextBatch
<1>2. /\ chosen \in Seq(PartsOf)
      /\ SelectedTo(D, Lacking(D, bg.files), c) = ByPath(out, Paths) \o chosen
      /\ \A j \in DOMAIN chosen : \E i \in (a + 1)..c : chosen[j] = D[i]
  <2>1. ChosenOf(chosen, D, a, c, bg.files, out)
    BY <1>1, NextChosen
  <2>2. QED
    BY <2>1 DEF ChosenOf
<1>3. out \in Seq(SentOf) /\ bg.totals \in Counts
  BY DEF Booked
<1>4. /\ more \in Seq(SentOf)
      /\ BytesOf(more, TRUE) = BytesOf(out, TRUE) + BytesOf(chosen, TRUE)
      /\ BytesOf(more, FALSE) = BytesOf(out, FALSE) + BytesOf(chosen, FALSE) + n
      /\ ByPath(more, Paths) = ByPath(out, Paths) \o chosen
  <2>1. Weighed(more, out, chosen, n)
    BY <1>2, <1>3, CommitWeighs
  <2>2. QED
    BY <2>1 DEF Weighed
<1>5. ASSUME NEW i \in DOMAIN D, i > c PROVE gs[D[i].path] = bg.files[D[i].path]
  <2>0. /\ a \in Nat /\ c \in Nat /\ a < c /\ c <= Len(D) /\ i \in Nat /\ D \in Seq(PartsOf)
        /\ DOMAIN D = 1..Len(D) /\ Len(D) \in Nat
    BY <1>1 DEF NextAt
  <2>1. i > a
    BY <1>5, <2>0
  <2>2. fs[D[i].path] = bg.files[D[i].path]
    BY <1>1, <2>1 DEF NextAt, Progress
  <2>3. D[i].path \in Paths
    <3>1. D[i] \in PartsOf
      BY <2>0
    <3>2. QED
      BY <3>1 DEF PartsOf
  <2>4. ~\E j \in DOMAIN chosen : chosen[j].path = D[i].path
    <3> SUFFICES ASSUME NEW j \in DOMAIN chosen, chosen[j].path = D[i].path PROVE FALSE
      OBVIOUS
    <3>1. PICK k \in (a + 1)..c : chosen[j] = D[k]
      BY <1>2
    <3>2. k \in DOMAIN D /\ k # i
      BY <1>5, <2>0
    <3>3. D = Firsts(p)
      BY <1>1 DEF NextAt
    <3>4. D[k].path # D[i].path
      BY <3>2, <3>3, FirstsDistinct
    <3>5. QED
      BY <3>1, <3>4
  <2>5. QED
    BY <2>2, <2>3, <2>4 DEF Keeps
<1>6. Progress(D, c, bg.files, gs, more)
  BY <1>2, <1>4, <1>5 DEF Progress
<1>7. Planned(b, p, bs) /\ Progress(Firsts(p), b[d + 1], bg.files, gs, more)
  BY <1>1, <1>6 DEF NextAt
<1>8. d + 1 \in 0..Len(bs)
  BY DEF Booked
<1>9. u = [payload |-> bg.totals.payload + BytesOf(more, TRUE),
           metadata |-> bg.totals.metadata + BytesOf(more, FALSE)]
  <2>1. PICK x \in Nat, y \in Nat : x = bg.totals.payload /\ y = bg.totals.metadata
    BY <1>3 DEF Counts
  <2>2. PICK v \in Nat, w \in Nat : v = BytesOf(out, TRUE) /\ w = BytesOf(out, FALSE)
    BY <1>3, WeighIs
  <2>3. chosen \in Seq(SentOf)
    BY <1>2, SentSized
  <2>4. PICK g \in Nat, h \in Nat : g = BytesOf(chosen, TRUE) /\ h = BytesOf(chosen, FALSE)
    BY <2>3, WeighIs
  <2>5. t.payload = x + v /\ t.metadata = y + w
    BY <2>1, <2>2 DEF Booked
  <2>6. (x + v) + g = x + (v + g) /\ (y + w) + h + n = y + (w + h + n)
    OBVIOUS
  <2>7. QED
    BY <1>4, <2>1, <2>2, <2>4, <2>5, <2>6
<1>10. QED
  BY <1>3, <1>4, <1>7, <1>8, <1>9 DEF Booked

LEMMA CommitPartsIs == ASSUME NEW batch PROVE CommitParts(batch) = Chosen(batch, files)
  BY DEF CommitParts, Chosen, Lacking

\* Nothing new: the batch is done and the ledger is the one before.
LEMMA PublicationPassOver == ASSUME PublicationInv, PassOver PROVE PublicationInv'
<1>1. /\ status \in {"open", "ok"} /\ done < Len(batches) /\ done' = done + 1
      /\ UNCHANGED vars /\ UNCHANGED planVars /\ UNCHANGED <<begun, files, sent>>
      /\ Chosen(batches[done + 1], files) = <<>>
  BY CommitPartsIs DEF PassOver, MayBegin
<1>2. PlanInv'
  BY <1>1, PlanKept DEF PublicationInv
<1>3. Converging' /\ Admitted'
  BY <1>1 DEF PublicationInv, Converging, Admitted, vars, Candidate, Length, Attempts
<1>4. PICK p, bs, bg, fs, d, out, t : /\ p = parts /\ bs = batches /\ bg = begun /\ fs = files
                                      /\ d = done /\ out = sent /\ t = new
  OBVIOUS
<1>5. p \in Seq(PartsOf) /\ bs \in Seq(Seq(PartsOf))
  BY <1>4 DEF PublicationInv, PlanInv
<1>6. Booked(p, bs, bg, fs, d, out, t) /\ d < Len(bs) /\ Chosen(bs[d + 1], fs) = <<>>
  BY <1>1, <1>4 DEF PublicationInv, AccountInv
<1>7. Booked(p, bs, bg, fs, d + 1, out, t)
  BY <1>5, <1>6, BookedPass
<1>8. AccountInv'
  BY <1>1, <1>4, <1>7 DEF PublicationInv, AccountInv, vars, planVars
<1>9. QED
  BY <1>2, <1>3, <1>8 DEF PublicationInv

\* A refused batch leaves the accounts alone.
LEMMA PublicationRefuse == ASSUME PublicationInv, Refuse PROVE PublicationInv'
<1>1. /\ status \in {"open", "ok"} /\ status' = "refused"
      /\ UNCHANGED planVars /\ UNCHANGED loopVars /\ new' = new
  BY DEF Refuse, MayBegin
<1>2. PlanInv'
  BY <1>1, PlanKept DEF PublicationInv
<1>3. AccountInv'
  BY <1>1 DEF PublicationInv, AccountInv, planVars, loopVars
<1>4. QED
  BY <1>1, <1>2, <1>3 DEF PublicationInv, Converging, Admitted

\* The count of a batch begins with the ledger of the batch before.
LEMMA PublicationBegin == ASSUME PublicationInv, BeginBatch PROVE PublicationInv'
<1>1. /\ status \in {"open", "ok"} /\ done < Len(batches) /\ status' = "run"
      /\ old' = new /\ size' = 0 /\ tries' = 0 /\ new' = new
      /\ UNCHANGED planVars /\ UNCHANGED loopVars
      /\ added' = Addition(batches[done + 1], files)
  BY CommitPartsIs DEF BeginBatch, MayBegin, Addition
<1>2. PlanInv'
  BY <1>1, PlanKept DEF PublicationInv
<1>3. PICK p, bs, bg, fs, d, out, t : /\ p = parts /\ bs = batches /\ bg = begun /\ fs = files
                                      /\ d = done /\ out = sent /\ t = new
  OBVIOUS
<1>4. p \in Seq(PartsOf) /\ bs \in Seq(Seq(PartsOf))
  BY <1>3 DEF PublicationInv, PlanInv
<1>5. Booked(p, bs, bg, fs, d, out, t) /\ d < Len(bs)
  BY <1>1, <1>3 DEF PublicationInv, AccountInv
<1>6. PICK b, D, a, c : NextAt(b, p, bs, bg, fs, d, out, D, a, c)
  BY <1>4, <1>5, NextBatch
<1>7. PICK chosen : chosen = Chosen(bs[d + 1], fs)
  OBVIOUS
<1>8. chosen \in Seq(SentOf)
  <2>1. ChosenOf(chosen, D, a, c, bg.files, out)
    BY <1>6, <1>7, NextChosen
  <2>2. QED
    BY <2>1, SentSized DEF ChosenOf
<1>9. BytesOf(chosen, TRUE) \in Nat /\ BytesOf(chosen, FALSE) \in Nat
  BY <1>8, WeighIs
<1>10. added' \in Counts
  BY <1>1, <1>3, <1>7, <1>9 DEF Addition, Counts
<1>11. new \in Counts
  BY DEF PublicationInv, Converging
<1>12. Attempts'
  BY <1>1 DEF Attempts
<1>13. Converging'
  BY <1>1, <1>10, <1>11, <1>12 DEF Converging
<1>14. AccountInv'
  BY <1>1 DEF PublicationInv, AccountInv, planVars, loopVars
<1>15. QED
  BY <1>1, <1>2, <1>13, <1>14 DEF PublicationInv, Admitted

\* A turn of the ledger's loop; the one that admits the batch commits it.
LEMMA PublicationCount == ASSUME PublicationInv, CountBatch PROVE PublicationInv'
<1>1. Next /\ UNCHANGED planVars /\ status = "run"
  BY DEF CountBatch, Next, Retry, Settle
<1>2. PlanInv'
  BY <1>1, PlanKept DEF PublicationInv
<1>3. Converging'
  BY <1>1, ConvergingNext DEF PublicationInv
<1>4. /\ planned = "ok" /\ Booked(parts, batches, begun, files, done, sent, new)
      /\ done < Len(batches) /\ old = new /\ added = Addition(batches[done + 1], files)
      /\ size \in Nat
  BY <1>1 DEF PublicationInv, AccountInv, Converging
<1>5. CASE status' = "ok"
  <2>1. Settle /\ new' = Candidate /\ Length(Candidate) = size /\ UNCHANGED <<old, added, size>>
    BY <1>1, <1>5 DEF Next, Retry, Settle
  <2>2. Admitted'
    <3>1. Candidate' = Candidate /\ Length(Candidate)' = Length(Candidate)
      BY <2>1 DEF Candidate, Length
    <3>2. QED
      BY <2>1, <3>1 DEF Admitted
  <2>3. PICK p, bs, bg, fs, d, out, t, n : /\ p = parts /\ bs = batches /\ bg = begun /\ fs = files
                                           /\ d = done /\ out = sent /\ t = new /\ n = size
    OBVIOUS
  <2>4. PICK chosen, gs, more, u : /\ chosen = Chosen(bs[d + 1], fs) /\ gs = files' /\ more = sent'
                                   /\ u = new'
    OBVIOUS
  <2>5. CommitParts(batches[done + 1]) = chosen
    BY <2>3, <2>4, CommitPartsIs
  <2>6. PICK e : e = [path |-> LedgerPath, size |-> n]
    OBVIOUS
  <2>7. Keeps(gs, fs, chosen) /\ more = Append(out \o chosen, e) /\ done' = d + 1 /\ begun' = bg
    <3>1. PICK f : /\ f = CommitParts(batches[done + 1])
                   /\ files' = [q \in Paths |-> IF \E i \in DOMAIN f : f[i].path = q
                                                THEN f[CHOOSE i \in DOMAIN f : f[i].path = q].digest
                                                ELSE files[q]]
                   /\ sent' = Append(sent \o f, [path |-> LedgerPath, size |-> size])
                   /\ done' = done + 1 /\ begun' = begun
      BY <1>5 DEF CountBatch
    <3>2. f = chosen
      BY <2>5, <3>1
    <3>3. \A q \in Paths : (~\E i \in DOMAIN f : f[i].path = q) => files'[q] = files[q]
      BY <3>1
    <3>4. Keeps(gs, fs, chosen)
      BY <2>3, <2>4, <3>2, <3>3 DEF Keeps
    <3>5. QED
      BY <2>3, <2>4, <2>6, <3>1, <3>2, <3>4
  <2>8. u = [payload |-> t.payload + BytesOf(chosen, TRUE),
             metadata |-> t.metadata + BytesOf(chosen, FALSE) + n]
    BY <1>4, <2>1, <2>3, <2>4 DEF Candidate, Addition
  <2>9. p \in Seq(PartsOf) /\ bs \in Seq(Seq(PartsOf))
    BY <2>3 DEF PublicationInv, PlanInv
  <2>10. Booked(p, bs, bg, fs, d, out, t) /\ d < Len(bs) /\ n \in Nat
    BY <1>4, <2>3
  <2>11. Booked(p, bs, bg, gs, d + 1, more, u)
    BY <2>4, <2>6, <2>7, <2>8, <2>9, <2>10, BookedCommit
  <2>12. parts' = p /\ batches' = bs /\ planned' = "ok"
    BY <1>1, <1>4, <2>3 DEF planVars
  <2>13. AccountInv'
    BY <1>5, <2>4, <2>7, <2>11, <2>12 DEF AccountInv
  <2>14. QED
    BY <1>2, <1>3, <2>2, <2>13 DEF PublicationInv
<1>6. CASE status' # "ok"
  <2>1. UNCHANGED loopVars /\ new' = new /\ status' \in {"run", "full"} /\ UNCHANGED <<old, added>>
    BY <1>1, <1>6 DEF CountBatch, Next, Retry, Settle
  <2>2. AccountInv'
    BY <1>1, <1>4, <2>1 DEF AccountInv, planVars, loopVars
  <2>3. QED
    BY <1>2, <1>3, <1>6, <2>2 DEF PublicationInv, Admitted
<1>7. QED
  BY <1>5, <1>6

LEMMA PublicationStutter ==
    ASSUME PublicationInv, UNCHANGED <<vars, planVars, loopVars>> PROVE PublicationInv'
<1>1. PlanInv'
  BY PlanKept DEF PublicationInv
<1>2. Converging' /\ Admitted'
  BY DEF PublicationInv, Converging, Admitted, vars, Candidate, Length, Attempts
<1>3. AccountInv'
  BY DEF PublicationInv, AccountInv, vars, planVars, loopVars
<1>4. QED
  BY <1>1, <1>2, <1>3 DEF PublicationInv

\* The invariant of the publication, from the plan to the last commit.
LEMMA PublicationAlways == AccountingSpec => []PublicationInv
<1>1. PublicationInv /\ [NextStep]_<<vars, planVars, loopVars>> => PublicationInv'
  BY PublicationPlan, PublicationOpen, PublicationPassOver, PublicationRefuse, PublicationBegin,
     PublicationCount, PublicationStutter DEF NextStep
<1>2. QED
  BY <1>1, PublicationInit, PTL DEF AccountingSpec

\* Whatever the totals, the lengths of documents and the batches, the ledger of every batch of a
\* publication settles within the attempts the loop has.
THEOREM LengthAlwaysConverges == AccountingSpec => []LengthConverges
<1>1. PublicationInv => LengthConverges
  BY ConvergingIsEnough DEF PublicationInv
<1>2. QED
  BY <1>1, PublicationAlways, PTL

\* Every ledger that a publication commits counts its own document to the byte.
THEOREM EveryLedgerCountsItself == AccountingSpec => []LedgerCountsItself
<1>1. PublicationInv => LedgerCountsItself
  BY DEF PublicationInv, Admitted, LedgerCountsItself, Candidate, Length
<1>2. QED
  BY <1>1, PublicationAlways, PTL

\* Whatever the parts and the limit, the plan is the input in its order.
THEOREM PlanAlwaysKeepsOrder == AccountingSpec => []PlanKeepsOrder
<1>1. PublicationInv => PlanKeepsOrder
  BY PlanInvOrder DEF PublicationInv
<1>2. QED
  BY <1>1, PublicationAlways, PTL

\* Whatever the parts and the limit, no cut within the limit has fewer commits than the plan.
THEOREM PlanIsAlwaysShortest == AccountingSpec => []PlanIsShortest
<1>1. PublicationInv => PlanIsShortest
  BY PlanInvShortest DEF PublicationInv
<1>2. QED
  BY <1>1, PublicationAlways, PTL

\* A complete publication has sent what its first head lacked, and its ledger counts all it sent.
THEOREM WholePlanAlwaysAccounted == AccountingSpec => []AccountsWholePlan
<1>1. PublicationInv => AccountsWholePlan
  <2> SUFFICES ASSUME PublicationInv, status \in {"open", "ok"}, done = Len(batches)
               PROVE  /\ Selected(sent, {i \in DOMAIN sent : sent[i].path # LedgerPath})
                           = Selected(Plan!Distinct, {i \in DOMAIN Plan!Distinct :
                                 begun.files[Plan!Distinct[i].path] # Plan!Distinct[i].digest})
                      /\ new = [payload |-> begun.totals.payload + BytesOf(sent, TRUE),
                                metadata |-> begun.totals.metadata + BytesOf(sent, FALSE)]
    BY DEF AccountsWholePlan
  <2>1. Booked(parts, batches, begun, files, done, sent, new)
    BY DEF PublicationInv, AccountInv
  <2>2. PICK b : Planned(b, parts, batches) /\ Progress(Firsts(parts), b[done], begun.files, files, sent)
    BY <2>1 DEF Booked
  <2>3. PICK D : D = Firsts(parts)
    OBVIOUS
  <2>4. b[done] = Len(D)
    BY <2>2, <2>3 DEF Planned
  <2>5. ByPath(sent, Paths) = Selected(D, Lacking(D, begun.files))
    BY <2>2, <2>3, <2>4 DEF Progress, Selected
  <2>6. {i \in DOMAIN sent : sent[i].path # LedgerPath} = {i \in DOMAIN sent : sent[i].path \in Paths}
    <3>1. ASSUME NEW i \in DOMAIN sent PROVE sent[i].path # LedgerPath <=> sent[i].path \in Paths
      <4>1. sent[i] \in SentOf
        BY <2>1 DEF Booked
      <4>2. sent[i].path \in Paths \cup {LedgerPath}
        BY <4>1 DEF SentOf, PartsOf
      <4>3. QED
        BY <4>2, AccountingAssumption
    <3>2. QED
      BY <3>1
  <2>7. Selected(sent, {i \in DOMAIN sent : sent[i].path # LedgerPath})
          = Selected(D, {i \in DOMAIN D : begun.files[D[i].path] # D[i].digest})
    BY <2>5, <2>6 DEF ByPath, Lacking
  <2>8. new = [payload |-> begun.totals.payload + BytesOf(sent, TRUE),
               metadata |-> begun.totals.metadata + BytesOf(sent, FALSE)]
    BY <2>1 DEF Booked
  <2>9. QED
    BY <2>3, <2>7, <2>8, DistinctIs
<1>2. QED
  BY <1>1, PublicationAlways, PTL

=============================================================================
