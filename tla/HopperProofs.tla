----------------------------- MODULE HopperProofs -----------------------------
(***************************************************************************)
(* What holds of the channel hopper for every list, weight and number of   *)
(* company channels.  A round is fair because the debts of the positions   *)
(* always cancel out: somebody is owed something before each pick, so the  *)
(* one who is picked never falls a whole round behind, and at the end the  *)
(* debts are whole rounds that are all at least zero, hence all zero.      *)
(***************************************************************************)
EXTENDS HopperProps, TLAPS, WellFoundedInduction

LEMMA LeastNatural ==
    ASSUME NEW S \in SUBSET Nat, S # {}
    PROVE  \E n \in S : \A k \in S : n <= k
<1> DEFINE R == {ss \in Nat \X Nat : ss[1] < ss[2]}
<1>1. R = OpToRel(<, Nat)
      BY Zenon DEF OpToRel
<1>2. IsWellFoundedOn(R, Nat)
      BY <1>1, NatLessThanWellFounded
<1>3. \E n \in S : \A k \in S : ~ (<<k, n>> \in R)
      <2> HIDE DEF R
      <2> QED BY <1>2, WFMin, Zenon
<1>4. PICK n \in S : \A k \in S : ~ (<<k, n>> \in R)
      BY <1>3
<1>5. ASSUME NEW k \in S PROVE n <= k
  <2>1. k \in Nat /\ n \in Nat /\ <<k, n>> \notin R
        BY <1>4
  <2> QED BY <2>1
<1> QED BY <1>5

\* A debt that is largest, and the first of those: the scan always has a result.
LEMMA BestExists ==
    ASSUME NEW N \in Nat \ {0}, NEW c \in [1 .. N -> Int]
    PROVE  \E i \in 1 .. N : /\ \A j \in 1 .. N : c[j] <= c[i]
                             /\ \A j \in 1 .. N : j < i => c[j] < c[i]
<1> DEFINE Best(k, i) == /\ \A j \in 1 .. k : c[j] <= c[i]
                         /\ \A j \in 1 .. k : j < i => c[j] < c[i]
           Without    == {k \in 1 .. N : ~ \E i \in 1 .. k : Best(k, i)}
<1>1. Without = {}
  <2> SUFFICES ASSUME Without # {} PROVE FALSE
      OBVIOUS
  <2>1. PICK k \in Without : \A l \in Without : k <= l
    <3>1. Without \in SUBSET Nat
          OBVIOUS
    <3> HIDE DEF Without
    <3> QED BY <3>1, LeastNatural
  <2>0. k \in 1 .. N /\ ~ \E i \in 1 .. k : Best(k, i)
        BY <2>1
  <2>2. k # 1
    <3>1. Best(1, 1)
          OBVIOUS
    <3> QED BY <2>0, <3>1
  <2>3. PICK i \in 1 .. k - 1 : Best(k - 1, i)
    <3>1. k - 1 \in 1 .. N /\ ~ k <= k - 1
          BY <2>0, <2>2
    <3>2. k - 1 \notin Without
      <4> HIDE DEF Without
      <4> QED BY <2>1, <3>1
    <3> QED BY <3>1, <3>2
  <2>4. CASE c[k] > c[i]
    <3>1. \A j \in 1 .. k - 1 : c[j] \in Int /\ c[j] <= c[i]
          BY <2>0, <2>3
    <3>2. c[k] \in Int /\ c[i] \in Int /\ k \in 1 .. k
          BY <2>0, <2>3
    <3>3. \A j \in 1 .. k : c[j] <= c[k] /\ (j < k => c[j] < c[k])
          BY <2>0, <2>4, <3>1, <3>2
    <3> QED BY <2>0, <3>2, <3>3
  <2>5. CASE ~(c[k] > c[i])
    <3>1. c[k] \in Int /\ c[i] \in Int /\ i \in 1 .. k /\ i < k
          BY <2>0, <2>3
    <3>2. \A j \in 1 .. k : c[j] <= c[i]
          BY <2>0, <2>3, <2>5, <3>1
    <3>3. \A j \in 1 .. k : j < i => c[j] < c[i]
          BY <2>0, <2>3, <3>1
    <3> QED BY <2>0, <3>1, <3>2, <3>3
  <2> QED BY <2>4, <2>5
<1>2. N \in 1 .. N
      OBVIOUS
<1> QED BY <1>1, <1>2

\* A sequence of prefix sums whose steps are all upwards is monotone.
LEMMA Monotone ==
    ASSUME NEW N \in Nat, NEW P \in [0 .. N -> Int],
           \A i \in 1 .. N : P[i - 1] <= P[i]
    PROVE  \A i, j \in 0 .. N : i <= j => P[i] <= P[j]
<1> SUFFICES ASSUME NEW i \in 0 .. N PROVE \A j \in 0 .. N : i <= j => P[i] <= P[j]
    OBVIOUS
<1> DEFINE Below == {j \in 0 .. N : i <= j /\ ~ P[i] <= P[j]}
<1>1. Below = {}
  <2> SUFFICES ASSUME Below # {} PROVE FALSE
      OBVIOUS
  <2>1. PICK k \in Below : \A l \in Below : k <= l
    <3>1. Below \in SUBSET Nat
          OBVIOUS
    <3> HIDE DEF Below
    <3> QED BY <3>1, LeastNatural
  <2>2. k \in 0 .. N /\ i <= k /\ ~ P[i] <= P[k]
        BY <2>1
  <2>3. k # i /\ k - 1 \in 0 .. N /\ k \in 1 .. N /\ i <= k - 1
        BY <2>2
  <2>4. P[i] <= P[k - 1]
    <3>1. k - 1 \notin Below
      <4>1. ~ k <= k - 1
            BY <2>2
      <4> HIDE DEF Below
      <4> QED BY <2>1, <4>1
    <3> QED BY <2>3, <3>1
  <2>5. P[k - 1] <= P[k] /\ P[k - 1] \in Int /\ P[k] \in Int /\ P[i] \in Int
        BY <2>3
  <2> QED BY <2>2, <2>4, <2>5
<1> QED BY <1>1

\* P is the sequence of the partial sums of c.
SumsOf(P, c, n) == /\ P \in [0 .. n -> Int] /\ P[0] = 0
                   /\ \A i \in 1 .. n : c[i] \in Int /\ P[i] = P[i - 1] + c[i]

LEMMA SumStep ==
    ASSUME NEW n \in Nat, NEW P, NEW c, SumsOf(P, c, n), NEW i \in 1 .. n
    PROVE  /\ i - 1 \in 0 .. n /\ i \in 0 .. n
           /\ P[i] \in Int /\ P[i - 1] \in Int /\ c[i] \in Int /\ P[i] = P[i - 1] + c[i]
BY DEF SumsOf

LEMMA SumLonger ==
    ASSUME NEW n \in Nat, NEW P, NEW c, NEW d, SumsOf(P, c, n),
           \A i \in 1 .. n : d[i] = c[i], d[n + 1] \in Int
    PROVE  \E X : SumsOf(X, d, n + 1) /\ X[n + 1] = P[n] + d[n + 1]
<1> DEFINE X == [i \in 0 .. n + 1 |-> IF i <= n THEN P[i] ELSE P[n] + d[n + 1]]
<1>1. \A i \in 0 .. n : P[i] \in Int
      BY DEF SumsOf
<1>2. /\ X \in [0 .. n + 1 -> Int] /\ X[n + 1] = P[n] + d[n + 1]
      /\ \A i \in 0 .. n : X[i] = P[i]
      BY <1>1
<1>3. X[0] = 0
      BY <1>2 DEF SumsOf
<1> HIDE DEF X
<1>4. \A i \in 1 .. n + 1 : d[i] \in Int /\ X[i] = X[i - 1] + d[i]
  <2> SUFFICES ASSUME NEW i \in 1 .. n + 1 PROVE d[i] \in Int /\ X[i] = X[i - 1] + d[i]
      OBVIOUS
  <2>1. CASE i \in 1 .. n
    <3>1. /\ i - 1 \in 0 .. n /\ i \in 0 .. n /\ c[i] \in Int /\ P[i] = P[i - 1] + c[i]
          BY <2>1, SumStep
    <3> QED BY <1>2, <2>1, <3>1
  <2>2. CASE i = n + 1
    <3>1. i - 1 = n /\ n \in 0 .. n
          BY <2>2
    <3> QED BY <1>2, <2>2, <3>1
  <2> QED BY <2>1, <2>2
<1> QED BY <1>2, <1>3, <1>4 DEF SumsOf

\* The debt c of a position grows by its share v, less what it pays, t - s.
LEMMA Payment ==
    ASSUME NEW p \in Int, NEW p0 \in Int, NEW q \in Int, NEW q0 \in Int,
           NEW c \in Int, NEW v \in Int, NEW s \in Int, NEW t \in Int,
           p = p0 + c, q = q0 + v
    PROVE  p + q - t = (p0 + q0 - s) + (c + v - (t - s))
OBVIOUS

\* The debts c grow by the shares v, and b pays T, the sum of the shares.
Grown(d, c, v, b, T, n) ==
    \A i \in 1 .. n : d[i] = IF i = b THEN c[i] + v[i] - T ELSE c[i] + v[i]

LEMMA DebtsStayEven ==
    ASSUME NEW n \in Nat, NEW P, NEW W, NEW c, NEW v, NEW d, NEW T \in Int, NEW b \in 1 .. n,
           Grown(d, c, v, b, T, n),
           SumsOf(P, c, n), P[n] = 0, SumsOf(W, v, n), W[n] = T
    PROVE  \E X : SumsOf(X, d, n) /\ X[n] = 0
<1> DEFINE paid(i) == IF b <= i THEN T ELSE 0
           X == [i \in 0 .. n |-> P[i] + W[i] - paid(i)]
<1>1. \A i \in 0 .. n : P[i] \in Int /\ W[i] \in Int /\ paid(i) \in Int
      BY DEF SumsOf
<1>2. X \in [0 .. n -> Int]
      BY <1>1
<1>3. X[0] = 0 /\ X[n] = 0
      BY <1>1 DEF SumsOf
<1>4. \A i \in 1 .. n : d[i] \in Int /\ X[i] = X[i - 1] + d[i]
  <2> SUFFICES ASSUME NEW i \in 1 .. n PROVE d[i] \in Int /\ X[i] = X[i - 1] + d[i]
      OBVIOUS
  <2>1. i \in 0 .. n /\ i - 1 \in 0 .. n
        OBVIOUS
  <2>2. d[i] = c[i] + v[i] - (paid(i) - paid(i - 1))
    <3>1. c[i] \in Int /\ v[i] \in Int
          BY SumStep
    <3>2. d[i] = IF i = b THEN c[i] + v[i] - T ELSE c[i] + v[i]
          BY DEF Grown
    <3>3. paid(i) - paid(i - 1) = IF i = b THEN T ELSE 0
          OBVIOUS
    <3> HIDE DEF paid
    <3> QED BY <3>1, <3>2, <3>3
  <2>3. X[i] = P[i] + W[i] - paid(i) /\ X[i - 1] = P[i - 1] + W[i - 1] - paid(i - 1)
        BY <2>1
  <2>4. paid(i) \in Int /\ paid(i - 1) \in Int
        OBVIOUS
  <2> HIDE DEF X, paid
  <2>5. P[i] \in Int /\ P[i - 1] \in Int /\ c[i] \in Int /\ P[i] = P[i - 1] + c[i]
        BY SumStep
  <2>6. W[i] \in Int /\ W[i - 1] \in Int /\ v[i] \in Int /\ W[i] = W[i - 1] + v[i]
        BY SumStep
  <2>7. P[i] + W[i] - paid(i)
            = (P[i - 1] + W[i - 1] - paid(i - 1)) + (c[i] + v[i] - (paid(i) - paid(i - 1)))
        BY <2>4, <2>5, <2>6, Payment
  <2> QED BY <2>2, <2>3, <2>4, <2>5, <2>6, <2>7
<1> HIDE DEF X
<1> QED BY <1>2, <1>3, <1>4 DEF SumsOf

\* Before it pays, somebody is owed something.
LEMMA SomebodyIsOwed ==
    ASSUME NEW n \in Nat, NEW P, NEW W, NEW c, NEW v,
           SumsOf(P, c, n), P[n] = 0, SumsOf(W, v, n), W[n] > 0
    PROVE  \E i \in 1 .. n : c[i] + v[i] > 0
<1> SUFFICES ASSUME \A i \in 1 .. n : ~ (c[i] + v[i] > 0) PROVE FALSE
    OBVIOUS
<1> DEFINE Q == [i \in 0 .. n |-> 0 - (P[i] + W[i])]
<1>1. \A i \in 0 .. n : P[i] \in Int /\ W[i] \in Int
      BY DEF SumsOf
<1>2. Q \in [0 .. n -> Int]
      BY <1>1
<1>3. Q[0] = 0 /\ Q[n] < 0
      BY <1>1 DEF SumsOf
<1>4. \A i \in 1 .. n : Q[i - 1] <= Q[i]
  <2> SUFFICES ASSUME NEW i \in 1 .. n PROVE Q[i - 1] <= Q[i]
      OBVIOUS
  <2>1. P[i] \in Int /\ P[i - 1] \in Int /\ c[i] \in Int /\ P[i] = P[i - 1] + c[i]
        BY SumStep
  <2>2. W[i] \in Int /\ W[i - 1] \in Int /\ v[i] \in Int /\ W[i] = W[i - 1] + v[i]
        BY SumStep
  <2>3. Q[i] = 0 - (P[i] + W[i]) /\ Q[i - 1] = 0 - (P[i - 1] + W[i - 1])
        OBVIOUS
  <2> HIDE DEF Q
  <2>4. c[i] + v[i] <= 0
        BY <2>1, <2>2
  <2>5. P[i] + W[i] = P[i - 1] + W[i - 1] + (c[i] + v[i])
        BY <2>1, <2>2
  <2> QED BY <2>1, <2>2, <2>3, <2>4, <2>5
<1> HIDE DEF Q
<1>5. \A i, j \in 0 .. n : i <= j => Q[i] <= Q[j]
      BY <1>2, <1>4, Monotone
<1>6. Q[0] <= Q[n]
      BY <1>5
<1> QED BY <1>2, <1>3, <1>6

\* Debts that are all nonnegative and cancel out are zero.
LEMMA EvenDebtsAreZero ==
    ASSUME NEW n \in Nat, NEW P, NEW c, SumsOf(P, c, n), P[n] = 0,
           \A i \in 1 .. n : c[i] >= 0
    PROVE  \A i \in 1 .. n : c[i] = 0
<1> SUFFICES ASSUME NEW i \in 1 .. n PROVE c[i] = 0
    OBVIOUS
<1>1. P \in [0 .. n -> Int] /\ P[0] = 0
      BY DEF SumsOf
<1>2. \A j \in 1 .. n : P[j - 1] <= P[j]
  <2> SUFFICES ASSUME NEW j \in 1 .. n PROVE P[j - 1] <= P[j]
      OBVIOUS
  <2>1. P[j] \in Int /\ P[j - 1] \in Int /\ c[j] \in Int /\ P[j] = P[j - 1] + c[j]
        BY SumStep
  <2>2. c[j] >= 0
        OBVIOUS
  <2> QED BY <2>1, <2>2
<1>3. \A h, j \in 0 .. n : h <= j => P[h] <= P[j]
      BY <1>1, <1>2, Monotone
<1>4. 0 \in 0 .. n /\ n \in 0 .. n /\ i \in 0 .. n /\ i - 1 \in 0 .. n
      /\ 0 <= i - 1 /\ 0 <= i /\ i <= n /\ i - 1 <= n
      OBVIOUS
<1>5. P[0] <= P[i - 1] /\ P[0] <= P[i] /\ P[i - 1] <= P[n] /\ P[i] <= P[n]
      BY <1>3, <1>4
<1>6. P[i] \in Int /\ P[i - 1] \in Int /\ c[i] \in Int /\ P[i] = P[i - 1] + c[i]
      BY SumStep
<1>7. P[i] = 0 /\ P[i - 1] = 0
      BY <1>1, <1>5, <1>6
<1> QED BY <1>6, <1>7

-----------------------------------------------------------------------------
(* The schedule.                                                           *)

\* The partial sums of the weights, and of the debts, which cancel out.
N == Len(config.channels)
ShareSums == \E W : SumsOf(W, w, Len(w)) /\ W[Len(w)] = total
DebtSums  == \E P : SumsOf(P, current, N) /\ P[N] = 0

Picked == /\ total >= Len(w)
          /\ keepsOrder => schedule = config.channels
          /\ ~keepsOrder => Len(schedule) <= total
          /\ ~keepsOrder /\ ~weighed =>
                 schedule = <<>> /\ \A i \in positions : current[i] = 0 /\ visits[i] = 0
          /\ \A k \in 1 .. Len(schedule) : schedule[k] \in toVisit

ScheduleInv == ScheduleOK /\ ShareSums /\ DebtSums /\ Picked /\ Balanced

LEMMA ConfigType ==
    ASSUME config \in Configs
    PROVE  /\ config.channels \in Seq(Int) /\ N \in Nat /\ positions = 1 .. N
           /\ weight \in Nat \ {0}
           /\ \A i \in positions : config.channels[i] \in Int
<1>1. config \in [channels : Seq(Int), caChannels : SUBSET Int, caWeight : Int]
      BY ConfigsAreTyped
<1> QED BY <1>1 DEF N, positions, weight

LEMMA ScheduleStart ==
    ASSUME ScheduleInit
    PROVE  ScheduleInv
<1>1. config \in Configs /\ w = <<>> /\ total = 0 /\ Len(w) = 0
      /\ current = [i \in positions |-> 0] /\ visits = [i \in positions |-> 0]
      /\ schedule = IF keepsOrder THEN config.channels ELSE <<>>
      BY DEF ScheduleInit
<1>2. ScheduleOK
      BY <1>1, ConfigType DEF ScheduleOK, N
<1>3. ShareSums
  <2> DEFINE W == [i \in 0 .. 0 |-> 0]
  <2>1. W \in [0 .. Len(w) -> Int] /\ W[0] = 0 /\ W[Len(w)] = total
        /\ \A i \in 1 .. Len(w) : w[i] \in Int /\ W[i] = W[i - 1] + w[i]
        BY <1>1
  <2> HIDE DEF W
  <2>2. SumsOf(W, w, Len(w))
        BY <2>1 DEF SumsOf
  <2> QED BY <2>1, <2>2 DEF ShareSums
<1>4. DebtSums
  <2> DEFINE P == [i \in 0 .. N |-> 0]
  <2>1. N \in Nat /\ positions = 1 .. N
        BY <1>1, ConfigType
  <2>2. P \in [0 .. N -> Int] /\ P[0] = 0 /\ P[N] = 0
        /\ \A i \in 1 .. N : current[i] \in Int /\ P[i] = P[i - 1] + current[i]
        BY <1>1, <2>1
  <2> HIDE DEF P
  <2>3. SumsOf(P, current, N)
        BY <2>2 DEF SumsOf
  <2> QED BY <2>2, <2>3 DEF DebtSums
<1>5. Picked
  <2>1. \A k \in 1 .. Len(schedule) : schedule[k] \in toVisit
    <3>1. CASE keepsOrder
          BY <1>1, <3>1 DEF toVisit, positions
    <3>2. CASE ~keepsOrder
          BY <1>1, <3>2
    <3> QED BY <3>1, <3>2
  <2> QED BY <1>1, <2>1 DEF Picked
<1>6. Balanced
  <2>1. weighed => keepsOrder
        BY <1>1, ConfigType DEF weighed, keepsOrder
  <2> QED BY <2>1 DEF Balanced
<1> QED BY <1>2, <1>3, <1>4, <1>5, <1>6 DEF ScheduleInv

LEMMA NothingOwed ==
    ASSUME NEW t \in Nat, t > 0, NEW c, c = 0
    PROVE  c > -t
OBVIOUS

LEMMA WeighKeeps ==
    ASSUME ScheduleInv, Weigh, config' = config
    PROVE  ScheduleInv'
<1> DEFINE wi == weightOf(config.channels[Len(w) + 1])
<1>1. /\ ~keepsOrder /\ Len(w) # N /\ w' = Append(w, wi) /\ total' = total + wi
      /\ current' = current /\ schedule' = schedule /\ visits' = visits
      /\ positions' = positions /\ N' = N /\ keepsOrder' = keepsOrder /\ toVisit' = toVisit
      BY DEF Weigh, weighed, N, positions, keepsOrder, weight, toVisit
<1>2. N \in Nat /\ positions = 1 .. N /\ wi \in Nat \ {0}
      BY ConfigType DEF ScheduleInv, ScheduleOK, weightOf
<1>3. /\ w \in Seq(Nat \ {0}) /\ total \in Nat /\ Len(w) \in Nat /\ Len(w) < N
      /\ total >= Len(w)
      BY <1>1, <1>2 DEF ScheduleInv, ScheduleOK, Picked, N
<1> HIDE DEF wi
<1>4. /\ w' \in Seq(Nat \ {0}) /\ Len(w') = Len(w) + 1 /\ w'[Len(w) + 1] = wi
      /\ \A i \in 1 .. Len(w) : w'[i] = w[i]
      BY <1>1, <1>2, <1>3
<1>5. ScheduleOK'
      BY <1>1, <1>2, <1>3, <1>4 DEF ScheduleInv, ScheduleOK, N
<1>6. ShareSums'
  <2>1. PICK W : SumsOf(W, w, Len(w)) /\ W[Len(w)] = total
        BY DEF ScheduleInv, ShareSums
  <2> DEFINE d == w'
             l == Len(w)
  <2>2. d[l + 1] = wi /\ d[l + 1] \in Int /\ \A i \in 1 .. l : d[i] = w[i]
        BY <1>2, <1>4
  <2>3. l \in Nat
        BY <1>3
  <2> HIDE DEF d, l
  <2>4. SumsOf(W, w, l)
        BY <2>1 DEF l
  <2>5. \E X : SumsOf(X, d, l + 1) /\ X[l + 1] = W[l] + d[l + 1]
        BY <2>2, <2>3, <2>4, SumLonger
  <2>6. W[l] + d[l + 1] = total' /\ l + 1 = Len(w')
        BY <1>1, <1>4, <2>1, <2>2 DEF l
  <2> QED BY <2>5, <2>6 DEF ShareSums, d
<1>7. DebtSums'
      BY <1>1 DEF ScheduleInv, DebtSums
<1>8. Picked'
  <2>1. schedule = <<>> /\ \A i \in positions : current[i] = 0 /\ visits[i] = 0
        BY <1>1 DEF ScheduleInv, Picked, weighed, N
  <2> QED BY <1>1, <1>2, <1>3, <1>4, <2>1 DEF Picked
<1>9. Balanced'
  <2>1. schedule = <<>> /\ \A i \in positions : current[i] = 0 /\ visits[i] = 0
        BY <1>1 DEF ScheduleInv, Picked, weighed, N
  <2>2. total' > 0 /\ total' \in Nat
        BY <1>1, <1>2, <1>3
  <2> SUFFICES ASSUME weighed', NEW i \in positions
               PROVE  /\ current'[i] = Len(schedule') * w'[i] - total' * visits'[i]
                      /\ current'[i] > -(total')
      BY <1>1 DEF Balanced
  <2>3. Len(w') = N
        BY <1>1 DEF weighed, N
  <2>4. w'[i] \in Nat
        BY <1>2, <1>4, <2>3
  <2>5. current'[i] = 0 /\ visits'[i] = 0 /\ Len(schedule') = 0
        BY <1>1, <2>1
  <2>6. Len(schedule') * w'[i] = 0 /\ total' * visits'[i] = 0
    <3>1. \A x, y \in Int : x = 0 => x * y = 0 /\ y * x = 0
          OBVIOUS
    <3>2. /\ Len(schedule') \in Int /\ w'[i] \in Int
          /\ total' \in Int /\ visits'[i] \in Int
          BY <2>2, <2>4, <2>5
    <3> QED BY <2>5, <3>1, <3>2
  <2>7. current'[i] = Len(schedule') * w'[i] - total' * visits'[i]
    <3> DEFINE x == Len(schedule') * w'[i]
               y == total' * visits'[i]
    <3>1. x = 0 /\ y = 0
          BY <2>6
    <3> HIDE DEF x, y
    <3>2. current'[i] = x - y
          BY <2>5, <3>1
    <3> QED BY <3>2 DEF x, y
  <2>8. current'[i] > -(total')
        BY <2>2, <2>5, NothingOwed
  <2> QED BY <2>7, <2>8
<1> QED BY <1>5, <1>6, <1>7, <1>8, <1>9 DEF ScheduleInv

\* What a pick does: the first of those that are owed most is visited and pays
\* for a whole round.
Picks(b) ==
    /\ b \in positions
    /\ \A j \in positions : current[j] + w[j] <= current[b] + w[b]
    /\ \A j \in positions : j < b => current[j] + w[j] < current[b] + w[b]
    /\ schedule' = Append(schedule, config.channels[b])
    /\ current' \in [positions -> Int] /\ visits' \in [positions -> Nat]
    /\ \A i \in positions :
           /\ current'[i] = IF i = b THEN current[i] + w[i] - total ELSE current[i] + w[i]
           /\ visits'[i] = IF i = b THEN visits[i] + 1 ELSE visits[i]

LEMMA PickScene ==
    ASSUME ScheduleInv, Pick, config' = config
    PROVE  /\ ~keepsOrder /\ weighed /\ Len(schedule) < total
           /\ w' = w /\ total' = total /\ positions' = positions /\ N' = N
           /\ keepsOrder' = keepsOrder /\ toVisit' = toVisit
           /\ N \in Nat \ {0} /\ positions = 1 .. N /\ Len(w) = N
           /\ w \in Seq(Nat \ {0}) /\ total \in Nat /\ total > 0
           /\ \A i \in positions : w[i] \in Nat /\ w[i] > 0
           /\ current \in [positions -> Int] /\ visits \in [positions -> Nat]
           /\ schedule \in Seq(Int) /\ Len(schedule) \in Nat
<1>1. /\ ~keepsOrder /\ weighed /\ Len(schedule) < total
      /\ w' = w /\ total' = total
      /\ positions' = positions /\ N' = N /\ keepsOrder' = keepsOrder /\ toVisit' = toVisit
      BY DEF Pick, N, positions, keepsOrder, weight, toVisit
<1>2. N \in Nat /\ positions = 1 .. N /\ config.channels \in Seq(Int)
      /\ config.channels # <<>>
      BY <1>1, ConfigType DEF ScheduleInv, ScheduleOK, keepsOrder
<1>3. N # 0
      BY <1>2 DEF N
<1>4. Len(w) = N /\ w \in Seq(Nat \ {0})
      BY <1>1 DEF weighed, N, ScheduleInv, ScheduleOK
<1>5. /\ total \in Nat /\ schedule \in Seq(Int) /\ Len(schedule) \in Nat
      /\ current \in [positions -> Int] /\ visits \in [positions -> Nat]
      BY DEF ScheduleInv, ScheduleOK
<1>6. total > 0
      BY <1>1, <1>5
<1>7. \A i \in positions : w[i] \in Nat /\ w[i] > 0
      BY <1>2, <1>4
<1> QED BY <1>1, <1>2, <1>3, <1>4, <1>5, <1>6, <1>7

LEMMA PickEffect ==
    ASSUME ScheduleInv, Pick, config' = config
    PROVE  \E b \in positions : Picks(b)
<1> DEFINE b == best(raised)
<1>1. /\ current' = [raised EXCEPT ![b] = @ - total]
      /\ schedule' = Append(schedule, config.channels[b])
      /\ visits' = [visits EXCEPT ![b] = @ + 1]
      BY DEF Pick
<1>2. /\ N \in Nat \ {0} /\ positions = 1 .. N /\ total \in Nat
      /\ \A i \in positions : w[i] \in Nat
      /\ current \in [positions -> Int] /\ visits \in [positions -> Nat]
      BY PickScene
<1>3. /\ raised \in [1 .. N -> Int]
      /\ \A i \in positions : raised[i] = current[i] + w[i]
      BY <1>2 DEF raised
<1>4. /\ b \in 1 .. N
      /\ \A j \in 1 .. N : raised[j] <= raised[b]
      /\ \A j \in 1 .. N : j < b => raised[j] < raised[b]
  <2>1. \E i \in 1 .. N : isBest(raised, i)
    <3> HIDE DEF b
    <3> QED BY <1>2, <1>3, BestExists DEF isBest
  <2>2. b \in positions /\ isBest(raised, b)
        BY <1>2, <2>1 DEF best
  <2> QED BY <1>2, <2>2 DEF isBest
<1> HIDE DEF b
<1>5. /\ current' \in [positions -> Int] /\ visits' \in [positions -> Nat]
      /\ \A i \in positions :
             /\ current'[i] = IF i = b THEN current[i] + w[i] - total ELSE current[i] + w[i]
             /\ visits'[i] = IF i = b THEN visits[i] + 1 ELSE visits[i]
  <2>1. \A i \in positions : raised[i] \in Int /\ raised[i] = current[i] + w[i] /\ b \in positions
        BY <1>2, <1>3, <1>4
  <2>2. /\ current' \in [positions -> Int]
        /\ \A i \in positions :
               current'[i] = IF i = b THEN raised[i] - total ELSE raised[i]
    <3> DEFINE f == raised
    <3>1. f \in [positions -> Int] /\ b \in positions /\ total \in Int
          BY <1>2, <1>3, <2>1
    <3>2. current' = [f EXCEPT ![b] = f[b] - total]
          BY <1>1
    <3> HIDE DEF f
    <3>3. f[b] - total \in Int
          BY <3>1
    <3>4. current' \in [positions -> Int]
          /\ \A i \in positions : current'[i] = IF i = b THEN f[b] - total ELSE f[i]
          BY <3>1, <3>2, <3>3
    <3> QED BY <3>4 DEF f
  <2>3. /\ visits' \in [positions -> Nat]
        /\ \A i \in positions : visits'[i] = IF i = b THEN visits[i] + 1 ELSE visits[i]
    <3>1. b \in positions /\ visits[b] + 1 \in Nat
          BY <1>2, <2>1
    <3> QED BY <1>1, <1>2, <3>1
  <2>4. \A i \in positions : current'[i] = IF i = b THEN current[i] + w[i] - total
                                                    ELSE current[i] + w[i]
    <3> SUFFICES ASSUME NEW i \in positions
                 PROVE  current'[i] = IF i = b THEN current[i] + w[i] - total
                                              ELSE current[i] + w[i]
        OBVIOUS
    <3>1. raised[i] = current[i] + w[i]
          BY <2>1
    <3>2. CASE i = b
      <4>1. current'[i] = raised[i] - total
            BY <2>2, <3>2
      <4>2. current[i] \in Int /\ w[i] \in Int /\ total \in Int
            BY <1>2
      <4> QED BY <3>1, <3>2, <4>1, <4>2
    <3>3. CASE i # b
      <4>1. current'[i] = raised[i]
            BY <2>2, <3>3
      <4> QED BY <3>1, <3>3, <4>1
    <3> QED BY <3>2, <3>3
  <2> QED BY <2>2, <2>3, <2>4
<1>6. \A j \in positions : /\ raised[j] = current[j] + w[j]
                            /\ raised[b] = current[b] + w[b]
      BY <1>2, <1>3, <1>4
<1>7. Picks(b)
      BY <1>1, <1>2, <1>4, <1>5, <1>6 DEF Picks
<1> QED BY <1>2, <1>4, <1>7

\* Turning the debts into what the scan sees keeps a positive one, and the
\* position picked pays for one round and is still owed more than minus one.
LEMMA PickKeeps ==
    ASSUME ScheduleInv, Pick, config' = config
    PROVE  ScheduleInv'
<1>1. /\ ~keepsOrder /\ weighed /\ Len(schedule) < total
      /\ w' = w /\ total' = total
      /\ positions' = positions /\ N' = N /\ keepsOrder' = keepsOrder /\ toVisit' = toVisit
      BY PickScene
<1>2. /\ N \in Nat \ {0} /\ positions = 1 .. N /\ Len(w) = N
      /\ w \in Seq(Nat \ {0}) /\ total \in Nat /\ total > 0
      /\ \A i \in positions : w[i] \in Nat /\ w[i] > 0
      /\ current \in [positions -> Int] /\ visits \in [positions -> Nat]
      /\ schedule \in Seq(Int) /\ Len(schedule) \in Nat
      BY PickScene
<1>3. PICK b \in positions : Picks(b)
      BY PickEffect
<1>4. b \in 1 .. N /\ \A j \in 1 .. N : current[j] + w[j] <= current[b] + w[b]
      BY <1>2, <1>3 DEF Picks
<1>5. /\ current' \in [positions -> Int] /\ visits' \in [positions -> Nat]
      /\ \A i \in positions :
             /\ current'[i] = IF i = b THEN current[i] + w[i] - total ELSE current[i] + w[i]
             /\ visits'[i] = IF i = b THEN visits[i] + 1 ELSE visits[i]
      /\ schedule' = Append(schedule, config.channels[b])
      BY <1>3 DEF Picks
<1>6. /\ config.channels[b] \in toVisit /\ config.channels[b] \in Int
      BY <1>2, <1>4, ConfigType DEF ScheduleInv, ScheduleOK, toVisit
<1>7. /\ schedule' \in Seq(Int) /\ Len(schedule') = Len(schedule) + 1
      /\ \A k \in 1 .. Len(schedule) : schedule'[k] = schedule[k]
      /\ schedule'[Len(schedule) + 1] = config.channels[b]
      BY <1>2, <1>5, <1>6
<1>8. PICK W : SumsOf(W, w, N) /\ W[N] = total
      BY <1>2 DEF ScheduleInv, ShareSums
<1>9. PICK P : SumsOf(P, current, N) /\ P[N] = 0
      BY DEF ScheduleInv, DebtSums
<1>10. ScheduleOK'
       BY <1>1, <1>2, <1>5, <1>7 DEF ScheduleInv, ScheduleOK
<1>11. ShareSums'
  <2>1. w' = w /\ total' = total
        BY <1>1
  <2> QED BY <2>1 DEF ScheduleInv, ShareSums, SumsOf
<1>12. DebtSums'
  <2>1. N \in Nat /\ total \in Int /\ \A i \in 1 .. N : current[i] \in Int /\ w[i] \in Int
        BY <1>2
  <2>2. Grown(current', current, w, b, total, N)
        BY <1>2, <1>5 DEF Grown
  <2>3. \E X : SumsOf(X, current', N) /\ X[N] = 0
        BY <1>4, <1>8, <1>9, <2>1, <2>2, DebtsStayEven
  <2> QED BY <1>1, <2>3 DEF DebtSums
<1>13. Picked'
  <2>1. weighed'
        BY <1>1, <1>2 DEF weighed, N
  <2>2. \A k \in 1 .. Len(schedule) : schedule[k] \in toVisit
        BY DEF ScheduleInv, Picked
  <2>3. \A k \in 1 .. Len(schedule') : schedule'[k] \in toVisit
    <3> SUFFICES ASSUME NEW k \in 1 .. Len(schedule') PROVE schedule'[k] \in toVisit
        OBVIOUS
    <3>1. k \in 1 .. Len(schedule) \/ k = Len(schedule) + 1
          BY <1>2, <1>7
    <3> QED BY <1>6, <1>7, <2>2, <3>1
  <2> QED BY <1>1, <1>2, <1>7, <2>1, <2>3 DEF ScheduleInv, Picked
<1>14. current[b] + w[b] > 0
  <2>1. N \in Nat /\ W[N] > 0 /\ \A i \in 1 .. N : current[i] \in Int /\ w[i] \in Int
        BY <1>2, <1>8
  <2>2. PICK i \in 1 .. N : current[i] + w[i] > 0
        BY <1>8, <1>9, <2>1, SomebodyIsOwed
  <2>3. current[i] + w[i] <= current[b] + w[b] /\ b \in 1 .. N
        BY <1>4
  <2> QED BY <2>1, <2>2, <2>3
<1>15. Balanced'
  <2> SUFFICES ASSUME NEW i \in positions
               PROVE  /\ current'[i] = Len(schedule') * w'[i] - total' * visits'[i]
                      /\ current'[i] > -(total')
      BY <1>1 DEF Balanced
  <2> DEFINE L == Len(schedule)
             v == visits[i]
             s == w[i]
  <2>1. current[i] = L * s - total * v /\ current[i] > -total
        BY <1>1 DEF ScheduleInv, Balanced
  <2>2. L \in Int /\ v \in Int /\ s \in Int /\ s > 0 /\ current[i] \in Int /\ total \in Int
        BY <1>2
  <2>3. Len(schedule') = L + 1 /\ w'[i] = s /\ total' = total
        BY <1>1, <1>7
  <2>4. (L + 1) * s = L * s + s /\ total * (v + 1) = total * v + total
        /\ L * s \in Int /\ total * v \in Int
    <3> HIDE DEF L, v, s
    <3> QED BY <2>2
  <2>5. CASE i = b
    <3>1. current'[i] = current[i] + s - total /\ visits'[i] = v + 1
          BY <1>5, <2>5
    <3>2. current[i] + s > 0
          BY <1>14, <2>5
    <3> HIDE DEF L, v, s
    <3>3. current'[i] = (L + 1) * s - total * (v + 1)
          BY <2>1, <2>2, <2>4, <3>1
    <3> QED BY <2>2, <2>3, <3>1, <3>2, <3>3
  <2>6. CASE i # b
    <3>1. current'[i] = current[i] + s /\ visits'[i] = v
          BY <1>5, <2>6
    <3> HIDE DEF L, v, s
    <3>2. current'[i] = (L + 1) * s - total * v
          BY <2>1, <2>2, <2>4, <3>1
    <3> QED BY <2>1, <2>2, <2>3, <3>1, <3>2
  <2> QED BY <2>5, <2>6
<1> QED BY <1>10, <1>11, <1>12, <1>13, <1>15 DEF ScheduleInv

\* When the round is complete every debt is a whole number of rounds above
\* minus one and they cancel out: so each is zero.
LEMMA RoundIsFair ==
    ASSUME ScheduleInv, built, ~keepsOrder, NEW i \in positions
    PROVE  visits[i] = w[i]
<1>1. /\ N \in Nat \ {0} /\ positions = 1 .. N /\ Len(w) = N /\ weighed
      /\ total \in Nat /\ total > 0 /\ Len(schedule) = total
      /\ \A j \in positions : w[j] \in Nat
      /\ current \in [positions -> Int] /\ visits \in [positions -> Nat]
  <2>1. N \in Nat /\ positions = 1 .. N /\ config.channels \in Seq(Int)
        /\ config.channels # <<>>
        BY ConfigType DEF ScheduleInv, ScheduleOK, keepsOrder
  <2>2. N # 0
        BY <2>1 DEF N
  <2>3. Len(w) = N /\ weighed /\ Len(schedule) = total /\ w \in Seq(Nat \ {0})
        BY DEF built, weighed, N, ScheduleInv, ScheduleOK
  <2>4. total >= Len(w) /\ total \in Nat
        BY DEF ScheduleInv, ScheduleOK, Picked
  <2>5. \A j \in positions : w[j] \in Nat
        BY <2>1, <2>3
  <2> QED BY <2>1, <2>2, <2>3, <2>4, <2>5 DEF ScheduleInv, ScheduleOK
<1>2. \A j \in positions : current[j] = total * (w[j] - visits[j]) /\ current[j] >= 0
  <2> SUFFICES ASSUME NEW j \in positions
               PROVE  current[j] = total * (w[j] - visits[j]) /\ current[j] >= 0
      OBVIOUS
  <2> DEFINE d == w[j] - visits[j]
  <2>1. current[j] = total * w[j] - total * visits[j] /\ current[j] > -total
        BY <1>1 DEF ScheduleInv, Balanced
  <2>2. w[j] \in Int /\ visits[j] \in Int /\ total \in Int /\ d \in Int
        BY <1>1
  <2>3. current[j] = total * d
        BY <2>1, <2>2
  <2> HIDE DEF d
  <2>4. d >= 0
    <3> SUFFICES ASSUME d <= -1 PROVE FALSE
        BY <2>2
    <3>1. total * d <= -total
          BY <1>1, <2>2
    <3> QED BY <1>1, <2>1, <2>2, <2>3, <3>1
  <2>5. total * d >= 0
        BY <1>1, <2>2, <2>4
  <2> QED BY <2>3, <2>5 DEF d
<1>3. PICK P : SumsOf(P, current, N) /\ P[N] = 0
      BY DEF ScheduleInv, DebtSums
<1>4. current[i] = 0
  <2>1. N \in Nat /\ i \in 1 .. N /\ \A j \in 1 .. N : current[j] \in Int /\ current[j] >= 0
        BY <1>1, <1>2
  <2> QED BY <1>3, <2>1, EvenDebtsAreZero
<1>5. total * (w[i] - visits[i]) = 0 /\ w[i] - visits[i] \in Int
      BY <1>1, <1>2, <1>4
<1>6. w[i] - visits[i] = 0
      BY <1>1, <1>5
<1> QED BY <1>1, <1>6

LEMMA ScheduleFrame ==
    ASSUME ScheduleInv, UNCHANGED <<config, building>>
    PROVE  ScheduleInv'
<1>1. /\ config' = config /\ w' = w /\ total' = total /\ current' = current
      /\ schedule' = schedule /\ visits' = visits
      BY DEF building
<1>2. /\ positions' = positions /\ N' = N /\ keepsOrder' = keepsOrder
      /\ weighed' = weighed /\ toVisit' = toVisit
      BY <1>1 DEF positions, N, keepsOrder, weight, weighed, toVisit
<1>3. ScheduleOK'
      BY <1>1, <1>2 DEF ScheduleInv, ScheduleOK
<1>4. ShareSums' /\ DebtSums'
      BY <1>1, <1>2 DEF ScheduleInv, ShareSums, DebtSums
<1>5. Picked'
      BY <1>1, <1>2 DEF ScheduleInv, Picked
<1>6. Balanced'
      BY <1>1, <1>2 DEF ScheduleInv, Balanced
<1> QED BY <1>3, <1>4, <1>5, <1>6 DEF ScheduleInv

LEMMA ConstructKeeps ==
    ASSUME ScheduleInv, Construct
    PROVE  ScheduleInv'
<1>1. CASE buildSchedule
      BY <1>1, WeighKeeps, PickKeeps DEF buildSchedule
<1>2. CASE UNCHANGED <<config, building>>
      BY <1>2, ScheduleFrame
<1> QED BY <1>1, <1>2 DEF Construct

-----------------------------------------------------------------------------
(* The threads.                                                            *)

Threads ==
    /\ owner = "constructing" => worker = "none" /\ ~running
    /\ owner # "constructing" => built
    /\ worker # "none" => config.channels # <<>>
    /\ ~stopped /\ ~running => worker = "none"
    /\ stopped => ~running
    /\ stopped => hops + dwells <= 1
    /\ stopped /\ worker \in {"hopping", "dozing"} => hops + dwells = 0

HopperInv == ScheduleInv /\ ThreadsOK /\ Threads

\* A hopper with channels that has been constructed has something to visit.
LEMMA SomethingToVisit ==
    ASSUME ScheduleInv, built, config.channels # <<>>
    PROVE  Len(schedule) \in Nat \ {0}
<1>1. N \in Nat /\ N # 0 /\ config.channels \in Seq(Int)
      BY ConfigType DEF ScheduleInv, ScheduleOK, N
<1>2. CASE keepsOrder
      BY <1>1, <1>2 DEF ScheduleInv, Picked, N
<1>3. CASE ~keepsOrder
  <2>1. Len(w) = N /\ Len(schedule) = total /\ total >= Len(w) /\ total \in Nat
        BY <1>3 DEF built, weighed, N, ScheduleInv, ScheduleOK, Picked
  <2> QED BY <1>1, <2>1
<1> QED BY <1>2, <1>3

LEMMA ChannelKnown ==
    ASSUME ScheduleInv, NEW k \in 1 .. Len(schedule)
    PROVE  schedule[k] \in anyChannel /\ schedule[k] \in Int
<1>1. config \in Configs /\ schedule \in Seq(Int) /\ schedule[k] \in toVisit
      BY DEF ScheduleInv, ScheduleOK, Picked
<1>2. PICK i \in positions : schedule[k] = config.channels[i]
      BY <1>1 DEF toVisit
<1>3. schedule[k] \in {config.channels[j] : j \in 1 .. Len(config.channels)}
      BY <1>2 DEF positions
<1> QED BY <1>1, <1>3 DEF anyChannel

LEMMA HopperStart == Init => HopperInv
<1> SUFFICES ASSUME Init PROVE HopperInv
    OBVIOUS
<1>1. ScheduleInv
      BY ScheduleStart DEF Init
<1>2. ThreadsOK /\ Threads
      BY DEF Init, ThreadsOK, Threads, NoChild, stopped
<1> QED BY <1>1, <1>2 DEF HopperInv

LEMMA HopperStep == HopperInv /\ [Next]_vars => HopperInv'
<1> SUFFICES ASSUME HopperInv, [Next]_vars PROVE HopperInv'
    OBVIOUS
<1> USE DEF stopped
<1>0. ScheduleInv /\ ThreadsOK /\ Threads
      BY DEF HopperInv
<1>1. CASE Construct
  <2>1. ScheduleInv'
        BY <1>0, <1>1, ConstructKeeps
  <2>2. owner = "constructing" /\ worker = "none" /\ ~running
        BY <1>0, <1>1 DEF Construct, Threads
  <2>3. UNCHANGED <<running, worker, idx, child, currentChannel, history>>
        BY <1>1 DEF Construct
  <2>4. owner' = owner \/ (owner' = "idle" /\ built')
    <3>1. CASE buildSchedule /\ UNCHANGED owner
          BY <3>1
    <3>2. CASE built /\ owner' = "idle" /\ UNCHANGED <<config, building>>
          BY <3>2 DEF building, built, keepsOrder, weight, weighed
    <3> QED BY <1>1, <3>1, <3>2 DEF Construct
  <2>5. ThreadsOK'
        BY <1>0, <2>2, <2>3, <2>4 DEF ThreadsOK, history
  <2>6. Threads'
        BY <2>2, <2>3, <2>4 DEF Threads, history
  <2> QED BY <2>1, <2>5, <2>6 DEF HopperInv
<1>2. CASE ~Construct
  <2>1. UNCHANGED <<config, building>>
        BY <1>2 DEF Next, OwnerStep, WorkerStep, start, StopStore, StopNotify, StopJoin,
                    ownerFrame, Test, Fork, Reap, PollTimeout, GiveUp, TestPredicate,
                    FallAsleep, DwellTimeout, Advance, SpuriousWakeup, ChildEnds,
                    workerFrame, vars
  <2>2. ScheduleInv'
        BY <1>0, <2>1, ScheduleFrame
  <2>3. /\ config' = config /\ schedule' = schedule /\ (built => built')
        BY <2>1 DEF building, built, keepsOrder, weight, weighed
  <2>4. owner # "constructing" /\ config.channels # <<>> => Len(schedule) \in Nat \ {0}
        BY <1>0, SomethingToVisit DEF Threads
  <2>b. running \in BOOLEAN /\ hops \in Nat /\ dwells \in Nat
        BY <1>0 DEF ThreadsOK
  <2>5. CASE start
    <3>1. owner # "constructing" /\ config.channels # <<>> /\ 0 < Len(schedule)
          BY <2>4, <2>5 DEF start
    <3>2. ThreadsOK'
          BY <1>0, <2>3, <2>5, <3>1 DEF start, ownerFrame, ThreadsOK
    <3>3. Threads'
          BY <1>0, <2>3, <2>5, <3>1 DEF start, ownerFrame, Threads
    <3> QED BY <2>2, <3>2, <3>3 DEF HopperInv
  <2>6. CASE StopStore
    <3>1. ThreadsOK'
          BY <1>0, <2>3, <2>6 DEF StopStore, ownerFrame, ThreadsOK
    <3>2. Threads'
          BY <1>0, <2>3, <2>6 DEF StopStore, ownerFrame, Threads
    <3> QED BY <2>2, <3>1, <3>2 DEF HopperInv
  <2>7. CASE StopNotify
    <3>1. ThreadsOK'
          BY <1>0, <2>3, <2>7 DEF StopNotify, ownerFrame, ThreadsOK, history
    <3>2. Threads'
          BY <1>0, <2>b, <2>3, <2>7 DEF StopNotify, ownerFrame, Threads, history
    <3> QED BY <2>2, <3>1, <3>2 DEF HopperInv
  <2>8. CASE StopJoin
    <3>1. ThreadsOK'
          BY <1>0, <2>3, <2>8 DEF StopJoin, ownerFrame, ThreadsOK, history
    <3>2. Threads'
          BY <1>0, <2>b, <2>3, <2>8 DEF StopJoin, ownerFrame, Threads, history
    <3> QED BY <2>2, <3>1, <3>2 DEF HopperInv
  <2>9. CASE Test \/ Reap \/ PollTimeout \/ GiveUp \/ TestPredicate
             \/ DwellTimeout \/ SpuriousWakeup
    <3>1. /\ UNCHANGED <<owner, running, idx, history>>
          /\ worker # "none" /\ worker' # "none"
          /\ worker' \in {"hopping", "returned", "resting", "killing", "dozing", "advancing"}
          /\ worker' \in {"hopping", "dozing"} => running
          BY <2>9 DEF Test, Reap, PollTimeout, GiveUp, TestPredicate, DwellTimeout,
                      SpuriousWakeup, workerFrame, history
    <3>2. /\ child' \in [channel : Int \cup {NoChannel},
                         state : {"none", "running", "done", "failed"}]
          /\ currentChannel' \in Int \cup {NoChannel}
          BY <1>0, <2>9 DEF Test, Reap, PollTimeout, GiveUp, TestPredicate, DwellTimeout,
                            SpuriousWakeup, NoChild, ThreadsOK
    <3>3. ThreadsOK'
          BY <1>0, <2>3, <3>1, <3>2 DEF ThreadsOK, history
    <3>4. Threads'
          BY <1>0, <2>b, <2>3, <3>1 DEF Threads, history
    <3> QED BY <2>2, <3>3, <3>4 DEF HopperInv
  <2>10. CASE Fork
    <3>1. worker = "hopping" /\ idx \in Nat /\ idx + 1 \in 1 .. Len(schedule)
      <4>1. worker = "hopping" /\ idx \in Nat /\ idx < Len(schedule)
            BY <1>0, <2>10 DEF Fork, ThreadsOK
      <4>2. Len(schedule) \in Nat
            BY <1>0 DEF ScheduleInv, ScheduleOK
      <4> QED BY <4>1, <4>2
    <3>2. schedule[idx + 1] \in Int
          BY <1>0, <3>1, ChannelKnown
    <3>3. /\ UNCHANGED <<owner, running, idx, currentChannel, dwells>>
          /\ tried' = schedule[idx + 1]
          /\ hops' = IF stopped THEN hops + 1 ELSE hops
          /\ worker' \in {"polling", "resting"}
          /\ child' = child \/ child' = [channel |-> schedule[idx + 1], state |-> "running"]
          BY <2>10 DEF Fork, workerFrame
    <3>4. ThreadsOK'
          BY <1>0, <2>3, <3>1, <3>2, <3>3 DEF ThreadsOK
    <3>5. Threads'
          BY <1>0, <2>3, <3>1, <3>3 DEF Threads, ThreadsOK
    <3> QED BY <2>2, <3>4, <3>5 DEF HopperInv
  <2>11. CASE FallAsleep
    <3>1. ThreadsOK'
          BY <1>0, <2>3, <2>11 DEF FallAsleep, workerFrame, ThreadsOK
    <3>2. Threads'
          BY <1>0, <2>3, <2>11 DEF FallAsleep, workerFrame, Threads, ThreadsOK
    <3> QED BY <2>2, <3>1, <3>2 DEF HopperInv
  <2>12. CASE Advance
    <3>1. worker = "advancing" /\ idx \in Nat /\ idx < Len(schedule)
          BY <1>0, <2>12 DEF Advance, ThreadsOK
    <3>2. Len(schedule) \in Nat \ {0}
          BY <1>0, <3>1 DEF ScheduleInv, ScheduleOK
    <3>3. next(idx) \in Nat /\ next(idx) < Len(schedule)
          BY <3>1, <3>2 DEF next
    <3>4. ThreadsOK'
          BY <1>0, <2>3, <2>12, <3>3 DEF Advance, workerFrame, ThreadsOK, history
    <3>5. Threads'
          BY <1>0, <2>b, <2>3, <2>12 DEF Advance, workerFrame, Threads, history
    <3> QED BY <2>2, <3>4, <3>5 DEF HopperInv
  <2>13. CASE ChildEnds
    <3>1. ThreadsOK'
          BY <1>0, <2>3, <2>13 DEF ChildEnds, ThreadsOK, history
    <3>2. Threads'
          BY <1>0, <2>b, <2>3, <2>13 DEF ChildEnds, Threads, history
    <3> QED BY <2>2, <3>1, <3>2 DEF HopperInv
  <2>14. CASE UNCHANGED vars
    <3>1. ThreadsOK'
          BY <1>0, <2>3, <2>14 DEF vars, ThreadsOK, history
    <3>2. Threads'
          BY <1>0, <2>b, <2>3, <2>14 DEF vars, Threads, history
    <3> QED BY <2>2, <3>1, <3>2 DEF HopperInv
  <2>15. \/ start \/ StopStore \/ StopNotify \/ StopJoin
         \/ (Test \/ Reap \/ PollTimeout \/ GiveUp \/ TestPredicate
             \/ DwellTimeout \/ SpuriousWakeup)
         \/ Fork \/ FallAsleep \/ Advance \/ ChildEnds \/ UNCHANGED vars
    <3>1. Next \/ UNCHANGED vars
          OBVIOUS
    <3> QED BY <1>2, <3>1 DEF Next, OwnerStep, WorkerStep
  <2> QED BY Zenon, <2>5, <2>6, <2>7, <2>8, <2>9, <2>10, <2>11, <2>12, <2>13, <2>14, <2>15
<1> QED BY <1>1, <1>2

\* The invariant the theorems below rest on: the sums the schedule keeps
\* while it is built, and what the flag says of the thread's whereabouts.
THEOREM HopperInvariant == Spec => []HopperInv
<1> QED BY HopperStart, HopperStep, PTL DEF Spec

\* The thread's position never leaves the schedule, whatever the list, the
\* weights and the order in which stop and the thread run (buildSchedule,
\* run, stop).
THEOREM HopperTypeCorrect == Spec => []TypeOK
<1>1. HopperInv => TypeOK
      BY DEF HopperInv, ScheduleInv, TypeOK
<1> QED BY <1>1, HopperInvariant, PTL

\* While a round is built no position is a whole visit ahead of its share
\* (buildSchedule).
THEOREM SharesStayBalanced == Spec => []Balanced
<1>1. HopperInv => Balanced
      BY DEF HopperInv, ScheduleInv
<1> QED BY <1>1, HopperInvariant, PTL

\* However stop and the thread interleave, stop costs one more channel change
\* or one more dwell at most (stop, run, sleepOrUntilStop).
THEOREM StopIsPrompt == Spec => []StopCostsOneStep
<1>1. HopperInv => StopCostsOneStep
      BY DEF HopperInv, Threads, StopCostsOneStep
<1> QED BY <1>1, HopperInvariant, PTL

-----------------------------------------------------------------------------
(* The service the owner relies on.                                        *)

LEMMA ServiceStart == Init => Service!Init
<1> SUFFICES ASSUME Init PROVE Service!Init
    OBVIOUS
<1>1. ~stopped /\ ~running /\ tried = NoChannel
      BY DEF Init, stopped
<1> QED BY <1>1 DEF Service!Init

LEMMA ServiceStep ==
    HopperInv /\ [Next]_vars => [Service!Next]_(Service!vars)
<1> SUFFICES ASSUME HopperInv, [Next]_vars PROVE [Service!Next]_(Service!vars)
    OBVIOUS
<1> USE DEF stopped
<1>0. /\ ThreadsOK /\ Threads /\ ScheduleInv /\ running \in BOOLEAN
      BY DEF HopperInv, ThreadsOK
<1>1. CASE UNCHANGED <<owner, running, hops, tried>>
      BY <1>1 DEF Service!vars
<1>2. CASE Construct
  <2>1. ~stopped /\ ~stopped' /\ UNCHANGED <<running, tried>>
        BY <1>2 DEF Construct, history
  <2> QED BY <2>1 DEF Service!vars
<1>3. CASE start
  <2>1. ~stopped /\ ~stopped' /\ running = FALSE /\ running' = TRUE /\ tried' = tried
        BY <1>0, <1>3 DEF start, ownerFrame
  <2>2. Service!Start
        BY <2>1 DEF Service!Start
  <2> QED BY <2>2 DEF Service!Next
<1>4. CASE StopStore
  <2>1. ~stopped /\ stopped' /\ hops' = 0 /\ tried' = tried
        BY <1>4 DEF StopStore
  <2>2. Service!Stop
        BY <2>1 DEF Service!Stop
  <2> QED BY <2>2 DEF Service!Next
<1>5. CASE StopNotify
  <2>1. stopped /\ stopped' /\ hops' = hops /\ tried' = tried
        BY <1>5 DEF StopNotify, history
  <2> QED BY <2>1 DEF Service!vars
<1>6. CASE StopJoin
  <2>1. stopped /\ ~stopped' /\ ~running /\ ~running' /\ tried' = tried
        BY <1>0, <1>6 DEF StopJoin, Threads, ownerFrame, history
  <2>2. Service!Joined
        BY <2>1 DEF Service!Joined
  <2> QED BY <2>2 DEF Service!Next
<1>7. CASE Fork
  <2>1. worker = "hopping" /\ idx \in Nat /\ idx + 1 \in 1 .. Len(schedule)
    <3>1. worker = "hopping" /\ idx \in Nat /\ idx < Len(schedule)
          BY <1>0, <1>7 DEF Fork, ThreadsOK
    <3>2. Len(schedule) \in Nat
          BY <1>0 DEF ScheduleInv, ScheduleOK
    <3> QED BY <3>1, <3>2
  <2>2. PICK c \in anyChannel : c = schedule[idx + 1]
        BY <1>0, <2>1, ChannelKnown
  <2>3. /\ tried' = c /\ owner' = owner /\ running' = running
        /\ hops' = IF stopped THEN hops + 1 ELSE hops
        BY <1>7, <2>2 DEF Fork, workerFrame
  <2>4. CASE stopped
    <3>1. hops = 0
          BY <1>0, <2>1, <2>4 DEF Threads, ThreadsOK
    <3>2. Service!Hop(c)
          BY <2>3, <2>4, <3>1 DEF Service!Hop
    <3> QED BY <3>2 DEF Service!Next
  <2>5. CASE ~stopped
    <3>1. running
          BY <1>0, <2>1, <2>5 DEF Threads
    <3>2. Service!Hop(c)
          BY <2>3, <2>5, <3>1 DEF Service!Hop
    <3> QED BY <3>2 DEF Service!Next
  <2> QED BY <2>4, <2>5
<1>8. CASE Test \/ Reap \/ PollTimeout \/ GiveUp \/ TestPredicate \/ FallAsleep
          \/ DwellTimeout \/ Advance \/ SpuriousWakeup \/ ChildEnds \/ UNCHANGED vars
  <2>1. UNCHANGED <<owner, running, hops, tried>>
        BY <1>8 DEF Test, Reap, PollTimeout, GiveUp, TestPredicate, FallAsleep, DwellTimeout,
                    Advance, SpuriousWakeup, ChildEnds, workerFrame, history, vars
  <2> QED BY <1>1, <2>1
<1>9. Next \/ UNCHANGED vars
      OBVIOUS
<1> QED BY <1>2, <1>3, <1>4, <1>5, <1>6, <1>7, <1>8, <1>9 DEF Next, OwnerStep, WorkerStep

\* Every step of the hopper is a step of the service or a stutter: silent when
\* it is off, at most one hop after it was told to stop, off when stop returns.
THEOREM ImplementsService == Spec => Service!Safety
<1> QED BY ServiceStart, ServiceStep, HopperInvariant, PTL
        DEF Spec, Service!Safety

=============================================================================
