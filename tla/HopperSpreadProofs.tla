-------------------------- MODULE HopperSpreadProofs --------------------------
(***************************************************************************)
(* How the schedule spreads the visits to one channel.  Positions of one   *)
(* weight take turns, so none of them is visited twice running; and a      *)
(* position that alone weighs more than the others is owed too little to   *)
(* be picked again at once, unless it has more than half of the round.     *)
(***************************************************************************)
EXTENDS HopperProofs, FiniteSetTheorems

-----------------------------------------------------------------------------
(* Sums in which all terms but one are equal.                              *)

LEMMA ConstantSum ==
    ASSUME NEW n \in Nat, NEW X \in [0 .. n -> Int],
           \A i \in 1 .. n : X[i - 1] = X[i]
    PROVE  X[n] = X[0]
<1> DEFINE Y == [i \in 0 .. n |-> 0 - X[i]]
<1>1. Y \in [0 .. n -> Int] /\ \A i \in 0 .. n : Y[i] = 0 - X[i]
      OBVIOUS
<1> HIDE DEF Y
<1>2. \A i \in 1 .. n : /\ i \in 0 .. n /\ i - 1 \in 0 .. n
                        /\ X[i] \in Int /\ X[i - 1] \in Int
      OBVIOUS
<1>3. \A i \in 1 .. n : X[i - 1] <= X[i] /\ Y[i - 1] <= Y[i]
  <2> SUFFICES ASSUME NEW i \in 1 .. n PROVE X[i - 1] <= X[i] /\ Y[i - 1] <= Y[i]
      OBVIOUS
  <2>1. X[i - 1] = X[i] /\ X[i] \in Int /\ Y[i] = 0 - X[i] /\ Y[i - 1] = 0 - X[i - 1]
        BY <1>1, <1>2
  <2> QED BY <2>1
<1>4. \A i, j \in 0 .. n : i <= j => X[i] <= X[j]
      BY <1>3, Monotone
<1>5. \A i, j \in 0 .. n : i <= j => Y[i] <= Y[j]
      BY <1>1, <1>3, Monotone
<1>6. 0 \in 0 .. n /\ n \in 0 .. n /\ 0 <= n
      OBVIOUS
<1>7. X[0] <= X[n] /\ Y[0] <= Y[n] /\ X[0] \in Int /\ X[n] \in Int
      BY <1>4, <1>5, <1>6
<1> QED BY <1>1, <1>6, <1>7

LEMMA OthersEqual ==
    ASSUME NEW n \in Nat, NEW P, NEW c, SumsOf(P, c, n), NEW b \in 1 .. n, NEW K \in Int,
           \A i \in 1 .. n : i # b => c[i] = K
    PROVE  P[n] = c[b] + K * (n - 1)
<1> DEFINE more(i) == IF b <= i THEN c[b] - K ELSE 0
           X == [i \in 0 .. n |-> P[i] - K * i - more(i)]
<1>0. c[b] \in Int /\ \A i \in 0 .. n : P[i] \in Int
      BY DEF SumsOf
<1>1. \A i \in 0 .. n : K * i \in Int /\ more(i) \in Int
      BY <1>0
<1>2. X \in [0 .. n -> Int]
      BY <1>0, <1>1
<1>3. \A i \in 1 .. n : X[i - 1] = X[i]
  <2> SUFFICES ASSUME NEW i \in 1 .. n PROVE X[i - 1] = X[i]
      OBVIOUS
  <2>1. i - 1 \in 0 .. n /\ i \in 0 .. n
        OBVIOUS
  <2>2. X[i] = P[i] - K * i - more(i) /\ X[i - 1] = P[i - 1] - K * (i - 1) - more(i - 1)
        BY <2>1
  <2>3. more(i) - more(i - 1) = c[i] - K
        BY <1>0, SumStep
  <2>4. K * i \in Int /\ K * (i - 1) = K * i - K
        OBVIOUS
  <2>5. more(i) \in Int /\ more(i - 1) \in Int
        BY <1>1, <2>1
  <2> HIDE DEF X, more
  <2>6. P[i] \in Int /\ P[i - 1] \in Int /\ c[i] \in Int /\ P[i] = P[i - 1] + c[i]
        BY SumStep
  <2> QED BY <2>2, <2>3, <2>4, <2>5, <2>6
<1>4. X[0] = 0
  <2>1. P[0] = 0 /\ K * 0 = 0 /\ more(0) = 0
        BY DEF SumsOf
  <2> QED BY <2>1
<1>5. X[n] = P[n] - K * n - (c[b] - K)
      OBVIOUS
<1> HIDE DEF X, more
<1>6. X[n] = 0
      BY <1>2, <1>3, <1>4, ConstantSum
<1>7. K * (n - 1) = K * n - K /\ K * n \in Int /\ P[n] \in Int
      BY <1>0
<1> QED BY <1>0, <1>5, <1>6, <1>7

-----------------------------------------------------------------------------
(* What is kept while a round is built.                                    *)

\* What is known of a round under construction beyond its sums: who weighs
\* what, and that positions of one weight take turns in the order of the list.
spreading == weighed /\ ~keepsOrder
last(i)   == schedule # <<>> /\ schedule[Len(schedule)] = config.channels[i]

WeightsKnown == \A i \in 1 .. Len(w) : w[i] = weightOf(config.channels[i])
Counted      == ~keepsOrder => \A i \in positions : visits[i] = Cardinality(turnsOf(i))
TurnsTaken   == spreading =>
    \A i, j \in positions : i < j /\ w[i] = w[j] => visits[i] \in {visits[j], visits[j] + 1}
LastTurn     == spreading =>
    \A b \in positions : last(b) =>
        /\ visits[b] >= 1
        /\ \A i \in positions : i # b /\ w[i] = w[b] =>
               visits[i] = IF i < b THEN visits[b] ELSE visits[b] - 1

\* A position that alone weighs more than one, but no more than half of the
\* round, is owed no more visits than there were picks, and right after its
\* own pick it owes the rest of the round.
lone(b) == 2 * w[b] <= total /\ \A i \in positions : i # b => w[i] = 1
Lag     == spreading =>
    \A b \in positions : lone(b) =>
        current[b] <= IF last(b) THEN Len(schedule) - 1 + w[b] - total ELSE Len(schedule)

SpreadInv == WeightsKnown /\ Counted /\ TurnsTaken /\ LastTurn /\ Lag /\ NoNeedlessRepeat

\* Products of integers, as the steps below need them.
LEMMA Product ==
    ASSUME NEW t \in Int, t > 0, NEW d \in Int
    PROVE  t * d \in Int /\ (d >= 1 => t * d >= t) /\ (d <= -1 => t * d <= -t)
<1>1. t * d \in Int
      OBVIOUS
<1>2. ASSUME d >= 1 PROVE t * d >= t
  <2>1. t * (d - 1) >= 0
        BY <1>2
  <2>2. t * (d - 1) = t * d - t
        OBVIOUS
  <2> QED BY <1>1, <2>1, <2>2
<1>3. ASSUME d <= -1 PROVE t * d <= -t
  <2>1. t * ((0 - d) - 1) >= 0
        BY <1>3
  <2>2. t * ((0 - d) - 1) = 0 - t * d - t
        OBVIOUS
  <2> QED BY <1>1, <2>1, <2>2
<1> QED BY <1>1, <1>2, <1>3

\* Of two positions of one weight the one that had more visits is owed less.
LEMMA VisitedIsOwedLess ==
    ASSUME NEW t \in Nat, t > 0, NEW k \in Int, NEW u \in Nat, NEW v \in Nat,
           NEW x, x = k - t * u, NEW y, y = k - t * v
    PROVE  (x <= y => u >= v) /\ (x < y => u > v)
<1>1. t * (v - u) = t * v - t * u /\ t * v \in Int /\ t * u \in Int
      OBVIOUS
<1>2. y - x = 0 - t * (v - u) /\ x \in Int /\ y \in Int
      BY <1>1
<1>3. v - u >= 1 => t * (v - u) >= t
      BY Product
<1>4. v - u = 0 => t * (v - u) = 0
      OBVIOUS
<1>5. t * (v - u) \in Int
      OBVIOUS
<1> QED BY <1>2, <1>3, <1>4, <1>5

\* A debt of less than a round means no more visits than the weight, as long
\* as the picks are no more than a round.
LEMMA DebtBoundsVisits ==
    ASSUME NEW t \in Nat, t > 0, NEW k \in Nat, k <= t, NEW s \in Nat, NEW v \in Nat,
           NEW c \in Int, c = k * s - t * v, c > -t
    PROVE  v <= s
<1>1. (t - k) * s >= 0 /\ (t - k) * s = t * s - k * s
      OBVIOUS
<1>2. t * (s - v) = t * s - t * v /\ t * s \in Int /\ t * v \in Int /\ k * s \in Int
      OBVIOUS
<1>3. t * (s - v) > -t
      BY <1>1, <1>2
<1>4. s - v \in Int /\ (s - v <= -1 => t * (s - v) <= -t)
      BY Product
<1> QED BY <1>3, <1>4

\* Nobody is visited more often than it weighs before the round is complete.
LEMMA VisitsBounded ==
    ASSUME ScheduleInv, spreading, NEW i \in positions
    PROVE  /\ visits[i] <= w[i] /\ visits[i] \in Nat /\ w[i] \in Nat \ {0}
           /\ total \in Nat /\ total > 0 /\ Len(schedule) \in Nat /\ current[i] \in Int
<1>1. /\ visits[i] \in Nat /\ w[i] \in Nat \ {0} /\ total \in Nat
      /\ Len(schedule) \in Nat /\ Len(schedule) <= total
      /\ current[i] \in Int /\ total > 0
  <2>1. N \in Nat /\ positions = 1 .. N /\ Len(w) = N /\ w \in Seq(Nat \ {0})
        BY ConfigType DEF ScheduleInv, ScheduleOK, spreading, weighed, N
  <2>2. Len(schedule) <= total /\ total >= Len(w)
        BY DEF ScheduleInv, Picked, spreading
  <2> QED BY <2>1, <2>2 DEF ScheduleInv, ScheduleOK
<1>2. current[i] = Len(schedule) * w[i] - total * visits[i] /\ current[i] > -total
      BY DEF ScheduleInv, Balanced, spreading
<1>3. visits[i] <= w[i]
      BY <1>1, <1>2, DebtBoundsVisits
<1> QED BY <1>1, <1>3

\* What the scan sees: the share of the picks, this one included, less what
\* was visited; and with the first of the largest, who had fewer visits.
LEMMA ScanSees ==
    ASSUME ScheduleInv, Pick, config' = config, NEW b \in positions, Picks(b)
    PROVE  /\ spreading /\ spreading'
           /\ \A i \in positions :
                  /\ current[i] + w[i] = (Len(schedule) + 1) * w[i] - total * visits[i]
                  /\ current[i] + w[i] \in Int
                  /\ w[i] = w[b] => /\ visits[i] >= visits[b]
                                    /\ i < b => visits[i] > visits[b]
<1>1. spreading /\ spreading'
      BY PickScene DEF spreading, weighed, N
<1>2. SUFFICES ASSUME NEW i \in positions
               PROVE  /\ current[i] + w[i] = (Len(schedule) + 1) * w[i] - total * visits[i]
                      /\ current[i] + w[i] \in Int
                      /\ w[i] = w[b] => /\ visits[i] >= visits[b]
                                        /\ i < b => visits[i] > visits[b]
      BY <1>1
<1>3. \A j \in positions :
          current[j] + w[j] = (Len(schedule) + 1) * w[j] - total * visits[j]
  <2> SUFFICES ASSUME NEW j \in positions
               PROVE  current[j] + w[j] = (Len(schedule) + 1) * w[j] - total * visits[j]
      OBVIOUS
  <2>1. current[j] = Len(schedule) * w[j] - total * visits[j]
        BY <1>1 DEF ScheduleInv, Balanced, spreading
  <2>2. /\ w[j] \in Int /\ visits[j] \in Int /\ total \in Int /\ Len(schedule) \in Int
        BY <1>1, VisitsBounded
  <2>3. (Len(schedule) + 1) * w[j] = Len(schedule) * w[j] + w[j]
        /\ Len(schedule) * w[j] \in Int /\ total * visits[j] \in Int
        BY <2>2
  <2> QED BY <2>1, <2>2, <2>3
<1>4. /\ current[i] + w[i] \in Int /\ current[b] + w[b] \in Int
      /\ visits[i] \in Nat /\ visits[b] \in Nat /\ total \in Nat /\ total > 0
      /\ (Len(schedule) + 1) * w[b] \in Int
      BY <1>1, VisitsBounded
<1>5. ASSUME w[i] = w[b]
      PROVE  visits[i] >= visits[b] /\ (i < b => visits[i] > visits[b])
  <2>1. /\ current[i] + w[i] = (Len(schedule) + 1) * w[b] - total * visits[i]
        /\ current[b] + w[b] = (Len(schedule) + 1) * w[b] - total * visits[b]
        BY <1>3, <1>5
  <2>2. /\ current[i] + w[i] <= current[b] + w[b]
        /\ i < b => current[i] + w[i] < current[b] + w[b]
        BY DEF Picks
  <2>3. /\ current[i] + w[i] <= current[b] + w[b] => visits[i] >= visits[b]
        /\ current[i] + w[i] < current[b] + w[b] => visits[i] > visits[b]
    <3> DEFINE x == current[i] + w[i]
               y == current[b] + w[b]
               k == (Len(schedule) + 1) * w[b]
               u == visits[i]
               v == visits[b]
    <3>1. k \in Int /\ u \in Nat /\ v \in Nat /\ x = k - total * u /\ y = k - total * v
          BY <1>4, <2>1
    <3> HIDE DEF x, y, k, u, v
    <3>2. (x <= y => u >= v) /\ (x < y => u > v)
          BY <1>4, <3>1, VisitedIsOwedLess
    <3> QED BY <3>2 DEF x, y, u, v
  <2> QED BY <2>2, <2>3
<1> QED BY <1>3, <1>4, <1>5

\* A channel stands at one place of the list, so only the position picked had
\* the last turn.
LEMMA LastIsPicked ==
    ASSUME ScheduleInv, Pick, config' = config, NEW b \in positions, Picks(b)
    PROVE  /\ Len(schedule) \in Nat /\ Len(schedule') = Len(schedule) + 1
           /\ schedule \in Seq(Int) /\ schedule' \in Seq(Int)
           /\ \A k \in 1 .. Len(schedule) : schedule'[k] = schedule[k]
           /\ schedule'[Len(schedule')] = config.channels[b]
           /\ \A i \in positions : config.channels[i] = config.channels[b] => i = b
           /\ \A i \in positions : last(i)' <=> i = b
<1>1. /\ config \in Configs /\ schedule \in Seq(Int) /\ Len(schedule) \in Nat
      /\ config.channels[b] \in Int
      BY ConfigType DEF ScheduleInv, ScheduleOK
<1>2. schedule' = Append(schedule, config.channels[b])
      BY DEF Picks
<1>3. /\ Len(schedule') = Len(schedule) + 1 /\ schedule' \in Seq(Int)
      /\ \A k \in 1 .. Len(schedule) : schedule'[k] = schedule[k]
      /\ schedule'[Len(schedule')] = config.channels[b]
      /\ schedule' # <<>>
      BY <1>1, <1>2
<1>4. \A i \in positions : config.channels[i] = config.channels[b] => i = b
      BY <1>1, NoChannelTwice DEF positions
<1>5. \A i \in positions : last(i)' <=> i = b
      BY <1>3, <1>4 DEF last
<1> QED BY <1>1, <1>3, <1>4, <1>5

\* Positions of one weight take turns.
LEMMA PickTakesTurns ==
    ASSUME ScheduleInv, SpreadInv, Pick, config' = config, NEW b \in positions, Picks(b)
    PROVE  TurnsTaken' /\ LastTurn'
<1>1. /\ spreading /\ spreading' /\ w' = w /\ positions' = positions
      /\ \A i \in positions : i \in Nat /\ visits[i] \in Nat
      /\ \A i \in positions : visits'[i] = IF i = b THEN visits[i] + 1 ELSE visits[i]
  <2>1. spreading /\ spreading'
        BY ScanSees
  <2>2. /\ w' = w /\ positions' = positions
        /\ \A i \in positions : i \in Nat /\ visits[i] \in Nat
        BY PickScene
  <2>3. \A i \in positions : visits'[i] = IF i = b THEN visits[i] + 1 ELSE visits[i]
        BY DEF Picks
  <2> QED BY <2>1, <2>2, <2>3
<1>2. \A i \in positions : w[i] = w[b] =>
          visits[i] >= visits[b] /\ (i < b => visits[i] > visits[b])
      BY ScanSees
<1>3. \A i, j \in positions :
          i < j /\ w[i] = w[j] => visits[i] = visits[j] \/ visits[i] = visits[j] + 1
      BY <1>1 DEF SpreadInv, TurnsTaken
<1>4. \A i \in positions : i # b /\ w[i] = w[b] =>
          visits[i] = IF i < b THEN visits[b] + 1 ELSE visits[b]
  <2> SUFFICES ASSUME NEW i \in positions, i # b, w[i] = w[b]
               PROVE  visits[i] = IF i < b THEN visits[b] + 1 ELSE visits[b]
      OBVIOUS
  <2>1. CASE i < b
    <3>1. visits[i] > visits[b] /\ (visits[i] = visits[b] \/ visits[i] = visits[b] + 1)
          BY <1>2, <1>3, <2>1
    <3> QED BY <1>1, <2>1, <3>1
  <2>2. CASE b < i
    <3>1. visits[i] >= visits[b] /\ (visits[b] = visits[i] \/ visits[b] = visits[i] + 1)
          BY <1>2, <1>3, <2>2
    <3> QED BY <1>1, <2>2, <3>1
  <2> QED BY <1>1, <2>1, <2>2
<1>5. TurnsTaken'
  <2> SUFFICES ASSUME NEW i \in positions, NEW j \in positions, i < j, w[i] = w[j]
               PROVE  visits'[i] \in {visits'[j], visits'[j] + 1}
      BY <1>1 DEF TurnsTaken
  <2>1. CASE i = b
    <3>1. visits'[i] = visits[b] + 1 /\ visits'[j] = visits[j] /\ visits[j] = visits[b]
          BY <1>1, <1>4, <2>1
    <3> QED BY <3>1
  <2>2. CASE j = b
    <3>1. visits'[j] = visits[b] + 1 /\ visits'[i] = visits[i] /\ visits[i] = visits[b] + 1
          BY <1>1, <1>4, <2>2
    <3> QED BY <3>1
  <2>3. CASE i # b /\ j # b
    <3>1. visits'[i] = visits[i] /\ visits'[j] = visits[j]
          BY <1>1, <2>3
    <3> QED BY <1>3, <3>1
  <2> QED BY <2>1, <2>2, <2>3
<1>6. LastTurn'
  <2>1. \A c \in positions : last(c)' <=> c = b
        BY LastIsPicked
  <2>2. visits'[b] = visits[b] + 1 /\ visits[b] \in Nat
        BY <1>1
  <2>3. visits'[b] >= 1
        BY <2>2
  <2>4. ASSUME NEW i \in positions, i # b, w[i] = w[b]
        PROVE  visits'[i] = IF i < b THEN visits'[b] ELSE visits'[b] - 1
    <3>1. visits'[i] = visits[i]
          BY <1>1, <2>4
    <3> QED BY <1>4, <2>2, <2>4, <3>1
  <2> QED BY <1>1, <2>1, <2>3, <2>4 DEF LastTurn
<1> QED BY <1>5, <1>6

\* One position that alone weighs more than one, no more than half of the
\* round: right after its turn the others come first.
LEMMA LoneWaits ==
    ASSUME ScheduleInv, SpreadInv, Pick, config' = config, NEW b \in positions, Picks(b),
           lone(b), last(b)
    PROVE  FALSE
<1> DEFINE L == Len(schedule)
           T == total
           K == L - T
<1>1. /\ spreading /\ N \in Nat \ {0} /\ positions = 1 .. N /\ Len(w) = N
      /\ T \in Nat /\ L \in Nat /\ L < T
      BY PickScene, ScanSees
<1>2. \A i \in positions :
          /\ current[i] \in Int /\ w[i] \in Nat \ {0} /\ visits[i] \in Nat
          /\ visits[i] <= w[i]
          /\ current[i] = L * w[i] - T * visits[i]
          /\ current[i] + w[i] <= current[b] + w[b]
      BY <1>1, VisitsBounded DEF ScheduleInv, Balanced, spreading, Picks
<1>3. /\ current[b] <= L - 1 + w[b] - T /\ 2 * w[b] <= T
      /\ \A i \in positions : i # b => w[i] = 1
      BY <1>1 DEF SpreadInv, Lag, lone
<1>4. PICK P : SumsOf(P, current, N) /\ P[N] = 0
      BY DEF ScheduleInv, DebtSums
<1>5. PICK W : SumsOf(W, w, N) /\ W[N] = T
      BY <1>1 DEF ScheduleInv, ShareSums
<1> HIDE DEF L, T
<1>6. current[b] + w[b] <= L - 1
      BY <1>1, <1>2, <1>3
<1>7. ASSUME NEW i \in positions, i # b
      PROVE  current[i] = K
  <2>0. w[i] = 1
        BY <1>3, <1>7
  <2>1. /\ visits[i] \in Nat /\ visits[i] <= 1
        /\ current[i] = L * 1 - T * visits[i] /\ current[i] + 1 <= L - 1
    <3>1. /\ visits[i] \in Nat /\ visits[i] <= w[i]
          /\ current[i] = L * w[i] - T * visits[i]
          /\ current[i] + w[i] <= current[b] + w[b]
          /\ current[i] \in Int /\ current[b] \in Int /\ w[b] \in Int
          BY <1>2, <1>7
    <3>2. current[i] + 1 <= L - 1
          BY <1>1, <1>6, <2>0, <3>1
    <3> QED BY <2>0, <3>1, <3>2
  <2>2. visits[i] # 0
    <3>1. L * 1 - T * 0 = L
          BY <1>1
    <3> QED BY <1>1, <2>1, <3>1
  <2>3. visits[i] = 1
        BY <2>1, <2>2
  <2> QED BY <1>1, <2>1, <2>3
<1>8. K \in Int /\ K <= -1 /\ N \in Int /\ b \in 1 .. N
      BY <1>1
<1> HIDE DEF K
<1>9. P[N] = current[b] + K * (N - 1)
  <2>1. N \in Nat /\ \A i \in 1 .. N : i # b => current[i] = K
        BY <1>1, <1>7
  <2> QED BY <1>4, <1>8, <2>1, OthersEqual
<1>10. W[N] = w[b] + 1 * (N - 1)
  <2>1. N \in Nat /\ 1 \in Int /\ \A i \in 1 .. N : i # b => w[i] = 1
        BY <1>1, <1>3
  <2> QED BY <1>5, <1>8, <2>1, OthersEqual
<1>11. 1 * (N - 1) = N - 1 /\ N - 1 >= 0
       BY <1>1
<1>12. K * (N - 1) <= 0 - (N - 1) /\ K * (N - 1) \in Int
  <2>1. (0 - K - 1) * (N - 1) >= 0
        BY <1>8, <1>11
  <2>2. (0 - K - 1) * (N - 1) = 0 - K * (N - 1) - (N - 1) /\ K * (N - 1) \in Int
        BY <1>8
  <2> QED BY <1>8, <2>1, <2>2
<1>13. current[b] \in Int /\ w[b] \in Int
       BY <1>2
<1>14. current[b] >= N - 1 /\ T = w[b] + (N - 1)
       BY <1>4, <1>5, <1>8, <1>9, <1>10, <1>11, <1>12, <1>13
<1> QED BY <1>1, <1>6, <1>8, <1>13, <1>14

\* The one who had the last turn is picked again only if it has more than half
\* of the round.
LEMMA PickedAgain ==
    ASSUME ScheduleInv, SpreadInv, Pick, config' = config, NEW b \in positions, Picks(b),
           last(b)
    PROVE  2 * w[b] > total
<1>1. /\ spreading /\ spreading' /\ w' = w /\ total' = total /\ positions' = positions
      /\ total \in Nat /\ w[b] \in Nat \ {0} /\ visits[b] \in Nat
      /\ \A i \in positions : i \in Nat /\ w[i] \in Nat \ {0} /\ visits[i] \in Nat
      BY ScanSees, PickScene, VisitsBounded
<1>2. visits[b] >= 1
      BY <1>1 DEF SpreadInv, LastTurn
<1>3. \A i \in positions : i # b => w[i] # w[b]
  <2> SUFFICES ASSUME NEW i \in positions, i # b, w[i] = w[b] PROVE FALSE
      OBVIOUS
  <2>1. visits[i] = IF i < b THEN visits[b] ELSE visits[b] - 1
        BY <1>1 DEF SpreadInv, LastTurn
  <2>2. visits[i] >= visits[b] /\ (i < b => visits[i] > visits[b])
        BY ScanSees
  <2> QED BY <1>1, <2>1, <2>2
<1>4. w[b] # 1
  <2>1. /\ w'[b] \in Nat /\ visits'[b] = visits[b] + 1 /\ visits'[b] \in Nat
        /\ current'[b] \in Int /\ b \in positions'
        BY <1>1 DEF Picks
  <2>2. /\ total' \in Nat /\ total' > 0
        /\ Len(schedule') \in Nat /\ Len(schedule') <= total'
        BY <1>1, PickScene, LastIsPicked
  <2>3. /\ current'[b] = Len(schedule') * w'[b] - total' * visits'[b]
        /\ current'[b] > -(total')
        BY <1>1, <2>1, PickKeeps DEF ScheduleInv, Balanced, spreading
  <2>4. visits'[b] <= w'[b]
    <3> DEFINE t == total'
               k == Len(schedule')
               s == w'[b]
               v == visits'[b]
               c == current'[b]
    <3>1. /\ t \in Nat /\ t > 0 /\ k \in Nat /\ k <= t /\ s \in Nat /\ v \in Nat
          /\ c \in Int /\ c = k * s - t * v /\ c > -t
          BY <2>1, <2>2, <2>3
    <3> HIDE DEF t, k, s, v, c
    <3>2. v <= s
          BY <3>1, DebtBoundsVisits
    <3> QED BY <3>2 DEF s, v
  <2> QED BY <1>1, <1>2, <2>1, <2>4
<1>5. \A i \in positions : w[i] = weight \/ w[i] = 1
  <2>1. Len(w) = Len(config.channels)
        BY <1>1 DEF spreading, weighed
  <2> QED BY <2>1 DEF SpreadInv, WeightsKnown, weightOf, positions
<1>6. \A i \in positions : i # b => w[i] = 1
      BY <1>3, <1>4, <1>5
<1>7. 2 * w[b] <= total => lone(b)
      BY <1>6 DEF lone
<1> QED BY <1>1, <1>7, LoneWaits

LEMMA TurnsCounted ==
    ASSUME ScheduleInv, SpreadInv, Pick, config' = config, NEW b \in positions, Picks(b)
    PROVE  Counted'
<1>1. /\ ~keepsOrder /\ positions' = positions
      /\ \A i \in positions : visits[i] = Cardinality(turnsOf(i))
      /\ \A i \in positions : visits'[i] = IF i = b THEN visits[i] + 1 ELSE visits[i]
      BY PickScene DEF SpreadInv, Counted, Picks
<1>2. /\ Len(schedule) \in Nat /\ Len(schedule') = Len(schedule) + 1
      /\ \A k \in 1 .. Len(schedule) : schedule'[k] = schedule[k]
      /\ schedule'[Len(schedule')] = config.channels[b]
      /\ \A i \in positions : config.channels[i] = config.channels[b] => i = b
      BY LastIsPicked
<1>3. ASSUME NEW i \in positions
      PROVE  visits'[i] = Cardinality(turnsOf(i)')
  <2>1. IsFiniteSet(turnsOf(i))
    <3>1. IsFiniteSet(1 .. Len(schedule)) /\ turnsOf(i) \subseteq 1 .. Len(schedule)
          BY <1>2, FS_Interval DEF turnsOf
    <3> QED BY <3>1, FS_Subset
  <2>2. Len(schedule') \notin turnsOf(i)
        BY <1>2 DEF turnsOf
  <2>3. CASE i = b
    <3>1. turnsOf(i)' = turnsOf(i) \cup {Len(schedule')}
          BY <1>2, <2>3 DEF turnsOf
    <3>2. Cardinality(turnsOf(i)') = Cardinality(turnsOf(i)) + 1
          BY <2>1, <2>2, <3>1, FS_AddElement
    <3> QED BY <1>1, <2>3, <3>2
  <2>4. CASE i # b
    <3>1. turnsOf(i)' = turnsOf(i)
          BY <1>2, <2>4 DEF turnsOf
    <3> QED BY <1>1, <2>4, <3>1
  <2> QED BY <2>3, <2>4
<1> QED BY <1>1, <1>3 DEF Counted

\* Whoever weighs more than the others, but no more than half of the round,
\* is owed less than a visit when it was picked, and no more than the one who
\* was when it was not.
LEMMA PickKeepsLag ==
    ASSUME ScheduleInv, SpreadInv, Pick, config' = config, NEW b \in positions, Picks(b)
    PROVE  Lag'
<1>1. /\ spreading /\ w' = w /\ total' = total /\ positions' = positions
      /\ total \in Nat /\ Len(schedule) \in Nat /\ Len(schedule') = Len(schedule) + 1
      BY ScanSees, PickScene, LastIsPicked
<1>2. SUFFICES ASSUME NEW c \in positions, lone(c)
               PROVE  current'[c] <= IF c = b THEN Len(schedule') - 1 + w[c] - total
                                              ELSE Len(schedule')
  <2>1. \A c \in positions : lone(c)' <=> lone(c)
        BY <1>1 DEF lone
  <2>2. \A c \in positions : last(c)' <=> c = b
        BY LastIsPicked
  <2> QED BY <1>1, <1>2, <2>1, <2>2 DEF Lag
<1>3. /\ current[c] \in Int /\ w[c] \in Nat \ {0} /\ visits[b] \in Nat
      /\ current[b] \in Int /\ w[b] \in Nat \ {0}
      BY <1>1, VisitsBounded
<1>4. CASE c = b
  <2>1. ~ last(b)
    <3>1. last(b) => 2 * w[b] > total
          BY PickedAgain
    <3> QED BY <1>1, <1>2, <1>3, <1>4, <3>1 DEF lone
  <2>2. current[b] <= Len(schedule)
        BY <1>1, <1>2, <1>4, <2>1 DEF SpreadInv, Lag
  <2>3. current'[b] = current[b] + w[b] - total
        BY DEF Picks
  <2> QED BY <1>1, <1>3, <1>4, <2>2, <2>3
<1>5. CASE c # b
  <2>1. current'[c] = current[c] + w[c] /\ current[c] + w[c] <= current[b] + w[b]
        BY <1>5 DEF Picks
  <2>2. w[b] = 1
        BY <1>2, <1>5 DEF lone
  <2>3. current[b] + w[b] = (Len(schedule) + 1) * 1 - total * visits[b]
        BY <2>2, ScanSees
  <2>4. total * visits[b] >= 0 /\ total * visits[b] \in Int
        BY <1>1, <1>3
  <2> QED BY <1>1, <1>3, <1>5, <2>1, <2>3, <2>4
<1> QED BY <1>4, <1>5

LEMMA PickSpreads ==
    ASSUME ScheduleInv, SpreadInv, Pick, config' = config
    PROVE  SpreadInv'
<1>1. PICK b \in positions : Picks(b)
      BY PickEffect
<1>2. /\ w' = w /\ total' = total /\ positions' = positions /\ Len(w) \in Nat
      /\ keepsOrder' = keepsOrder /\ ~keepsOrder
      BY PickScene
<1>3. WeightsKnown'
      BY <1>2 DEF SpreadInv, WeightsKnown, weightOf, weight
<1>4. TurnsTaken' /\ LastTurn'
      BY <1>1, PickTakesTurns
<1>5. Counted' /\ Lag'
      BY <1>1, TurnsCounted, PickKeepsLag
<1>6. NoNeedlessRepeat'
  <2> SUFFICES ASSUME NEW k \in 1 .. Len(schedule') - 1, schedule'[k] = schedule'[k + 1]
               PROVE  \E i \in positions : config.channels[i] = schedule'[k] /\ 2 * w[i] > total
      BY <1>2 DEF NoNeedlessRepeat
  <2>1. /\ Len(schedule) \in Nat /\ Len(schedule') = Len(schedule) + 1
        /\ \A l \in 1 .. Len(schedule) : schedule'[l] = schedule[l]
        /\ schedule'[Len(schedule')] = config.channels[b] /\ schedule \in Seq(Int)
        BY <1>1, LastIsPicked
  <2>2. CASE k = Len(schedule)
    <3>1. schedule'[k] = schedule[k] /\ schedule'[k] = config.channels[b]
          BY <2>1, <2>2
    <3>2. last(b)
          BY <2>1, <2>2, <3>1 DEF last
    <3> QED BY <1>1, <3>1, <3>2, PickedAgain
  <2>3. CASE k # Len(schedule)
    <3>1. /\ k \in 1 .. Len(schedule) - 1
          /\ schedule'[k] = schedule[k] /\ schedule'[k + 1] = schedule[k + 1]
          BY <2>1, <2>3
    <3> QED BY <1>2, <3>1 DEF SpreadInv, NoNeedlessRepeat
  <2> QED BY <2>2, <2>3
<1> QED BY <1>3, <1>4, <1>5, <1>6 DEF SpreadInv

\* Before the first pick nobody was visited and nobody is owed anything.
LEMMA NothingPicked ==
    ASSUME ScheduleOK, ~keepsOrder, WeightsKnown, schedule = <<>>,
           \A i \in positions : current[i] = 0 /\ visits[i] = 0
    PROVE  SpreadInv
<1>1. Len(schedule) = 0
      BY DEF ScheduleOK
<1>2. \A i \in positions : turnsOf(i) = {} /\ ~last(i)
      BY <1>1 DEF turnsOf, last
<1>3. Counted
      BY <1>2, FS_EmptySet DEF Counted
<1>4. TurnsTaken /\ LastTurn
      BY <1>2 DEF TurnsTaken, LastTurn
<1>5. Lag
      BY <1>1, <1>2 DEF Lag
<1>6. NoNeedlessRepeat
      BY <1>1 DEF NoNeedlessRepeat
<1> QED BY <1>3, <1>4, <1>5, <1>6 DEF SpreadInv

LEMMA WeighSpreads ==
    ASSUME ScheduleInv, SpreadInv, Weigh, config' = config
    PROVE  SpreadInv'
<1>1. /\ ~keepsOrder /\ ~weighed /\ w' = Append(w, weightOf(config.channels[Len(w) + 1]))
      /\ current' = current /\ schedule' = schedule /\ visits' = visits
      /\ positions' = positions /\ keepsOrder' = keepsOrder
      /\ \A ch : weightOf(ch)' = weightOf(ch)
      BY DEF Weigh, positions, keepsOrder, weight, weightOf
<1>2. /\ schedule = <<>> /\ w \in Seq(Nat \ {0})
      /\ \A i \in positions : current[i] = 0 /\ visits[i] = 0
      BY <1>1 DEF ScheduleInv, ScheduleOK, Picked
<1>3. WeightsKnown'
  <2>1. /\ Len(w') = Len(w) + 1 /\ w'[Len(w) + 1] = weightOf(config.channels[Len(w) + 1])
        /\ \A i \in 1 .. Len(w) : w'[i] = w[i]
        BY <1>1, <1>2
  <2>2. \A i \in 1 .. Len(w') : w'[i] = weightOf(config.channels[i])
    <3> SUFFICES ASSUME NEW i \in 1 .. Len(w') PROVE w'[i] = weightOf(config.channels[i])
        OBVIOUS
    <3>1. i \in 1 .. Len(w) \/ i = Len(w) + 1
          BY <1>2, <2>1
    <3> QED BY <2>1, <3>1 DEF SpreadInv, WeightsKnown
  <2> QED BY <1>1, <2>2 DEF WeightsKnown
<1>4. /\ ScheduleOK' /\ (~keepsOrder)' /\ schedule' = <<>>
      /\ \A i \in positions' : current'[i] = 0 /\ visits'[i] = 0
      BY <1>1, <1>2, WeighKeeps DEF ScheduleInv
<1>5. /\ Len(schedule') = 0 /\ \A i \in positions' : turnsOf(i)' = {} /\ ~last(i)'
      BY <1>4 DEF turnsOf, last
<1>6. Counted'
      BY <1>4, <1>5, FS_EmptySet DEF Counted
<1>7. TurnsTaken' /\ LastTurn' /\ Lag' /\ NoNeedlessRepeat'
      BY <1>4, <1>5 DEF TurnsTaken, LastTurn, Lag, NoNeedlessRepeat
<1> QED BY <1>3, <1>6, <1>7 DEF SpreadInv

LEMMA SpreadStart == Init => SpreadInv
<1> SUFFICES ASSUME Init PROVE SpreadInv
    OBVIOUS
<1>1. /\ config \in Configs /\ w = <<>> /\ Len(w) = 0
      /\ current = [i \in positions |-> 0] /\ visits = [i \in positions |-> 0]
      /\ ~keepsOrder => schedule = <<>>
      BY DEF Init, ScheduleInit
<1>2. WeightsKnown
      BY <1>1 DEF WeightsKnown
<1>3. ScheduleOK
      BY HopperStart DEF HopperInv, ScheduleInv
<1>4. CASE keepsOrder
  <2>1. Counted /\ NoNeedlessRepeat /\ ~spreading
        BY <1>4 DEF Counted, NoNeedlessRepeat, spreading
  <2> QED BY <1>2, <2>1 DEF SpreadInv, TurnsTaken, LastTurn, Lag
<1>5. CASE ~keepsOrder
      BY <1>1, <1>2, <1>3, <1>5, NothingPicked
<1> QED BY <1>4, <1>5

LEMMA SpreadFrame ==
    ASSUME SpreadInv, UNCHANGED <<config, building>>
    PROVE  SpreadInv'
<1>1. /\ config' = config /\ w' = w /\ total' = total /\ current' = current
      /\ schedule' = schedule /\ visits' = visits
      BY DEF building
<1>2. /\ positions' = positions /\ keepsOrder' = keepsOrder /\ spreading' = spreading
      /\ \A i : /\ turnsOf(i)' = turnsOf(i) /\ last(i)' = last(i)
              /\ lone(i)' = lone(i) /\ weightOf(i)' = weightOf(i)
      BY <1>1 DEF positions, keepsOrder, weight, weighed, spreading, turnsOf, last, lone,
                  weightOf
<1>3. WeightsKnown' /\ Counted' /\ NoNeedlessRepeat'
      BY <1>1, <1>2 DEF SpreadInv, WeightsKnown, Counted, NoNeedlessRepeat
<1>4. TurnsTaken' /\ LastTurn' /\ Lag'
      BY <1>1, <1>2 DEF SpreadInv, TurnsTaken, LastTurn, Lag
<1> QED BY <1>3, <1>4 DEF SpreadInv

LEMMA SpreadStep == HopperInv /\ SpreadInv /\ [Next]_vars => SpreadInv'
<1> SUFFICES ASSUME HopperInv, SpreadInv, [Next]_vars PROVE SpreadInv'
    OBVIOUS
<1>1. ScheduleInv
      BY DEF HopperInv
<1>2. CASE buildSchedule
      BY <1>1, <1>2, WeighSpreads, PickSpreads DEF buildSchedule
<1>3. CASE UNCHANGED <<config, building>>
      BY <1>3, SpreadFrame
<1>4. buildSchedule \/ UNCHANGED <<config, building>>
      BY DEF Next, OwnerStep, WorkerStep, Construct, start, StopStore, StopNotify, StopJoin,
             ownerFrame, Test, Fork, Reap, PollTimeout, GiveUp, TestPredicate, FallAsleep,
             DwellTimeout, Advance, SpuriousWakeup, ChildEnds, workerFrame, vars
<1> QED BY <1>2, <1>3, <1>4

\* What the spread of the visits rests on: what the positions of one weight are
\* owed, and what the channel picked last still is (buildSchedule).
THEOREM SpreadInvariant == Spec => [](HopperInv /\ SpreadInv)
<1> QED BY HopperStart, HopperStep, SpreadStart, SpreadStep, PTL DEF Spec

\* A channel is visited twice running only when it has more than half of the
\* round, whatever the list and the weight of the company channels
\* (buildSchedule).
THEOREM VisitsAreSpread == Spec => []NoNeedlessRepeat
<1>1. SpreadInv => NoNeedlessRepeat
      BY DEF SpreadInv
<1> QED BY <1>1, SpreadInvariant, PTL

-----------------------------------------------------------------------------
(* A finished round, and the order in which the thread takes it.           *)

\* In a finished schedule every channel of the list stands as often as it
\* weighs (buildSchedule).
THEOREM RoundsAreFair == Spec => []FairRound
<1>1. HopperInv /\ SpreadInv => FairRound
  <2> SUFFICES ASSUME HopperInv, SpreadInv, built, NEW i \in positions
               PROVE  Cardinality(turnsOf(i)) = weightOf(config.channels[i])
      BY DEF FairRound
  <2>1. /\ ScheduleInv /\ config \in Configs
        /\ positions = 1 .. Len(config.channels) /\ Len(config.channels) \in Nat
        BY ConfigType DEF HopperInv, ScheduleInv, ScheduleOK, N
  <2>2. CASE keepsOrder
    <3>1. schedule = config.channels /\ weight = 1
      <4>1. config.channels = <<>> => positions = {}
            BY DEF positions
      <4> QED BY <2>1, <2>2, <4>1 DEF keepsOrder, ScheduleInv, Picked
    <3>2. turnsOf(i) = {i}
      <4>1. \A k \in positions : config.channels[k] = config.channels[i] => k = i
            BY <2>1, NoChannelTwice
      <4> QED BY <2>1, <3>1, <4>1 DEF turnsOf
    <3> QED BY <3>1, <3>2, FS_Singleton DEF weightOf
  <2>3. CASE ~keepsOrder
    <3>1. visits[i] = w[i]
          BY <2>1, <2>3, RoundIsFair
    <3>2. visits[i] = Cardinality(turnsOf(i))
          BY <2>3 DEF SpreadInv, Counted
    <3>3. w[i] = weightOf(config.channels[i])
          BY <2>1, <2>3 DEF SpreadInv, WeightsKnown, built, weighed
    <3> QED BY <3>1, <3>2, <3>3
  <2> QED BY <2>2, <2>3
<1> QED BY <1>1, SpreadInvariant, PTL

\* A step of one of the threads leaves the schedule alone; it moves the
\* position only when the thread advances, and the channel tried only when it
\* hops.
LEMMA OrderKept ==
    HopperInv /\ HopsFollowSchedule /\ [Next]_vars => HopsFollowSchedule'
<1> SUFFICES ASSUME HopperInv, HopsFollowSchedule, [Next]_vars
             PROVE  HopsFollowSchedule'
    OBVIOUS
<1>1. CASE Construct
  <2>1. worker = "none" /\ worker' = worker
        BY <1>1 DEF Construct, HopperInv, Threads
  <2> QED BY <2>1 DEF HopsFollowSchedule
<1>2. CASE ~Construct
  <2>1. schedule' = schedule
        BY <1>2 DEF Next, OwnerStep, WorkerStep, start, StopStore, StopNotify, StopJoin,
                    ownerFrame, Test, Fork, Reap, PollTimeout, GiveUp, TestPredicate,
                    FallAsleep, DwellTimeout, Advance, SpuriousWakeup, ChildEnds,
                    workerFrame, vars, building
  <2>2. CASE start
        BY <2>2 DEF start, HopsFollowSchedule
  <2>3. CASE StopJoin
        BY <2>3 DEF StopJoin, HopsFollowSchedule
  <2>4. CASE Fork
    <3>1. worker' \in {"polling", "resting"} /\ idx' = idx /\ tried' = schedule[idx + 1]
          BY <2>4 DEF Fork
    <3> QED BY <2>1, <3>1 DEF HopsFollowSchedule
  <2>5. CASE Advance
    <3>1. /\ worker = "advancing" /\ worker' = "testing" /\ tried' = tried
          /\ idx' = (idx + 1) % Len(schedule)
          BY <2>5 DEF Advance, next, history
    <3>2. tried = schedule[idx + 1]
          BY <3>1 DEF HopsFollowSchedule
    <3>3. /\ idx \in Nat /\ Len(schedule) \in Nat /\ idx < Len(schedule)
          BY <3>1 DEF HopperInv, ThreadsOK, ScheduleInv, ScheduleOK
    <3>4. idx' > 0 => idx' = idx + 1
      <4>1. CASE idx + 1 < Len(schedule)
            BY <3>1, <3>3, <4>1
      <4>2. CASE idx + 1 = Len(schedule)
            BY <3>1, <3>3, <4>2
      <4> QED BY <3>3, <4>1, <4>2
    <3> QED BY <2>1, <3>1, <3>2, <3>4 DEF HopsFollowSchedule
  <2>6. CASE Test
        BY <2>1, <2>6 DEF Test, history, HopsFollowSchedule
  <2>7. CASE StopNotify
    <3>1. /\ worker' = IF worker = "asleep" THEN "resting" ELSE worker
          /\ idx' = idx /\ tried' = tried
          BY <2>7 DEF StopNotify, history
    <3> QED BY <2>1, <3>1 DEF HopsFollowSchedule
  <2>8. CASE Reap \/ PollTimeout \/ GiveUp \/ TestPredicate \/ FallAsleep
             \/ DwellTimeout \/ SpuriousWakeup
    <3>1. /\ worker \in {"polling", "killing", "resting", "dozing", "asleep"}
          /\ worker' \in {"killing", "resting", "dozing", "asleep", "advancing"}
          /\ idx' = idx /\ tried' = tried
          BY <2>8 DEF Reap, PollTimeout, GiveUp, TestPredicate, FallAsleep, DwellTimeout,
                      SpuriousWakeup, history
    <3> QED BY <2>1, <3>1 DEF HopsFollowSchedule
  <2>9. CASE StopStore \/ ChildEnds \/ UNCHANGED vars
    <3>1. worker' = worker /\ idx' = idx /\ tried' = tried
          BY <2>9 DEF StopStore, ChildEnds, vars, history
    <3> QED BY <2>1, <3>1 DEF HopsFollowSchedule
  <2>10. Next \/ UNCHANGED vars
         OBVIOUS
  <2> QED BY <1>2, <2>2, <2>3, <2>4, <2>5, <2>6, <2>7, <2>8, <2>9, <2>10
          DEF Next, OwnerStep, WorkerStep
<1> QED BY <1>1, <1>2

\* However channel changes fail, hang or are cut short, and whenever stop
\* comes, the thread skips no entry of the schedule (run).
THEOREM ScheduleIsFollowed == Spec => []HopsFollowSchedule
<1>1. Init => HopsFollowSchedule
      BY DEF Init, HopsFollowSchedule
<1> QED BY <1>1, OrderKept, HopperInvariant, PTL DEF Spec

=============================================================================
