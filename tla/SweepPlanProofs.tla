--------------------------- MODULE SweepPlanProofs ---------------------------
(***************************************************************************)
(* What is proved of SweepPlan, for all whole levels, steps and limits,    *)
(* every point limit, and every schema that SweepPlan's assumptions allow. *)
(***************************************************************************)
EXTENDS SweepPlan, SequenceTheorems, TLAPS

-----------------------------------------------------------------------------
(* Arithmetic.                                                             *)

(* Multiplying by a step keeps the order: the points are in order.         *)
LEMMA Monotonic ==
  ASSUME NEW m \in Int, NEW n \in Int, NEW d \in Nat, m <= n
  PROVE  m * d <= n * d
  <1>1. (n - m) * d >= 0
    OBVIOUS
  <1> QED  BY <1>1

(* Division with remainder, as // and % do it.                             *)
LEMMA Division ==
  ASSUME NEW n \in Nat, NEW d \in Nat \ {0}
  PROVE  /\ n \div d \in Nat
         /\ n % d \in 0 .. d - 1
         /\ n = (n \div d) * d + (n % d)
  OBVIOUS

(* round leaves at most half a step.                                       *)
LEMMA RoundIsNear ==
  ASSUME NEW n \in Nat, NEW d \in Nat \ {0}
  PROVE  /\ Round(n, d) \in Nat
         /\ 2 * (Round(n, d) * d) <= 2 * n + d
         /\ 2 * n <= 2 * (Round(n, d) * d) + d
  <1> DEFINE q == n \div d
             r == n % d
  <1>1. q \in Nat /\ r \in 0 .. d - 1 /\ n = q * d + r
    BY Division
  <1>2. (q + 1) * d = q * d + d /\ q * d \in Int
    BY <1>1
  <1>3. Round(n, d) = IF 2 * r < d \/ (2 * r = d /\ q % 2 = 0) THEN q ELSE q + 1
    BY DEF Round
  <1> HIDE DEF q, r
  <1>4. CASE Round(n, d) = q
    <2>1. 2 * r <= d
      BY <1>1, <1>3, <1>4
    <2> QED  BY <1>1, <1>2, <1>4, <2>1
  <1>5. CASE Round(n, d) = q + 1
    <2>1. 2 * r >= d
      BY <1>1, <1>3, <1>5
    <2>2. Round(n, d) * d = q * d + d
      BY <1>2, <1>5
    <2> QED  BY <1>1, <1>2, <1>5, <2>1, <2>2
  <1> QED  BY <1>3, <1>4, <1>5

-----------------------------------------------------------------------------
(* The way from start to stop.                                             *)

(* A configuration's numbers: whole, its step and its limit not 0.         *)
LEMMA ConfigTypes ==
  ASSUME NEW c \in SweepConfig
  PROVE  /\ c.start \in Int /\ c.stop \in Int
         /\ c.step \in Nat \ {0} /\ c.compliance \in Nat \ {0}
         /\ c.direction \in Directions /\ c.mode \in Modes
  BY NumbersAssumption DEF SweepConfig

(* Turning the ends of an UP sweep round leaves a configuration.           *)
LEMMA OrderedTypes ==
  ASSUME NEW c \in SweepConfig
  PROVE  /\ Ordered(c) \in SweepConfig
         /\ Ordered(c).direction = "UP" => Ordered(c).start <= Ordered(c).stop
  <1>1. c.start \in Int /\ c.stop \in Int
    BY ConfigTypes
  <1>2. CASE c.direction = "UP" /\ c.start > c.stop
    <2>1. Ordered(c) = [c EXCEPT !.start = c.stop, !.stop = c.start]
      BY <1>2 DEF Ordered
    <2>2. Ordered(c) \in SweepConfig
      BY <2>1 DEF SweepConfig
    <2>3. Ordered(c).start = c.stop /\ Ordered(c).stop = c.start
      BY <2>1 DEF SweepConfig
    <2> QED  BY <1>1, <1>2, <2>2, <2>3
  <1>3. CASE ~(c.direction = "UP" /\ c.start > c.stop)
    BY <1>1, <1>3 DEF Ordered
  <1> QED  BY <1>2, <1>3

(* How many steps there are: half a step more or less than the range.      *)
LEMMA StepsFit ==
  ASSUME NEW c \in SweepConfig
  PROVE  /\ StepCount(c) \in Nat /\ StepCount(c) * c.step \in Int
         /\ 2 * (StepCount(c) * c.step) <= 2 * Magnitude(c.stop - c.start) + c.step
         /\ 2 * Magnitude(c.stop - c.start) <= 2 * (StepCount(c) * c.step) + c.step
  <1>1. c.start \in Int /\ c.stop \in Int /\ c.step \in Nat \ {0}
    BY ConfigTypes
  <1>2. Magnitude(c.stop - c.start) \in Nat
    BY <1>1 DEF Magnitude
  <1>3. /\ StepCount(c) \in Nat
        /\ 2 * (StepCount(c) * c.step) <= 2 * Magnitude(c.stop - c.start) + c.step
        /\ 2 * Magnitude(c.stop - c.start) <= 2 * (StepCount(c) * c.step) + c.step
    BY <1>1, <1>2, RoundIsNear DEF StepCount
  <1> QED  BY <1>1, <1>3

(* WayUp is a sequence of one level more than there are steps.             *)
LEMMA WayUpTypes ==
  ASSUME NEW c \in SweepConfig
  PROVE  /\ StepCount(c) \in Nat
         /\ WayUp(c) \in Seq(Int)
         /\ Len(WayUp(c)) = StepCount(c) + 1
         /\ DOMAIN WayUp(c) = 1 .. StepCount(c) + 1
  <1> DEFINE N == StepCount(c) + 1
  <1>1. N \in Nat \ {0} /\ StepCount(c) \in Nat
    BY StepsFit
  <1>2. c.start \in Int /\ c.stop \in Int /\ c.step \in Int
    BY ConfigTypes
  <1>3. WayUp(c) \in [1 .. N -> Int]
    BY <1>1, <1>2 DEF WayUp
  <1> HIDE DEF N
  <1>4. WayUp(c) \in Seq(Int) /\ Len(WayUp(c)) = N
    BY <1>1, <1>3, LenProperties, SeqDef
  <1> QED  BY <1>1, <1>3, <1>4 DEF N

(* The levels of the way: whole steps from start, and stop at the end.     *)
LEMMA WayUpLevels ==
  ASSUME NEW c \in SweepConfig, NEW i \in 1 .. StepCount(c) + 1
  PROVE  /\ i = StepCount(c) + 1 => WayUp(c)[i] = c.stop
         /\ i # StepCount(c) + 1 /\ c.start <= c.stop =>
              WayUp(c)[i] = c.start + (i - 1) * c.step
         /\ i # StepCount(c) + 1 /\ ~(c.start <= c.stop) =>
              WayUp(c)[i] = c.start - (i - 1) * c.step
  <1>1. StepCount(c) \in Nat /\ i \in Int
    BY StepsFit
  <1>2. c.start \in Int /\ c.stop \in Int /\ c.step \in Int
    BY ConfigTypes
  <1>3. (i - 1) * (-c.step) = -((i - 1) * c.step) /\ (i - 1) * c.step \in Int
    BY <1>1, <1>2
  <1>4. c.start + (i - 1) * (-c.step) = c.start - (i - 1) * c.step
    BY <1>2, <1>3
  <1> QED  BY <1>1, <1>4 DEF WayUp

(* Between the ends the way never leaves them behind: k steps, for a k     *)
(* before the last one, are at least half a step short of the range.       *)
LEMMA WayUpIsShort ==
  ASSUME NEW c \in SweepConfig, NEW k \in Nat, k < StepCount(c)
  PROVE  /\ k * c.step \in Nat
         /\ 2 * (k * c.step) + c.step <= 2 * Magnitude(c.stop - c.start)
  <1>1. c.step \in Nat \ {0} /\ StepCount(c) \in Nat
    BY ConfigTypes, StepsFit
  <1>2. Magnitude(c.stop - c.start) \in Nat
    BY ConfigTypes DEF Magnitude
  <1>3. (k + 1) * c.step <= StepCount(c) * c.step
    BY <1>1, Monotonic
  <1>4. (k + 1) * c.step = k * c.step + c.step /\ k * c.step \in Nat
    BY <1>1
  <1>5. /\ StepCount(c) * c.step \in Int
        /\ 2 * (StepCount(c) * c.step) <= 2 * Magnitude(c.stop - c.start) + c.step
    BY StepsFit
  <1> QED  BY <1>1, <1>2, <1>3, <1>4, <1>5

(* No level of the way is larger than the larger end.                      *)
LEMMA WayUpWithin ==
  ASSUME NEW c \in SweepConfig, NEW i \in 1 .. StepCount(c) + 1
  PROVE  WayUp(c)[i] \in Int /\ Magnitude(WayUp(c)[i]) <= MaxLevel(c)
  <1>1. c.start \in Int /\ c.stop \in Int /\ c.step \in Nat \ {0}
    BY ConfigTypes
  <1>2. StepCount(c) \in Nat /\ i \in Int
    BY StepsFit
  <1>3. CASE i = StepCount(c) + 1
    BY <1>1, <1>2, <1>3, WayUpLevels DEF Magnitude, MaxLevel
  <1>4. CASE i # StepCount(c) + 1
    <2>1. i - 1 \in Nat /\ i - 1 < StepCount(c)
      BY <1>2, <1>4
    <2>2. /\ (i - 1) * c.step \in Nat
          /\ 2 * ((i - 1) * c.step) + c.step <= 2 * Magnitude(c.stop - c.start)
      BY <2>1, WayUpIsShort
    <2>3. WayUp(c)[i] = IF c.start <= c.stop THEN c.start + (i - 1) * c.step
                                             ELSE c.start - (i - 1) * c.step
      BY <1>4, WayUpLevels
    <2> DEFINE p == (i - 1) * c.step
               w == WayUp(c)[i]
    <2>4. p \in Nat /\ 2 * p <= 2 * Magnitude(c.stop - c.start)
      BY <1>1, <2>2 DEF Magnitude
    <2>5. w = IF c.start <= c.stop THEN c.start + p ELSE c.start - p
      BY <2>3
    <2> HIDE DEF p, w
    <2>6. w \in Int /\ Magnitude(w) <= MaxLevel(c)
      BY <1>1, <2>4, <2>5 DEF Magnitude, MaxLevel
    <2> QED  BY <2>6 DEF w
  <1> QED  BY <1>3, <1>4

(* No two levels in a row are more than a step and a half apart.           *)
LEMMA WayUpSteps ==
  ASSUME NEW c \in SweepConfig, NEW i \in 1 .. StepCount(c)
  PROVE  2 * Magnitude(WayUp(c)[i + 1] - WayUp(c)[i]) <= 3 * c.step
  <1> DEFINE n == StepCount(c)
             d == c.step
             range == Magnitude(c.stop - c.start)
  <1>1. c.start \in Int /\ c.stop \in Int /\ d \in Nat \ {0}
    BY ConfigTypes
  <1>2. n \in Nat /\ i \in Int /\ i >= 1 /\ i <= n
    BY StepsFit
  <1>3. range \in Nat
    BY <1>1 DEF Magnitude
  <1>4. /\ (i - 1) * d \in Nat
        /\ 2 * ((i - 1) * d) + d <= 2 * range
    BY <1>2, WayUpIsShort
  <1>5. WayUp(c)[i] = IF c.start <= c.stop THEN c.start + (i - 1) * d
                                           ELSE c.start - (i - 1) * d
    BY <1>2, WayUpLevels
  <1>6. i * d = (i - 1) * d + d /\ i * d \in Int
    BY <1>1, <1>2
  <1>7. CASE i = n
    <2>1. WayUp(c)[i + 1] = c.stop
      BY <1>2, <1>7, WayUpLevels
    <2>2. 2 * range <= 2 * (i * d) + d
      BY <1>7, StepsFit
    <2> DEFINE p == (i - 1) * d
    <2>3. p \in Nat /\ 2 * p + d <= 2 * range /\ 2 * range <= 2 * p + 3 * d
      BY <1>1, <1>3, <1>4, <1>6, <2>2
    <2>4. WayUp(c)[i] = IF c.start <= c.stop THEN c.start + p ELSE c.start - p
      BY <1>5
    <2>5. range = IF c.start <= c.stop THEN c.stop - c.start ELSE c.start - c.stop
      BY <1>1 DEF Magnitude
    <2> HIDE DEF p, n, d, range
    <2>6. 2 * Magnitude(WayUp(c)[i + 1] - WayUp(c)[i]) <= 3 * d
      BY <1>1, <1>3, <2>1, <2>3, <2>4, <2>5 DEF Magnitude
    <2> QED  BY <2>6 DEF d
  <1>8. CASE i # n
    <2>1. WayUp(c)[i + 1] = IF c.start <= c.stop THEN c.start + i * d
                                                 ELSE c.start - i * d
      BY <1>2, <1>8, WayUpLevels
    <2> DEFINE p == (i - 1) * d
               q == i * d
    <2>2. q = p + d /\ p \in Nat
      BY <1>4, <1>6
    <2>3. WayUp(c)[i] = IF c.start <= c.stop THEN c.start + p ELSE c.start - p
      BY <1>5
    <2>4. WayUp(c)[i + 1] = IF c.start <= c.stop THEN c.start + q ELSE c.start - q
      BY <2>1
    <2> HIDE DEF p, q, n, d, range
    <2>5. 2 * Magnitude(WayUp(c)[i + 1] - WayUp(c)[i]) <= 3 * d
      BY <1>1, <2>2, <2>3, <2>4 DEF Magnitude
    <2> QED  BY <2>5 DEF d
  <1> QED  BY <1>7, <1>8

(* A range of a step or more is more than one level, from start to stop.   *)
LEMMA WayUpReaches ==
  ASSUME NEW c \in SweepConfig, c.step <= Magnitude(c.stop - c.start)
  PROVE  /\ WayUp(c)[1] = c.start
         /\ WayUp(c)[StepCount(c) + 1] = c.stop
  <1>1. c.start \in Int /\ c.stop \in Int /\ c.step \in Nat \ {0}
    BY ConfigTypes
  <1>2. Magnitude(c.stop - c.start) \in Nat
    BY <1>1 DEF Magnitude
  <1>3. /\ StepCount(c) \in Nat /\ StepCount(c) * c.step \in Int
        /\ 2 * Magnitude(c.stop - c.start) <= 2 * (StepCount(c) * c.step) + c.step
    BY StepsFit
  <1>4. StepCount(c) # 0
    <2>1. SUFFICES ASSUME StepCount(c) = 0 PROVE FALSE
      OBVIOUS
    <2>2. \A d \in Nat : 0 * d = 0
      OBVIOUS
    <2>3. StepCount(c) * c.step = 0
      BY <1>1, <2>1, <2>2
    <2>4. 2 * Magnitude(c.stop - c.start) <= c.step
      BY <1>1, <1>2, <1>3, <2>3
    <2> QED  BY <1>1, <1>2, <2>4
  <1>5. 1 # StepCount(c) + 1 /\ 1 \in 1 .. StepCount(c) + 1
    BY <1>3, <1>4
  <1>6. (1 - 1) * c.step = 0
    BY <1>1
  <1>7. WayUp(c)[1] = c.start
    BY <1>1, <1>5, <1>6, WayUpLevels
  <1>8. StepCount(c) + 1 \in 1 .. StepCount(c) + 1
    BY <1>3
  <1> QED  BY <1>7, <1>8, WayUpLevels

-----------------------------------------------------------------------------
(* The points.                                                             *)

(* What is measured on the way up is what is measured on the way down.     *)
LEMMA WayDownTypes ==
  ASSUME NEW c \in SweepConfig
  PROVE  /\ Reverse(WayUp(c)) \in Seq(Int)
         /\ Len(Reverse(WayUp(c))) = StepCount(c) + 1
         /\ \A i \in 1 .. StepCount(c) + 1 :
              Reverse(WayUp(c))[i] = WayUp(c)[StepCount(c) + 2 - i]
  <1> DEFINE W == WayUp(c)
             N == StepCount(c) + 1
  <1>1. W \in Seq(Int) /\ Len(W) = N /\ N \in Nat
    BY WayUpTypes
  <1>2. \A i \in 1 .. N : W[i] \in Int
    BY <1>1
  <1>3. Reverse(W) = [i \in 1 .. N |-> W[(N - i) + 1]]
    BY <1>1 DEF Reverse
  <1> HIDE DEF W, N
  <1>4. \A i \in 1 .. N : (N - i) + 1 \in 1 .. N
    BY <1>1
  <1>5. Reverse(W) \in [1 .. N -> Int]
    BY <1>2, <1>3, <1>4
  <1>6. Reverse(W) \in Seq(Int) /\ Len(Reverse(W)) = N
    BY <1>1, <1>5, LenProperties, SeqDef
  <1>7. \A i \in 1 .. N : Reverse(W)[i] = W[(N - i) + 1]
    BY <1>3
  <1>8. StepCount(c) \in Nat
    BY WayUpTypes
  <1>9. \A i \in 1 .. N : (N - i) + 1 = StepCount(c) + 2 - i
    BY <1>8 DEF N
  <1>10. \A i \in 1 .. N : Reverse(W)[i] = W[StepCount(c) + 2 - i]
    BY <1>7, <1>9
  <1> QED  BY <1>6, <1>10 DEF W, N

(* Where each point comes from, and that there are as many as estimated:   *)
(* the turning point of BOTH is measured once.                             *)
LEMMA PointsTypes ==
  ASSUME NEW c \in SweepConfig
  PROVE  /\ Points(c) \in Seq(Int)
         /\ Len(Points(c)) = EstimatePoints(c)
         /\ EstimatePoints(c) \in Nat \ {0}
         /\ c.direction = "UP" => Points(c) = WayUp(c)
         /\ c.direction = "DOWN" => Points(c) = Reverse(WayUp(c))
         /\ c.direction = "BOTH" =>
              \A i \in 1 .. EstimatePoints(c) :
                Points(c)[i] = IF i <= StepCount(c) + 1 THEN WayUp(c)[i]
                               ELSE WayUp(c)[2 * (StepCount(c) + 1) - i]
  <1> DEFINE W == WayUp(c)
             N == StepCount(c) + 1
             R == Reverse(W)
  <1>1. W \in Seq(Int) /\ Len(W) = N /\ N \in Nat \ {0} /\ StepCount(c) \in Nat
    BY WayUpTypes
  <1>2. R \in Seq(Int) /\ Len(R) = N
    BY WayDownTypes
  <1>3. \A i \in 1 .. N : R[i] = W[N + 1 - i]
    <2>1. \A i \in 1 .. N : StepCount(c) + 2 - i = N + 1 - i
      BY <1>1
    <2>2. \A i \in 1 .. N : R[i] = W[StepCount(c) + 2 - i]
      BY WayDownTypes
    <2> HIDE DEF R, W, N
    <2> QED  BY <2>1, <2>2
  <1>4. c.direction \in Directions
    BY ConfigTypes
  <1>5. CASE c.direction # "BOTH"
    <2>1. Points(c) = IF c.direction = "UP" THEN W ELSE R
      BY <1>4, <1>5 DEF Points, Directions
    <2>2. EstimatePoints(c) = N
      BY <1>5 DEF EstimatePoints
    <2> HIDE DEF W, N, R
    <2> QED  BY <1>1, <1>2, <1>4, <1>5, <2>1, <2>2 DEF Directions, W, R
  <1>6. CASE c.direction = "BOTH"
    <2>1. Points(c) = W \o Tail(R)
      BY <1>6 DEF Points
    <2>2. EstimatePoints(c) = 2 * N - 1
      BY <1>6 DEF EstimatePoints
    <2> HIDE DEF W, N, R
    <2>3. /\ Tail(R) \in Seq(Int) /\ Len(Tail(R)) = N - 1
          /\ \A j \in 1 .. N - 1 : Tail(R)[j] = R[j + 1]
      <3>1. R # <<>>
        BY <1>1, <1>2
      <3> QED  BY <1>1, <1>2, <3>1, HeadTailProperties
    <2>4. Points(c) \in Seq(Int) /\ Len(Points(c)) = 2 * N - 1
      <3>1. Points(c) \in Seq(Int) /\ Len(Points(c)) = Len(W) + Len(Tail(R))
        BY <1>1, <2>1, <2>3, ConcatProperties
      <3>2. N + (N - 1) = 2 * N - 1
        BY <1>1
      <3>3. Len(W) + Len(Tail(R)) = N + (N - 1)
        BY <1>1, <2>3
      <3> QED  BY <3>1, <3>2, <3>3
    <2>5. ASSUME NEW i \in 1 .. 2 * N - 1
          PROVE  Points(c)[i] = IF i <= N THEN W[i] ELSE W[2 * N - i]
      <3>1. Points(c)[i] = IF i <= N THEN W[i] ELSE Tail(R)[i - N]
        BY <1>1, <2>1, <2>3, ConcatProperties
      <3>2. CASE i <= N
        BY <3>1, <3>2
      <3>3. CASE ~(i <= N)
        <4>1. i - N \in 1 .. N - 1 /\ (i - N) + 1 \in 1 .. N
          BY <1>1, <3>3
        <4>2. Points(c)[i] = R[(i - N) + 1]
          BY <2>3, <3>1, <3>3, <4>1
        <4>3. N + 1 - ((i - N) + 1) = 2 * N - i
          BY <1>1
        <4>4. Points(c)[i] = W[2 * N - i]
          BY <1>3, <4>1, <4>2, <4>3
        <4> QED  BY <3>3, <4>4
      <3> QED  BY <3>2, <3>3
    <2>6. 2 * N - 1 \in Nat \ {0}
      BY <1>1
    <2>7. \A i \in 1 .. EstimatePoints(c) :
            Points(c)[i] = IF i <= StepCount(c) + 1 THEN WayUp(c)[i]
                           ELSE WayUp(c)[2 * (StepCount(c) + 1) - i]
      BY <2>2, <2>5 DEF N, W
    <2> QED  BY <1>6, <2>2, <2>4, <2>6, <2>7
  <1> QED  BY <1>5, <1>6

(* Every point is a level of the way, and two in a row are neighbours on   *)
(* it, in one order or the other.                                          *)
LEMMA PointsFollowTheWay ==
  ASSUME NEW c \in SweepConfig, NEW i \in 1 .. EstimatePoints(c)
  PROVE  /\ \E j \in 1 .. StepCount(c) + 1 : Points(c)[i] = WayUp(c)[j]
         /\ i # EstimatePoints(c) =>
              \E j \in 1 .. StepCount(c) :
                \/ Points(c)[i] = WayUp(c)[j] /\ Points(c)[i + 1] = WayUp(c)[j + 1]
                \/ Points(c)[i] = WayUp(c)[j + 1] /\ Points(c)[i + 1] = WayUp(c)[j]
  <1> DEFINE W == WayUp(c)
             n == StepCount(c)
             P == Points(c)
             Comes(k) == \E j \in 1 .. n + 1 : P[k] = W[j]
             Near(j) == \/ P[i] = W[j] /\ P[i + 1] = W[j + 1]
                        \/ P[i] = W[j + 1] /\ P[i + 1] = W[j]
  <1>1. n \in Nat /\ i \in Int /\ EstimatePoints(c) \in Nat
    BY WayUpTypes, PointsTypes
  <1>2. c.direction \in Directions
    BY ConfigTypes
  <1>3. CASE c.direction = "UP"
    <2>1. P = W /\ EstimatePoints(c) = n + 1
      BY <1>3, PointsTypes DEF EstimatePoints
    <2> HIDE DEF W, n, P
    <2>2. Comes(i)
      BY <2>1
    <2>3. i # EstimatePoints(c) => i \in 1 .. n /\ Near(i)
      BY <1>1, <2>1
    <2> QED  BY <2>2, <2>3 DEF W, n, P
  <1>4. CASE c.direction = "DOWN"
    <2>1. P = Reverse(W) /\ EstimatePoints(c) = n + 1
      BY <1>4, PointsTypes DEF EstimatePoints
    <2>2. \A k \in 1 .. n + 1 : P[k] = W[n + 2 - k]
      BY <2>1, WayDownTypes
    <2> HIDE DEF W, n, P
    <2>3. Comes(i)
      <3>1. n + 2 - i \in 1 .. n + 1
        BY <1>1, <2>1
      <3> QED  BY <2>1, <2>2, <3>1
    <2>4. i # EstimatePoints(c) => n + 1 - i \in 1 .. n /\ Near(n + 1 - i)
      <3>1. SUFFICES ASSUME i # EstimatePoints(c)
                     PROVE  n + 1 - i \in 1 .. n /\ Near(n + 1 - i)
        OBVIOUS
      <3>2. i \in 1 .. n + 1 /\ i + 1 \in 1 .. n + 1 /\ n + 1 - i \in 1 .. n
        BY <1>1, <2>1, <3>1
      <3>3. n + 2 - i = (n + 1 - i) + 1 /\ n + 2 - (i + 1) = n + 1 - i
        BY <1>1
      <3>4. P[i] = W[(n + 1 - i) + 1] /\ P[i + 1] = W[n + 1 - i]
        BY <2>2, <3>2, <3>3
      <3> QED  BY <3>2, <3>4
    <2> QED  BY <2>3, <2>4 DEF W, n, P
  <1>5. CASE c.direction = "BOTH"
    <2>1. EstimatePoints(c) = 2 * (n + 1) - 1
      BY <1>5 DEF EstimatePoints
    <2>2. \A k \in 1 .. 2 * (n + 1) - 1 :
            P[k] = IF k <= n + 1 THEN W[k] ELSE W[2 * (n + 1) - k]
      BY <1>5, <2>1, PointsTypes
    <2> HIDE DEF W, n, P
    <2>3. Comes(i)
      <3>1. CASE i <= n + 1
        BY <1>1, <2>1, <2>2, <3>1
      <3>2. CASE ~(i <= n + 1)
        <4>1. 2 * (n + 1) - i \in 1 .. n + 1
          BY <1>1, <2>1, <3>2
        <4> QED  BY <2>1, <2>2, <3>2, <4>1
      <3> QED  BY <3>1, <3>2
    <2>4. ASSUME i # EstimatePoints(c)
          PROVE  \E j \in 1 .. n : Near(j)
      <3>1. i \in 1 .. 2 * (n + 1) - 1 /\ i + 1 \in 1 .. 2 * (n + 1) - 1
        BY <1>1, <2>1, <2>4
      <3>2. CASE i <= n
        <4>1. P[i] = W[i] /\ P[i + 1] = W[i + 1]
          BY <1>1, <2>2, <3>1, <3>2
        <4> QED  BY <1>1, <3>2, <4>1
      <3>3. CASE i = n + 1
        <4>1. 2 * (n + 1) - (i + 1) = n /\ n >= 1
          BY <1>1, <3>1, <3>3
        <4>2. P[i] = W[n + 1] /\ P[i + 1] = W[n]
          BY <1>1, <2>2, <3>1, <3>3, <4>1
        <4> QED  BY <1>1, <4>1, <4>2
      <3>4. CASE i > n + 1
        <4> DEFINE j == 2 * (n + 1) - (i + 1)
        <4>1. j \in 1 .. n /\ j + 1 = 2 * (n + 1) - i
          BY <1>1, <3>1, <3>4
        <4>2. P[i] = W[j + 1] /\ P[i + 1] = W[j]
          BY <1>1, <2>2, <3>1, <3>4, <4>1
        <4> QED  BY <4>1, <4>2
      <3> QED  BY <1>1, <3>2, <3>3, <3>4
    <2> QED  BY <2>3, <2>4 DEF W, n, P
  <1> QED  BY <1>2, <1>3, <1>4, <1>5 DEF Directions

(* Both ends of the way are among the points.                              *)
LEMMA PointsHaveTheEnds ==
  ASSUME NEW c \in SweepConfig
  PROVE  /\ \E i \in 1 .. EstimatePoints(c) : Points(c)[i] = WayUp(c)[1]
         /\ \E i \in 1 .. EstimatePoints(c) :
              Points(c)[i] = WayUp(c)[StepCount(c) + 1]
  <1> DEFINE W == WayUp(c)
             n == StepCount(c)
             P == Points(c)
  <1>1. n \in Nat
    BY WayUpTypes
  <1>2. c.direction \in Directions
    BY ConfigTypes
  <1>3. CASE c.direction = "UP"
    <2>1. P = W /\ EstimatePoints(c) = n + 1
      BY <1>3, PointsTypes DEF EstimatePoints
    <2> HIDE DEF W, n, P
    <2>2. 1 \in 1 .. n + 1 /\ n + 1 \in 1 .. n + 1
      BY <1>1
    <2> QED  BY <2>1, <2>2 DEF W, n, P
  <1>4. CASE c.direction = "DOWN"
    <2>1. P = Reverse(W) /\ EstimatePoints(c) = n + 1
      BY <1>4, PointsTypes DEF EstimatePoints
    <2>2. \A k \in 1 .. n + 1 : P[k] = W[n + 2 - k]
      BY <2>1, WayDownTypes
    <2> HIDE DEF W, n, P
    <2>3. 1 \in 1 .. n + 1 /\ n + 1 \in 1 .. n + 1 /\ n + 2 - 1 = n + 1
          /\ n + 2 - (n + 1) = 1
      BY <1>1
    <2>4. P[1] = W[n + 1] /\ P[n + 1] = W[1]
      BY <2>2, <2>3
    <2> QED  BY <2>1, <2>3, <2>4 DEF W, n, P
  <1>5. CASE c.direction = "BOTH"
    <2>1. EstimatePoints(c) = 2 * (n + 1) - 1
      BY <1>5 DEF EstimatePoints
    <2>2. \A k \in 1 .. 2 * (n + 1) - 1 :
            P[k] = IF k <= n + 1 THEN W[k] ELSE W[2 * (n + 1) - k]
      BY <1>5, <2>1, PointsTypes
    <2> HIDE DEF W, n, P
    <2>3. 1 \in 1 .. 2 * (n + 1) - 1 /\ n + 1 \in 1 .. 2 * (n + 1) - 1
      BY <1>1
    <2>4. P[1] = W[1] /\ P[n + 1] = W[n + 1]
      BY <1>1, <2>2, <2>3
    <2> QED  BY <2>1, <2>3, <2>4 DEF W, n, P
  <1> QED  BY <1>2, <1>3, <1>4, <1>5 DEF Directions

-----------------------------------------------------------------------------
(* The setup.                                                              *)

(* Six commands; the fifth, and no other, sets the level, to start.  What  *)
(* the output and the source mode are set to.                              *)
LEMMA SetupCommands ==
  ASSUME NEW c, NEW mode \in Modes
  PROVE  /\ Len(Setup(mode, c)) = 6
         /\ Setup(mode, c)[5] = <<Level[mode], c.start>>
         /\ \A i \in 1 .. 6 :
              LET command == Setup(mode, c)[i]
              IN  /\ command[1] = Level[mode] <=> i = 5
                  /\ command[1] = ":OUTP" => command[2] \in {"ON", "OFF"}
                  /\ command[1] = ":SOUR:FUNC" => command[2] = mode
  <1> DEFINE s == Setup(mode, c)
  <1>1. /\ s[1] = <<":OUTP", "OFF">> /\ s[2] = <<":SOUR:FUNC", mode>>
        /\ s[3] = <<Protection[mode], c.compliance>>
        /\ s[4] = <<LevelRange[mode], MaxLevel(c)>>
        /\ s[5] = <<Level[mode], c.start>> /\ s[6] = <<":OUTP", "ON">>
        /\ Len(s) = 6
    BY DEF Setup
  <1>2. \/ /\ Level[mode] = ":SOUR:VOLT" /\ LevelRange[mode] = ":SOUR:VOLT:RANG"
           /\ Protection[mode] = ":SENS:CURR:PROT"
        \/ /\ Level[mode] = ":SOUR:CURR" /\ LevelRange[mode] = ":SOUR:CURR:RANG"
           /\ Protection[mode] = ":SENS:VOLT:PROT"
    BY DEF Level, LevelRange, Protection, Modes
  <1> HIDE DEF s
  <1>3. ASSUME NEW i \in 1 .. 6
        PROVE  /\ s[i][1] = Level[mode] <=> i = 5
               /\ s[i][1] = ":OUTP" => s[i][2] \in {"ON", "OFF"}
               /\ s[i][1] = ":SOUR:FUNC" => s[i][2] = mode
    <2>1. i = 1 \/ i = 2 \/ i = 3 \/ i = 4 \/ i = 5 \/ i = 6
      OBVIOUS
    <2> QED  BY <1>1, <1>2, <2>1
  <1> QED  BY <1>1, <1>3 DEF s

(* A command of the setup leaves the state a state: keys are not lost, the *)
(* output is on, off or unknown, the mode one of the two or unknown.       *)
LEMMA UpdatedTypes ==
  ASSUME NEW command, NEW state,
         DOMAIN state = Keys,
         state["output"] \in {"ON", "OFF", Unknown},
         state["source_mode"] \in Modes \union {Unknown},
         command[1] = ":OUTP" => command[2] \in {"ON", "OFF"},
         command[1] = ":SOUR:FUNC" => command[2] \in Modes
  PROVE  LET after == Updated(command, state)
         IN  /\ DOMAIN after = Keys
             /\ after["output"] \in {"ON", "OFF", Unknown}
             /\ after["source_mode"] \in Modes \union {Unknown}
  <1>1. "output" \in Keys /\ "source_mode" \in Keys
    BY StateAssumption
  <1>2. CASE command[1] \in DOMAIN Schema
    <2> DEFINE d == Schema[command[1]]
               after == Apply(d, command[2], state)
    <2>1. Updated(command, state) = after
      BY <1>2 DEF Updated
    <2>2. DOMAIN after = Keys
      BY DEF Apply
    <2>3. ASSUME NEW k \in Keys
          PROVE  \/ after[k] = state[k]
                 \/ /\ k \in DOMAIN d.sets
                    /\ after[k] = IF d.sets[k] = "$ARGUMENT" THEN command[2] ELSE d.sets[k]
      BY DEF Apply, Changes, ValueOf
    <2>4. /\ "output" \in DOMAIN d.sets =>
               \/ d.sets["output"] \in {"ON", "OFF"}
               \/ d.sets["output"] = "$ARGUMENT" /\ command[1] = ":OUTP"
          /\ "source_mode" \in DOMAIN d.sets =>
               \/ d.sets["source_mode"] \in Modes
               \/ d.sets["source_mode"] = "$ARGUMENT" /\ command[1] = ":SOUR:FUNC"
      BY <1>2, StateAssumption
    <2> HIDE DEF after, d
    <2>5. after["output"] \in {"ON", "OFF", Unknown}
      BY <1>1, <2>3, <2>4
    <2>6. after["source_mode"] \in Modes \union {Unknown}
      BY <1>1, <2>3, <2>4 DEF Modes
    <2> QED  BY <2>1, <2>2, <2>5, <2>6
  <1>3. CASE command[1] \notin DOMAIN Schema
    BY <1>3 DEF Updated
  <1> QED  BY <1>2, <1>3

(* A configuration that a dry-run or sweep_start has accepted is within    *)
(* the limit of what is really sourced: a dual run sources voltage, and    *)
(* the preview of a sweep of currents then fails at the range of voltage.  *)
LEMMA DryRunChecksTheLevel ==
  ASSUME NEW r \in Routes, NEW c \in SweepConfig, DryRunValid(r, c)
  PROVE  MaxLevel(c) <= GlobalMax[ModeOf(r, c)]
  <1>1. ConfigValid(c) /\ DryRunIssues(r, Preview(ModeOf(r, c), c)) = {}
    BY DEF DryRunValid
  <1>2. CASE ModeOf(r, c) = c.mode
    BY <1>1, <1>2 DEF ConfigValid
  <1>3. CASE ModeOf(r, c) # c.mode
    <2>1. ModeOf(r, c) = "VOLT"
      BY <1>3 DEF ModeOf
    <2> DEFINE p == Preview("VOLT", c)
               command == <<LevelRange["VOLT"], MaxLevel(c)>>
    <2>2. p[4] = command /\ Len(p) = 7
      BY DEF Preview
    <2>3. PICK state : Passes(p[4], state)
      <3> DEFINE state[i \in 1 .. Len(p)] ==
                   IF i = 1 THEN Nothing ELSE DryRunState(r, p[i - 1], state[i - 1])
      <3>1. DryRunIssues(r, p) = {i \in 1 .. Len(p) : ~Passes(p[i], state[i])}
        BY DEF DryRunIssues
      <3> HIDE DEF state, p
      <3>2. 4 \in 1 .. Len(p)
        BY <2>2
      <3>3. Passes(p[4], state[4])
        BY <1>1, <2>1, <3>1, <3>2 DEF p
      <3> QED  BY <3>3
    <2>4. /\ LevelRange["VOLT"] \in DOMAIN Schema
          /\ Accepts(Schema[LevelRange["VOLT"]], MaxLevel(c), state)
      BY <2>2, <2>3 DEF Passes
    <2>5. MaxLevel(c) # None => MaxLevel(c) \notin Schema[LevelRange["VOLT"]].exceeds
      BY <2>4 DEF Accepts, ArgumentAllowed
    <2>6. MaxLevel(c) \in Int /\ GlobalMax["VOLT"] \in Int
      BY ConfigTypes, NumbersAssumption DEF MaxLevel, Magnitude, Modes
    <2>7. ~(MaxLevel(c) > GlobalMax["VOLT"])
      BY <2>4, <2>5, <2>6, RangeAssumption, NoneAssumption
    <2> QED  BY <2>1, <2>6, <2>7
  <1> QED  BY <1>2, <1>3

-----------------------------------------------------------------------------
(* The invariant.                                                          *)

Accepted == stage \in {"setup", "scan", "done"}

(* How many levels have been set: none before the fifth command of the     *)
(* setup, then one for each point and one for the setup.                   *)
Counted ==
  /\ stage \in {"request", "made", "refused"} => at = 0 /\ levels = <<>>
  /\ stage = "setup" => at <= 5 /\ Len(levels) = IF at <= 4 THEN 0 ELSE 1
  /\ stage = "scan" => Len(levels) \in 1 .. Len(Points(config))
  /\ stage = "done" => Len(levels) = Len(Points(config)) + 1

(* Which levels they were.                                                 *)
Followed ==
  Accepted => \A i \in 1 .. Len(levels) :
                levels[i] = IF i = 1 THEN config.start ELSE Points(config)[i - 1]

(* The configuration was checked against the limit of what is sourced.     *)
Checked == Accepted => MaxLevel(config) <= GlobalMax[ModeOf(route, config)]

IInv == TypeOK /\ Counted /\ Followed /\ Checked

(* It holds when a sweep is asked for: nothing has been sent.              *)
LEMMA InitInvariant == Init => IInv
  <1> SUFFICES ASSUME Init PROVE IInv
    OBVIOUS
  <1>1. "output" \in Keys /\ "source_mode" \in Keys
    BY StateAssumption
  <1>2. /\ DOMAIN unit = Keys
        /\ unit["output"] = Unknown /\ unit["source_mode"] = Unknown
    BY <1>1 DEF Init, Nothing
  <1>3. TypeOK
    BY <1>2 DEF Init, TypeOK, Stages
  <1> QED  BY <1>3 DEF Init, IInv, Counted, Followed, Checked, Accepted

(* The validators of the model.                                            *)
LEMMA MakeInvariant == ASSUME IInv, Make PROVE IInv'
  <1> USE DEF Make
  <1>1. /\ config' \in SweepConfig
        /\ config'.direction = "UP" => config'.start <= config'.stop
    BY OrderedTypes DEF IInv, TypeOK
  <1>2. stage' \in {"made", "refused"} /\ (stage' = "made" => WithinPointLimit(config'))
    OBVIOUS
  <1>3. TypeOK'
    BY <1>1, <1>2 DEF IInv, TypeOK, Stages, WithinPointLimit
  <1>4. at = 0 /\ levels = <<>>
    BY DEF IInv, Counted
  <1>5. Counted' /\ Followed' /\ Checked'
    BY <1>2, <1>4 DEF Counted, Followed, Checked, Accepted
  <1> QED  BY <1>3, <1>5 DEF IInv

(* The way to the setup, for either kind of start: the configuration that  *)
(* passes has been checked.                                                *)
LEMMA AcceptInvariant ==
  ASSUME IInv, StartDirectly \/ DryRun
  PROVE  IInv'
  <1>1. /\ stage = "made" /\ stage' \in {"setup", "refused"}
        /\ UNCHANGED <<route, config, at, unit, levels>>
    BY DEF StartDirectly, DryRun
  <1>2. at = 0 /\ levels = <<>> /\ route \in Routes /\ config \in SweepConfig
    BY <1>1 DEF IInv, Counted, TypeOK
  <1>3. TypeOK'
    BY <1>1 DEF IInv, TypeOK, Stages, WithinPointLimit
  <1>4. Counted'
    BY <1>1, <1>2 DEF Counted
  <1>5. Followed'
    BY <1>1, <1>2 DEF Followed
  <1>6. Checked'
    <2>1. SUFFICES ASSUME stage' = "setup"
                   PROVE  MaxLevel(config) <= GlobalMax[ModeOf(route, config)]
      BY <1>1 DEF Checked, Accepted
    <2>2. CASE StartDirectly
      BY <2>1, <2>2 DEF StartDirectly, ConfigValid, ModeOf
    <2>3. CASE DryRun
      BY <1>2, <2>1, <2>3, DryRunChecksTheLevel DEF DryRun
    <2> QED  BY <2>2, <2>3
  <1> QED  BY <1>3, <1>4, <1>5, <1>6 DEF IInv

(* A command of the setup; the fifth of them sets the first level.         *)
LEMMA SendSetupInvariant == ASSUME IInv, SendSetup PROVE IInv'
  <1> DEFINE mode == ModeOf(route, config)
             command == ToSend[at + 1]
  <1>1. /\ stage = "setup" /\ config \in SweepConfig /\ at \in 0 .. 5
        /\ levels \in Seq(Int) /\ Len(levels) = IF at <= 4 THEN 0 ELSE 1
    BY DEF SendSetup, IInv, TypeOK, Counted
  <1>2. mode \in Modes
    BY <1>1, ConfigTypes DEF ModeOf, Modes
  <1>3. /\ Len(ToSend) = 6 /\ at + 1 \in 1 .. 6
        /\ command[1] = Level[mode] <=> at + 1 = 5
        /\ command[1] = ":OUTP" => command[2] \in {"ON", "OFF"}
        /\ command[1] = ":SOUR:FUNC" => command[2] \in Modes
        /\ at + 1 = 5 => command[2] = config.start
    BY <1>1, <1>2, SetupCommands DEF ToSend
  <1>4. /\ unit' = Updated(command, unit) /\ at' = at + 1
        /\ levels' = IF at + 1 = 5 THEN Append(levels, config.start) ELSE levels
        /\ stage' = IF at' = 6 THEN "scan" ELSE "setup"
        /\ UNCHANGED <<route, config>>
    BY <1>3 DEF SendSetup
  <1>5. /\ DOMAIN unit' = Keys
        /\ unit'["output"] \in {"ON", "OFF", Unknown}
        /\ unit'["source_mode"] \in Modes \union {Unknown}
    BY <1>3, <1>4, UpdatedTypes DEF IInv, TypeOK
  <1>6. config.start \in Int
    BY <1>1, ConfigTypes
  <1>7. /\ levels' \in Seq(Int)
        /\ Len(levels') = IF at' <= 4 THEN 0 ELSE 1
        /\ \A i \in 1 .. Len(levels') : levels'[i] = config.start /\ i = 1
    <2>1. CASE at + 1 = 5
      <3>1. levels' = Append(levels, config.start) /\ Len(levels) = 0
        BY <1>1, <1>4, <2>1
      <3>2. levels' \in Seq(Int) /\ Len(levels') = 1 /\ levels'[1] = config.start
        BY <1>1, <1>6, <3>1, AppendProperties
      <3> QED  BY <1>1, <1>4, <2>1, <3>2
    <2>2. CASE at + 1 # 5
      <3>1. levels' = levels /\ Len(levels) = IF at' <= 4 THEN 0 ELSE 1
        BY <1>1, <1>4, <2>2
      <3>2. \A i \in 1 .. Len(levels) : levels[i] = config.start /\ i = 1
        BY <1>1, <3>1 DEF IInv, Followed, Accepted
      <3> QED  BY <1>1, <3>1, <3>2
    <2> QED  BY <2>1, <2>2
  <1>8. stage' \in {"setup", "scan"} /\ at' \in 0 .. 6 /\ (stage' = "setup" => at' <= 5)
    BY <1>1, <1>4
  <1>9. TypeOK'
    BY <1>1, <1>4, <1>5, <1>7, <1>8 DEF IInv, TypeOK, Stages, WithinPointLimit
  <1>10. Len(Points(config)) \in Nat \ {0}
    BY <1>1, PointsTypes
  <1>11. Counted'
    BY <1>1, <1>4, <1>7, <1>8, <1>10 DEF Counted
  <1>12. Followed'
    BY <1>4, <1>7 DEF Followed
  <1>13. Checked'
    BY <1>1, <1>4 DEF IInv, Checked, Accepted
  <1> QED  BY <1>9, <1>11, <1>12, <1>13 DEF IInv

(* A point: the level is the next one, and the last one ends the sweep.    *)
LEMMA MeasureInvariant == ASSUME IInv, Measure PROVE IInv'
  <1> DEFINE n == Len(levels)
             P == Points(config)
  <1>1. /\ stage = "scan" /\ config \in SweepConfig
        /\ levels \in Seq(Int) /\ n \in 1 .. Len(P)
    BY DEF Measure, IInv, TypeOK, Counted
  <1>2. P \in Seq(Int) /\ Len(P) \in Nat /\ n \in Nat
    BY <1>1, PointsTypes
  <1>3. P[n] \in Int
    BY <1>1, <1>2
  <1>4. /\ levels' = Append(levels, P[n])
        /\ stage' = IF n = Len(P) THEN "done" ELSE "scan"
        /\ UNCHANGED <<route, config, at, unit>>
    BY DEF Measure
  <1>5. /\ levels' \in Seq(Int) /\ Len(levels') = n + 1
        /\ levels'[n + 1] = P[n]
        /\ \A i \in 1 .. n : levels'[i] = levels[i]
    BY <1>1, <1>3, <1>4, AppendProperties
  <1>6. TypeOK'
    BY <1>1, <1>4, <1>5 DEF IInv, TypeOK, Stages, WithinPointLimit
  <1>7. Counted'
    BY <1>1, <1>2, <1>4, <1>5 DEF Counted
  <1>8. Followed'
    <2>1. ASSUME NEW i \in 1 .. Len(levels')
          PROVE  levels'[i] = IF i = 1 THEN config.start ELSE P[i - 1]
      <3>1. CASE i = n + 1
        <4>1. i # 1 /\ i - 1 = n
          BY <1>1, <1>2, <3>1
        <4> QED  BY <1>5, <3>1, <4>1
      <3>2. CASE i # n + 1
        <4>1. i \in 1 .. n
          BY <1>2, <1>5, <3>2
        <4> QED  BY <1>1, <1>5, <4>1 DEF IInv, Followed, Accepted
      <3> QED  BY <3>1, <3>2
    <2> QED  BY <1>4, <2>1 DEF Followed
  <1>9. Checked'
    BY <1>1, <1>4 DEF IInv, Checked, Accepted
  <1> QED  BY <1>6, <1>7, <1>8, <1>9 DEF IInv

(* Every step keeps it.                                                    *)
LEMMA NextInvariant == IInv /\ [Next]_vars => IInv'
  <1> SUFFICES ASSUME IInv, [Next]_vars PROVE IInv'
    OBVIOUS
  <1>1. CASE Make
    BY <1>1, MakeInvariant
  <1>2. CASE StartDirectly \/ DryRun
    BY <1>2, AcceptInvariant
  <1>3. CASE SendSetup
    BY <1>3, SendSetupInvariant
  <1>4. CASE Measure
    BY <1>4, MeasureInvariant
  <1>5. CASE Over \/ UNCHANGED vars
    <2>1. UNCHANGED <<route, config, stage, at, unit, levels>>
      BY <1>5 DEF Over, vars
    <2> QED  BY <2>1 DEF IInv, TypeOK, Counted, Followed, Checked, Accepted, WithinPointLimit
  <1> QED  BY <1>1, <1>2, <1>3, <1>4, <1>5 DEF Next

(* In every state of a sweep, from the request to its last point.          *)
LEMMA Invariance == Spec => []IInv
  BY InitInvariant, NextInvariant, PTL DEF Spec

-----------------------------------------------------------------------------
(* The theorems.                                                           *)

(* The variables keep their types: SweepConfig's validators hold from the  *)
(* moment the model is made, and no command of a setup brings the output   *)
(* or the source mode into a state the schema has no name for.             *)
THEOREM TypeCorrect == Spec => []TypeOK
  <1>1. IInv => TypeOK
    BY DEF IInv
  <1> QED  BY <1>1, Invariance, PTL

(* No level is beyond the limit of the quantity that is really sourced,    *)
(* however the sweep is started: sweep_start and dry_run_plan compare the  *)
(* larger end with the limit of the configuration's mode, the points never *)
(* leave the ends behind, and a dual run of a configuration of currents,   *)
(* which sources voltage, fails its dry-run at the range command.          *)
THEOREM LevelsAreWithinLimits == Spec => []LevelsWithinLimits
  <1>1. IInv => LevelsWithinLimits
    <2>1. SUFFICES ASSUME IInv, NEW i \in 1 .. Len(levels)
                   PROVE  Magnitude(levels[i]) <= GlobalMax[ModeOf(route, config)]
      BY DEF LevelsWithinLimits
    <2> DEFINE c == config
    <2>2. c \in SweepConfig /\ levels \in Seq(Int)
      BY <2>1 DEF IInv, TypeOK
    <2>3. Len(levels) # 0 /\ Len(levels) \in Nat
      BY <2>1, <2>2
    <2>4. Accepted
      BY <2>1, <2>3 DEF IInv, TypeOK, Counted, Accepted, Stages
    <2>5. Len(levels) <= Len(Points(c)) + 1
      <3>1. Len(Points(c)) \in Nat \ {0}
        BY <2>2, PointsTypes
      <3>2. \/ Len(levels) = 0 \/ Len(levels) = 1
            \/ Len(levels) \in 1 .. Len(Points(c))
            \/ Len(levels) = Len(Points(c)) + 1
        BY <2>1, <2>4 DEF IInv, Counted, Accepted
      <3>3. \A a \in Nat \ {0}, b \in Nat :
              b = 0 \/ b = 1 \/ b \in 1 .. a \/ b = a + 1 => b <= a + 1
        OBVIOUS
      <3> QED  BY <2>3, <3>1, <3>2, <3>3
    <2>6. levels[i] = IF i = 1 THEN c.start ELSE Points(c)[i - 1]
      BY <2>1, <2>4 DEF IInv, Followed
    <2>7. levels[i] \in Int /\ Magnitude(levels[i]) <= MaxLevel(c)
      <3>1. CASE i = 1
        BY <2>2, <2>6, <3>1, ConfigTypes DEF Magnitude, MaxLevel
      <3>2. CASE i # 1
        <4>1. i - 1 \in 1 .. EstimatePoints(c)
          BY <2>2, <2>3, <2>5, <3>2, PointsTypes
        <4>2. PICK j \in 1 .. StepCount(c) + 1 : Points(c)[i - 1] = WayUp(c)[j]
          BY <2>2, <4>1, PointsFollowTheWay
        <4> QED  BY <2>2, <2>6, <3>2, <4>2, WayUpWithin
      <3> QED  BY <3>1, <3>2
    <2>8. MaxLevel(c) <= GlobalMax[ModeOf(route, c)]
      BY <2>1, <2>4 DEF IInv, Checked
    <2>9. MaxLevel(c) \in Int /\ GlobalMax[ModeOf(route, c)] \in Int
      BY <2>2, ConfigTypes, NumbersAssumption DEF MaxLevel, Magnitude, ModeOf, Modes
    <2>10. Magnitude(levels[i]) \in Int
      BY <2>7 DEF Magnitude
    <2> QED  BY <2>7, <2>8, <2>9, <2>10
  <1> QED  BY <1>1, Invariance, PTL

(* The point count that a dry-run announces is the number of measurements: *)
(* the estimate and the loops that make the points round alike.            *)
THEOREM TheEstimateIsExact == Spec => []EstimateIsExact
  <1>1. IInv => EstimateIsExact
    <2>1. SUFFICES ASSUME IInv, stage = "done"
                   PROVE  Len(levels) = EstimatePoints(config) + 1
      BY DEF EstimateIsExact
    <2>2. config \in SweepConfig
      BY <2>1 DEF IInv, TypeOK
    <2> QED  BY <2>1, <2>2, PointsTypes DEF IInv, Counted
  <1> QED  BY <1>1, Invariance, PTL

(* A finished sweep has measured both ends of a range of a step or more,   *)
(* and never jumped by more than a step and a half: what rounding leaves   *)
(* over is taken up by the last step, in every direction.                  *)
THEOREM TheRangeIsCovered == Spec => []SweepCoversTheRange
  <1>1. IInv => SweepCoversTheRange
    <2>1. SUFFICES ASSUME IInv, stage = "done"
                   PROVE  /\ \A i \in 1 .. Len(Measured) - 1 :
                               2 * Distance(i) <= 3 * config.step
                          /\ config.step <= Magnitude(config.stop - config.start) =>
                               {config.start, config.stop}
                                 \subseteq {Measured[i] : i \in DOMAIN Measured}
      BY DEF SweepCoversTheRange
    <2> DEFINE c == config
               m == EstimatePoints(c)
    <2>2. c \in SweepConfig /\ levels \in Seq(Int)
      BY <2>1 DEF IInv, TypeOK
    <2>3. m \in Nat \ {0} /\ Len(levels) = m + 1
      BY <2>1, <2>2, PointsTypes DEF IInv, Counted
    <2>4. /\ Measured \in Seq(Int) /\ Len(Measured) = m /\ DOMAIN Measured = 1 .. m
          /\ \A i \in 1 .. m : Measured[i] = Points(c)[i]
      <3>1. levels # <<>>
        BY <2>3
      <3>2. /\ Measured \in Seq(Int) /\ Len(Measured) = m
            /\ \A i \in 1 .. m : Measured[i] = levels[i + 1]
        BY <2>2, <2>3, <3>1, HeadTailProperties DEF Measured
      <3>3. ASSUME NEW i \in 1 .. m
            PROVE  levels[i + 1] = Points(c)[i]
        <4>1. i + 1 \in 1 .. Len(levels) /\ i + 1 # 1 /\ (i + 1) - 1 = i
          BY <2>3
        <4> QED  BY <2>1, <4>1 DEF IInv, Followed, Accepted
      <3>4. DOMAIN Measured = 1 .. m
        BY <3>2, LenProperties
      <3> QED  BY <3>2, <3>3, <3>4
    <2>5. ASSUME NEW i \in 1 .. Len(Measured) - 1
          PROVE  2 * Distance(i) <= 3 * c.step
      <3>1. i \in 1 .. m /\ i + 1 \in 1 .. m /\ i # m
        BY <2>3, <2>4
      <3>2. PICK j \in 1 .. StepCount(c) :
              \/ Points(c)[i] = WayUp(c)[j] /\ Points(c)[i + 1] = WayUp(c)[j + 1]
              \/ Points(c)[i] = WayUp(c)[j + 1] /\ Points(c)[i + 1] = WayUp(c)[j]
        BY <2>2, <3>1, PointsFollowTheWay
      <3>3. 2 * Magnitude(WayUp(c)[j + 1] - WayUp(c)[j]) <= 3 * c.step
        BY <2>2, WayUpSteps
      <3>4. WayUp(c)[j] \in Int /\ WayUp(c)[j + 1] \in Int
        <4>1. StepCount(c) \in Nat
          BY <2>2, WayUpTypes
        <4>2. j \in 1 .. StepCount(c) + 1 /\ j + 1 \in 1 .. StepCount(c) + 1
          BY <4>1
        <4> QED  BY <2>2, <4>2, WayUpWithin
      <3>5. \A x, y \in Int : Magnitude(x - y) = Magnitude(y - x)
        BY DEF Magnitude
      <3>6. Measured[i] = Points(c)[i] /\ Measured[i + 1] = Points(c)[i + 1]
        BY <2>4, <3>1
      <3>7. Distance(i) = Magnitude(WayUp(c)[j + 1] - WayUp(c)[j])
        BY <3>2, <3>4, <3>5, <3>6 DEF Distance
      <3> QED  BY <3>3, <3>7
    <2>6. ASSUME c.step <= Magnitude(c.stop - c.start)
          PROVE  {c.start, c.stop} \subseteq {Measured[i] : i \in DOMAIN Measured}
      <3>1. WayUp(c)[1] = c.start /\ WayUp(c)[StepCount(c) + 1] = c.stop
        BY <2>2, <2>6, WayUpReaches
      <3>2. /\ \E i \in 1 .. m : Points(c)[i] = c.start
            /\ \E i \in 1 .. m : Points(c)[i] = c.stop
        BY <2>2, <3>1, PointsHaveTheEnds
      <3> QED  BY <2>4, <3>2
    <2> QED  BY <2>5, <2>6
  <1> QED  BY <1>1, Invariance, PTL

-----------------------------------------------------------------------------
(* The validation of what is sent.  From here on the planner knows the     *)
(* schema.                                                                 *)

(* A dictionary with the keys of the schema.                               *)
IsState(state) == state = [k \in Keys |-> state[k]]

(* What is known of each command of a sweep, in the planner's own terms.   *)
LEMMA KnownCommand ==
  ASSUME PlannerKnowsTheSchema, NEW h \in Headers
  PROVE  /\ h \in DOMAIN Schema
         /\ DOMAIN Schema[h].sets = {PreviewKeys[x] : x \in {h} \intersect DOMAIN PreviewKeys}
         /\ \A k \in DOMAIN Schema[h].sets : k \in Keys /\ Schema[h].sets[k] = "$ARGUMENT"
         /\ \A rule \in Schema[h].after :
              /\ h = ":OUTP" /\ rule.argument # None
              /\ rule.anyOf = {} /\ rule.expect \subseteq {<<"output", rule.argument>>}
  <1>1. /\ h \in DOMAIN Schema
        /\ DOMAIN Schema[h].sets = KeysOf(h)
        /\ \A k \in KeysOf(h) : k \in Keys /\ Schema[h].sets[k] = "$ARGUMENT"
        /\ \A rule \in Schema[h].after :
             /\ h = ":OUTP" /\ rule.argument # None
             /\ rule.anyOf = {} /\ rule.expect \subseteq {<<"output", rule.argument>>}
    BY DEF PlannerKnowsTheSchema
  <1> DEFINE ranges == {":SOUR:VOLT:RANG", ":SOUR:CURR:RANG"}
             others == {":SENS:CURR:PROT", ":SENS:VOLT:PROT", ":SOUR:VOLT", ":SOUR:CURR"}
  <1>2. Headers = {":OUTP", ":SOUR:FUNC"} \union ranges \union others
    BY DEF Headers, Modes, Level, LevelRange, Protection
  <1>3. {LevelRange[m] : m \in Modes} = ranges
    BY DEF Modes, LevelRange
  <1>4. /\ DOMAIN PreviewKeys = {":OUTP", ":SOUR:FUNC"} \union others
        /\ PreviewKeys[":SOUR:FUNC"] = "source_mode" /\ PreviewKeys[":OUTP"] = "output"
        /\ \A x \in others : PreviewKeys[x] = x
    BY DEF PreviewKeys
  <1>5. KeysOf(h) = {PreviewKeys[x] : x \in {h} \intersect DOMAIN PreviewKeys}
    <2>1. CASE h = ":OUTP"
      BY <1>3, <1>4, <2>1 DEF KeysOf
    <2>2. CASE h = ":SOUR:FUNC"
      BY <1>3, <1>4, <2>2 DEF KeysOf
    <2>3. CASE h \in ranges
      BY <1>3, <1>4, <2>3 DEF KeysOf
    <2>4. CASE h \in others
      <3>1. KeysOf(h) = {h}
        BY <1>3, <2>4 DEF KeysOf
      <3>2. h \in DOMAIN PreviewKeys /\ PreviewKeys[h] = h
        BY <1>4, <2>4
      <3> QED  BY <3>1, <3>2
    <2> QED  BY <1>2, <2>1, <2>2, <2>3, <2>4
  <1> QED  BY <1>1, <1>5

(* Where _apply_preview_state and _update_state agree: on the commands of  *)
(* a sweep, whatever their argument.                                       *)
LEMMA StatesAgree ==
  ASSUME PlannerKnowsTheSchema, NEW command, NEW state, NEW r,
         command[1] \in Headers, IsState(state)
  PROVE  /\ Updated(command, state) = Previewed(command, state)
         /\ DryRunState(r, command, state) = Updated(command, state)
         /\ IsState(Updated(command, state))
  <1> DEFINE h == command[1]
             a == command[2]
             d == Schema[h]
             after == Updated(command, state)
  <1>1. /\ h \in DOMAIN Schema
        /\ DOMAIN d.sets = {PreviewKeys[x] : x \in {h} \intersect DOMAIN PreviewKeys}
        /\ \A k \in DOMAIN d.sets : k \in Keys /\ d.sets[k] = "$ARGUMENT"
    BY KnownCommand
  <1>2. after = [k \in Keys |-> IF k \in DOMAIN d.sets /\ a # None THEN a ELSE state[k]]
    <2>1. \A k \in DOMAIN d.sets : ValueOf(d, k, a) = a
      BY <1>1 DEF ValueOf
    <2>2. Changes(d, a) = {k \in DOMAIN d.sets : a # None}
      BY <2>1 DEF Changes
    <2>3. after = [k \in Keys |-> IF k \in Changes(d, a) THEN ValueOf(d, k, a)
                                                         ELSE state[k]]
      BY <1>1 DEF Updated, Apply
    <2> HIDE DEF after, d, a
    <2> QED  BY <2>1, <2>2, <2>3
  <1>3. IsState(after)
    <2> HIDE DEF after
    <2> QED  BY <1>2 DEF IsState
  <1>4. after = Previewed(command, state)
    <2>1. CASE h \in DOMAIN PreviewKeys /\ a # None
      <3> DEFINE key == PreviewKeys[h]
      <3>1. Previewed(command, state) = [state EXCEPT ![key] = a]
        BY <2>1 DEF Previewed
      <3>2. DOMAIN d.sets = {key}
        BY <1>1, <2>1
      <3> HIDE DEF key, after, d, a
      <3>3. [state EXCEPT ![key] = a] = [k \in Keys |-> IF k = key THEN a ELSE state[k]]
        BY DEF IsState
      <3> QED  BY <1>2, <2>1, <3>1, <3>2, <3>3
    <2>2. CASE ~(h \in DOMAIN PreviewKeys /\ a # None)
      <3>1. Previewed(command, state) = state
        BY <2>2 DEF Previewed
      <3>2. \A k \in Keys : ~(k \in DOMAIN d.sets /\ a # None)
        BY <1>1, <2>2
      <3> HIDE DEF after, d, a
      <3> QED  BY <1>2, <3>1, <3>2 DEF IsState
    <2> QED  BY <2>1, <2>2
  <1>5. DryRunState(r, command, state) = after
    BY <1>4 DEF DryRunState
  <1> QED  BY <1>3, <1>4, <1>5

(* The states that the commands of a preview leave, one after the other.   *)
IsTrace(s, commands) ==
  s = [i \in 1 .. 8 |-> IF i = 1 THEN Nothing ELSE Updated(commands[i - 1], s[i - 1])]

(* There are such states.                                                  *)
LEMMA TraceExists == ASSUME NEW commands PROVE \E s : IsTrace(s, commands)
  <1> DEFINE s1 == Nothing
             s2 == Updated(commands[1], s1)
             s3 == Updated(commands[2], s2)
             s4 == Updated(commands[3], s3)
             s5 == Updated(commands[4], s4)
             s6 == Updated(commands[5], s5)
             s7 == Updated(commands[6], s6)
             s8 == Updated(commands[7], s7)
             s == <<s1, s2, s3, s4, s5, s6, s7, s8>>
             t == [i \in 1 .. 8 |->
                     IF i = 1 THEN Nothing ELSE Updated(commands[i - 1], s[i - 1])]
  <1>1. /\ s[1] = s1 /\ s[2] = s2 /\ s[3] = s3 /\ s[4] = s4 /\ s[5] = s5
        /\ s[6] = s6 /\ s[7] = s7 /\ s[8] = s8
        /\ s = [i \in 1 .. 8 |-> s[i]]
    <2> HIDE DEF s1, s2, s3, s4, s5, s6, s7, s8
    <2> QED  OBVIOUS
  <1> HIDE DEF s
  <1>2. \A i \in 1 .. 8 : t[i] = s[i]
    <2>1. SUFFICES ASSUME NEW i \in 1 .. 8
                   PROVE  s[i] = IF i = 1 THEN Nothing
                                 ELSE Updated(commands[i - 1], s[i - 1])
      OBVIOUS
    <2>2. i = 1 \/ i = 2 \/ i = 3 \/ i = 4 \/ i = 5 \/ i = 6 \/ i = 7 \/ i = 8
      OBVIOUS
    <2>3. /\ 2 - 1 = 1 /\ 3 - 1 = 2 /\ 4 - 1 = 3 /\ 5 - 1 = 4
          /\ 6 - 1 = 5 /\ 7 - 1 = 6 /\ 8 - 1 = 7
      OBVIOUS
    <2>4. /\ s[2] = Updated(commands[1], s[1]) /\ s[3] = Updated(commands[2], s[2])
          /\ s[4] = Updated(commands[3], s[3]) /\ s[5] = Updated(commands[4], s[4])
          /\ s[6] = Updated(commands[5], s[5]) /\ s[7] = Updated(commands[6], s[6])
          /\ s[8] = Updated(commands[7], s[7]) /\ s[1] = Nothing
      BY <1>1
    <2> QED  BY <2>2, <2>3, <2>4
  <1>3. t = [i \in 1 .. 8 |-> t[i]]
    OBVIOUS
  <1>4. t = s
    <2> HIDE DEF t
    <2> QED  BY <1>1, <1>2, <1>3
  <1>5. s = [i \in 1 .. 8 |->
               IF i = 1 THEN Nothing ELSE Updated(commands[i - 1], s[i - 1])]
    BY <1>4
  <1>6. IsTrace(s, commands)
    BY <1>5 DEF IsTrace
  <1> QED  BY <1>6

(* The commands of a preview, which a schema the planner knows has all.    *)
LEMMA PreviewCommands ==
  ASSUME NEW c, NEW mode \in Modes
  PROVE  /\ Len(Preview(mode, c)) = 7
         /\ \A i \in 1 .. 7 : Preview(mode, c)[i][1] \in Headers
         /\ \A i \in 1 .. 6 : Preview(mode, c)[i] = Setup(mode, c)[i]
  <1> DEFINE p == Preview(mode, c)
             s == Setup(mode, c)
  <1>1. /\ p[1] = <<":OUTP", "OFF">> /\ p[2] = <<":SOUR:FUNC", mode>>
        /\ p[3] = <<Protection[mode], c.compliance>>
        /\ p[4] = <<LevelRange[mode], MaxLevel(c)>>
        /\ p[5] = <<Level[mode], c.start>> /\ p[6] = <<":OUTP", "ON">>
        /\ p[7] = <<":OUTP", "OFF">> /\ Len(p) = 7
    BY DEF Preview
  <1>2. /\ s[1] = p[1] /\ s[2] = p[2] /\ s[3] = p[3] /\ s[4] = p[4]
        /\ s[5] = p[5] /\ s[6] = p[6]
    BY <1>1 DEF Setup
  <1>3. {":OUTP", ":SOUR:FUNC", Level[mode], LevelRange[mode], Protection[mode]}
          \subseteq Headers
    BY DEF Headers
  <1> HIDE DEF p, s
  <1>4. ASSUME NEW i \in 1 .. 7 PROVE p[i][1] \in Headers
    <2>1. i = 1 \/ i = 2 \/ i = 3 \/ i = 4 \/ i = 5 \/ i = 6 \/ i = 7
      OBVIOUS
    <2> QED  BY <1>1, <1>3, <2>1
  <1>5. ASSUME NEW i \in 1 .. 6 PROVE p[i] = s[i]
    <2>1. i = 1 \/ i = 2 \/ i = 3 \/ i = 4 \/ i = 5 \/ i = 6
      OBVIOUS
    <2> QED  BY <1>2, <2>1
  <1> QED  BY <1>1, <1>4, <1>5 DEF p, s

(* They are states, whatever a preview's commands are.                     *)
LEMMA TraceStates ==
  ASSUME PlannerKnowsTheSchema, NEW commands, NEW s,
         \A i \in 1 .. 7 : commands[i][1] \in Headers, IsTrace(s, commands)
  PROVE  /\ \A i \in 1 .. 8 : IsState(s[i])
         /\ s[1] = Nothing
         /\ \A i \in 1 .. 7 : s[i + 1] = Updated(commands[i], s[i])
  <1>1. s[1] = Nothing /\ IsState(s[1])
    <2>1. s[1] = Nothing
      BY DEF IsTrace
    <2>2. IsState(Nothing)
      BY DEF IsState, Nothing
    <2> QED  BY <2>1, <2>2
  <1>2. ASSUME NEW i \in 1 .. 7 PROVE s[i + 1] = Updated(commands[i], s[i])
    <2>1. i + 1 \in 1 .. 8 /\ i + 1 # 1 /\ (i + 1) - 1 = i
      OBVIOUS
    <2> QED  BY <2>1 DEF IsTrace
  <1>3. ASSUME NEW i \in 1 .. 7 PROVE IsState(s[i + 1])
    <2>1. commands[i][1] \in DOMAIN Schema
      BY KnownCommand
    <2>2. s[i + 1] = Apply(Schema[commands[i][1]], commands[i][2], s[i])
      BY <1>2, <2>1 DEF Updated
    <2> QED  BY <2>2 DEF Apply, IsState
  <1>4. ASSUME NEW i \in 1 .. 8 PROVE IsState(s[i])
    <2>1. CASE i = 1
      BY <1>1, <2>1
    <2>2. CASE i # 1
      <3>1. i - 1 \in 1 .. 7 /\ (i - 1) + 1 = i
        BY <2>2
      <3> QED  BY <1>3, <3>1
    <2> QED  BY <2>1, <2>2
  <1> QED  BY <1>1, <1>2, <1>4

(* The commands that a dry-run finds wanting are those that their schema   *)
(* rejects in the states that the commands before them leave.              *)
LEMMA DryRunFollowsTheTrace ==
  ASSUME PlannerKnowsTheSchema, NEW r, NEW commands, NEW s, Len(commands) = 7,
         \A i \in 1 .. 7 : commands[i][1] \in Headers, IsTrace(s, commands)
  PROVE  DryRunIssues(r, commands) = {i \in 1 .. 7 : ~Passes(commands[i], s[i])}
  <1> DEFINE Follows(f) ==
               f = [i \in 1 .. Len(commands) |->
                      IF i = 1 THEN Nothing
                      ELSE DryRunState(r, commands[i - 1], f[i - 1])]
             state[i \in 1 .. Len(commands)] ==
               IF i = 1 THEN Nothing
               ELSE DryRunState(r, commands[i - 1], state[i - 1])
             t == [i \in 1 .. 7 |-> s[i]]
  <1>1. DryRunIssues(r, commands) = {i \in 1 .. Len(commands) : ~Passes(commands[i], state[i])}
    BY DEF DryRunIssues
  <1>2. /\ s[1] = Nothing
        /\ \A i \in 1 .. 7 : IsState(s[i]) /\ s[i + 1] = Updated(commands[i], s[i])
    BY TraceStates
  <1>3. ASSUME NEW i \in 2 .. 7
        PROVE  s[i] = DryRunState(r, commands[i - 1], s[i - 1])
    <2>1. i - 1 \in 1 .. 7 /\ (i - 1) + 1 = i
      OBVIOUS
    <2> QED  BY <1>2, <2>1, StatesAgree
  <1>4. Follows(t)
    <2>1. \A i \in 1 .. 7 :
            t[i] = IF i = 1 THEN Nothing ELSE DryRunState(r, commands[i - 1], t[i - 1])
      <3>1. SUFFICES ASSUME NEW i \in 1 .. 7
                     PROVE  t[i] = IF i = 1 THEN Nothing
                                   ELSE DryRunState(r, commands[i - 1], t[i - 1])
        OBVIOUS
      <3>2. CASE i = 1
        BY <1>2, <3>2
      <3>3. CASE i # 1
        <4>1. i \in 2 .. 7 /\ i - 1 \in 1 .. 7
          BY <3>3
        <4>2. t[i] = s[i] /\ t[i - 1] = s[i - 1]
          BY <4>1
        <4> QED  BY <1>3, <3>3, <4>1, <4>2
      <3> QED  BY <3>2, <3>3
    <2>2. t = [i \in 1 .. 7 |-> t[i]]
      OBVIOUS
    <2> HIDE DEF t
    <2> QED  BY <2>1, <2>2
  <1>5. Follows(state)
    <2>1. state = CHOOSE f : Follows(f)
      OBVIOUS
    <2> HIDE DEF Follows, state, t
    <2> QED  BY <1>4, <2>1
  <1> HIDE DEF state
  <1>6. /\ state[1] = Nothing
        /\ \A i \in 2 .. 7 : state[i] = DryRunState(r, commands[i - 1], state[i - 1])
    BY <1>5
  <1>7. /\ state[1] = s[1] /\ state[2] = s[2] /\ state[3] = s[3] /\ state[4] = s[4]
        /\ state[5] = s[5] /\ state[6] = s[6] /\ state[7] = s[7]
    <2>1. state[1] = s[1]
      BY <1>2, <1>6
    <2>2. ASSUME NEW i \in 2 .. 7, state[i - 1] = s[i - 1] PROVE state[i] = s[i]
      BY <1>3, <1>6, <2>2
    <2>3. state[2] = s[2]
      BY <2>1, <2>2
    <2>4. state[3] = s[3]
      BY <2>2, <2>3
    <2>5. state[4] = s[4]
      BY <2>2, <2>4
    <2>6. state[5] = s[5]
      BY <2>2, <2>5
    <2>7. state[6] = s[6]
      BY <2>2, <2>6
    <2>8. state[7] = s[7]
      BY <2>2, <2>7
    <2> QED  BY <2>1, <2>3, <2>4, <2>5, <2>6, <2>7, <2>8
  <1>8. ASSUME NEW i \in 1 .. 7 PROVE state[i] = s[i]
    <2>1. i = 1 \/ i = 2 \/ i = 3 \/ i = 4 \/ i = 5 \/ i = 6 \/ i = 7
      OBVIOUS
    <2> QED  BY <1>7, <2>1
  <1> QED  BY <1>1, <1>8

(* So are those that the sequence validation finds wanting: what is        *)
(* expected after a command, an output that it has just set, is there.     *)
LEMMA SequenceFollowsTheTrace ==
  ASSUME PlannerKnowsTheSchema, NEW commands, NEW s, Len(commands) = 7,
         \A i \in 1 .. 7 : commands[i][1] \in Headers, IsTrace(s, commands)
  PROVE  SequenceIssues(commands) = {i \in 1 .. 7 : ~Passes(commands[i], s[i])}
  <1> DEFINE state[i \in 1 .. Len(commands) + 1] ==
               IF i = 1 THEN Nothing ELSE Updated(commands[i - 1], state[i - 1])
             Holds(command, after) ==
               command[1] \in DOMAIN Schema =>
                 SequenceHoldsAfter(Schema[command[1]], command[2], after)
  <1>1. SequenceIssues(commands) =
          {i \in 1 .. Len(commands) :
             ~(Passes(commands[i], state[i]) /\ Holds(commands[i], state[i + 1]))}
    BY DEF SequenceIssues
  <1>2. IsTrace(state, commands)
    <2>1. state = CHOOSE f : IsTrace(f, commands)
      BY DEF IsTrace
    <2> HIDE DEF state
    <2> QED  BY <2>1
  <1> HIDE DEF state
  <1>3. /\ state[1] = Nothing
        /\ \A i \in 1 .. 7 : state[i + 1] = Updated(commands[i], state[i])
        /\ \A i \in 1 .. 8 : IsState(state[i])
    BY <1>2, TraceStates
  <1>4. ASSUME NEW i \in 1 .. 7 PROVE state[i] = s[i]
    <2>1. /\ s[1] = Nothing
          /\ \A j \in 1 .. 7 : s[j + 1] = Updated(commands[j], s[j])
      BY TraceStates
    <2>2. /\ state[1] = s[1] /\ state[2] = s[2] /\ state[3] = s[3] /\ state[4] = s[4]
          /\ state[5] = s[5] /\ state[6] = s[6] /\ state[7] = s[7]
      <3>1. state[1] = s[1]
        BY <1>3, <2>1
      <3>2. ASSUME NEW j \in 1 .. 7, state[j] = s[j] PROVE state[j + 1] = s[j + 1]
        BY <1>3, <2>1, <3>2
      <3>3. state[2] = s[2]
        BY <3>1, <3>2
      <3>4. state[3] = s[3]
        BY <3>2, <3>3
      <3>5. state[4] = s[4]
        BY <3>2, <3>4
      <3>6. state[5] = s[5]
        BY <3>2, <3>5
      <3>7. state[6] = s[6]
        BY <3>2, <3>6
      <3>8. state[7] = s[7]
        BY <3>2, <3>7
      <3> QED  BY <3>1, <3>3, <3>4, <3>5, <3>6, <3>7, <3>8
    <2>3. i = 1 \/ i = 2 \/ i = 3 \/ i = 4 \/ i = 5 \/ i = 6 \/ i = 7
      OBVIOUS
    <2> QED  BY <2>2, <2>3
  <1>5. ASSUME NEW i \in 1 .. 7 PROVE Holds(commands[i], state[i + 1])
    <2> DEFINE h == commands[i][1]
               a == commands[i][2]
               d == Schema[h]
               after == state[i + 1]
    <2>1. /\ h \in DOMAIN Schema
          /\ \A rule \in d.after :
               /\ h = ":OUTP" /\ rule.argument # None
               /\ rule.anyOf = {} /\ rule.expect \subseteq {<<"output", rule.argument>>}
          /\ DOMAIN d.sets = {PreviewKeys[x] : x \in {h} \intersect DOMAIN PreviewKeys}
          /\ \A k \in DOMAIN d.sets : k \in Keys /\ d.sets[k] = "$ARGUMENT"
      BY KnownCommand
    <2>2. after = Apply(d, a, state[i])
      BY <1>3, <2>1 DEF Updated
    <2>3. h = ":OUTP" /\ a # None => after["output"] = a
      <3>1. SUFFICES ASSUME h = ":OUTP", a # None PROVE after["output"] = a
        OBVIOUS
      <3>2. h \in DOMAIN PreviewKeys /\ PreviewKeys[h] = "output"
        BY <3>1 DEF PreviewKeys
      <3>3. "output" \in DOMAIN d.sets
        BY <2>1, <3>2
      <3>4. "output" \in Keys /\ d.sets["output"] = "$ARGUMENT"
        BY <2>1, <3>3
      <3>5. ValueOf(d, "output", a) = a
        BY <3>4 DEF ValueOf
      <3> HIDE DEF d, a, h, after
      <3>6. "output" \in Changes(d, a)
        BY <3>1, <3>3, <3>5 DEF Changes
      <3> QED  BY <2>2, <3>4, <3>5, <3>6 DEF Apply
    <2> HIDE DEF h, a, d, after
    <2>4. SequenceHoldsAfter(d, a, after)
      <3>1. SUFFICES ASSUME NEW rule \in d.after, rule.argument \in {None, a}
                     PROVE  RuleHolds(rule, after)
        BY DEF SequenceHoldsAfter
      <3>2. /\ h = ":OUTP" /\ rule.argument = a /\ a # None
            /\ rule.anyOf = {} /\ rule.expect \subseteq {<<"output", a>>}
        BY <2>1, <3>1
      <3>3. after["output"] = a
        BY <2>3, <3>2
      <3>4. ASSUME NEW p \in rule.expect PROVE after[p[1]] = p[2]
        <4>1. p = <<"output", a>>
          BY <3>2
        <4>2. p[1] = "output" /\ p[2] = a
          BY <4>1
        <4> QED  BY <3>3, <4>2
      <3> QED  BY <3>2, <3>4 DEF RuleHolds
    <2> QED  BY <2>4 DEF h, a, d, after
  <1> HIDE DEF Holds
  <1> QED  BY <1>1, <1>4, <1>5

(* The planner's dry-run and the MCP server's sequence validation find the *)
(* same commands of a preview wanting, in every configuration, for either  *)
(* mode and every schema the planner knows: their two ways of following    *)
(* the state agree.                                                        *)
THEOREM TheVerdictsAgree == ASSUME PlannerKnowsTheSchema PROVE Spec => []VerdictsAgree
  <1>1. IInv => VerdictsAgree
    <2> DEFINE mode == ModeOf(route, config)
               commands == Preview(mode, config)
    <2>1. SUFFICES ASSUME IInv
                   PROVE  DryRunIssues(route, commands) = SequenceIssues(commands)
      BY DEF VerdictsAgree
    <2>2. mode \in Modes
      BY <2>1, ConfigTypes DEF IInv, TypeOK, ModeOf, Modes
    <2>3. Len(commands) = 7 /\ \A i \in 1 .. 7 : commands[i][1] \in Headers
      BY <2>2, PreviewCommands
    <2>4. PICK s : IsTrace(s, commands)
      BY TraceExists
    <2> HIDE DEF commands
    <2> QED  BY <2>3, <2>4, DryRunFollowsTheTrace, SequenceFollowsTheTrace
  <1> QED  BY <1>1, Invariance, PTL

(* Nothing has been sent before the setup, and during the setup of a run   *)
(* that a dry-run accepted the instrument is where the preview was.        *)
Sent ==
  /\ stage \in {"request", "made"} => unit = Nothing
  /\ stage = "setup" /\ route # "direct" =>
       LET commands == Preview(ModeOf(route, config), config)
       IN  /\ DryRunIssues(route, commands) = {}
           /\ \E s : IsTrace(s, commands) /\ unit = s[at + 1]

(* Every step keeps it.                                                    *)
LEMMA SentInvariant ==
  ASSUME PlannerKnowsTheSchema, IInv, Sent, [Next]_vars
  PROVE  Sent'
  <1>1. CASE Make
    BY <1>1 DEF Make, Sent
  <1>2. CASE StartDirectly
    BY <1>2 DEF StartDirectly, Sent
  <1>3. CASE DryRun
    <2> DEFINE commands == Preview(ModeOf(route, config), config)
    <2>1. /\ unit = Nothing /\ at = 0 /\ UNCHANGED <<route, config, at, unit>>
          /\ stage' \in {"setup", "refused"}
          /\ stage' = "setup" => DryRunIssues(route, commands) = {}
      BY <1>3 DEF DryRun, Sent, IInv, Counted, DryRunValid
    <2>2. PICK s : IsTrace(s, commands)
      BY TraceExists
    <2>3. s[1] = Nothing
      BY <2>2 DEF IsTrace
    <2>4. IsTrace(s, commands) /\ unit = s[at + 1]
      BY <2>1, <2>2, <2>3
    <2> HIDE DEF commands
    <2>5. stage' = "setup" =>
            /\ DryRunIssues(route, commands) = {}
            /\ \E x : IsTrace(x, commands) /\ unit = x[at + 1]
      BY <2>1, <2>4
    <2> QED  BY <2>1, <2>5 DEF Sent, commands
  <1>4. CASE SendSetup
    <2> DEFINE mode == ModeOf(route, config)
               commands == Preview(mode, config)
    <2>1. SUFFICES ASSUME stage' = "setup", route # "direct"
                   PROVE  /\ DryRunIssues(route, commands) = {}
                          /\ \E s : IsTrace(s, commands) /\ unit' = s[at' + 1]
      BY <1>4 DEF SendSetup, Sent
    <2>2. stage = "setup" /\ at \in 0 .. 5
      BY <1>4 DEF SendSetup, IInv, TypeOK, Counted
    <2>3. mode \in Modes
      BY ConfigTypes DEF IInv, TypeOK, ModeOf, Modes
    <2>4. DryRunIssues(route, commands) = {}
      BY <2>1, <2>2 DEF Sent
    <2>5. PICK s : IsTrace(s, commands) /\ unit = s[at + 1]
      BY <2>1, <2>2 DEF Sent
    <2>6. ToSend[at + 1] = commands[at + 1]
      BY <2>2, <2>3, PreviewCommands DEF ToSend
    <2>7. unit' = Updated(commands[at + 1], s[at + 1]) /\ at' = at + 1
      BY <1>4, <2>5, <2>6 DEF SendSetup
    <2>8. \A i \in 1 .. 7 : commands[i][1] \in Headers
      BY <2>3, PreviewCommands
    <2> HIDE DEF commands
    <2>9. unit' = s[at' + 1]
      BY <2>2, <2>5, <2>7, <2>8, TraceStates
    <2> QED  BY <2>4, <2>5, <2>9
  <1>5. CASE Measure
    BY <1>5 DEF Measure, Sent
  <1>6. CASE Over \/ UNCHANGED vars
    <2>1. UNCHANGED <<route, config, stage, at, unit, levels>>
      BY <1>6 DEF Over, vars
    <2> QED  BY <2>1 DEF Sent
  <1> QED  BY <1>1, <1>2, <1>3, <1>4, <1>5, <1>6 DEF Next

(* What an accepted run sends to set the instrument up is what the schema  *)
(* allows in the state it is then in: _setup sends what build_command_     *)
(* preview announced, in an order that was validated, whatever the         *)
(* configuration, for every schema the planner knows.                      *)
THEOREM TheSetupIsValidated ==
  ASSUME PlannerKnowsTheSchema
  PROVE  Spec => []SetupIsValidated
  <1>1. Init => Sent
    BY DEF Init, Sent
  <1>2. IInv /\ Sent => SetupIsValidated
    <2> DEFINE mode == ModeOf(route, config)
               commands == Preview(mode, config)
    <2>1. SUFFICES ASSUME IInv, Sent, stage = "setup", route # "direct"
                   PROVE  Passes(ToSend[at + 1], unit)
      BY DEF SetupIsValidated
    <2>2. at \in 0 .. 5
      BY <2>1 DEF IInv, TypeOK, Counted
    <2>3. mode \in Modes
      BY <2>1, ConfigTypes DEF IInv, TypeOK, ModeOf, Modes
    <2>4. DryRunIssues(route, commands) = {}
      BY <2>1 DEF Sent
    <2>5. PICK s : IsTrace(s, commands) /\ unit = s[at + 1]
      BY <2>1 DEF Sent
    <2>6. ToSend[at + 1] = commands[at + 1]
      BY <2>2, <2>3, PreviewCommands DEF ToSend
    <2>7. Len(commands) = 7 /\ \A i \in 1 .. 7 : commands[i][1] \in Headers
      BY <2>3, PreviewCommands
    <2> HIDE DEF commands
    <2>8. {i \in 1 .. 7 : ~Passes(commands[i], s[i])} = {}
      BY <2>4, <2>5, <2>7, DryRunFollowsTheTrace
    <2>9. at + 1 \in 1 .. 7
      BY <2>2
    <2> QED  BY <2>5, <2>6, <2>8, <2>9
  <1>3. Spec => []Sent
    <2>1. IInv /\ Sent /\ [Next]_vars => Sent'
      BY SentInvariant
    <2> QED  BY <1>1, <2>1, Invariance, PTL DEF Spec
  <1> QED  BY <1>2, <1>3, Invariance, PTL
=============================================================================
