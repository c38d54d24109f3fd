---------------------------- MODULE SpsCodecProofs ----------------------------
(***************************************************************************)
(* Proofs about SpsCodec.  An SPS of whatever fields H.264 has: what is    *)
(* written is read back bit by bit, number by number and part by part, no  *)
(* long run of zeros is among it, so that stripping what was escaped gives *)
(* it back and what is built anew needs no escaping.  And what becomes of  *)
(* a PPS of any length.                                                    *)
(***************************************************************************)
EXTENDS SpsCodec, SequenceTheorems, NaturalsInduction, WellFoundedInduction,
        TLAPS

-----------------------------------------------------------------------------
(* Induction and loops *)

\* What holds of 0, and of every number after one it holds of, holds of all.
LEMMA InductionOn ==
    ASSUME NEW S, 0 \in S, \A n \in Nat : n \in S => n + 1 \in S
    PROVE  Nat \subseteq S
<1> DEFINE Bad == {n \in Nat : n \notin S}
<1> SUFFICES ASSUME NEW n \in Bad PROVE FALSE
  OBVIOUS
<1>1. PICK m \in Bad : \A k \in Bad : ~(k < m)
  <2>1. IsWellFoundedOn(OpToRel(<, Nat), Nat)
    BY NatLessThanWellFounded
  <2>2. Bad \subseteq Nat /\ n \in Bad
    OBVIOUS
  <2> HIDE DEF Bad
  <2>3. PICK m \in Bad : \A k \in Bad : ~(<<k, m>> \in OpToRel(<, Nat))
    BY <2>1, <2>2, WFMin
  <2> QED
    BY <2>2, <2>3 DEF OpToRel
<1>2. m \in Nat /\ m \notin S /\ m # 0
  BY <1>1
<1>3. m - 1 \in Nat /\ m - 1 < m /\ (m - 1) + 1 = m
  BY <1>2
<1>4. m - 1 \in S
  BY <1>1, <1>3
<1> QED
  BY <1>2, <1>3, <1>4

\* A loop of n rounds, in each of which G takes the state on, and the states it passes.
Runs(f, a, n, G) == f[0] = a /\ \A i \in 1 .. n : f[i] = G[i][f[i - 1]]

\* Such a loop has its states.
LEMMA LoopRuns ==
    ASSUME NEW X, NEW a \in X, NEW n \in Nat, NEW G \in [1 .. n -> [X -> X]]
    PROVE  \E f \in [0 .. n -> X] : Runs(f, a, n, G)
<1> DEFINE S == {m \in Nat : m <= n => \E f \in [0 .. m -> X] : Runs(f, a, m, G)}
<1>1. 0 \in S
  <2> DEFINE f == [i \in 0 .. 0 |-> a]
  <2>1. f \in [0 .. 0 -> X] /\ Runs(f, a, 0, G)
    BY DEF Runs
  <2> QED
    BY <2>1
<1>2. ASSUME NEW m \in Nat, m \in S PROVE m + 1 \in S
  <2> SUFFICES ASSUME m + 1 <= n PROVE \E h \in [0 .. m + 1 -> X] : Runs(h, a, m + 1, G)
    OBVIOUS
  <2>1. PICK f \in [0 .. m -> X] : Runs(f, a, m, G)
    BY <1>2
  <2> DEFINE h == [i \in 0 .. m + 1 |-> IF i = m + 1 THEN G[m + 1][f[m]] ELSE f[i]]
  <2>2. G[m + 1][f[m]] \in X
    <3>1. f[m] \in X /\ m + 1 \in 1 .. n
      OBVIOUS
    <3> QED
      BY <3>1
  <2>3. \A i \in 0 .. m : h[i] = f[i] /\ f[i] \in X
    OBVIOUS
  <2>4. h[m + 1] = G[m + 1][f[m]]
    OBVIOUS
  <2>5. h \in [0 .. m + 1 -> X]
    BY <2>2, <2>3, <2>4
  <2> HIDE DEF h
  <2>6. ASSUME NEW i \in 1 .. m + 1 PROVE h[i] = G[i][h[i - 1]]
    <3>1. i - 1 \in 0 .. m /\ h[i - 1] = f[i - 1]
      BY <2>3
    <3>2. CASE i = m + 1
      <4>1. i - 1 = m
        BY <3>2
      <4> QED
        BY <2>4, <3>1, <3>2, <4>1
    <3>3. CASE i # m + 1
      <4>1. i \in 1 .. m /\ i \in 0 .. m
        BY <3>3
      <4> QED
        BY <2>1, <2>3, <3>1, <4>1 DEF Runs
    <3> QED
      BY <3>2, <3>3
  <2>7. Runs(h, a, m + 1, G)
    <3>1. h[0] = a
      BY <2>1, <2>3 DEF Runs
    <3> QED
      BY <2>6, <3>1 DEF Runs
  <2> QED
    BY <2>5, <2>7
<1>3. n \in S
  <2> HIDE DEF S
  <2> QED
    BY <1>1, <1>2, InductionOn
<1> QED
  BY <1>3

-----------------------------------------------------------------------------
(* Powers and numbers *)

\* A loop of LoopRuns as the function that a recursive definition defines.
LEMMA Pow2Exists ==
    \E f \in [0 .. 30 -> Nat] : f = [n \in 0 .. 30 |-> IF n = 0 THEN 1 ELSE 2 * f[n - 1]]
<1> DEFINE G == [i \in 1 .. 30 |-> [x \in Nat |-> 2 * x]]
<1>1. G \in [1 .. 30 -> [Nat -> Nat]]
  OBVIOUS
<1>2. \A i \in 1 .. 30 : \A x \in Nat : G[i][x] = 2 * x
  OBVIOUS
<1> HIDE DEF G
<1>3. PICK f \in [0 .. 30 -> Nat] : f[0] = 1 /\ \A i \in 1 .. 30 : f[i] = G[i][f[i - 1]]
  <2>1. PICK X, a, m : X = Nat /\ a = 1 /\ m = 30
    OBVIOUS
  <2>2. G \in [1 .. m -> [X -> X]] /\ a \in X /\ m \in Nat
    BY <1>1, <2>1
  <2>3. \E f \in [0 .. m -> X] : Runs(f, a, m, G)
    BY <2>2, LoopRuns
  <2> QED
    BY <2>1, <2>3 DEF Runs
<1>4. ASSUME NEW i \in 0 .. 30 PROVE f[i] = IF i = 0 THEN 1 ELSE 2 * f[i - 1]
  <2>1. i # 0 => i \in 1 .. 30 /\ f[i - 1] \in Nat
    OBVIOUS
  <2> QED
    BY <1>2, <1>3, <2>1
<1> QED
  BY <1>4

\* The powers of two by the recursion that defines them.
LEMMA Pow2Step ==
    /\ Pow2[0] = 1
    /\ \A n \in 0 .. 30 : Pow2[n] \in Nat
    /\ \A n \in 1 .. 30 : Pow2[n] = 2 * Pow2[n - 1]
<1>1. PICK f \in [0 .. 30 -> Nat] : f = [n \in 0 .. 30 |-> IF n = 0 THEN 1 ELSE 2 * f[n - 1]]
  BY Pow2Exists, SMTT(40)
<1> DEFINE g == Pow2
<1>2. g = [n \in 0 .. 30 |-> IF n = 0 THEN 1 ELSE 2 * g[n - 1]]
  BY <1>1, ZenonT(60) DEF Pow2
<1> HIDE DEF g
<1>3. g[0] = 1 /\ \A n \in 1 .. 30 : g[n] = 2 * g[n - 1]
  BY <1>2
<1> DEFINE S == {n \in Nat : n <= 30 => g[n] \in Nat}
<1>4. Nat \subseteq S
  <2>1. 0 \in S
    BY <1>3
  <2>2. ASSUME NEW n \in Nat, n \in S PROVE n + 1 \in S
    <3>1. n + 1 <= 30 => n + 1 \in 1 .. 30 /\ (n + 1) - 1 = n /\ n <= 30
      OBVIOUS
    <3> QED
      BY <1>3, <2>2, <3>1
  <2> HIDE DEF S
  <2> QED
    BY <2>1, <2>2, InductionOn
<1>5. \A n \in 0 .. 30 : g[n] \in Nat
  BY <1>4
<1> QED
  BY <1>3, <1>5 DEF g

\* The first powers.
LEMMA Pow2Table ==
    /\ Pow2[0] = 1 /\ Pow2[1] = 2 /\ Pow2[2] = 4 /\ Pow2[3] = 8 /\ Pow2[4] = 16
    /\ Pow2[5] = 32 /\ Pow2[6] = 64 /\ Pow2[7] = 128 /\ Pow2[8] = 256 /\ Pow2[9] = 512
    /\ Pow2[10] = 1024 /\ Pow2[11] = 2048
<1>1. /\ Pow2[1] = 2 * Pow2[0] /\ Pow2[2] = 2 * Pow2[1] /\ Pow2[3] = 2 * Pow2[2]
      /\ Pow2[4] = 2 * Pow2[3] /\ Pow2[5] = 2 * Pow2[4] /\ Pow2[6] = 2 * Pow2[5]
      /\ Pow2[7] = 2 * Pow2[6] /\ Pow2[8] = 2 * Pow2[7] /\ Pow2[9] = 2 * Pow2[8]
      /\ Pow2[10] = 2 * Pow2[9] /\ Pow2[11] = 2 * Pow2[10]
  BY Pow2Step
<1> QED
  BY <1>1, Pow2Step

LEMMA Pow2Positive ==
    \A n \in 0 .. 30 : Pow2[n] \in Nat \ {0}
<1> DEFINE S == {n \in Nat : n <= 30 => Pow2[n] # 0}
<1>1. 0 \in S
  BY Pow2Step
<1>2. ASSUME NEW n \in Nat, n \in S PROVE n + 1 \in S
  <2> SUFFICES ASSUME n + 1 <= 30 PROVE Pow2[n + 1] # 0
    OBVIOUS
  <2>1. n + 1 \in 1 .. 30 /\ (n + 1) - 1 = n /\ n \in 0 .. 30
    OBVIOUS
  <2>2. Pow2[n + 1] = 2 * Pow2[n] /\ Pow2[n] \in Nat
    BY <2>1, Pow2Step
  <2>3. Pow2[n] # 0
    BY <1>2, <2>1
  <2> QED
    BY <2>2, <2>3
<1>3. Nat \subseteq S
  <2> HIDE DEF S
  <2> QED
    BY <1>1, <1>2, InductionOn
<1> QED
  BY <1>3, Pow2Step

\* Number as the loop that computes it.
LEMMA NumberExists ==
    ASSUME NEW n \in Nat, NEW b \in [1 .. n -> Nat]
    PROVE  \E f \in [0 .. n -> Nat] :
             f = [i \in 0 .. n |-> IF i = 0 THEN 0 ELSE 2 * f[i - 1] + b[i]]
<1> DEFINE G == [i \in 1 .. n |-> [x \in Nat |-> 2 * x + b[i]]]
<1>1. G \in [1 .. n -> [Nat -> Nat]]
  <2>1. \A i \in 1 .. n : \A x \in Nat : 2 * x + b[i] \in Nat
    OBVIOUS
  <2> QED
    BY <2>1
<1>2. \A i \in 1 .. n : \A x \in Nat : G[i][x] = 2 * x + b[i]
  OBVIOUS
<1> HIDE DEF G
<1>3. PICK f \in [0 .. n -> Nat] : f[0] = 0 /\ \A i \in 1 .. n : f[i] = G[i][f[i - 1]]
  <2>1. PICK X, a : X = Nat /\ a = 0
    OBVIOUS
  <2>2. G \in [1 .. n -> [X -> X]] /\ a \in X
    BY <1>1, <2>1
  <2>3. \E f \in [0 .. n -> X] : Runs(f, a, n, G)
    BY <2>2, LoopRuns
  <2> QED
    BY <2>1, <2>3 DEF Runs
<1>4. ASSUME NEW i \in 0 .. n PROVE f[i] = IF i = 0 THEN 0 ELSE 2 * f[i - 1] + b[i]
  <2>1. i # 0 => i \in 1 .. n /\ f[i - 1] \in Nat
    OBVIOUS
  <2> QED
    BY <1>2, <1>3, <2>1
<1> QED
  BY <1>4

\* Number is what the loop over the bits leaves.
LEMMA NumberLoop ==
    ASSUME NEW n \in Nat, NEW b \in [1 .. n -> Nat], Len(b) = n
    PROVE  \E v \in [0 .. n -> Nat] :
             /\ v[0] = 0 /\ \A i \in 1 .. n : v[i] = 2 * v[i - 1] + b[i]
             /\ Number(b) = v[n]
<1> DEFINE v == CHOOSE f : f = [i \in 0 .. n |-> IF i = 0 THEN 0 ELSE 2 * f[i - 1] + b[i]]
<1>1. PICK f \in [0 .. n -> Nat] :
        f = [i \in 0 .. n |-> IF i = 0 THEN 0 ELSE 2 * f[i - 1] + b[i]]
  BY NumberExists
<1>2. v = [i \in 0 .. n |-> IF i = 0 THEN 0 ELSE 2 * v[i - 1] + b[i]]
  BY <1>1
<1>3. Number(b) = v[n]
  BY DEF Number
<1> HIDE DEF v
<1>4. v[0] = 0 /\ \A i \in 1 .. n : v[i] = 2 * v[i - 1] + b[i]
  BY <1>2, SMTT(40)
<1> DEFINE S == {i \in Nat : i <= n => v[i] \in Nat}
<1>5. Nat \subseteq S
  <2>1. 0 \in S
    BY <1>4
  <2>2. ASSUME NEW i \in Nat, i \in S PROVE i + 1 \in S
    <3> SUFFICES ASSUME i + 1 <= n PROVE v[i + 1] \in Nat
      OBVIOUS
    <3>1. i + 1 \in 1 .. n /\ (i + 1) - 1 = i /\ i <= n
      OBVIOUS
    <3>2. v[i + 1] = 2 * v[i] + b[i + 1] /\ b[i + 1] \in Nat /\ v[i] \in Nat
      BY <1>4, <2>2, <3>1
    <3> QED
      BY <3>2, SMTT(40)
  <2> HIDE DEF S
  <2> QED
    BY <2>1, <2>2, InductionOn
<1>6. v \in [0 .. n -> Nat]
  <2>1. \A i \in 0 .. n : v[i] \in Nat
    BY <1>5
  <2> QED
    BY <1>2, <2>1
<1> QED
  BY <1>3, <1>4, <1>6

\* A number below 2p holds p once or not at all.
LEMMA DivOnce ==
    ASSUME NEW u \in Nat, NEW p \in Nat \ {0}, u < 2 * p
    PROVE  u \div p = IF u < p THEN 0 ELSE 1
<1>1. PICK q, r : q = u \div p /\ r = u % p
  OBVIOUS
<1>2. q \in Nat /\ r \in Nat /\ r < p /\ u = q * p + r
  BY <1>1
<1>3. q = 0 \/ q = 1
  <2> SUFFICES ASSUME q >= 2 PROVE FALSE
    BY <1>2
  <2>1. PICK m \in Nat : q = m + 2
    <3>1. q - 2 \in Nat /\ q = (q - 2) + 2
      BY <1>2
    <3> QED
      BY <3>1
  <2>2. q * p = m * p + 2 * p /\ m * p \in Nat
    BY <2>1
  <2> QED
    BY <1>2, <2>2
<1> QED
  BY <1>1, <1>2, <1>3

\* Halving after a division is one division.
LEMMA DivHalf ==
    ASSUME NEW u \in Nat, NEW p \in Nat \ {0}
    PROVE  /\ u \div p \in Nat /\ u \div (2 * p) \in Nat
           /\ u \div p = 2 * (u \div (2 * p)) + ((u \div p) % 2)
<1>1. PICK a, r : a = u \div p /\ r = u % p
  OBVIOUS
<1>2. a \in Nat /\ r \in Nat /\ r < p /\ u = a * p + r
  BY <1>1
<1>3. PICK h, e : h = a \div 2 /\ e = a % 2
  OBVIOUS
<1>4. h \in Nat /\ e \in 0 .. 1 /\ a = 2 * h + e
  BY <1>2, <1>3
<1>5. PICK d, s : d = u \div (2 * p) /\ s = u % (2 * p)
  OBVIOUS
<1>6. d \in Nat /\ s \in Nat /\ s < 2 * p /\ u = d * (2 * p) + s
  BY <1>5
<1>7. PICK x, y, c : x = h * p /\ y = d * p /\ c = e * p
  OBVIOUS
<1>8. x \in Nat /\ y \in Nat /\ c \in Nat /\ (e = 0 => c = 0) /\ (e = 1 => c = p)
  BY <1>4, <1>6, <1>7
<1>9. u = 2 * x + c + r /\ u = 2 * y + s
  <2>1. a * p = 2 * x + c
    BY <1>2, <1>4, <1>7
  <2>2. d * (2 * p) = 2 * y
    BY <1>6, <1>7
  <2> QED
    BY <1>2, <1>6, <2>1, <2>2
<1>10. x < y + p /\ y < x + p
  BY <1>2, <1>4, <1>6, <1>8, <1>9
<1>11. h = d
  <2>1. CASE h < d
    <3>1. (d - h) * p >= p
      <4>1. d - h \in Nat /\ d - h >= 1
        BY <1>4, <1>6, <2>1
      <4> QED
        BY <4>1
    <3>2. (d - h) * p = y - x
      BY <1>4, <1>6, <1>7
    <3> QED
      BY <1>8, <1>10, <3>1, <3>2
  <2>2. CASE d < h
    <3>1. (h - d) * p >= p
      <4>1. h - d \in Nat /\ h - d >= 1
        BY <1>4, <1>6, <2>2
      <4> QED
        BY <4>1
    <3>2. (h - d) * p = x - y
      BY <1>4, <1>6, <1>7
    <3> QED
      BY <1>8, <1>10, <3>1, <3>2
  <2> QED
    BY <1>4, <1>6, <2>1, <2>2
<1> QED
  BY <1>1, <1>2, <1>3, <1>4, <1>5, <1>6, <1>11

\* Bit by bit a number is put together again, without what is above its bits.
LEMMA NumberOfBits ==
    ASSUME NEW n \in 0 .. 30, NEW u \in Nat, u < 2 * Pow2[n],
           NEW b \in [1 .. n -> Nat], Len(b) = n,
           \A i \in 1 .. n : b[i] = (u \div Pow2[n - i]) % 2
    PROVE  Number(b) = IF u < Pow2[n] THEN u ELSE u - Pow2[n]
<1>0. n \in Nat /\ n <= 30 /\ Pow2[n] \in Nat \ {0} /\ Pow2[0] = 1 /\ n - 0 = n
  <2>1. n \in Nat /\ n <= 30 /\ n - 0 = n
    OBVIOUS
  <2>2. Pow2[n] \in Nat \ {0}
    BY Pow2Positive
  <2> QED
    BY <2>1, <2>2, Pow2Table
<1>1. PICK v \in [0 .. n -> Nat] :
        /\ v[0] = 0 /\ \A i \in 1 .. n : v[i] = 2 * v[i - 1] + b[i]
        /\ Number(b) = v[n]
  BY <1>0, NumberLoop
<1> DEFINE Top(i) == IF u < Pow2[n] THEN 0 ELSE Pow2[i]
           S == {i \in Nat : i <= n => v[i] + Top(i) = u \div Pow2[n - i]}
<1>2. 0 \in S
  <2>1. Pow2[n] \in Nat /\ Pow2[n] # 0 /\ Pow2[0] = 1 /\ n - 0 = n
    BY <1>0
  <2>2. PICK p \in Nat : p = Pow2[n] /\ p # 0
    BY <2>1
  <2>3. u \div p = IF u < p THEN 0 ELSE 1
    BY <2>2, DivOnce
  <2> QED
    BY <1>1, <2>1, <2>2, <2>3
<1>3. ASSUME NEW i \in Nat, i \in S PROVE i + 1 \in S
  <2> SUFFICES ASSUME i + 1 <= n PROVE v[i + 1] + Top(i + 1) = u \div Pow2[n - (i + 1)]
    OBVIOUS
  <2>1. /\ i + 1 \in 1 .. n /\ (i + 1) - 1 = i /\ i <= n /\ i \in 0 .. n /\ i + 1 \in 1 .. 30
        /\ n - i \in 1 .. 30 /\ (n - i) - 1 = n - (i + 1) /\ n - (i + 1) \in 0 .. 30
    BY SMTT(40)
  <2>2. PICK p \in Nat \ {0} : p = Pow2[n - (i + 1)]
    BY <2>1, Pow2Positive
  <2>3. Pow2[n - i] = 2 * p
    BY <2>1, <2>2, Pow2Step
  <2>4. PICK a, c : a = u \div p /\ c = u \div (2 * p)
    OBVIOUS
  <2>5. a \in Nat /\ c \in Nat /\ a = 2 * c + (a % 2)
    BY <2>4, DivHalf
  <2>6. v[i] + Top(i) = c
    BY <1>3, <2>1, <2>3, <2>4
  <2>7. v[i + 1] = 2 * v[i] + (a % 2)
    <3>1. b[i + 1] = a % 2
      BY <2>1, <2>2, <2>4
    <3> QED
      BY <1>1, <2>1, <3>1
  <2>8. Top(i + 1) = 2 * Top(i) /\ Top(i) \in Nat
    <3>1. Pow2[i + 1] = 2 * Pow2[i] /\ Pow2[i] \in Nat
      <4>1. i + 1 \in 1 .. 30 /\ i \in 0 .. 30
        BY <1>0, <2>1
      <4> QED
        BY <2>1, <4>1, Pow2Step
    <3> QED
      BY <3>1
  <2>9. PICK t \in Nat, w \in Nat : t = Top(i) /\ w = v[i]
    BY <2>1, <2>8
  <2>10. v[i + 1] + Top(i + 1) = a
    <3>1. w + t = c /\ v[i + 1] = 2 * w + (a % 2) /\ Top(i + 1) = 2 * t
      BY <2>6, <2>7, <2>8, <2>9
    <3>2. PICK e \in 0 .. 1 : e = a % 2
      BY <2>5
    <3>3. v[i + 1] + Top(i + 1) = (2 * w + e) + 2 * t
      BY <3>1, <3>2
    <3>4. a = 2 * c + e /\ c = w + t
      BY <2>5, <3>1, <3>2
    <3>5. (2 * w + e) + 2 * t = a
      BY <3>4
    <3> QED
      BY <3>3, <3>5
  <2> QED
    BY <2>2, <2>4, <2>10
<1>4. n \in S
  <2> HIDE DEF S
  <2> QED
    BY <1>0, <1>2, <1>3, InductionOn
<1>5. v[n] + Top(n) = u \div Pow2[0] /\ Pow2[0] = 1
  BY <1>4, Pow2Table, SMTT(40)
<1>6. v[n] \in Nat /\ Pow2[n] \in Nat
  BY <1>0
<1> QED
  BY <1>1, <1>5, <1>6

-----------------------------------------------------------------------------
(* Bits of a NAL unit *)

LEMMA MinIs ==
    ASSUME NEW S \in SUBSET Int, NEW m \in S, \A x \in S : m <= x
    PROVE  Min(S) = m
<1>1. \E x \in S : \A y \in S : x <= y
  OBVIOUS
<1>2. PICK k : k = Min(S)
  OBVIOUS
<1>3. k \in S /\ \A y \in S : k <= y
  BY <1>1, <1>2 DEF Min
<1>4. k <= m /\ m <= k /\ k \in Int /\ m \in Int
  BY <1>3
<1> QED
  BY <1>2, <1>4

LEMMA MinOfTwo ==
    ASSUME NEW a \in Int, NEW b \in Int
    PROVE  Min({a, b}) = IF a <= b THEN a ELSE b
<1>1. {a, b} \in SUBSET Int /\ a \in {a, b} /\ b \in {a, b}
  OBVIOUS
<1>2. CASE a <= b
  <2>1. \A x \in {a, b} : a <= x
    BY <1>2
  <2>2. Min({a, b}) = a
    BY <1>1, <2>1, MinIs
  <2> QED
    BY <1>2, <2>2
<1>3. CASE ~(a <= b)
  <2>1. \A x \in {a, b} : b <= x
    BY <1>3
  <2>2. Min({a, b}) = b
    BY <1>1, <2>1, MinIs
  <2> QED
    BY <1>3, <2>2
<1> QED
  BY <1>2, <1>3

\* A set of numbers has a least one.
LEMMA Least ==
    ASSUME NEW S \in SUBSET Nat, S # {}
    PROVE  Min(S) \in S /\ \A x \in S : Min(S) <= x
<1>1. PICK m \in S : \A k \in S : ~(k < m)
  <2>1. IsWellFoundedOn(OpToRel(<, Nat), Nat)
    BY NatLessThanWellFounded
  <2>2. PICK n : n \in S
    OBVIOUS
  <2>3. PICK m \in S : \A k \in S : ~(<<k, m>> \in OpToRel(<, Nat))
    BY <2>1, <2>2, WFMin
  <2> QED
    BY <2>3 DEF OpToRel
<1>2. \A x \in S : m <= x
  BY <1>1
<1>3. S \in SUBSET Int
  OBVIOUS
<1>4. Min(S) = m
  BY <1>2, <1>3, MinIs
<1> QED
  BY <1>2, <1>4

\* What a NAL unit is made of.
Bytes == 0 .. 255

LEMMA ByteIsNat ==
    ASSUME NEW x \in Bytes
    PROVE  x \in Nat /\ x <= 255
BY DEF Bytes

LEMMA IsSeq ==
    ASSUME NEW T, NEW n \in Nat, NEW b \in [1 .. n -> T]
    PROVE  b \in Seq(T) /\ Len(b) = n /\ DOMAIN b = 1 .. n
OBVIOUS

\* Every bit that is read is 0 or 1, behind the end too.
LEMMA BitIsBit ==
    ASSUME NEW s \in Seq(Bytes), NEW p \in Nat
    PROVE  Bit(s, p) \in 0 .. 1
<1>1. CASE p < 8 * Len(s)
  <2>1. PICK j, r : j = p \div 8 /\ r = p % 8
    OBVIOUS
  <2>2. j \in Nat /\ r \in 0 .. 7 /\ p = 8 * j + r
    BY <2>1
  <2>3. j + 1 \in 1 .. Len(s) /\ 7 - r \in 0 .. 30
    BY <1>1, <2>2
  <2>4. PICK x \in Nat, q \in Nat \ {0} : x = s[j + 1] /\ q = Pow2[7 - r]
    <3>1. s[j + 1] \in Bytes
      BY <2>3
    <3>2. s[j + 1] \in Nat
      BY <3>1, ByteIsNat
    <3>3. Pow2[7 - r] \in Nat \ {0}
      BY <2>3, Pow2Positive
    <3> QED
      BY <3>2, <3>3
  <2>5. x \div q \in Nat
    BY DivHalf
  <2>6. (x \div q) % 2 \in 0 .. 1
    BY <2>5
  <2>7. Bit(s, p) = (x \div q) % 2
    BY <1>1, <2>1, <2>4 DEF Bit
  <2> QED
    BY <2>6, <2>7
<1>2. CASE ~(p < 8 * Len(s))
  BY <1>2 DEF Bit
<1> QED
  BY <1>1, <1>2

\* The position moves by one, up to the end.
LEMMA AfterIs ==
    ASSUME NEW s \in Seq(Bytes), NEW p \in 0 .. 8 * Len(s)
    PROVE  /\ After(s, p) \in p .. 8 * Len(s)
           /\ p + 1 <= 8 * Len(s) => After(s, p) = p + 1
<1>1. Len(s) \in Nat
  OBVIOUS
<1>2. PICK e \in Nat : e = 8 * Len(s)
  BY <1>1
<1>3. Min({p + 1, e}) = IF p + 1 <= e THEN p + 1 ELSE e
  BY <1>2, MinOfTwo
<1> QED
  BY <1>2, <1>3 DEF After

\* Bits read one after the other, as numbers of the loop that reads them.
LEMMA BitsRead ==
    ASSUME NEW s \in Seq(Bytes), NEW p \in Nat, NEW k \in Nat
    PROVE  /\ BitsAt(s, p, k) \in [1 .. k -> 0 .. 1] /\ BitsAt(s, p, k) \in [1 .. k -> Nat]
           /\ Len(BitsAt(s, p, k)) = k
<1>1. PICK b : b = BitsAt(s, p, k)
  OBVIOUS
<1>2. ASSUME NEW i \in 1 .. k PROVE Bit(s, p + i - 1) \in 0 .. 1
  <2>1. p + i - 1 \in Nat
    OBVIOUS
  <2> QED
    BY <2>1, BitIsBit
<1>3. PICK T : T = 0 .. 1
  OBVIOUS
<1>4. b \in [1 .. k -> T]
  BY <1>1, <1>2, <1>3 DEF BitsAt
<1>5. Len(b) = k
  BY <1>4, IsSeq
<1>6. b \in [1 .. k -> Nat]
  <2>1. \A x \in T : x \in Nat
    BY <1>3
  <2> QED
    BY <1>4, <2>1
<1> QED
  BY <1>1, <1>3, <1>4, <1>5, <1>6

\* No more than 24 bits are read of a number.
LEMMA CutAt24 ==
    ASSUME NEW z \in Nat, NEW k, k = Min({z, 24})
    PROVE  k \in 0 .. 24 /\ (z <= 24 => k = z) /\ k \in Nat
<1>1. k = IF z <= 24 THEN z ELSE 24
  <2>1. z \in Int /\ 24 \in Int
    OBVIOUS
  <2> QED
    BY <2>1, MinOfTwo
<1> QED
  BY <1>1

\* The next 1 is behind the position, or at the end.
LEMMA NextOneIs ==
    ASSUME NEW s \in Seq(Bytes), NEW p \in 0 .. 8 * Len(s)
    PROVE  NextOne(s, p) \in p .. 8 * Len(s)
<1>1. PICK end \in Nat : end = 8 * Len(s)
  OBVIOUS
<1>2. PICK Ones : Ones = {q \in p .. end - 1 : Bit(s, q) = 1}
  OBVIOUS
<1>3. NextOne(s, p) = IF Ones = {} THEN end ELSE Min(Ones)
  BY <1>1, <1>2 DEF NextOne
<1>4. CASE Ones = {}
  BY <1>1, <1>3, <1>4
<1>5. CASE Ones # {}
  <2>1. Ones \in SUBSET Nat /\ Ones \subseteq p .. end - 1
    BY <1>1, <1>2
  <2>2. Min(Ones) \in Ones
    BY <1>5, <2>1, Least
  <2>3. PICK m : m = Min(Ones)
    OBVIOUS
  <2>4. m \in p .. end - 1
    BY <2>1, <2>2, <2>3
  <2>5. m \in p .. end
    BY <1>1, <2>4
  <2> QED
    BY <1>1, <1>3, <1>5, <2>3, <2>5
<1> QED
  BY <1>4, <1>5

\* What is read behind the zeros is a number, and a position behind them.
LEMMA UeFromIs ==
    ASSUME NEW s \in Seq(Bytes), NEW p \in 0 .. 8 * Len(s), NEW z \in Nat
    PROVE  /\ UeFrom(s, p, z) = [v |-> UeFrom(s, p, z).v, pos |-> UeFrom(s, p, z).pos]
           /\ UeFrom(s, p, z).v \in Nat
           /\ UeFrom(s, p, z).pos \in p .. 8 * Len(s)
<1>1. PICK end \in Nat : end = 8 * Len(s)
  OBVIOUS
<1>2. PICK k : k = Min({z, 24})
  OBVIOUS
<1>3. k \in 0 .. 24 /\ (z <= 24 => k = z) /\ k \in Nat
  BY <1>2, CutAt24
<1>4. PICK b : b = BitsAt(s, p, k)
  OBVIOUS
<1>5. Number(b) \in Nat
  <2>1. b \in [1 .. k -> Nat] /\ Len(b) = k
    <3>1. p \in Nat
      OBVIOUS
    <3> QED
      BY <1>3, <1>4, <3>1, BitsRead
  <2>2. PICK x \in [0 .. k -> Nat] : Number(b) = x[k]
    BY <1>3, <2>1, NumberLoop
  <2> QED
    BY <1>3, <2>2
<1>6. PICK v : v = IF z > 24 THEN 65535 ELSE Pow2[z] - 1 + Number(b)
  OBVIOUS
<1>7. PICK pos : pos = Min({p + k, end})
  OBVIOUS
<1>8. UeFrom(s, p, z) = [v |-> v, pos |-> pos]
  BY <1>1, <1>2, <1>4, <1>6, <1>7 DEF UeFrom
<1>9. pos \in p .. end
  <2>1. p + k \in Int /\ p \in Nat /\ p <= end /\ p <= p + k
    BY <1>1, <1>3
  <2>2. pos = IF p + k <= end THEN p + k ELSE end
    BY <1>7, <2>1, MinOfTwo
  <2> QED
    BY <2>1, <2>2
<1>10. v \in Nat
  <2>1. CASE z > 24
    BY <1>6, <2>1
  <2>2. CASE ~(z > 24)
    <3>1. z \in 0 .. 30
      BY <2>2
    <3>2. Pow2[z] \in Nat \ {0}
      BY <3>1, Pow2Positive
    <3>3. v = Pow2[z] - 1 + Number(b)
      BY <1>6, <2>2
    <3> QED
      BY <1>5, <3>2, <3>3
  <2> QED
    BY <2>1, <2>2
<1> QED
  BY <1>1, <1>8, <1>9, <1>10

\* Reading never leaves the NAL unit and gives a number.
LEMMA ReadUeType ==
    ASSUME NEW s \in Seq(Bytes), NEW p \in 0 .. 8 * Len(s)
    PROVE  /\ ReadUe(s, p) = [v |-> ReadUe(s, p).v, pos |-> ReadUe(s, p).pos]
           /\ ReadUe(s, p).v \in Nat
           /\ ReadUe(s, p).pos \in p .. 8 * Len(s)
<1>1. PICK one \in p .. 8 * Len(s) : one = NextOne(s, p)
  BY NextOneIs
<1>2. PICK f : f = After(s, one)
  OBVIOUS
<1>3. one \in 0 .. 8 * Len(s)
  OBVIOUS
<1>4. f \in one .. 8 * Len(s)
  BY <1>2, <1>3, AfterIs
<1>5. f \in 0 .. 8 * Len(s) /\ one - p \in Nat
  BY <1>4
<1>6. PICK r : r = UeFrom(s, f, one - p)
  OBVIOUS
<1>7. r = [v |-> r.v, pos |-> r.pos] /\ r.v \in Nat /\ r.pos \in f .. 8 * Len(s)
  BY <1>5, <1>6, UeFromIs
<1>8. ReadUe(s, p) = r
  BY <1>1, <1>2, <1>6 DEF ReadUe
<1> QED
  BY <1>4, <1>7, <1>8

-----------------------------------------------------------------------------
(* Numbers as bits *)

\* A bit, and the numbers that have at most 10 zeros in front.
Binary == 0 .. 1
Ues == 0 .. 2046

\* The bits of a number, the highest first.
LEMMA BitsShape ==
    ASSUME NEW u \in Nat, NEW n \in 0 .. 30
    PROVE  /\ Bits(u, n) \in Seq(Binary) /\ Len(Bits(u, n)) = n
           /\ \A i \in 1 .. n : Bits(u, n)[i] = (u \div Pow2[n - i]) % 2
<1>1. n \in Nat
  OBVIOUS
<1>2. ASSUME NEW i \in 1 .. n PROVE (u \div Pow2[n - i]) % 2 \in Binary
  <2>1. n - i \in 0 .. 30
    OBVIOUS
  <2>2. PICK p \in Nat \ {0} : p = Pow2[n - i]
    BY <2>1, Pow2Positive
  <2>3. u \div p \in Nat
    BY DivHalf
  <2>4. (u \div p) % 2 \in 0 .. 1
    BY <2>3
  <2> QED
    BY <2>2, <2>4 DEF Binary
<1>3. PICK b : b = Bits(u, n)
  OBVIOUS
<1>4. b \in [1 .. n -> Binary] /\ \A i \in 1 .. n : b[i] = (u \div Pow2[n - i]) % 2
  BY <1>2, <1>3 DEF Bits
<1>5. b \in Seq(Binary) /\ Len(b) = n
  BY <1>1, <1>4, IsSeq
<1> QED
  BY <1>3, <1>4, <1>5

LEMMA ZeroBits ==
    ASSUME NEW n \in 0 .. 30
    PROVE  \A i \in 1 .. n : Bits(0, n)[i] = 0
<1> SUFFICES ASSUME NEW i \in 1 .. n PROVE Bits(0, n)[i] = 0
  OBVIOUS
<1>1. n - i \in 0 .. 30
  OBVIOUS
<1>2. PICK p \in Nat \ {0} : p = Pow2[n - i]
  BY <1>1, Pow2Positive
<1>3. 0 \div p = 0
  <2>1. 0 \in Nat /\ 0 < 2 * p /\ 0 < p
    OBVIOUS
  <2> QED
    BY <2>1, DivOnce
<1>4. Bits(0, n)[i] = (0 \div p) % 2
  <2>1. 0 \in Nat
    OBVIOUS
  <2> QED
    BY <1>2, <2>1, BitsShape
<1> QED
  BY <1>3, <1>4

\* Every such number has a highest bit.
LEMMA Magnitude ==
    ASSUME NEW v \in Ues
    PROVE  \E n \in 0 .. 10 : Pow2[n] <= v + 1 /\ v + 1 < Pow2[n + 1]
<1>1. v \in Nat /\ v <= 2046
  BY DEF Ues
<1>2. CASE v + 1 < 32
  BY <1>1, <1>2, Pow2Table
<1>3. CASE 32 <= v + 1
  BY <1>1, <1>3, Pow2Table
<1> QED
  BY <1>1, <1>2, <1>3

\* The bits of a number: as many zeros as bits will follow the first 1.
LEMMA UeShape ==
    ASSUME NEW v \in Ues, NEW b, b = UeBits(v)
    PROVE  \E n \in 0 .. 10 :
             /\ Pow2[n] <= v + 1 /\ v + 1 < 2 * Pow2[n]
             /\ b \in Seq(Binary) /\ Len(b) = 2 * n + 1
             /\ \A i \in 1 .. n : b[i] = 0
             /\ b[n + 1] = 1
             /\ \A i \in 1 .. n : b[n + 1 + i] = ((v + 1) \div Pow2[n - i]) % 2
<1>1. v \in Nat /\ v + 1 \in Nat /\ v + 1 <= 2047
  BY DEF Ues
<1>2. PICK u \in Nat : u = v + 1
  BY <1>1
<1>3. PICK n \in 0 .. 24 :
        /\ Pow2[n] <= u /\ u < Pow2[n + 1]
        /\ b = Bits(0, n) \o Bits(u, n + 1)
  <2> DEFINE k == CHOOSE m \in 0 .. 24 : Pow2[m] <= u /\ u < Pow2[m + 1]
  <2>1. \E m \in 0 .. 24 : Pow2[m] <= u /\ u < Pow2[m + 1]
    BY <1>2, Magnitude
  <2>2. k \in 0 .. 24 /\ Pow2[k] <= u /\ u < Pow2[k + 1]
    BY <2>1
  <2>3. b = Bits(0, k) \o Bits(u, k + 1)
    BY <1>2 DEF UeBits
  <2> HIDE DEF k
  <2> QED
    BY <2>2, <2>3
<1>4. n \in Nat /\ n \in 0 .. 30 /\ n + 1 \in 0 .. 30 /\ n + 1 \in 1 .. 30 /\ (n + 1) - 1 = n
  OBVIOUS
<1>5. PICK p \in Nat \ {0} : p = Pow2[n]
  BY <1>4, Pow2Positive
<1>6. Pow2[n + 1] = 2 * p
  BY <1>4, <1>5, Pow2Step
<1>7. n \in 0 .. 10
  <2> DEFINE S == {k \in Nat : 11 + k <= 30 => Pow2[11 + k] >= 2048}
  <2>1. 0 \in S
    BY Pow2Table
  <2>2. ASSUME NEW k \in Nat, k \in S PROVE k + 1 \in S
    <3> SUFFICES ASSUME 11 + (k + 1) <= 30 PROVE Pow2[11 + (k + 1)] >= 2048
      OBVIOUS
    <3>1. 11 + (k + 1) \in 1 .. 30 /\ 11 + (k + 1) - 1 = 11 + k /\ 11 + k \in 0 .. 30
      OBVIOUS
    <3>2. PICK x \in Nat : x = Pow2[11 + k]
      BY <3>1, Pow2Step
    <3>3. Pow2[11 + (k + 1)] = 2 * x
      BY <3>1, <3>2, Pow2Step
    <3>4. x >= 2048
      BY <2>2, <3>1, <3>2
    <3> QED
      BY <3>3, <3>4
  <2>3. Nat \subseteq S
    <3> HIDE DEF S
    <3> QED
      BY <2>1, <2>2, InductionOn
  <2> SUFFICES ASSUME n >= 11 PROVE FALSE
    BY <1>4
  <2>4. n - 11 \in Nat /\ 11 + (n - 11) = n
    BY <1>4
  <2>5. Pow2[n] >= 2048
    BY <1>4, <2>3, <2>4
  <2> QED
    BY <1>1, <1>2, <1>3, <1>5, <2>5
<1>8. PICK a, c : a = Bits(0, n) /\ c = Bits(u, n + 1)
  OBVIOUS
<1>9. /\ a \in Seq(Binary) /\ Len(a) = n /\ \A i \in 1 .. n : a[i] = 0
  <2>1. 0 \in Nat
    BY SMTT(40)
  <2>2. a \in Seq(Binary) /\ Len(a) = n
    BY <1>4, <1>8, <2>1, BitsShape
  <2> QED
    BY <1>4, <1>8, <2>2, ZeroBits
<1>10. /\ c \in Seq(Binary) /\ Len(c) = n + 1
       /\ \A i \in 1 .. n + 1 : c[i] = (u \div Pow2[n + 1 - i]) % 2
  <2>1. PICK m \in 0 .. 30 : m = n + 1
    BY <1>4
  <2>2. c = Bits(u, m)
    BY <1>8, <2>1, SMTT(40)
  <2>3. /\ c \in Seq(Binary) /\ Len(c) = m
        /\ \A i \in 1 .. m : c[i] = (u \div Pow2[m - i]) % 2
    BY <2>2, BitsShape
  <2> QED
    BY <2>1, <2>3
<1>11. /\ b \in Seq(Binary) /\ Len(b) = n + (n + 1)
       /\ \A i \in 1 .. n : b[i] = a[i]
       /\ \A i \in 1 .. n + 1 : b[n + i] = c[i]
  <2>1. b = a \o c
    BY <1>3, <1>8
  <2>2. b \in Seq(Binary) /\ Len(b) = Len(a) + Len(c)
    BY <1>9, <1>10, <2>1
  <2>3. \A i \in 1 .. n : b[i] = a[i]
    BY <1>4, <1>9, <1>10, <2>1
  <2>4. \A i \in 1 .. n + 1 : b[n + i] = c[i]
    BY <1>4, <1>9, <1>10, <2>1
  <2> QED
    BY <1>9, <1>10, <2>2, <2>3, <2>4
<1>12. b[n + 1] = 1
  <2>1. u \div p = 1
    <3>1. u < 2 * p /\ ~(u < p)
      BY <1>3, <1>5, <1>6
    <3> QED
      BY <3>1, DivOnce
  <2>2. 1 \in 1 .. n + 1 /\ n + 1 - 1 = n
    BY <1>4
  <2>3. c[1] = (u \div p) % 2
    BY <1>5, <1>10, <2>2
  <2>4. b[n + 1] = c[1]
    BY <1>11, <2>2
  <2> QED
    BY <2>1, <2>3, <2>4
<1>13. ASSUME NEW i \in 1 .. n PROVE b[n + 1 + i] = (u \div Pow2[n - i]) % 2
  <2>1. i + 1 \in 1 .. n + 1 /\ n + 1 - (i + 1) = n - i /\ n + (i + 1) = n + 1 + i
    BY <1>4
  <2> QED
    BY <1>10, <1>11, <2>1, SMTT(40)
<1>14. Len(b) = 2 * n + 1 /\ Pow2[n] <= u /\ u < 2 * Pow2[n]
  BY <1>3, <1>4, <1>5, <1>6, <1>11
<1> QED
  BY <1>2, <1>7, <1>9, <1>11, <1>12, <1>13, <1>14

-----------------------------------------------------------------------------
(* Reading what was written *)

\* From p on the NAL unit has these bits.
Has(s, p, b) ==
    /\ p + Len(b) <= 8 * Len(s)
    /\ \A i \in 1 .. Len(b) : Bit(s, p + i - 1) = b[i]

\* What two sequences give one behind the other.
LEMMA CatIs ==
    ASSUME NEW T, NEW a \in Seq(T), NEW b \in Seq(T), NEW c, c = a \o b
    PROVE  /\ c \in Seq(T) /\ Len(c) = Len(a) + Len(b)
           /\ \A i \in 1 .. Len(a) : c[i] = a[i]
           /\ \A i \in 1 .. Len(b) : c[Len(a) + i] = b[i]
OBVIOUS

\* What two sequences of bits give together is found one behind the other.
LEMMA HasCat ==
    ASSUME NEW s \in Seq(Bytes), NEW p \in Nat, NEW a \in Seq(Binary), NEW b \in Seq(Binary),
           Has(s, p, a \o b)
    PROVE  Has(s, p, a) /\ Has(s, p + Len(a), b)
<1>1. PICK c : c = a \o b
  OBVIOUS
<1>2. PICK l \in Nat, m \in Nat, e \in Nat : l = Len(a) /\ m = Len(b) /\ e = 8 * Len(s)
  OBVIOUS
<1>3. /\ Len(c) = l + m
      /\ \A i \in 1 .. l : c[i] = a[i]
      /\ \A i \in 1 .. m : c[l + i] = b[i]
  BY <1>1, <1>2, CatIs
<1>4. p + (l + m) <= e /\ \A i \in 1 .. l + m : Bit(s, p + i - 1) = c[i]
  BY <1>1, <1>2, <1>3 DEF Has
<1>5. ASSUME NEW i \in 1 .. l PROVE Bit(s, p + i - 1) = a[i]
  <2>1. i \in 1 .. l + m
    OBVIOUS
  <2> QED
    BY <1>3, <1>4, <2>1
<1>6. ASSUME NEW i \in 1 .. m PROVE Bit(s, (p + l) + i - 1) = b[i]
  <2>1. l + i \in 1 .. l + m /\ p + (l + i) - 1 = (p + l) + i - 1
    OBVIOUS
  <2> QED
    BY <1>3, <1>4, <2>1
<1>7. p + l <= e /\ (p + l) + m <= e
  BY <1>4
<1> QED
  BY <1>2, <1>5, <1>6, <1>7 DEF Has

LEMMA HasOne ==
    ASSUME NEW s \in Seq(Bytes), NEW p \in Nat, NEW x, Has(s, p, <<x>>)
    PROVE  Bit(s, p) = x /\ After(s, p) = p + 1 /\ p + 1 <= 8 * Len(s)
<1>1. PICK b : b = <<x>>
  OBVIOUS
<1>2. Len(b) = 1 /\ b[1] = x
  BY <1>1
<1>3. p + 1 <= 8 * Len(s) /\ Bit(s, p + 1 - 1) = x
  BY <1>1, <1>2 DEF Has
<1>4. p + 1 - 1 = p /\ p \in 0 .. 8 * Len(s)
  BY <1>3
<1> QED
  BY <1>3, <1>4, AfterIs

\* Zeros, a 1 and as many bits again are read as one number.
LEMMA ReadsUe ==
    ASSUME NEW s \in Seq(Bytes), NEW p \in Nat, NEW v \in Ues, Has(s, p, UeBits(v))
    PROVE  /\ ReadUe(s, p) = [v |-> v, pos |-> p + Len(UeBits(v))]
           /\ ReadUe(s, p).v = v /\ ReadUe(s, p).pos = p + Len(UeBits(v))
           /\ p + Len(UeBits(v)) <= 8 * Len(s)
<1>1. PICK b : b = UeBits(v)
  OBVIOUS
<1>2. PICK n \in 0 .. 10 :
        /\ Pow2[n] <= v + 1 /\ v + 1 < 2 * Pow2[n]
        /\ b \in Seq(Binary) /\ Len(b) = 2 * n + 1
        /\ \A i \in 1 .. n : b[i] = 0
        /\ b[n + 1] = 1
        /\ \A i \in 1 .. n : b[n + 1 + i] = ((v + 1) \div Pow2[n - i]) % 2
  BY <1>1, UeShape, ZenonT(60)
<1>3. PICK e \in Nat : e = 8 * Len(s)
  OBVIOUS
<1>4. /\ p + (2 * n + 1) <= e
      /\ \A i \in 1 .. 2 * n + 1 : Bit(s, p + i - 1) = b[i]
  BY <1>1, <1>2, <1>3 DEF Has
<1>5. n \in Nat /\ n \in 0 .. 30
  OBVIOUS
<1>6. Bit(s, p + n) = 1
  <2>1. n + 1 \in 1 .. 2 * n + 1 /\ p + (n + 1) - 1 = p + n
    BY <1>5
  <2> QED
    BY <1>2, <1>4, <2>1
<1>7. ASSUME NEW q \in p .. e - 1, Bit(s, q) = 1 PROVE p + n <= q
  <2> SUFFICES ASSUME q < p + n PROVE FALSE
    BY <1>5
  <2>1. q - p + 1 \in 1 .. n /\ q - p + 1 \in 1 .. 2 * n + 1 /\ p + (q - p + 1) - 1 = q
    BY <1>5
  <2>2. Bit(s, q) = b[q - p + 1]
    BY <1>4, <2>1
  <2>3. b[q - p + 1] = 0
    BY <1>2, <2>1
  <2> QED
    BY <1>7, <2>2, <2>3
<1>8. NextOne(s, p) = p + n
  <2>1. PICK Ones : Ones = {q \in p .. e - 1 : Bit(s, q) = 1}
    OBVIOUS
  <2>2. NextOne(s, p) = IF Ones = {} THEN e ELSE Min(Ones)
    BY <1>3, <2>1 DEF NextOne
  <2>3. p + n \in Ones
    <3>1. p + n \in p .. e - 1
      BY <1>4, <1>5
    <3> QED
      BY <1>6, <2>1, <3>1
  <2>4. Ones \in SUBSET Int /\ \A q \in Ones : p + n <= q
    BY <1>7, <2>1
  <2>5. Min(Ones) = p + n
    BY <2>3, <2>4, MinIs
  <2> QED
    BY <2>2, <2>3, <2>5
<1>9. After(s, p + n) = p + n + 1
  <2>1. p + n \in 0 .. e /\ (p + n) + 1 <= e
    BY <1>4, <1>5
  <2>2. PICK m \in 0 .. 8 * Len(s) : m = p + n
    BY <1>3, <2>1
  <2>3. m + 1 <= 8 * Len(s)
    BY <1>3, <2>1, <2>2
  <2>4. After(s, m) = m + 1
    BY <2>3, AfterIs
  <2> QED
    BY <2>2, <2>4
<1>10. PICK f \in Nat : f = p + n + 1
  BY <1>5
<1>11. PICK c : c = BitsAt(s, f, n)
  OBVIOUS
<1>12. PICK u \in Nat : u = v + 1 /\ v \in Nat
  BY SMTT(40) DEF Ues
<1>13. Number(c) = u - Pow2[n]
  <2>1. c \in [1 .. n -> Nat] /\ Len(c) = n
    BY <1>5, <1>11, BitsRead
  <2>2. ASSUME NEW i \in 1 .. n PROVE c[i] = (u \div Pow2[n - i]) % 2
    <3>1. c[i] = Bit(s, f + i - 1)
      BY <1>11 DEF BitsAt
    <3>2. n + 1 + i \in 1 .. 2 * n + 1 /\ p + (n + 1 + i) - 1 = f + i - 1
      BY <1>5, <1>10
    <3>3. Bit(s, f + i - 1) = b[n + 1 + i]
      BY <1>4, <3>2
    <3>4. b[n + 1 + i] = (u \div Pow2[n - i]) % 2
      BY <1>2, <1>12
    <3> QED
      BY <3>1, <3>3, <3>4
  <2>3. u < 2 * Pow2[n] /\ ~(u < Pow2[n])
    <3>1. Pow2[n] \in Nat
      BY <1>5, Pow2Step
    <3> QED
      BY <1>2, <1>12, <3>1
  <2> QED
    BY <1>5, <2>1, <2>2, <2>3, NumberOfBits
<1>14. ReadUe(s, p) = UeFrom(s, f, n)
  <2>1. (p + n) - p = n
    BY <1>5
  <2> QED
    BY <1>8, <1>9, <1>10, <2>1 DEF ReadUe
<1>15. UeFrom(s, f, n) = [v |-> v, pos |-> p + (2 * n + 1)]
  <2>1. PICK k : k = Min({n, 24})
    OBVIOUS
  <2>2. k = n /\ ~(n > 24)
    BY <1>5, <2>1, CutAt24
  <2>3. PICK q : q = Min({f + k, e})
    OBVIOUS
  <2>4. q = p + (2 * n + 1)
    <3>1. f + n \in Int /\ e \in Int /\ f + n <= e /\ f + n = p + (2 * n + 1)
      BY <1>4, <1>5, <1>10
    <3>2. Min({f + n, e}) = f + n
      BY <3>1, MinOfTwo
    <3> QED
      BY <2>2, <2>3, <3>1, <3>2
  <2>5. PICK x \in Nat : x = Pow2[n]
    BY <1>5, Pow2Step
  <2>6. PICK y : y = Number(BitsAt(s, f, k))
    OBVIOUS
  <2>7. y = u - x
    BY <1>11, <1>13, <2>2, <2>5, <2>6
  <2>8. x - 1 + y = v
    BY <1>12, <2>7
  <2>9. UeFrom(s, f, n) = [v |-> IF n > 24 THEN 65535 ELSE x - 1 + y, pos |-> q]
    BY <1>3, <2>1, <2>3, <2>5, <2>6 DEF UeFrom
  <2> QED
    BY <2>2, <2>4, <2>8, <2>9
<1>16. p + Len(b) = p + (2 * n + 1)
  BY <1>2
<1> QED
  BY <1>1, <1>3, <1>4, <1>14, <1>15, <1>16

-----------------------------------------------------------------------------
(* Loops over the NAL unit *)

\* SkipUes is the position that its loop leaves.
LEMMA SkipUesLoop ==
    ASSUME NEW s \in Seq(Bytes), NEW p \in 0 .. 8 * Len(s), NEW k \in Nat
    PROVE  \E q \in [0 .. k -> 0 .. 8 * Len(s)] :
             /\ q[0] = p /\ \A i \in 1 .. k : q[i] = ReadUe(s, q[i - 1]).pos
             /\ SkipUes(s, p, k) = q[k]
<1>1. PICK X : X = 0 .. 8 * Len(s)
  OBVIOUS
<1>2. ASSUME NEW x \in X PROVE ReadUe(s, x).pos \in X
  <2>1. x \in 0 .. 8 * Len(s)
    BY <1>1
  <2>2. ReadUe(s, x).pos \in x .. 8 * Len(s)
    BY <2>1, ReadUeType
  <2>3. Len(s) \in Nat
    OBVIOUS
  <2> QED
    BY <1>1, <2>1, <2>2, <2>3
<1> DEFINE Q(f) == f = [i \in 0 .. k |-> IF i = 0 THEN p ELSE ReadUe(s, f[i - 1]).pos]
<1>3. \E f \in [0 .. k -> X] : Q(f)
  <2> DEFINE G == [i \in 1 .. k |-> [x \in X |-> ReadUe(s, x).pos]]
  <2>1. G \in [1 .. k -> [X -> X]]
    BY <1>2
  <2>2. \A i \in 1 .. k : \A x \in X : G[i][x] = ReadUe(s, x).pos
    OBVIOUS
  <2> HIDE DEF G
  <2>3. p \in X
    BY <1>1
  <2>4. PICK f \in [0 .. k -> X] : Runs(f, p, k, G)
    BY <2>1, <2>3, LoopRuns
  <2>5. ASSUME NEW i \in 0 .. k PROVE f[i] = IF i = 0 THEN p ELSE ReadUe(s, f[i - 1]).pos
    <3>1. i # 0 => i \in 1 .. k /\ i - 1 \in 0 .. k
      OBVIOUS
    <3>2. i # 0 => f[i - 1] \in X
      BY <3>1
    <3> QED
      BY <2>2, <2>4, <3>1, <3>2 DEF Runs
  <2>6. Q(f)
    BY <2>5, SMTT(40)
  <2> QED
    BY <2>6
<1> DEFINE q == CHOOSE f : Q(f)
<1>4. Q(q)
  BY <1>3
<1>5. SkipUes(s, p, k) = q[k]
  BY DEF SkipUes
<1> HIDE DEF q
<1>6. q[0] = p /\ \A i \in 1 .. k : q[i] = ReadUe(s, q[i - 1]).pos
  BY <1>4
<1> DEFINE S == {i \in Nat : i <= k => q[i] \in X}
<1>7. Nat \subseteq S
  <2>1. 0 \in S
    BY <1>1, <1>6
  <2>2. ASSUME NEW i \in Nat, i \in S PROVE i + 1 \in S
    <3> SUFFICES ASSUME i + 1 <= k PROVE q[i + 1] \in X
      OBVIOUS
    <3>1. i + 1 \in 1 .. k /\ (i + 1) - 1 = i /\ i <= k
      OBVIOUS
    <3>2. q[i] \in X /\ q[i + 1] = ReadUe(s, q[i]).pos
      BY <1>6, <2>2, <3>1
    <3> QED
      BY <1>2, <3>2
  <2> HIDE DEF S
  <2> QED
    BY <2>1, <2>2, InductionOn
<1>8. q \in [0 .. k -> X]
  <2>1. \A i \in 0 .. k : q[i] \in X
    BY <1>7
  <2> QED
    BY <1>4, <2>1
<1> QED
  BY <1>1, <1>5, <1>6, <1>8

\* Two numbers, one number that are passed.
LEMMA SkipsTwo ==
    ASSUME NEW s \in Seq(Bytes), NEW p \in Nat, NEW v \in Ues, NEW w \in Ues,
           Has(s, p, UeBits(v)), Has(s, p + Len(UeBits(v)), UeBits(w))
    PROVE  SkipUes(s, p, 2) = p + Len(UeBits(v)) + Len(UeBits(w))
<1>1. PICK l \in Nat, m \in Nat : l = Len(UeBits(v)) /\ m = Len(UeBits(w))
  BY UeShape
<1>2. ReadUe(s, p).pos = p + l /\ p + l <= 8 * Len(s)
  BY <1>1, ReadsUe
<1>3. p + l \in Nat /\ p \in 0 .. 8 * Len(s)
  BY <1>2
<1>4. ReadUe(s, p + l).pos = p + l + m
  BY <1>1, <1>3, ReadsUe
<1>5. PICK k \in Nat : k = 2
  OBVIOUS
<1>6. PICK q \in [0 .. k -> 0 .. 8 * Len(s)] :
        /\ q[0] = p /\ \A i \in 1 .. k : q[i] = ReadUe(s, q[i - 1]).pos
        /\ SkipUes(s, p, k) = q[k]
  BY <1>3, SkipUesLoop, ZenonT(60)
<1>7. q[1] = ReadUe(s, q[0]).pos /\ q[2] = ReadUe(s, q[1]).pos
  BY <1>5, <1>6
<1> QED
  BY <1>1, <1>2, <1>4, <1>5, <1>6, <1>7

LEMMA SkipsOne ==
    ASSUME NEW s \in Seq(Bytes), NEW p \in Nat, NEW v \in Ues, Has(s, p, UeBits(v))
    PROVE  SkipUes(s, p, 1) = p + Len(UeBits(v))
<1>1. ReadUe(s, p).pos = p + Len(UeBits(v)) /\ p + Len(UeBits(v)) <= 8 * Len(s)
  BY ReadsUe
<1>2. p \in 0 .. 8 * Len(s)
  <2>1. Len(UeBits(v)) \in Nat
    BY UeShape
  <2> QED
    BY <1>1, <2>1
<1>3. PICK k \in Nat : k = 1
  OBVIOUS
<1>4. PICK q \in [0 .. k -> 0 .. 8 * Len(s)] :
        /\ q[0] = p /\ \A i \in 1 .. k : q[i] = ReadUe(s, q[i - 1]).pos
        /\ SkipUes(s, p, k) = q[k]
  BY <1>2, SkipUesLoop
<1>5. q[1] = ReadUe(s, q[0]).pos
  BY <1>3, <1>4
<1> QED
  BY <1>1, <1>3, <1>4, <1>5

-----------------------------------------------------------------------------
(* Sequences of codes *)

\* f[i] is what the first i of the sequences give, one behind the other.
Joins(f, n, seqs) == f[0] = <<>> /\ \A i \in 1 .. n : f[i] = f[i - 1] \o seqs[i]

\* FlattenSeq is what joining one after the other leaves.
LEMMA FlattenLoop ==
    ASSUME NEW B, NEW n \in Nat \ {0}, NEW seqs \in [1 .. n -> Seq(B)]
    PROVE  \E f \in [0 .. n -> Seq(B)] : Joins(f, n, seqs) /\ FlattenSeq(seqs) = f[n]
<1>1. PICK X : X = Seq(B)
  OBVIOUS
<1>2. \A x, y \in X : x \o y \in X
  BY <1>1
<1>3. <<>> \in X /\ \A x \in X : <<>> \o x = x
  <2>1. \A x \in Seq(B) : <<>> \o x = x
    BY ConcatEmptySeq
  <2> QED
    BY <1>1, <2>1
<1>4. PICK g \in [0 .. n -> X] : Joins(g, n, seqs)
  <2> DEFINE G == [i \in 1 .. n |-> [x \in X |-> x \o seqs[i]]]
  <2>1. G \in [1 .. n -> [X -> X]]
    <3>1. \A i \in 1 .. n : seqs[i] \in X
      BY <1>1
    <3> QED
      BY <1>2, <3>1
  <2>2. \A i \in 1 .. n : \A x \in X : G[i][x] = x \o seqs[i]
    OBVIOUS
  <2> HIDE DEF G
  <2>3. PICK a : a = <<>>
    OBVIOUS
  <2>4. PICK g \in [0 .. n -> X] : Runs(g, a, n, G)
    <3>1. a \in X /\ n \in Nat
      BY <1>3, <2>3
    <3> QED
      BY <2>1, <3>1, LoopRuns
  <2>5. g[0] = <<>>
    BY <2>3, <2>4 DEF Runs
  <2>6. ASSUME NEW i \in 1 .. n PROVE g[i] = g[i - 1] \o seqs[i]
    <3>1. g[i] = G[i][g[i - 1]]
      BY <2>4 DEF Runs
    <3>2. g[i - 1] \in X
      <4>1. i - 1 \in 0 .. n
        OBVIOUS
      <4> QED
        BY <4>1
    <3> QED
      BY <2>2, <3>1, <3>2
  <2> QED
    BY <2>5, <2>6 DEF Joins
<1> DEFINE F(f) == f = [i \in 1 .. n |-> IF i = 1 THEN seqs[i] ELSE f[i - 1] \o seqs[i]]
           h == [i \in 1 .. n |-> g[i]]
<1>5. F(h)
  <2>1. ASSUME NEW i \in 1 .. n
        PROVE  g[i] = IF i = 1 THEN seqs[i] ELSE h[i - 1] \o seqs[i]
    <3>1. g[i] = g[i - 1] \o seqs[i] /\ g[0] = <<>>
      BY <1>4 DEF Joins
    <3>2. CASE i = 1
      <4>1. seqs[i] \in X /\ i - 1 = 0
        BY <1>1, <3>2
      <4> QED
        BY <1>3, <3>1, <3>2, <4>1
    <3>3. CASE i # 1
      <4>1. i - 1 \in 1 .. n
        BY <3>3, SMTT(40)
      <4> QED
        BY <3>1, <3>3, <4>1
    <3> QED
      BY <3>2, <3>3
  <2> QED
    BY <2>1
<1> DEFINE flatten == CHOOSE f : F(f)
<1>6. F(flatten)
  BY <1>5, ZenonT(60)
<1>7. FlattenSeq(seqs) = flatten[n]
  <2>1. Len(seqs) = n /\ n # 0
    <3>1. n \in Nat
      OBVIOUS
    <3> QED
      BY <3>1, IsSeq
  <2> QED
    BY <2>1 DEF FlattenSeq
<1> HIDE DEF flatten, h
<1>8. /\ flatten[1] = seqs[1]
      /\ \A i \in 2 .. n : flatten[i] = flatten[i - 1] \o seqs[i]
  <2>1. 1 \in 1 .. n
    OBVIOUS
  <2>2. ASSUME NEW i \in 2 .. n PROVE flatten[i] = flatten[i - 1] \o seqs[i]
    <3>1. i \in 1 .. n /\ i # 1
      OBVIOUS
    <3> QED
      BY <1>6, <3>1
  <2> QED
    BY <1>6, <2>1, <2>2
<1> DEFINE S == {i \in Nat : i + 1 <= n => flatten[i + 1] = g[i + 1]}
<1>9. Nat \subseteq S
  <2>1. 0 \in S
    <3>1. 1 \in 1 .. n /\ 1 - 1 = 0
      OBVIOUS
    <3>2. g[1] = g[0] \o seqs[1] /\ g[0] = <<>> /\ seqs[1] \in X
      BY <1>1, <1>4, <3>1 DEF Joins
    <3> QED
      BY <1>3, <1>8, <3>2
  <2>2. ASSUME NEW i \in Nat, i \in S PROVE i + 1 \in S
    <3> SUFFICES ASSUME i + 1 + 1 <= n PROVE flatten[i + 1 + 1] = g[i + 1 + 1]
      OBVIOUS
    <3>1. PICK j \in 2 .. n : j = i + 1 + 1 /\ j \in 1 .. n /\ j - 1 = i + 1
      OBVIOUS
    <3>2. PICK k \in 1 .. n : k = i + 1 /\ j - 1 = k /\ k <= n
      BY <3>1
    <3>3. flatten[k] = g[k]
      BY <2>2, <3>2
    <3>4. g[j] = g[k] \o seqs[j]
      BY <1>4, <3>1, <3>2 DEF Joins
    <3>5. flatten[j] = flatten[k] \o seqs[j]
      BY <1>8, <3>1, <3>2
    <3>6. flatten[j] = g[j]
      BY <3>3, <3>4, <3>5
    <3> QED
      BY <3>1, <3>6
  <2> HIDE DEF S
  <2> QED
    BY <2>1, <2>2, InductionOn
<1>10. flatten[n] = g[n]
  <2>1. PICK m \in Nat : m + 1 = n
    <3>1. n - 1 \in Nat /\ (n - 1) + 1 = n
      OBVIOUS
    <3> QED
      BY <3>1
  <2>2. m + 1 <= n
    BY <2>1
  <2>3. flatten[m + 1] = g[m + 1]
    BY <1>9, <2>2
  <2> QED
    BY <2>1, <2>3
<1> QED
  BY <1>1, <1>4, <1>7, <1>10

\* Joined bits are found each behind the ones before.
LEMMA HasJoined ==
    ASSUME NEW s \in Seq(Bytes), NEW p \in Nat, NEW n \in Nat,
           NEW seqs \in [1 .. n -> Seq(Binary)], NEW f \in [0 .. n -> Seq(Binary)],
           Joins(f, n, seqs), Has(s, p, f[n])
    PROVE  \A i \in 1 .. n : Has(s, p + Len(f[i - 1]), seqs[i])
<1>1. ASSUME NEW i \in 1 .. n
      PROVE  /\ f[i] = f[i - 1] \o seqs[i]
             /\ f[i - 1] \in Seq(Binary) /\ seqs[i] \in Seq(Binary)
  <2>1. i - 1 \in 0 .. n
    OBVIOUS
  <2> QED
    BY <2>1 DEF Joins
<1> DEFINE S == {j \in Nat : j <= n => Has(s, p, f[n - j])}
<1>2. Nat \subseteq S
  <2>1. 0 \in S
    <3>1. n - 0 = n
      OBVIOUS
    <3> QED
      BY <3>1
  <2>2. ASSUME NEW j \in Nat, j \in S PROVE j + 1 \in S
    <3> SUFFICES ASSUME j + 1 <= n PROVE Has(s, p, f[n - (j + 1)])
      OBVIOUS
    <3>1. n - j \in 1 .. n /\ (n - j) - 1 = n - (j + 1) /\ j <= n
      OBVIOUS
    <3>2. Has(s, p, f[n - j])
      BY <2>2, <3>1
    <3>3. PICK a \in Seq(Binary), b \in Seq(Binary) :
            f[n - j] = a \o b /\ a = f[n - (j + 1)]
      BY <1>1, <3>1
    <3>4. Has(s, p, a \o b)
      BY <3>2, <3>3
    <3>5. Has(s, p, a)
      BY <3>4, HasCat
    <3> QED
      BY <3>3, <3>5
  <2> HIDE DEF S
  <2> QED
    BY <2>1, <2>2, InductionOn
<1>3. ASSUME NEW i \in 1 .. n PROVE Has(s, p + Len(f[i - 1]), seqs[i])
  <2>1. n - i \in Nat /\ n - i <= n /\ n - (n - i) = i
    OBVIOUS
  <2>2. Has(s, p, f[i])
    BY <1>2, <2>1
  <2>3. PICK a \in Seq(Binary), b \in Seq(Binary) : a = f[i - 1] /\ b = seqs[i]
    BY <1>1
  <2>4. Has(s, p, a \o b)
    BY <1>1, <2>2, <2>3
  <2>5. Has(s, p + Len(a), b)
    BY <2>4, HasCat
  <2> QED
    BY <2>3, <2>5
<1> QED
  BY <1>3

-----------------------------------------------------------------------------
(* Scaling lists *)

\* The increments of a scaling list.
Increments == -128 .. 127

\* The code of an increment is one of the numbers that can be read back.
LEMMA SeCodeIs ==
    ASSUME NEW v \in Increments
    PROVE  SeCode(v) \in Ues /\ SeCode(v) \in Nat /\ SeCode(v) <= 256
BY DEF SeCode, Increments, Ues

\* The states of the loop over a scaling list.
ListStates(s) == [pos : 0 .. 8 * Len(s), nxt : Nat, last : Nat]

\* One round of the loop over a scaling list.
LEMMA IncrementType ==
    ASSUME NEW s \in Seq(Bytes), NEW x \in ListStates(s)
    PROVE  /\ Increment(s, x) \in ListStates(s)
           /\ x.nxt # 0 => /\ Increment(s, x).pos = ReadUe(s, x.pos).pos
                           /\ Increment(s, x).nxt = (x.last + ReadUe(s, x.pos).v) % 256
                           /\ Increment(s, x).nxt # 0 =>
                                Increment(s, x).last = Increment(s, x).nxt
<1>1. x.pos \in 0 .. 8 * Len(s) /\ x.nxt \in Nat /\ x.last \in Nat
  BY DEF ListStates
<1>2. PICK u : u = ReadUe(s, x.pos)
  OBVIOUS
<1>3. u.v \in Nat /\ u.pos \in 0 .. 8 * Len(s)
  <2>1. u.v \in Nat /\ u.pos \in x.pos .. 8 * Len(s)
    BY <1>1, <1>2, ReadUeType
  <2>2. PICK e \in Nat : e = 8 * Len(s)
    OBVIOUS
  <2> QED
    BY <1>1, <2>1, <2>2
<1>4. PICK v \in Nat : v = (x.last + u.v) % 256
  BY <1>1, <1>3
<1>5. CASE x.nxt = 0
  BY <1>5 DEF Increment
<1>6. CASE x.nxt # 0
  <2>1. Increment(s, x) = [pos |-> u.pos, nxt |-> v, last |-> IF v = 0 THEN x.last ELSE v]
    BY <1>2, <1>4, <1>6 DEF Increment
  <2> QED
    BY <1>1, <1>2, <1>3, <1>4, <2>1 DEF ListStates
<1> QED
  BY <1>5, <1>6

\* ScalingList is the position that its loop leaves.
LEMMA ScalingListLoop ==
    ASSUME NEW s \in Seq(Bytes), NEW p \in 0 .. 8 * Len(s), NEW n \in Nat
    PROVE  \E x \in [0 .. n -> ListStates(s)] :
             /\ x[0] = [pos |-> p, nxt |-> 8, last |-> 8]
             /\ \A i \in 1 .. n : x[i] = Increment(s, x[i - 1])
             /\ ScalingList(s, p, n) = x[n].pos
<1>1. PICK X : X = ListStates(s)
  OBVIOUS
<1>2. \A x \in X : Increment(s, x) \in X
  BY <1>1, IncrementType
<1>3. PICK a : a = [pos |-> p, nxt |-> 8, last |-> 8]
  OBVIOUS
<1>4. a \in X
  BY <1>1, <1>3 DEF ListStates
<1> DEFINE Q(f) == f = [i \in 0 .. n |-> IF i = 0 THEN [pos |-> p, nxt |-> 8, last |-> 8]
                                         ELSE Increment(s, f[i - 1])]
<1>5. \E f \in [0 .. n -> X] : Q(f)
  <2> DEFINE G == [i \in 1 .. n |-> [x \in X |-> Increment(s, x)]]
  <2>1. G \in [1 .. n -> [X -> X]]
    BY <1>2
  <2>2. \A i \in 1 .. n : \A x \in X : G[i][x] = Increment(s, x)
    OBVIOUS
  <2> HIDE DEF G
  <2>3. PICK f \in [0 .. n -> X] : Runs(f, a, n, G)
    BY <1>4, <2>1, LoopRuns
  <2>4. ASSUME NEW i \in 0 .. n
        PROVE  f[i] = IF i = 0 THEN [pos |-> p, nxt |-> 8, last |-> 8]
                      ELSE Increment(s, f[i - 1])
    <3>1. i # 0 => i \in 1 .. n /\ i - 1 \in 0 .. n
      OBVIOUS
    <3>2. i # 0 => f[i - 1] \in X
      BY <3>1
    <3> QED
      BY <1>3, <2>2, <2>3, <3>1, <3>2 DEF Runs
  <2>5. Q(f)
    BY <2>4
  <2> QED
    BY <2>5
<1> DEFINE x == CHOOSE f : Q(f)
<1>6. Q(x)
  BY <1>5
<1>7. ScalingList(s, p, n) = x[n].pos
  BY DEF ScalingList
<1> HIDE DEF x
<1>8. x[0] = a /\ \A i \in 1 .. n : x[i] = Increment(s, x[i - 1])
  BY <1>3, <1>6
<1> DEFINE S == {i \in Nat : i <= n => x[i] \in X}
<1>9. Nat \subseteq S
  <2>1. 0 \in S
    BY <1>4, <1>8
  <2>2. ASSUME NEW i \in Nat, i \in S PROVE i + 1 \in S
    <3> SUFFICES ASSUME i + 1 <= n PROVE x[i + 1] \in X
      OBVIOUS
    <3>1. i + 1 \in 1 .. n /\ (i + 1) - 1 = i /\ i <= n
      OBVIOUS
    <3>2. x[i] \in X /\ x[i + 1] = Increment(s, x[i])
      BY <1>8, <2>2, <3>1
    <3> QED
      BY <1>2, <3>2
  <2> HIDE DEF S
  <2> QED
    BY <2>1, <2>2, InductionOn
<1>10. x \in [0 .. n -> X]
  <2>1. \A i \in 0 .. n : x[i] \in X
    BY <1>9
  <2> QED
    BY <1>6, <2>1
<1> QED
  BY <1>1, <1>3, <1>7, <1>8, <1>10

\* Scales is what the loop over the increments leaves.
LEMMA ScalesLoop ==
    ASSUME NEW l \in Seq(Increments)
    PROVE  \E t \in [0 .. Len(l) -> Nat] :
             /\ t[0] = 8 /\ \A i \in 1 .. Len(l) : t[i] = (t[i - 1] + SeCode(l[i])) % 256
             /\ Scales(l) = t
<1>1. PICK n \in Nat : n = Len(l)
  OBVIOUS
<1>2. ASSUME NEW i \in 1 .. n, NEW x \in Nat PROVE (x + SeCode(l[i])) % 256 \in Nat
  <2>1. l[i] \in Increments
    BY <1>1
  <2>2. SeCode(l[i]) \in Nat
    BY <2>1, SeCodeIs
  <2> QED
    BY <2>2
<1> DEFINE Q(f) == f = [i \in 0 .. Len(l) |-> IF i = 0 THEN 8
                                              ELSE (f[i - 1] + SeCode(l[i])) % 256]
<1>3. \E f \in [0 .. n -> Nat] : Q(f)
  <2> DEFINE G == [i \in 1 .. n |-> [x \in Nat |-> (x + SeCode(l[i])) % 256]]
  <2>1. G \in [1 .. n -> [Nat -> Nat]]
    BY <1>2
  <2>2. \A i \in 1 .. n : \A x \in Nat : G[i][x] = (x + SeCode(l[i])) % 256
    OBVIOUS
  <2> HIDE DEF G
  <2>3. PICK X, a : X = Nat /\ a = 8
    OBVIOUS
  <2>4. PICK f \in [0 .. n -> X] : Runs(f, a, n, G)
    <3>1. a \in X /\ G \in [1 .. n -> [X -> X]]
      BY <2>1, <2>3
    <3> QED
      BY <3>1, LoopRuns
  <2>5. ASSUME NEW i \in 0 .. n
        PROVE  f[i] = IF i = 0 THEN 8 ELSE (f[i - 1] + SeCode(l[i])) % 256
    <3>1. i # 0 => i \in 1 .. n /\ i - 1 \in 0 .. n
      OBVIOUS
    <3>2. i # 0 => f[i - 1] \in Nat
      BY <2>3, <3>1
    <3>3. i = 0 => f[i] = 8
      BY <2>3, <2>4 DEF Runs
    <3>4. ASSUME i # 0 PROVE f[i] = (f[i - 1] + SeCode(l[i])) % 256
      <4>1. PICK y \in Nat : y = f[i - 1]
        BY <3>2, <3>4
      <4>2. G[i][y] = (y + SeCode(l[i])) % 256
        BY <2>2, <3>1, <3>4, <4>1
      <4>3. f[i] = G[i][y]
        BY <2>4, <3>1, <3>4, <4>1 DEF Runs
      <4> QED
        BY <4>1, <4>2, <4>3
    <3> QED
      BY <3>3, <3>4
  <2>6. Q(f)
    BY <1>1, <2>5
  <2> QED
    BY <2>3, <2>6
<1> DEFINE t == CHOOSE f : Q(f)
<1>4. Q(t)
  BY <1>3, ZenonT(60)
<1>5. Scales(l) = t
  BY DEF Scales
<1> HIDE DEF t
<1>6. t[0] = 8 /\ \A i \in 1 .. n : t[i] = (t[i - 1] + SeCode(l[i])) % 256
  BY <1>1, <1>4
<1> DEFINE S == {i \in Nat : i <= n => t[i] \in Nat}
<1>7. Nat \subseteq S
  <2>1. 0 \in S
    BY <1>6
  <2>2. ASSUME NEW i \in Nat, i \in S PROVE i + 1 \in S
    <3> SUFFICES ASSUME i + 1 <= n PROVE t[i + 1] \in Nat
      OBVIOUS
    <3>1. i + 1 \in 1 .. n /\ (i + 1) - 1 = i /\ i <= n
      OBVIOUS
    <3>2. t[i] \in Nat /\ t[i + 1] = (t[i] + SeCode(l[i + 1])) % 256
      BY <1>6, <2>2, <3>1
    <3> QED
      BY <1>2, <3>1, <3>2, ZenonT(60)
  <2> HIDE DEF S
  <2> QED
    BY <2>1, <2>2, InductionOn
<1>8. t \in [0 .. n -> Nat]
  <2>1. \A i \in 0 .. n : t[i] \in Nat
    BY <1>7
  <2> QED
    BY <1>1, <1>4, <2>1
<1> QED
  BY <1>1, <1>5, <1>6, <1>8

\* The codes of the increments, each by itself.
Codes(l) == [i \in 1 .. Len(l) |-> SeBits(l[i])]

LEMMA Single ==
    ASSUME NEW T, NEW x \in T
    PROVE  <<x>> \in Seq(T) /\ Len(<<x>>) = 1
OBVIOUS

LEMMA Flags ==
    /\ 0 \in Binary /\ 1 \in Binary /\ <<>> \in Seq(Binary)
    /\ <<0>> \in Seq(Binary) /\ <<1>> \in Seq(Binary) /\ Len(<<0>>) = 1 /\ Len(<<1>>) = 1
<1>1. PICK x, y : x = 0 /\ y = 1
  OBVIOUS
<1>2. x \in Binary /\ y \in Binary
  BY <1>1 DEF Binary
<1>3. <<x>> \in Seq(Binary) /\ <<y>> \in Seq(Binary) /\ Len(<<x>>) = 1 /\ Len(<<y>>) = 1
  BY <1>2, Single
<1> QED
  BY <1>1, <1>2, <1>3

LEMMA JoinedStep ==
    ASSUME NEW n \in Nat, NEW seqs \in [1 .. n -> Seq(Binary)], NEW f \in [0 .. n -> Seq(Binary)],
           Joins(f, n, seqs)
    PROVE  \A k \in 1 .. n :
             /\ f[k - 1] \in Seq(Binary) /\ f[k] \in Seq(Binary) /\ seqs[k] \in Seq(Binary)
             /\ f[k] = f[k - 1] \o seqs[k]
             /\ Len(f[k - 1]) \in Nat /\ Len(seqs[k]) \in Nat
             /\ Len(f[k]) = Len(f[k - 1]) + Len(seqs[k])
<1> SUFFICES ASSUME NEW k \in 1 .. n
             PROVE  /\ f[k - 1] \in Seq(Binary) /\ f[k] \in Seq(Binary)
                    /\ seqs[k] \in Seq(Binary) /\ f[k] = f[k - 1] \o seqs[k]
                    /\ Len(f[k - 1]) \in Nat /\ Len(seqs[k]) \in Nat
                    /\ Len(f[k]) = Len(f[k - 1]) + Len(seqs[k])
  OBVIOUS
<1>1. PICK i \in 0 .. n : k - 1 = i
  OBVIOUS
<1>2. f[k] = f[i] \o seqs[k]
  BY <1>1 DEF Joins
<1>3. i \in 0 .. n /\ k \in 0 .. n
  BY <1>1
<1>4. f[i] \in Seq(Binary) /\ seqs[k] \in Seq(Binary) /\ f[k] \in Seq(Binary)
  BY <1>1, <1>3
<1>5. Len(f[k]) = Len(f[i]) + Len(seqs[k])
  BY <1>2, <1>4, CatIs
<1> QED
  BY <1>1, <1>2, <1>4, <1>5

\* They are numbers that can be read back.
LEMMA CodesAre ==
    ASSUME NEW l \in Seq(Increments)
    PROVE  /\ Codes(l) \in [1 .. Len(l) -> Seq(Binary)]
           /\ \A i \in 1 .. Len(l) : Codes(l)[i] = UeBits(SeCode(l[i])) /\ SeCode(l[i]) \in Ues
<1>1. ASSUME NEW i \in 1 .. Len(l)
      PROVE  SeBits(l[i]) \in Seq(Binary) /\ SeBits(l[i]) = UeBits(SeCode(l[i]))
             /\ SeCode(l[i]) \in Ues
  <2>1. l[i] \in Increments
    OBVIOUS
  <2>2. PICK v \in Ues : v = SeCode(l[i])
    BY <2>1, SeCodeIs
  <2>3. UeBits(v) \in Seq(Binary)
    BY UeShape
  <2> QED
    BY <2>2, <2>3 DEF SeBits
<1> QED
  BY <1>1 DEF Codes

\* A list that is read whole is passed to its end.
LEMMA ScalingListReads ==
    ASSUME NEW s \in Seq(Bytes), NEW p \in Nat, NEW l \in Seq(Increments), l # <<>>,
           ReadWhole(l), Has(s, p, FlattenSeq(Codes(l)))
    PROVE  ScalingList(s, p, Len(l)) = p + Len(FlattenSeq(Codes(l)))
<1>1. PICK n \in Nat \ {0} : n = Len(l)
  OBVIOUS
<1>2. PICK c \in [1 .. n -> Seq(Binary)] : c = Codes(l)
  BY <1>1, CodesAre
<1>3. \A i \in 1 .. n : c[i] = UeBits(SeCode(l[i])) /\ SeCode(l[i]) \in Ues
  BY <1>1, <1>2, CodesAre
<1>4. PICK f \in [0 .. n -> Seq(Binary)] : Joins(f, n, c) /\ FlattenSeq(c) = f[n]
  BY FlattenLoop
<1>5. Has(s, p, f[n]) /\ f[0] = <<>> /\ n \in Nat /\ n \in 0 .. n
  BY <1>2, <1>4 DEF Joins
<1>6. \A i \in 1 .. n : Has(s, p + Len(f[i - 1]), c[i])
  BY <1>4, <1>5, HasJoined
<1>6a. \A j \in 1 .. n : /\ Len(f[j - 1]) \in Nat /\ Len(c[j]) \in Nat
                        /\ Len(f[j]) = Len(f[j - 1]) + Len(c[j])
  BY <1>4, <1>5, JoinedStep, ZenonT(60)
<1>7. p \in 0 .. 8 * Len(s)
  <2>1. Len(f[n]) \in Nat /\ Len(s) \in Nat
    <3>1. f[n] \in Seq(Binary)
      BY <1>5
    <3> QED
      BY <3>1
  <2> QED
    BY <1>5, <2>1 DEF Has
<1>8. PICK x \in [0 .. n -> ListStates(s)] :
        /\ x[0] = [pos |-> p, nxt |-> 8, last |-> 8]
        /\ \A i \in 1 .. n : x[i] = Increment(s, x[i - 1])
        /\ ScalingList(s, p, n) = x[n].pos
  BY <1>5, <1>7, ScalingListLoop
<1>9. PICK t \in [0 .. n -> Nat] :
        /\ t[0] = 8 /\ \A i \in 1 .. n : t[i] = (t[i - 1] + SeCode(l[i])) % 256
        /\ Scales(l) = t
  <2>1. PICK t \in [0 .. Len(l) -> Nat] :
          /\ t[0] = 8 /\ \A i \in 1 .. Len(l) : t[i] = (t[i - 1] + SeCode(l[i])) % 256
          /\ Scales(l) = t
    BY ScalesLoop
  <2>2. t \in [0 .. n -> Nat]
    BY <1>1
  <2>3. \A i \in 1 .. n : t[i] = (t[i - 1] + SeCode(l[i])) % 256
    BY <1>1, <2>1
  <2> QED
    BY <2>1, <2>2, <2>3
<1>10. \A i \in 0 .. n - 1 : t[i] # 0
  BY <1>1, <1>9 DEF ReadWhole
<1> DEFINE S == {i \in Nat : i <= n => /\ x[i].pos = p + Len(f[i])
                                       /\ i < n => x[i].nxt = t[i] /\ x[i].last = t[i]}
<1>11. Nat \subseteq S
  <2>1. 0 \in S
    <3>1. Len(f[0]) = 0
      BY <1>5
    <3>2. x[0].pos = p /\ x[0].nxt = 8 /\ x[0].last = 8
      BY <1>8
    <3>3. PICK z \in Nat : z = 0
      OBVIOUS
    <3>4. x[z].pos = p + Len(f[z]) /\ x[z].nxt = t[z] /\ x[z].last = t[z]
      <4>1. PICK g : g = Len(f[z])
        OBVIOUS
      <4>2. g = 0 /\ p + g = p /\ t[z] = 8
        BY <1>9, <3>1, <3>3, <4>1
      <4> QED
        BY <3>2, <3>3, <4>1, <4>2
    <3>5. z \in S
      BY <3>4
    <3> QED
      BY <3>3, <3>5
  <2>2. ASSUME NEW i \in Nat, i \in S PROVE i + 1 \in S
    <3> SUFFICES ASSUME i + 1 <= n
                 PROVE  /\ x[i + 1].pos = p + Len(f[i + 1])
                        /\ i + 1 < n => x[i + 1].nxt = t[i + 1] /\ x[i + 1].last = t[i + 1]
      OBVIOUS
    <3>1. PICK k \in 1 .. n : k = i + 1 /\ k - 1 = i /\ i \in 0 .. n - 1 /\ i \in 0 .. n
      OBVIOUS
    <3>2. PICK y : y = x[i]
      OBVIOUS
    <3>3. y \in ListStates(s) /\ y.pos = p + Len(f[i]) /\ y.nxt = t[i] /\ y.last = t[i]
      BY <2>2, <3>1, <3>2
    <3>4. y.nxt # 0
      BY <1>10, <3>1, <3>3
    <3>5. x[k] = Increment(s, y)
      BY <1>8, <3>1, <3>2
    <3>6. PICK v \in Ues : v = SeCode(l[k]) /\ c[k] = UeBits(v)
      BY <1>3
    <3>7. Len(f[i]) \in Nat /\ Len(c[k]) \in Nat /\ Len(f[k]) = Len(f[i]) + Len(c[k])
      BY <1>6a, <3>1
    <3>8. PICK q \in Nat : q = p + Len(f[i])
      BY <3>7
    <3>9. Has(s, q, UeBits(v))
      BY <1>6, <3>1, <3>6, <3>8
    <3>10. ReadUe(s, q).v = v /\ ReadUe(s, q).pos = q + Len(UeBits(v))
      BY <3>9, ReadsUe
    <3>11. /\ x[k].pos = q + Len(UeBits(v))
           /\ x[k].nxt = (t[i] + v) % 256
           /\ x[k].nxt # 0 => x[k].last = x[k].nxt
      <4>1. PICK z : z = Increment(s, y)
        OBVIOUS
      <4>2. /\ z.pos = ReadUe(s, y.pos).pos
            /\ z.nxt = (y.last + ReadUe(s, y.pos).v) % 256
            /\ z.nxt # 0 => z.last = z.nxt
        BY <3>3, <3>4, <4>1, IncrementType, SMTT(40)
      <4>3. y.pos = q /\ y.last = t[i] /\ x[k] = z
        BY <3>3, <3>5, <3>8, <4>1
      <4>4. z.pos = q + Len(UeBits(v)) /\ z.nxt = (t[i] + v) % 256
        BY <3>10, <4>2, <4>3
      <4> QED
        BY <4>2, <4>3, <4>4
    <3>12. x[k].pos = p + Len(f[k])
      <4>1. PICK a \in Nat, b \in Nat : a = Len(f[i]) /\ b = Len(c[k])
        BY <3>7
      <4>2. x[k].pos = q + b /\ q = p + a /\ Len(f[k]) = a + b
        BY <3>6, <3>7, <3>8, <3>11, <4>1
      <4> QED
        BY <4>2
    <3>13. x[k].nxt = t[k]
      BY <1>9, <3>1, <3>6, <3>11
    <3>14. k < n => t[k] # 0
      <4>1. k < n => k \in 0 .. n - 1
        OBVIOUS
      <4> QED
        BY <1>10, <4>1
    <3> QED
      BY <3>1, <3>11, <3>12, <3>13, <3>14
  <2> HIDE DEF S
  <2> QED
    BY <2>1, <2>2, InductionOn
<1>12. x[n].pos = p + Len(f[n])
  BY <1>5, <1>11
<1> QED
  BY <1>1, <1>2, <1>4, <1>8, <1>12

LEMMA PassListType ==
    ASSUME NEW s \in Seq(Bytes), NEW p \in 0 .. 8 * Len(s), NEW m \in Nat
    PROVE  PassList(s, p, m) \in 0 .. 8 * Len(s)
<1>1. PICK q \in 0 .. 8 * Len(s) : q = After(s, p)
  <2>1. After(s, p) \in p .. 8 * Len(s)
    BY AfterIs
  <2> QED
    BY <2>1
<1>2. PICK n \in Nat : n = ListSize(m)
  BY DEF ListSize
<1>3. PICK x \in [0 .. n -> ListStates(s)] : ScalingList(s, q, n) = x[n].pos
  BY ScalingListLoop
<1>4. x[n] \in ListStates(s)
  OBVIOUS
<1>5. ScalingList(s, q, n) \in 0 .. 8 * Len(s)
  BY <1>3, <1>4 DEF ListStates
<1> QED
  BY <1>1, <1>2, <1>5 DEF PassList

\* A list that is not sent, or is sent to its end and read whole.
WholeList(l, m) ==
    l \in Seq(Increments) /\ (l = <<>> \/ (Len(l) = ListSize(m) /\ ReadWhole(l)))

\* A list by its two forms.
LEMMA ListBitsAre ==
    ASSUME NEW l \in Seq(Increments)
    PROVE  /\ ListBits(l) \in Seq(Binary)
           /\ l = <<>> => ListBits(l) = <<0>>
           /\ l # <<>> => /\ ListBits(l) = <<1>> \o FlattenSeq(Codes(l))
                          /\ FlattenSeq(Codes(l)) \in Seq(Binary)
<1>1. <<0>> \in Seq(Binary) /\ <<1>> \in Seq(Binary)
  BY Flags
<1>2. CASE l = <<>>
  <2>1. ListBits(l) = <<0>>
    BY <1>2 DEF ListBits
  <2> QED
    BY <1>1, <1>2, <2>1
<1>3. CASE l # <<>>
  <2>1. ListBits(l) = <<1>> \o FlattenSeq(Codes(l))
    BY <1>3 DEF ListBits, Codes
  <2>2. PICK n \in Nat \ {0} : n = Len(l)
    BY <1>3
  <2>3. PICK c \in [1 .. n -> Seq(Binary)] : c = Codes(l)
    BY <2>2, CodesAre
  <2>4. PICK f \in [0 .. n -> Seq(Binary)] : FlattenSeq(c) = f[n]
    BY FlattenLoop
  <2>5. f[n] \in Seq(Binary)
    OBVIOUS
  <2>6. PICK a \in Seq(Binary), d \in Seq(Binary) : a = <<1>> /\ d = FlattenSeq(Codes(l))
    BY <1>1, <2>3, <2>4, <2>5
  <2>7. a \o d \in Seq(Binary)
    OBVIOUS
  <2> QED
    BY <1>3, <2>1, <2>6, <2>7
<1> QED
  BY <1>2, <1>3

\* A list that is not sent, or read whole, is passed to its end.
LEMMA PassListReads ==
    ASSUME NEW s \in Seq(Bytes), NEW p \in Nat, NEW m \in Nat, NEW l, WholeList(l, m),
           Has(s, p, ListBits(l))
    PROVE  PassList(s, p, m) = p + Len(ListBits(l))
<1>1. l \in Seq(Increments)
  BY DEF WholeList
<1>2. CASE l = <<>>
  <2>1. ListBits(l) = <<0>>
    BY <1>1, <1>2, ListBitsAre
  <2>2. Bit(s, p) = 0 /\ After(s, p) = p + 1
    BY <2>1, HasOne
  <2>3. Len(ListBits(l)) = 1
    BY <2>1
  <2> QED
    BY <2>2, <2>3 DEF PassList
<1>3. CASE l # <<>>
  <2>1. PICK c \in Seq(Binary) : c = FlattenSeq(Codes(l)) /\ ListBits(l) = <<1>> \o c
    BY <1>1, <1>3, ListBitsAre
  <2>2. PICK a \in Seq(Binary) : a = <<1>>
    BY Flags
  <2>3. Has(s, p, a) /\ Has(s, p + Len(a), c)
    <3>1. Has(s, p, a \o c)
      BY <2>1, <2>2
    <3> QED
      BY <3>1, HasCat
  <2>4. Len(a) = 1 /\ Len(ListBits(l)) = 1 + Len(c)
    BY <2>1, <2>2
  <2>5. Bit(s, p) = 1 /\ After(s, p) = p + 1
    BY <2>2, <2>3, HasOne
  <2>6. PICK q \in Nat : q = p + 1
    OBVIOUS
  <2>7. Has(s, q, c)
    BY <2>3, <2>4, <2>6
  <2>8. ReadWhole(l) /\ Len(l) = ListSize(m)
    BY <1>3 DEF WholeList
  <2>9. ScalingList(s, q, Len(l)) = q + Len(c)
    BY <1>1, <1>3, <2>1, <2>7, <2>8, ScalingListReads
  <2>10. PassList(s, p, m) = q + Len(c)
    BY <2>5, <2>6, <2>8, <2>9 DEF PassList
  <2> QED
    BY <2>4, <2>6, <2>10
<1> QED
  BY <1>2, <1>3

\* The bits of the lists there may be, of each by itself.
Lists(lists) == [m \in 1 .. Len(lists) |-> ListBits(lists[m])]

\* ScalingLists is the position that its loop leaves.
LEMMA ScalingListsLoop ==
    ASSUME NEW s \in Seq(Bytes), NEW p \in 0 .. 8 * Len(s), NEW n \in Nat
    PROVE  \E q \in [0 .. n -> 0 .. 8 * Len(s)] :
             /\ q[0] = p /\ \A m \in 1 .. n : q[m] = PassList(s, q[m - 1], m)
             /\ ScalingLists(s, p, n) = q[n]
<1>1. PICK X : X = 0 .. 8 * Len(s)
  OBVIOUS
<1>2. ASSUME NEW x \in X, NEW m \in 1 .. n PROVE PassList(s, x, m) \in X
  <2>1. x \in 0 .. 8 * Len(s) /\ m \in Nat
    BY <1>1
  <2>2. PassList(s, x, m) \in 0 .. 8 * Len(s)
    BY <2>1, PassListType
  <2> QED
    BY <1>1, <2>2
<1> DEFINE Q(f) == f = [m \in 0 .. n |-> IF m = 0 THEN p ELSE PassList(s, f[m - 1], m)]
<1>3. \E f \in [0 .. n -> X] : Q(f)
  <2> DEFINE G == [m \in 1 .. n |-> [x \in X |-> PassList(s, x, m)]]
  <2>1. G \in [1 .. n -> [X -> X]]
    BY <1>2
  <2>2. \A m \in 1 .. n : \A x \in X : G[m][x] = PassList(s, x, m)
    OBVIOUS
  <2> HIDE DEF G
  <2>3. p \in X
    BY <1>1
  <2>4. PICK f \in [0 .. n -> X] : Runs(f, p, n, G)
    BY <2>1, <2>3, LoopRuns
  <2>5. ASSUME NEW m \in 0 .. n
        PROVE  f[m] = IF m = 0 THEN p ELSE PassList(s, f[m - 1], m)
    <3>1. m # 0 => m \in 1 .. n /\ m - 1 \in 0 .. n
      OBVIOUS
    <3>2. m # 0 => f[m - 1] \in X
      BY <3>1
    <3> QED
      BY <2>2, <2>4, <3>1, <3>2 DEF Runs
  <2>6. Q(f)
    BY <2>5
  <2> QED
    BY <2>6
<1> DEFINE q == CHOOSE f : Q(f)
<1>4. Q(q)
  BY <1>3
<1>5. ScalingLists(s, p, n) = q[n]
  BY DEF ScalingLists
<1> HIDE DEF q
<1>6. q[0] = p /\ \A m \in 1 .. n : q[m] = PassList(s, q[m - 1], m)
  BY <1>4
<1> DEFINE S == {i \in Nat : i <= n => q[i] \in X}
<1>7. Nat \subseteq S
  <2>1. 0 \in S
    BY <1>1, <1>6
  <2>2. ASSUME NEW i \in Nat, i \in S PROVE i + 1 \in S
    <3> SUFFICES ASSUME i + 1 <= n PROVE q[i + 1] \in X
      OBVIOUS
    <3>1. i + 1 \in 1 .. n /\ (i + 1) - 1 = i /\ i <= n
      OBVIOUS
    <3>2. q[i] \in X /\ q[i + 1] = PassList(s, q[i], i + 1)
      BY <1>6, <2>2, <3>1
    <3> QED
      BY <1>2, <3>1, <3>2
  <2> HIDE DEF S
  <2> QED
    BY <2>1, <2>2, InductionOn
<1>8. q \in [0 .. n -> X]
  <2>1. \A i \in 0 .. n : q[i] \in X
    BY <1>7
  <2> QED
    BY <1>4, <2>1
<1> QED
  BY <1>1, <1>5, <1>6, <1>8

\* Every list in its place is whole.
WholeLists(lists) ==
    /\ lists \in Seq(Seq(Increments))
    /\ \A m \in 1 .. Len(lists) : WholeList(lists[m], m)

LEMMA ListsAre ==
    ASSUME NEW lists \in Seq(Seq(Increments))
    PROVE  /\ Lists(lists) \in [1 .. Len(lists) -> Seq(Binary)]
           /\ \A m \in 1 .. Len(lists) : Lists(lists)[m] = ListBits(lists[m])
<1>1. ASSUME NEW m \in 1 .. Len(lists) PROVE ListBits(lists[m]) \in Seq(Binary)
  <2>1. lists[m] \in Seq(Increments)
    OBVIOUS
  <2> QED
    BY <2>1, ListBitsAre
<1> QED
  BY <1>1 DEF Lists

\* Lists that are whole are passed to the end of the last.
LEMMA ScalingListsRead ==
    ASSUME NEW s \in Seq(Bytes), NEW p \in Nat, NEW lists, WholeLists(lists), lists # <<>>,
           Has(s, p, FlattenSeq(Lists(lists)))
    PROVE  ScalingLists(s, p, Len(lists)) = p + Len(FlattenSeq(Lists(lists)))
<1>0. lists \in Seq(Seq(Increments)) /\ \A m \in 1 .. Len(lists) : WholeList(lists[m], m)
  BY DEF WholeLists
<1>1. PICK n \in Nat \ {0} : n = Len(lists)
  BY <1>0
<1>2. PICK c \in [1 .. n -> Seq(Binary)] : c = Lists(lists)
  BY <1>0, <1>1, ListsAre
<1>3. \A m \in 1 .. n : c[m] = ListBits(lists[m])
  BY <1>0, <1>1, <1>2, ListsAre
<1>4. PICK f \in [0 .. n -> Seq(Binary)] : Joins(f, n, c) /\ FlattenSeq(c) = f[n]
  BY FlattenLoop
<1>5. Has(s, p, f[n]) /\ f[0] = <<>> /\ n \in Nat /\ n \in 0 .. n
  BY <1>2, <1>4 DEF Joins
<1>6. \A m \in 1 .. n : Has(s, p + Len(f[m - 1]), c[m])
  BY <1>4, <1>5, HasJoined
<1>7. \A j \in 1 .. n : /\ Len(f[j - 1]) \in Nat /\ Len(c[j]) \in Nat
                        /\ Len(f[j]) = Len(f[j - 1]) + Len(c[j])
  BY <1>4, <1>5, JoinedStep, ZenonT(60)
<1>8. p \in 0 .. 8 * Len(s)
  <2>1. Len(f[n]) \in Nat /\ Len(s) \in Nat
    BY <1>5, SMTT(40)
  <2> QED
    BY <1>5, <2>1 DEF Has
<1>9. PICK q \in [0 .. n -> 0 .. 8 * Len(s)] :
        /\ q[0] = p /\ \A m \in 1 .. n : q[m] = PassList(s, q[m - 1], m)
        /\ ScalingLists(s, p, n) = q[n]
  <2>1. n \in Nat
    OBVIOUS
  <2> QED
    BY <1>8, <2>1, ScalingListsLoop, ZenonT(60)
<1> DEFINE S == {i \in Nat : i <= n => q[i] = p + Len(f[i])}
<1>10. Nat \subseteq S
  <2>1. 0 \in S
    <3>1. PICK z \in Nat : z = 0 /\ Len(f[z]) = 0
      BY <1>5
    <3>2. q[z] = p + Len(f[z])
      BY <1>9, <3>1
    <3> QED
      BY <3>1, <3>2
  <2>2. ASSUME NEW i \in Nat, i \in S PROVE i + 1 \in S
    <3> SUFFICES ASSUME i + 1 <= n PROVE q[i + 1] = p + Len(f[i + 1])
      OBVIOUS
    <3>1. PICK k \in 1 .. n : k = i + 1 /\ k - 1 = i /\ k \in Nat
      OBVIOUS
    <3>2. PICK a \in Nat, b \in Nat : a = Len(f[i]) /\ b = Len(c[k]) /\ Len(f[k]) = a + b
      BY <1>7, <3>1
    <3>3. PICK r \in Nat : r = p + a
      OBVIOUS
    <3>4. q[i] = r
      BY <2>2, <3>1, <3>2, <3>3
    <3>5. q[k] = PassList(s, r, k)
      BY <1>9, <3>1, <3>4
    <3>6. Has(s, r, c[k])
      BY <1>6, <3>1, <3>2, <3>3
    <3>7. PICK l : l = lists[k] /\ c[k] = ListBits(l) /\ WholeList(l, k)
      BY <1>0, <1>1, <1>3
    <3>8. PassList(s, r, k) = r + Len(ListBits(l))
      <4>1. k \in Nat /\ Has(s, r, ListBits(l)) /\ WholeList(l, k)
        BY <3>1, <3>6, <3>7
      <4> QED
        BY <4>1, PassListReads, SMTT(40)
    <3>9. q[k] = p + Len(f[k])
      <4>1. q[k] = r + b /\ r = p + a /\ Len(f[k]) = a + b
        BY <3>2, <3>3, <3>5, <3>7, <3>8
      <4> QED
        BY <4>1
    <3> QED
      BY <3>1, <3>9
  <2> HIDE DEF S
  <2> QED
    BY <2>1, <2>2, InductionOn
<1>11. q[n] = p + Len(f[n])
  BY <1>5, <1>10
<1> QED
  BY <1>1, <1>2, <1>4, <1>9, <1>11
-----------------------------------------------------------------------------
(* The parts of an SPS *)

\* x is made of these parts.
Three(x, a, b, c) ==
    /\ x = a \o b \o c
    /\ a \in Seq(Binary) /\ b \in Seq(Binary) /\ c \in Seq(Binary)

Five(x, a, b, c, d, e) ==
    /\ x = a \o b \o c \o d \o e
    /\ a \in Seq(Binary) /\ b \in Seq(Binary) /\ c \in Seq(Binary) /\ d \in Seq(Binary)
    /\ e \in Seq(Binary)

LEMMA ThreeIs ==
    ASSUME NEW x, NEW a, NEW b, NEW c, Three(x, a, b, c)
    PROVE  x \in Seq(Binary) /\ Len(x) = Len(a) + Len(b) + Len(c)
BY DEF Three

LEMMA FiveIs ==
    ASSUME NEW x, NEW a, NEW b, NEW c, NEW d, NEW e, Five(x, a, b, c, d, e)
    PROVE  x \in Seq(Binary) /\ Len(x) = Len(a) + Len(b) + Len(c) + Len(d) + Len(e)
BY DEF Five

LEMMA HasThree ==
    ASSUME NEW s \in Seq(Bytes), NEW p \in Nat, NEW x, NEW a, NEW b, NEW c,
           Three(x, a, b, c), Has(s, p, x)
    PROVE  Has(s, p, a) /\ Has(s, p + Len(a), b) /\ Has(s, p + Len(a) + Len(b), c)
<1>1. a \in Seq(Binary) /\ b \in Seq(Binary) /\ c \in Seq(Binary) /\ x = a \o b \o c
  BY DEF Three
<1>2. PICK y : y = a \o b
  OBVIOUS
<1>3. y \in Seq(Binary) /\ Len(y) = Len(a) + Len(b)
  BY <1>1, <1>2, CatIs
<1>4. Has(s, p, y \o c)
  BY <1>1, <1>2
<1>5. Has(s, p, y) /\ Has(s, p + Len(y), c)
  BY <1>1, <1>3, <1>4, HasCat
<1>6. Has(s, p, a \o b)
  BY <1>2, <1>5
<1>7. Has(s, p, a) /\ Has(s, p + Len(a), b)
  BY <1>1, <1>6, HasCat
<1>8. PICK l \in Nat, m \in Nat : l = Len(a) /\ m = Len(b)
  BY <1>1
<1>9. p + Len(y) = p + Len(a) + Len(b)
  BY <1>3, <1>8
<1> QED
  BY <1>5, <1>7, <1>9

\* The parts are found one behind the other.
LEMMA HasFive ==
    ASSUME NEW s \in Seq(Bytes), NEW p \in Nat, NEW x, NEW a, NEW b, NEW c, NEW d, NEW e,
           Five(x, a, b, c, d, e), Has(s, p, x)
    PROVE  /\ Has(s, p, a) /\ Has(s, p + Len(a), b) /\ Has(s, p + Len(a) + Len(b), c)
           /\ Has(s, p + Len(a) + Len(b) + Len(c), d)
           /\ Has(s, p + Len(a) + Len(b) + Len(c) + Len(d), e)
<1>1. /\ a \in Seq(Binary) /\ b \in Seq(Binary) /\ c \in Seq(Binary) /\ d \in Seq(Binary)
      /\ e \in Seq(Binary) /\ x = a \o b \o c \o d \o e
  BY DEF Five
<1>2. PICK y : y = a \o b \o c
  OBVIOUS
<1>3. Three(y, a, b, c)
  BY <1>1, <1>2 DEF Three
<1>4. y \in Seq(Binary) /\ Len(y) = Len(a) + Len(b) + Len(c)
  BY <1>3, ThreeIs
<1>5. Three(x, y, d, e)
  BY <1>1, <1>2, <1>4 DEF Three
<1>6. Has(s, p, y) /\ Has(s, p + Len(y), d) /\ Has(s, p + Len(y) + Len(d), e)
  BY <1>5, HasThree
<1>7. Has(s, p, a) /\ Has(s, p + Len(a), b) /\ Has(s, p + Len(a) + Len(b), c)
  BY <1>3, <1>6, HasThree
<1>8. PICK k \in Nat, l \in Nat, m \in Nat, n \in Nat :
        k = Len(a) /\ l = Len(b) /\ m = Len(c) /\ n = Len(d)
  BY <1>1
<1>9. p + Len(y) = p + k + l + m /\ p + Len(y) + n = p + k + l + m + n
  BY <1>4, <1>8
<1> QED
  BY <1>6, <1>7, <1>8, <1>9

Four(x, a, b, c, d) ==
    /\ x = a \o b \o c \o d
    /\ a \in Seq(Binary) /\ b \in Seq(Binary) /\ c \in Seq(Binary) /\ d \in Seq(Binary)

LEMMA FourIs ==
    ASSUME NEW x, NEW a, NEW b, NEW c, NEW d, Four(x, a, b, c, d)
    PROVE  x \in Seq(Binary) /\ Len(x) = Len(a) + Len(b) + Len(c) + Len(d)
BY DEF Four

LEMMA HasFour ==
    ASSUME NEW s \in Seq(Bytes), NEW p \in Nat, NEW x, NEW a, NEW b, NEW c, NEW d,
           Four(x, a, b, c, d), Has(s, p, x)
    PROVE  /\ Has(s, p, a) /\ Has(s, p + Len(a), b) /\ Has(s, p + Len(a) + Len(b), c)
           /\ Has(s, p + Len(a) + Len(b) + Len(c), d)
<1>1. /\ a \in Seq(Binary) /\ b \in Seq(Binary) /\ c \in Seq(Binary) /\ d \in Seq(Binary)
      /\ x = a \o b \o c \o d
  BY DEF Four
<1>2. PICK y : y = a \o b \o c
  OBVIOUS
<1>3. Three(y, a, b, c)
  BY <1>1, <1>2 DEF Three
<1>4. y \in Seq(Binary) /\ Len(y) = Len(a) + Len(b) + Len(c)
  BY <1>3, ThreeIs
<1>5. Has(s, p, y \o d)
  BY <1>1, <1>2
<1>6. Has(s, p, y) /\ Has(s, p + Len(y), d)
  BY <1>1, <1>4, <1>5, HasCat
<1>7. Has(s, p, a) /\ Has(s, p + Len(a), b) /\ Has(s, p + Len(a) + Len(b), c)
  BY <1>3, <1>6, HasThree
<1>8. PICK k \in Nat, l \in Nat, m \in Nat : k = Len(a) /\ l = Len(b) /\ m = Len(c)
  BY <1>1
<1>9. p + Len(y) = p + k + l + m
  BY <1>4, <1>8
<1> QED
  BY <1>6, <1>7, <1>8, <1>9

\* The parts of HighBits: the bit for separate planes, and the scaling lists.
Planes(x) == IF x.chroma = 3 THEN <<0>> ELSE <<>>
Matrix(x) == IF x.lists = <<>> THEN <<0>> ELSE <<1>> \o FlattenSeq(Lists(x.lists))

LEMMA MatrixIs ==
    ASSUME NEW x, x.lists \in Seq(Seq(Increments))
    PROVE  /\ Matrix(x) \in Seq(Binary)
           /\ x.lists = <<>> => Matrix(x) = <<0>>
           /\ x.lists # <<>> => /\ Matrix(x) = <<1>> \o FlattenSeq(Lists(x.lists))
                                /\ FlattenSeq(Lists(x.lists)) \in Seq(Binary)
<1>1. CASE x.lists = <<>>
  BY <1>1, Flags DEF Matrix
<1>2. CASE x.lists # <<>>
  <2>1. PICK n \in Nat \ {0} : n = Len(x.lists)
    BY <1>2
  <2>2. PICK c \in [1 .. n -> Seq(Binary)] : c = Lists(x.lists)
    BY <2>1, ListsAre
  <2>3. PICK f \in [0 .. n -> Seq(Binary)] : FlattenSeq(c) = f[n]
    BY FlattenLoop
  <2>4. f[n] \in Seq(Binary)
    OBVIOUS
  <2>5. PICK a \in Seq(Binary), d \in Seq(Binary) :
          a = <<1>> /\ d = FlattenSeq(Lists(x.lists))
    BY <2>2, <2>3, <2>4, Flags
  <2>6. a \o d \in Seq(Binary)
    OBVIOUS
  <2>7. Matrix(x) = a \o d
    BY <1>2, <2>5 DEF Matrix
  <2> QED
    BY <1>2, <2>5, <2>6, <2>7
<1> QED
  BY <1>1, <1>2

\* The scaling lists, or the bit that says there are none, are passed to their end.
LEMMA MatrixReads ==
    ASSUME NEW s \in Seq(Bytes), NEW q \in Nat, NEW x, WholeLists(x.lists), Has(s, q, Matrix(x))
    PROVE  /\ x.lists = <<>> => Bit(s, q) = 0 /\ After(s, q) = q + Len(Matrix(x))
           /\ x.lists # <<>> =>
                /\ Bit(s, q) = 1
                /\ ScalingLists(s, After(s, q), Len(x.lists)) = q + Len(Matrix(x))
<1>1. x.lists \in Seq(Seq(Increments))
  BY DEF WholeLists
<1>2. CASE x.lists = <<>>
  <2>1. Matrix(x) = <<0>>
    BY <1>1, <1>2, MatrixIs
  <2>2. Has(s, q, <<0>>)
    BY <2>1
  <2>3. Bit(s, q) = 0 /\ After(s, q) = q + 1
    BY <2>2, HasOne
  <2>4. Len(Matrix(x)) = 1
    BY <2>1
  <2> QED
    BY <1>2, <2>3, <2>4
<1>3. CASE x.lists # <<>>
  <2>1. PICK a \in Seq(Binary), d \in Seq(Binary) :
          a = <<1>> /\ d = FlattenSeq(Lists(x.lists)) /\ Matrix(x) = a \o d
    BY <1>1, <1>3, MatrixIs, Flags
  <2>2. Has(s, q, a \o d)
    BY <2>1
  <2>3. Has(s, q, a) /\ Has(s, q + Len(a), d)
    BY <2>2, HasCat
  <2>4. Len(a) = 1 /\ Len(Matrix(x)) = 1 + Len(d)
    BY <2>1
  <2>5. Bit(s, q) = 1 /\ After(s, q) = q + 1
    BY <2>1, <2>3, HasOne
  <2>6. PICK r \in Nat : r = q + 1
    OBVIOUS
  <2>7. Has(s, r, FlattenSeq(Lists(x.lists)))
    BY <2>1, <2>3, <2>4, <2>6
  <2>8. ScalingLists(s, r, Len(x.lists)) = r + Len(FlattenSeq(Lists(x.lists)))
    BY <1>3, <2>7, ScalingListsRead
  <2>9. ScalingLists(s, r, Len(x.lists)) = q + Len(Matrix(x))
    BY <2>1, <2>4, <2>6, <2>8
  <2> QED
    BY <1>3, <2>5, <2>6, <2>9
<1> QED
  BY <1>2, <1>3

\* What H.264 has of the part for the high profiles.
HighFields(x) ==
    /\ x.chroma \in 0 .. 3
    /\ x.lists \in Seq(Seq(Increments))
    /\ x.lists = <<>> \/ Len(x.lists) = IF x.chroma # 3 THEN 8 ELSE 12

\* The part for the high profiles by its parts.
LEMMA HighBitsAre ==
    ASSUME NEW x, HighFields(x)
    PROVE  /\ HighBits(x) = UeBits(x.chroma) \o Planes(x) \o UeBits(0) \o UeBits(0) \o <<0>>
                              \o Matrix(x)
           /\ x.chroma \in Ues /\ 0 \in Ues
           /\ UeBits(x.chroma) \in Seq(Binary) /\ Planes(x) \in Seq(Binary)
           /\ UeBits(0) \in Seq(Binary) /\ <<0>> \in Seq(Binary) /\ Matrix(x) \in Seq(Binary)
           /\ HighBits(x) \in Seq(Binary)
<1>1. HighBits(x) = UeBits(x.chroma) \o Planes(x) \o UeBits(0) \o UeBits(0) \o <<0>> \o Matrix(x)
  BY DEF HighBits, Planes, Matrix, Lists
<1>2. x.chroma \in Ues /\ 0 \in Ues
  BY DEF HighFields, Ues
<1>3. UeBits(x.chroma) \in Seq(Binary) /\ UeBits(0) \in Seq(Binary)
  <2>1. PICK v \in Ues, w \in Ues : v = x.chroma /\ w = 0
    BY <1>2
  <2>2. UeBits(v) \in Seq(Binary) /\ UeBits(w) \in Seq(Binary)
    BY UeShape
  <2> QED
    BY <2>1, <2>2
<1>4. Planes(x) \in Seq(Binary)
  BY Flags DEF Planes
<1>5. Matrix(x) \in Seq(Binary)
  BY MatrixIs DEF HighFields
<1>6. PICK a \in Seq(Binary), b \in Seq(Binary), c \in Seq(Binary), d \in Seq(Binary),
           e \in Seq(Binary) :
        a = UeBits(x.chroma) /\ b = Planes(x) /\ c = UeBits(0) /\ d = <<0>> /\ e = Matrix(x)
  BY <1>3, <1>4, <1>5, Flags
<1>7. HighBits(x) = a \o b \o c \o c \o d \o e
  BY <1>1, <1>6
<1>8. a \o b \o c \o c \o d \o e \in Seq(Binary)
  OBVIOUS
<1> QED
  BY <1>1, <1>2, <1>3, <1>4, <1>5, <1>7, <1>8, Flags

\* The part for the high profiles is passed to its end.
LEMMA HighPartReads ==
    ASSUME NEW s \in Seq(Bytes), NEW p \in Nat, NEW x, HighFields(x), WholeLists(x.lists),
           Has(s, p, HighBits(x))
    PROVE  HighPart(s, p) = p + Len(HighBits(x))
<1>1. PICK a \in Seq(Binary), b \in Seq(Binary), c \in Seq(Binary), d \in Seq(Binary),
           e \in Seq(Binary) :
        /\ a = UeBits(x.chroma) /\ b = Planes(x) /\ c = UeBits(0) /\ d = <<0>> /\ e = Matrix(x)
        /\ HighBits(x) = a \o b \o c \o c \o d \o e
  BY HighBitsAre
<1>0. /\ a \in Seq(Binary) /\ b \in Seq(Binary) /\ c \in Seq(Binary) /\ d \in Seq(Binary)
      /\ e \in Seq(Binary)
  BY <1>1
<1>2. PICK y : y = a \o b
  OBVIOUS
<1>3. y \in Seq(Binary) /\ Len(y) = Len(a) + Len(b)
  BY <1>2, CatIs
<1>4. PICK z : z = HighBits(x)
  OBVIOUS
<1>5. Five(z, y, c, c, d, e) /\ Has(s, p, z)
  BY <1>0, <1>1, <1>2, <1>3, <1>4 DEF Five
<1>6. Has(s, p, y) /\ Has(s, p + Len(y), c)
  BY <1>5, HasFive
<1>7. Has(s, p + Len(y) + Len(c), c) /\ Has(s, p + Len(y) + Len(c) + Len(c), d)
  BY <1>5, HasFive
<1>8. Has(s, p + Len(y) + Len(c) + Len(c) + Len(d), e)
  BY <1>5, HasFive
<1>9. Len(z) = Len(y) + Len(c) + Len(c) + Len(d) + Len(e)
  BY <1>5, FiveIs
<1>10. Has(s, p, a) /\ Has(s, p + Len(a), b)
  <2>1. Has(s, p, a \o b)
    BY <1>2, <1>6
  <2> QED
    BY <2>1, HasCat
<1>11. PICK la \in Nat, lb \in Nat, lc \in Nat, le \in Nat :
         la = Len(a) /\ lb = Len(b) /\ lc = Len(c) /\ le = Len(e)
  OBVIOUS
<1>12. Len(d) = 1
  BY <1>1
<1>13. PICK p1 \in Nat, p2 \in Nat, p3 \in Nat, p4 \in Nat, p5 \in Nat :
         /\ p1 = p + la /\ p2 = p + (la + lb) /\ p3 = p2 + lc /\ p4 = p3 + lc /\ p5 = p4 + 1
         /\ p + Len(z) = p5 + le
  <2>1. PICK p1 \in Nat : p1 = p + la
    OBVIOUS
  <2>2. PICK p2 \in Nat : p2 = p + (la + lb)
    OBVIOUS
  <2>3. PICK p3 \in Nat : p3 = p2 + lc
    OBVIOUS
  <2>6. PICK p4 \in Nat : p4 = p3 + lc
    OBVIOUS
  <2>7. PICK p5 \in Nat : p5 = p4 + 1
    OBVIOUS
  <2>4. Len(z) = (la + lb) + lc + lc + 1 + le
    BY <1>3, <1>9, <1>11, <1>12
  <2>5. p + Len(z) = p5 + le
    BY <1>11, <2>1, <2>2, <2>3, <2>4, <2>6, <2>7
  <2> QED
    BY <2>1, <2>2, <2>3, <2>5, <2>6, <2>7
<1>14. /\ Has(s, p, a) /\ Has(s, p1, b) /\ Has(s, p2, c) /\ Has(s, p3, c) /\ Has(s, p4, d)
       /\ Has(s, p5, e)
  <2>1. p + Len(a) = p1 /\ p + Len(y) = p2
    BY <1>3, <1>11, <1>13
  <2>2. p2 + Len(c) = p3 /\ p3 + Len(c) = p4 /\ p4 + Len(d) = p5
    BY <1>11, <1>12, <1>13
  <2> QED
    BY <1>6, <1>7, <1>8, <1>10, <2>1, <2>2
<1>15. PICK v \in Ues, w \in Ues : v = x.chroma /\ w = 0 /\ v \in 0 .. 3
  BY HighBitsAre DEF HighFields
<1>16. ReadUe(s, p) = [v |-> v, pos |-> p1]
  <2>1. Has(s, p, UeBits(v)) /\ p + Len(UeBits(v)) = p1
    BY <1>1, <1>11, <1>13, <1>14, <1>15
  <2> QED
    BY <2>1, ReadsUe
<1>17. PICK planes : planes = IF v = 3 THEN After(s, p1) ELSE p1
  OBVIOUS
<1>18. planes = p2
  <2>1. CASE v = 3
    <3>1. b = <<0>>
      BY <1>1, <1>15, <2>1 DEF Planes
    <3>2. After(s, p1) = p1 + 1
      <4>1. Has(s, p1, <<0>>)
        BY <1>14, <3>1
      <4> QED
        BY <4>1, HasOne
    <3>3. lb = 1
      BY <1>11, <3>1
    <3> QED
      BY <1>13, <1>17, <2>1, <3>2, <3>3
  <2>2. CASE v # 3
    <3>1. lb = 0
      BY <1>1, <1>11, <1>15, <2>2 DEF Planes
    <3> QED
      BY <1>13, <1>17, <2>2, <3>1
  <2> QED
    BY <2>1, <2>2
<1>19. SkipUes(s, p2, 2) = p4
  <2>1. Has(s, p2, UeBits(w)) /\ Has(s, p2 + Len(UeBits(w)), UeBits(w))
    BY <1>1, <1>11, <1>13, <1>14, <1>15
  <2>2. SkipUes(s, p2, 2) = p2 + Len(UeBits(w)) + Len(UeBits(w))
    BY <2>1, SkipsTwo
  <2> QED
    BY <1>1, <1>11, <1>13, <1>15, <2>2
<1>20. After(s, p4) = p5
  <2>1. Has(s, p4, <<0>>)
    BY <1>1, <1>14
  <2> QED
    BY <1>13, <2>1, HasOne
<1>21. HighPart(s, p) = IF Bit(s, p5) = 0 THEN After(s, p5)
                        ELSE ScalingLists(s, After(s, p5), IF v # 3 THEN 8 ELSE 12)
  BY <1>16, <1>17, <1>18, <1>19, <1>20 DEF HighPart
<1>22. Has(s, p5, Matrix(x)) /\ Len(Matrix(x)) = le
  BY <1>1, <1>11, <1>14
<1>23. CASE x.lists = <<>>
  <2>1. Bit(s, p5) = 0 /\ After(s, p5) = p5 + le
    BY <1>22, <1>23, MatrixReads, ZenonT(60)
  <2> QED
    BY <1>4, <1>13, <1>21, <2>1
<1>24. CASE x.lists # <<>>
  <2>1. Bit(s, p5) = 1 /\ ScalingLists(s, After(s, p5), Len(x.lists)) = p5 + le
    BY <1>22, <1>24, MatrixReads
  <2>2. Len(x.lists) = IF v # 3 THEN 8 ELSE 12
    BY <1>15, <1>24 DEF HighFields
  <2> QED
    BY <1>4, <1>13, <1>21, <2>1, <2>2
<1> QED
  BY <1>23, <1>24

-----------------------------------------------------------------------------
(* Picture order count *)

\* What there is to know of such a number.
LEMMA UesAre ==
    ASSUME NEW v \in Ues
    PROVE  UeBits(v) \in Seq(Binary) /\ Len(UeBits(v)) \in Nat /\ v \in Nat /\ v <= 2046
<1>1. UeBits(v) \in Seq(Binary)
  BY UeShape
<1> QED
  BY <1>1 DEF Ues

LEMMA SeValues ==
    SeBits(-1) = UeBits(2) /\ SeBits(0) = UeBits(0) /\ SeBits(2) = UeBits(3)
BY DEF SeBits, SeCode

\* The fields of picture order count.
PocFields(x) == x.poc_type \in 0 .. 2 /\ x.poc_lsb \in Ues

\* What follows the type of picture order count.
PocRest(x) ==
    CASE x.poc_type = 0 -> UeBits(x.poc_lsb)
      [] x.poc_type = 1 -> <<0>> \o UeBits(2) \o UeBits(0) \o UeBits(1) \o UeBits(3)
      [] x.poc_type = 2 -> <<>>

\* Picture order count by its parts, in each of its types.
LEMMA PocBitsAre ==
    ASSUME NEW x, PocFields(x)
    PROVE  /\ PocBits(x) = UeBits(x.poc_type) \o PocRest(x)
           /\ PocRest(x) \in Seq(Binary) /\ PocBits(x) \in Seq(Binary)
           /\ x.poc_type \in Ues /\ x.poc_lsb \in Ues /\ UeBits(x.poc_type) \in Seq(Binary)
           /\ x.poc_type = 0 => PocRest(x) = UeBits(x.poc_lsb)
           /\ x.poc_type = 1 =>
                Five(PocRest(x), <<0>>, UeBits(2), UeBits(0), UeBits(1), UeBits(3))
           /\ x.poc_type = 2 => PocRest(x) = <<>>
<1>1. x.poc_type \in Ues /\ x.poc_lsb \in Ues /\ x.poc_type \in 0 .. 2
  BY DEF PocFields, Ues
<1>2. UeBits(x.poc_type) \in Seq(Binary) /\ UeBits(x.poc_lsb) \in Seq(Binary)
  BY <1>1, UesAre
<1>3. PocBits(x) = UeBits(x.poc_type) \o PocRest(x)
  BY SeValues DEF PocBits, PocRest
<1>4. x.poc_type = 0 => PocRest(x) = UeBits(x.poc_lsb)
  BY DEF PocRest
<1>5. x.poc_type = 1 => PocRest(x) = <<0>> \o UeBits(2) \o UeBits(0) \o UeBits(1) \o UeBits(3)
  BY DEF PocRest
<1>6. x.poc_type = 2 => PocRest(x) = <<>>
  BY DEF PocRest
<1>7. 0 \in Ues /\ 1 \in Ues /\ 2 \in Ues /\ 3 \in Ues
  BY DEF Ues
<1>8. /\ UeBits(0) \in Seq(Binary) /\ UeBits(1) \in Seq(Binary) /\ UeBits(2) \in Seq(Binary)
      /\ UeBits(3) \in Seq(Binary)
  BY <1>7, UesAre
<1>9. x.poc_type = 1 => Five(PocRest(x), <<0>>, UeBits(2), UeBits(0), UeBits(1), UeBits(3))
  BY <1>5, <1>8, Flags DEF Five
<1>10. PocRest(x) \in Seq(Binary)
  <2>1. x.poc_type = 0 \/ x.poc_type = 1 \/ x.poc_type = 2
    BY <1>1
  <2>2. x.poc_type = 1 => PocRest(x) \in Seq(Binary)
    BY <1>9, FiveIs
  <2> QED
    BY <1>2, <1>4, <1>6, <2>1, <2>2, Flags
<1>11. PocBits(x) \in Seq(Binary)
  BY <1>2, <1>3, <1>10
<1> QED
  BY <1>1, <1>2, <1>3, <1>4, <1>6, <1>9, <1>10, <1>11, SMTT(40)

\* Picture order count of every type is read to its end.
LEMMA PocReads ==
    ASSUME NEW s \in Seq(Bytes), NEW p \in Nat, NEW x, PocFields(x), Has(s, p, PocBits(x))
    PROVE  PocPart(s, p) = [type |-> IF x.poc_type = 1 THEN 9 ELSE x.poc_type,
                            lsb  |-> IF x.poc_type = 0 THEN x.poc_lsb ELSE 0,
                            pos  |-> p + Len(PocBits(x))]
<1>1. PICK t \in Ues, l \in Ues : t = x.poc_type /\ l = x.poc_lsb
  BY PocBitsAre
<1>2. PICK a \in Seq(Binary), b \in Seq(Binary) :
        a = UeBits(t) /\ b = PocRest(x) /\ PocBits(x) = a \o b
  BY <1>1, PocBitsAre
<1>3. Has(s, p, a) /\ Has(s, p + Len(a), b)
  <2>1. Has(s, p, a \o b)
    BY <1>2
  <2> QED
    BY <1>2, <2>1, HasCat
<1>4. PICK q \in Nat : q = p + Len(a)
  BY <1>2
<1>5. p + Len(PocBits(x)) = q + Len(b)
  <2>1. PICK c : c = PocBits(x)
    OBVIOUS
  <2>2. Len(c) = Len(a) + Len(b)
    BY <1>2, <2>1, CatIs
  <2>3. Len(a) \in Nat /\ Len(b) \in Nat
    BY <1>2
  <2> QED
    BY <1>4, <2>1, <2>2, <2>3
<1>6. ReadUe(s, p) = [v |-> t, pos |-> q]
  <2>1. Has(s, p, UeBits(t)) /\ p + Len(UeBits(t)) = q
    BY <1>2, <1>3, <1>4
  <2> QED
    BY <2>1, ReadsUe
<1>7. PocPart(s, p) =
        CASE t = 0 -> [type |-> 0, lsb |-> ReadUe(s, q).v, pos |-> ReadUe(s, q).pos]
          [] t = 1 -> [type |-> 9, lsb |-> 0,
                       pos |-> SkipUes(s, ReadUe(s, SkipUes(s, After(s, q), 2)).pos,
                                       Min({ReadUe(s, SkipUes(s, After(s, q), 2)).v, 255}))]
          [] OTHER -> [type |-> t, lsb |-> 0, pos |-> q]
  BY <1>6 DEF PocPart
<1>8. CASE t = 0
  <2>1. Has(s, q, UeBits(l)) /\ Len(b) = Len(UeBits(l))
    BY <1>1, <1>2, <1>3, <1>4, <1>8, PocBitsAre
  <2>2. ReadUe(s, q).v = l /\ ReadUe(s, q).pos = q + Len(b)
    BY <2>1, ReadsUe
  <2>3. PocPart(s, p) = [type |-> 0, lsb |-> ReadUe(s, q).v, pos |-> ReadUe(s, q).pos]
    BY <1>7, <1>8
  <2> QED
    BY <1>1, <1>5, <1>8, <2>2, <2>3
<1>9. CASE t = 1
  <2>1. PICK z, u, v, w, o : z = <<0>> /\ u = UeBits(2) /\ v = UeBits(0) /\ w = UeBits(1)
                             /\ o = UeBits(3)
    OBVIOUS
  <2>2. Five(b, z, u, v, w, o)
    BY <1>1, <1>2, <1>9, <2>1, PocBitsAre
  <2>3. Has(s, q, b)
    BY <1>3, <1>4
  <2>4. /\ Has(s, q, z) /\ Has(s, q + Len(z), u) /\ Has(s, q + Len(z) + Len(u), v)
        /\ Has(s, q + Len(z) + Len(u) + Len(v), w)
        /\ Has(s, q + Len(z) + Len(u) + Len(v) + Len(w), o)
    BY <2>2, <2>3, HasFive
  <2>5. Len(b) = Len(z) + Len(u) + Len(v) + Len(w) + Len(o)
    BY <2>2, FiveIs
  <2>6. Len(z) = 1
    BY <2>1, SMTT(40)
  <2>7. PICK k0 \in Ues, k1 \in Ues, k2 \in Ues, k3 \in Ues : k0 = 0 /\ k1 = 1 /\ k2 = 2 /\ k3 = 3
    BY DEF Ues
  <2>8. u = UeBits(k2) /\ v = UeBits(k0) /\ w = UeBits(k1) /\ o = UeBits(k3)
    BY <2>1, <2>7
  <2>9. PICK lu \in Nat, lv \in Nat, lw \in Nat, lo \in Nat :
          lu = Len(u) /\ lv = Len(v) /\ lw = Len(w) /\ lo = Len(o)
    BY <2>8, UesAre, SMTT(40)
  <2>10. PICK q1 \in Nat : q1 = q + 1
    OBVIOUS
  <2>11. PICK q2 \in Nat : q2 = q1 + lu
    OBVIOUS
  <2>12. PICK q3 \in Nat : q3 = q2 + lv
    OBVIOUS
  <2>13. PICK q4 \in Nat : q4 = q3 + lw
    OBVIOUS
  <2>14. Has(s, q1, u) /\ Has(s, q2, v) /\ Has(s, q3, w) /\ Has(s, q4, o)
    <3>1. q + Len(z) = q1 /\ q1 + Len(u) = q2 /\ q2 + Len(v) = q3 /\ q3 + Len(w) = q4
      BY <2>6, <2>9, <2>10, <2>11, <2>12, <2>13
    <3> QED
      BY <2>4, <3>1
  <2>15. q4 + lo = q + Len(b)
    BY <2>5, <2>6, <2>9, <2>10, <2>11, <2>12, <2>13
  <2>16. After(s, q) = q1
    <3>1. Has(s, q, <<0>>)
      BY <2>1, <2>4
    <3> QED
      BY <2>10, <3>1, HasOne
  <2>17. SkipUes(s, q1, 2) = q3
    <3>1. Has(s, q1, UeBits(k2)) /\ Has(s, q1 + Len(UeBits(k2)), UeBits(k0))
      BY <2>8, <2>9, <2>11, <2>14
    <3>2. SkipUes(s, q1, 2) = q1 + Len(UeBits(k2)) + Len(UeBits(k0))
      BY <3>1, SkipsTwo
    <3> QED
      BY <2>8, <2>9, <2>11, <2>12, <3>2
  <2>18. ReadUe(s, q3).v = 1 /\ ReadUe(s, q3).pos = q4
    <3>1. Has(s, q3, UeBits(k1)) /\ q3 + Len(UeBits(k1)) = q4
      BY <2>8, <2>9, <2>13, <2>14
    <3> QED
      BY <2>7, <3>1, ReadsUe
  <2>19. Min({1, 255}) = 1
    <3>1. PICK g \in Int, h \in Int : g = 1 /\ h = 255
      OBVIOUS
    <3> QED
      BY <3>1, MinOfTwo
  <2>20. SkipUes(s, q4, 1) = q4 + lo
    <3>1. Has(s, q4, UeBits(k3)) /\ Len(UeBits(k3)) = lo
      BY <2>8, <2>9, <2>14
    <3> QED
      BY <3>1, SkipsOne
  <2>21. PocPart(s, p) = [type |-> 9, lsb |-> 0, pos |-> q4 + lo]
    <3>1. PocPart(s, p) =
            [type |-> 9, lsb |-> 0,
             pos |-> SkipUes(s, ReadUe(s, SkipUes(s, After(s, q), 2)).pos,
                             Min({ReadUe(s, SkipUes(s, After(s, q), 2)).v, 255}))]
      BY <1>7, <1>9
    <3> QED
      BY <2>16, <2>17, <2>18, <2>19, <2>20, <3>1, ZenonT(60)
  <2> QED
    BY <1>1, <1>5, <1>9, <2>15, <2>21
<1>10. CASE t = 2
  <2>1. Len(b) = 0
    <3>1. b = <<>>
      BY <1>1, <1>2, <1>10, PocBitsAre
    <3> QED
      BY <3>1
  <2>2. PocPart(s, p) = [type |-> t, lsb |-> 0, pos |-> q]
    BY <1>7, <1>10
  <2>3. p + Len(PocBits(x)) = q
    BY <1>4, <1>5, <2>1
  <2> QED
    BY <1>1, <1>10, <2>2, <2>3
<1>11. t = 0 \/ t = 1 \/ t = 2
  BY <1>1 DEF PocFields
<1> QED
  BY <1>8, <1>9, <1>10, <1>11

-----------------------------------------------------------------------------
(* The size, and what comes after it *)

\* A bit and a number, as HasOne and ReadsUe, with names for what is in them.
LEMMA HasFlag ==
    ASSUME NEW s \in Seq(Bytes), NEW p \in Nat, NEW q \in Nat, NEW x, NEW b, b = <<x>>,
           Has(s, p, b), q = p + 1
    PROVE  Bit(s, p) = x /\ After(s, p) = q /\ Len(b) = 1
BY HasOne

LEMMA HasNumber ==
    ASSUME NEW s \in Seq(Bytes), NEW p \in Nat, NEW q \in Nat, NEW v \in Ues,
           NEW b, b = UeBits(v), Has(s, p, b), q = p + Len(b)
    PROVE  ReadUe(s, p) = [v |-> v, pos |-> q]
BY ReadsUe

\* Cropping offsets.
CropFields(c) == c \in [1 .. 4 -> Ues]

\* They are four numbers, and their bits four codes.
LEMMA CropIs ==
    ASSUME NEW c, CropFields(c)
    PROVE  /\ c = <<c[1], c[2], c[3], c[4]>>
           /\ c[1] \in Ues /\ c[2] \in Ues /\ c[3] \in Ues /\ c[4] \in Ues
           /\ Four(CropBits(c), UeBits(c[1]), UeBits(c[2]), UeBits(c[3]), UeBits(c[4]))
<1>1. c[1] \in Ues /\ c[2] \in Ues /\ c[3] \in Ues /\ c[4] \in Ues
  BY DEF CropFields
<1>2. c = <<c[1], c[2], c[3], c[4]>>
  BY DEF CropFields
<1>3. /\ UeBits(c[1]) \in Seq(Binary) /\ UeBits(c[2]) \in Seq(Binary)
      /\ UeBits(c[3]) \in Seq(Binary) /\ UeBits(c[4]) \in Seq(Binary)
  BY <1>1, UesAre, SMTT(40)
<1>4. Four(CropBits(c), UeBits(c[1]), UeBits(c[2]), UeBits(c[3]), UeBits(c[4]))
  BY <1>3 DEF Four, CropBits
<1> QED
  BY <1>1, <1>2, <1>4

\* The cropping offsets are read one after the other.
LEMMA CropReads ==
    ASSUME NEW s \in Seq(Bytes), NEW p \in Nat, NEW c, CropFields(c), Has(s, p, CropBits(c))
    PROVE  ReadCrop(s, p) = c
<1>1. PICK v1 \in Ues, v2 \in Ues, v3 \in Ues, v4 \in Ues :
        v1 = c[1] /\ v2 = c[2] /\ v3 = c[3] /\ v4 = c[4] /\ c = <<v1, v2, v3, v4>>
  BY CropIs
<1>2. PICK b1, b2, b3, b4 :
        b1 = UeBits(v1) /\ b2 = UeBits(v2) /\ b3 = UeBits(v3) /\ b4 = UeBits(v4)
  OBVIOUS
<1>3. Four(CropBits(c), b1, b2, b3, b4)
  BY <1>1, <1>2, CropIs
<1>4. /\ Has(s, p, b1) /\ Has(s, p + Len(b1), b2) /\ Has(s, p + Len(b1) + Len(b2), b3)
      /\ Has(s, p + Len(b1) + Len(b2) + Len(b3), b4)
  BY <1>3, HasFour
<1>5. PICK l1 \in Nat, l2 \in Nat, l3 \in Nat, l4 \in Nat :
        l1 = Len(b1) /\ l2 = Len(b2) /\ l3 = Len(b3) /\ l4 = Len(b4)
  BY <1>2, UesAre
<1>6. PICK p1 \in Nat : p1 = p + l1
  OBVIOUS
<1>7. PICK p2 \in Nat : p2 = p1 + l2
  OBVIOUS
<1>8. PICK p3 \in Nat : p3 = p2 + l3
  OBVIOUS
<1>9. PICK p4 \in Nat : p4 = p3 + l4
  OBVIOUS
<1>10. Has(s, p, b1) /\ Has(s, p1, b2) /\ Has(s, p2, b3) /\ Has(s, p3, b4)
  BY <1>4, <1>5, <1>6, <1>7, <1>8
<1>11. ReadUe(s, p) = [v |-> v1, pos |-> p1]
  BY <1>2, <1>5, <1>6, <1>10, HasNumber, SMTT(40)
<1>12. ReadUe(s, p1) = [v |-> v2, pos |-> p2]
  BY <1>2, <1>5, <1>7, <1>10, HasNumber, SMTT(40)
<1>13. ReadUe(s, p2) = [v |-> v3, pos |-> p3]
  BY <1>2, <1>5, <1>8, <1>10, HasNumber, SMTT(40)
<1>14. ReadUe(s, p3) = [v |-> v4, pos |-> p4]
  BY <1>2, <1>5, <1>9, <1>10, HasNumber, SMTT(40)
<1> QED
  BY <1>1, <1>11, <1>12, <1>13, <1>14 DEF ReadCrop

\* The fields after the size, and their bits.
FrameFields(x) ==
    /\ x.fmbo \in Binary /\ x.mb_adaptive \in Binary /\ x.direct8x8 \in Binary
    /\ x.crop = <<>> \/ CropFields(x.crop)

FieldBit(x) == IF x.fmbo = 1 THEN <<>> ELSE <<x.mb_adaptive>>
CropPart(x) == IF x.crop = <<>> THEN <<0>> ELSE <<1>> \o CropBits(x.crop)

\* What is read of them.
FrameRead(x) ==
    [w |-> 16 * (x.w + 1), h |-> 16 * (x.h + 1) * (2 - x.fmbo), fmbo |-> x.fmbo,
     mb_adaptive |-> IF x.fmbo = 1 THEN 0 ELSE x.mb_adaptive, direct8x8 |-> x.direct8x8,
     crop_flag |-> IF x.crop = <<>> THEN 0 ELSE 1,
     crop |-> IF x.crop = <<>> THEN <<0, 0, 0, 0>> ELSE x.crop, ok |-> TRUE]

\* The bits after the size by their parts.
LEMMA FrameBitsAre ==
    ASSUME NEW x, FrameFields(x)
    PROVE  /\ Four(FrameBits(x), <<x.fmbo>>, FieldBit(x), <<x.direct8x8>>, CropPart(x))
           /\ x.crop # <<>> => CropFields(x.crop) /\ CropBits(x.crop) \in Seq(Binary)
<1>1. <<x.fmbo>> \in Seq(Binary) /\ <<x.direct8x8>> \in Seq(Binary)
  BY Single DEF FrameFields
<1>2. FieldBit(x) \in Seq(Binary)
  <2>1. <<x.mb_adaptive>> \in Seq(Binary)
    BY Single DEF FrameFields
  <2> QED
    BY <2>1, Flags DEF FieldBit
<1>3. x.crop # <<>> => CropFields(x.crop) /\ CropBits(x.crop) \in Seq(Binary)
  <2> SUFFICES ASSUME x.crop # <<>> PROVE CropFields(x.crop) /\ CropBits(x.crop) \in Seq(Binary)
    OBVIOUS
  <2>1. PICK c : c = x.crop /\ CropFields(c)
    BY DEF FrameFields
  <2>2. Four(CropBits(c), UeBits(c[1]), UeBits(c[2]), UeBits(c[3]), UeBits(c[4]))
    BY <2>1, CropIs
  <2>3. CropBits(c) \in Seq(Binary)
    BY <2>2, FourIs
  <2> QED
    BY <2>1, <2>3
<1>4. CropPart(x) \in Seq(Binary)
  <2>1. CASE x.crop = <<>>
    BY <2>1, Flags DEF CropPart
  <2>2. CASE x.crop # <<>>
    <3>1. PICK a \in Seq(Binary), b \in Seq(Binary) : a = <<1>> /\ b = CropBits(x.crop)
      BY <1>3, <2>2, Flags
    <3>2. a \o b \in Seq(Binary)
      OBVIOUS
    <3> QED
      BY <2>2, <3>1, <3>2, SMTT(40) DEF CropPart
  <2> QED
    BY <2>1, <2>2
<1>5. FrameBits(x) = <<x.fmbo>> \o FieldBit(x) \o <<x.direct8x8>> \o CropPart(x)
  BY DEF FrameBits, FieldBit, CropPart
<1>6. Four(FrameBits(x), <<x.fmbo>>, FieldBit(x), <<x.direct8x8>>, CropPart(x))
  BY <1>1, <1>2, <1>4, <1>5 DEF Four
<1> QED
  BY <1>3, <1>6

\* What comes after the size is read as it was sent.
LEMMA FrameReads ==
    ASSUME NEW s \in Seq(Bytes), NEW p \in Nat, NEW x, FrameFields(x), Has(s, p, FrameBits(x))
    PROVE  FramePart(s, p, x.w, x.h) = FrameRead(x)
<1>1. PICK a, b, c, d :
        a = <<x.fmbo>> /\ b = FieldBit(x) /\ c = <<x.direct8x8>> /\ d = CropPart(x)
  OBVIOUS
<1>2. Four(FrameBits(x), a, b, c, d)
  BY <1>1, FrameBitsAre
<1>3. /\ Has(s, p, a) /\ Has(s, p + Len(a), b) /\ Has(s, p + Len(a) + Len(b), c)
      /\ Has(s, p + Len(a) + Len(b) + Len(c), d)
  BY <1>2, HasFour
<1>4. PICK p1 \in Nat : p1 = p + 1
  OBVIOUS
<1>5. Bit(s, p) = x.fmbo /\ After(s, p) = p1 /\ Len(a) = 1
  BY <1>1, <1>3, <1>4, HasFlag
<1>6. PICK lb \in Nat : lb = Len(b)
  BY <1>2 DEF Four
<1>7. PICK p2 \in Nat : p2 = p1 + lb
  OBVIOUS
<1>8. PICK p3 \in Nat : p3 = p2 + 1
  OBVIOUS
<1>9. Has(s, p1, b) /\ Has(s, p2, c)
  BY <1>3, <1>4, <1>5, <1>6, <1>7
<1>10. Bit(s, p2) = x.direct8x8 /\ After(s, p2) = p3 /\ Len(c) = 1
  BY <1>1, <1>8, <1>9, HasFlag
<1>11. Has(s, p3, d)
  BY <1>3, <1>4, <1>5, <1>6, <1>7, <1>8, <1>10
<1>12. x.fmbo = 1 \/ x.fmbo = 0
  BY DEF FrameFields, Binary
<1>13. (IF x.fmbo = 1 THEN p1 ELSE After(s, p1)) = p2
  <2>1. CASE x.fmbo = 1
    <3>1. b = <<>>
      BY <1>1, <2>1 DEF FieldBit
    <3>2. lb = 0
      BY <1>6, <3>1
    <3> QED
      BY <1>7, <2>1, <3>2
  <2>2. CASE x.fmbo # 1
    <3>1. b = <<x.mb_adaptive>>
      BY <1>1, <2>2 DEF FieldBit
    <3>2. lb = 1
      BY <1>6, <3>1
    <3>3. p2 = p1 + 1
      BY <1>7, <3>2
    <3>4. After(s, p1) = p2
      BY <1>9, <3>1, <3>3, HasFlag
    <3> QED
      BY <2>2, <3>4
  <2> QED
    BY <2>1, <2>2
<1>14. (IF x.fmbo = 1 THEN 0 ELSE Bit(s, p1)) = IF x.fmbo = 1 THEN 0 ELSE x.mb_adaptive
  <2>1. CASE x.fmbo = 1
    BY <2>1
  <2>2. CASE x.fmbo # 1
    <3>1. b = <<x.mb_adaptive>> /\ p1 + 1 \in Nat
      BY <1>1, <2>2 DEF FieldBit
    <3>2. Bit(s, p1) = x.mb_adaptive
      BY <1>9, <3>1, HasFlag
    <3> QED
      BY <2>2, <3>2
  <2> QED
    BY <2>1, <2>2
<1>15. PICK p4 \in Nat : p4 = p3 + 1
  OBVIOUS
<1>16. PICK crop : crop = IF Bit(s, p3) = 0 THEN <<0, 0, 0, 0>> ELSE ReadCrop(s, After(s, p3))
  OBVIOUS
<1>17. FramePart(s, p, x.w, x.h) =
         [w |-> 16 * (x.w + 1), h |-> 16 * (x.h + 1) * (2 - x.fmbo), fmbo |-> x.fmbo,
          mb_adaptive |-> IF x.fmbo = 1 THEN 0 ELSE Bit(s, p1), direct8x8 |-> Bit(s, p2),
          crop_flag |-> Bit(s, p3), crop |-> crop, ok |-> CropRead(crop)]
  BY <1>5, <1>10, <1>13, <1>16 DEF FramePart
<1>18. /\ Bit(s, p3) = IF x.crop = <<>> THEN 0 ELSE 1
       /\ crop = IF x.crop = <<>> THEN <<0, 0, 0, 0>> ELSE x.crop
       /\ CropRead(crop) = TRUE
  <2>1. CASE x.crop = <<>>
    <3>1. d = <<0>>
      BY <1>1, <2>1 DEF CropPart
    <3>2. Bit(s, p3) = 0
      BY <1>11, <1>15, <3>1, HasFlag
    <3>3. crop = <<0, 0, 0, 0>>
      BY <1>16, <3>2
    <3>4. CropRead(crop)
      BY <3>3 DEF CropRead
    <3> QED
      BY <2>1, <3>2, <3>3, <3>4
  <2>2. CASE x.crop # <<>>
    <3>1. PICK v, w : v = <<1>> /\ w = CropBits(x.crop) /\ d = v \o w
      BY <1>1, <2>2 DEF CropPart
    <3>2. v \in Seq(Binary) /\ w \in Seq(Binary) /\ CropFields(x.crop)
      BY <2>2, <3>1, Flags, FrameBitsAre
    <3>3. Has(s, p3, v) /\ Has(s, p3 + Len(v), w)
      <4>1. Has(s, p3, v \o w)
        BY <1>11, <3>1
      <4> QED
        BY <3>2, <4>1, HasCat
    <3>4. Bit(s, p3) = 1 /\ After(s, p3) = p4 /\ Len(v) = 1
      BY <1>15, <3>1, <3>3, HasFlag
    <3>5. Has(s, p4, CropBits(x.crop))
      BY <1>15, <3>1, <3>3, <3>4
    <3>6. ReadCrop(s, p4) = x.crop
      BY <3>2, <3>5, CropReads
    <3>7. crop = x.crop
      BY <1>16, <3>4, <3>6
    <3>8. CropRead(crop)
      <4>1. PICK k : k = x.crop /\ CropFields(k)
        BY <3>2
      <4>2. ASSUME NEW i \in 1 .. 4 PROVE k[i] # 65535
        <5>1. PICK y \in Ues : y = k[i]
          BY <4>1 DEF CropFields
        <5>2. y <= 2046 /\ y \in Nat
          BY UesAre
        <5> QED
          BY <5>1, <5>2
      <4> QED
        BY <3>7, <4>1, <4>2 DEF CropRead
    <3> QED
      BY <2>2, <3>4, <3>7, <3>8
  <2> QED
    BY <2>1, <2>2
<1>19. FramePart(s, p, x.w, x.h) =
         [w |-> 16 * (x.w + 1), h |-> 16 * (x.h + 1) * (2 - x.fmbo), fmbo |-> x.fmbo,
          mb_adaptive |-> IF x.fmbo = 1 THEN 0 ELSE x.mb_adaptive, direct8x8 |-> x.direct8x8,
          crop_flag |-> IF x.crop = <<>> THEN 0 ELSE 1,
          crop |-> IF x.crop = <<>> THEN <<0, 0, 0, 0>> ELSE x.crop, ok |-> TRUE]
  BY <1>10, <1>14, <1>17, <1>18
<1> QED
  BY <1>19 DEF FrameRead

-----------------------------------------------------------------------------
(* The whole of an SPS *)

\* The bits of the first four bytes, and those of the part that not all profiles have.
Header(x) == Bits(103, 8) \o Bits(x.profile, 8) \o Bits(x.constraint, 8) \o Bits(x.level, 8)

HighOrNot(x) == IF x.profile \in HighProfiles THEN HighBits(x) ELSE <<>>

\* What can be written and read back: every number of it has at most 10 zeros in front.
Readable(x) ==
    /\ x.profile \in Bytes /\ x.constraint \in Bytes /\ x.level \in Bytes
    /\ x.sps_id \in Ues /\ x.log2frm \in Ues /\ x.max_ref \in Ues /\ x.gaps \in Binary
    /\ x.w \in Ues /\ x.h \in Ues
    /\ PocFields(x) /\ FrameFields(x)
    /\ x.profile \in HighProfiles => HighFields(x)

\* They are four bytes.
LEMMA HeaderIs ==
    ASSUME NEW x, Readable(x)
    PROVE  /\ Four(Header(x), Bits(103, 8), Bits(x.profile, 8), Bits(x.constraint, 8),
                   Bits(x.level, 8))
           /\ Header(x) \in Seq(Binary) /\ Len(Header(x)) = 32
           /\ x.profile \in Nat /\ x.constraint \in Nat /\ x.level \in Nat
<1>1. x.profile \in Nat /\ x.constraint \in Nat /\ x.level \in Nat
  BY ByteIsNat DEF Readable
<1>2. PICK n \in 0 .. 30, t \in Nat : n = 8 /\ t = 103
  BY SMTT(40)
<1>3. /\ Bits(t, n) \in Seq(Binary) /\ Len(Bits(t, n)) = n
      /\ Bits(x.profile, n) \in Seq(Binary) /\ Len(Bits(x.profile, n)) = n
      /\ Bits(x.constraint, n) \in Seq(Binary) /\ Len(Bits(x.constraint, n)) = n
      /\ Bits(x.level, n) \in Seq(Binary) /\ Len(Bits(x.level, n)) = n
  BY <1>1, BitsShape
<1>4. Four(Header(x), Bits(103, 8), Bits(x.profile, 8), Bits(x.constraint, 8), Bits(x.level, 8))
  BY <1>2, <1>3 DEF Four, Header
<1>5. Header(x) \in Seq(Binary)
  BY <1>4, FourIs
<1>6. Len(Header(x)) = 32
  <2>1. PICK a, b, c, d : a = Bits(103, 8) /\ b = Bits(x.profile, 8) /\ c = Bits(x.constraint, 8)
                          /\ d = Bits(x.level, 8)
    OBVIOUS
  <2>2. Len(Header(x)) = Len(a) + Len(b) + Len(c) + Len(d)
    BY <1>4, <2>1, FourIs
  <2>3. Len(a) = 8 /\ Len(b) = 8 /\ Len(c) = 8 /\ Len(d) = 8
    BY <1>2, <1>3, <2>1
  <2> QED
    BY <2>2, <2>3
<1> QED
  BY <1>1, <1>4, <1>5, <1>6

\* The bits up to the size are these: first up to picture order count.
FirstBits(x) == Header(x) \o UeBits(x.sps_id) \o HighOrNot(x) \o UeBits(x.log2frm) \o PocBits(x)

\* The bits of an SPS by their parts.
LEMMA SizeBitsAre ==
    ASSUME NEW x, Readable(x)
    PROVE  /\ Five(FirstBits(x), Header(x), UeBits(x.sps_id), HighOrNot(x), UeBits(x.log2frm),
                   PocBits(x))
           /\ Five(SizeBits(x), FirstBits(x), UeBits(x.max_ref), <<x.gaps>>, UeBits(x.w),
                   UeBits(x.h))
           /\ SizeBits(x) \in Seq(Binary) /\ FrameBits(x) \in Seq(Binary)
<1>1. Header(x) \in Seq(Binary)
  BY HeaderIs
<1>2. /\ UeBits(x.sps_id) \in Seq(Binary) /\ UeBits(x.log2frm) \in Seq(Binary)
      /\ UeBits(x.max_ref) \in Seq(Binary) /\ UeBits(x.w) \in Seq(Binary)
      /\ UeBits(x.h) \in Seq(Binary)
  BY UesAre, SMTT(40) DEF Readable
<1>3. HighOrNot(x) \in Seq(Binary)
  BY HighBitsAre, Flags DEF Readable, HighOrNot
<1>4. PocBits(x) \in Seq(Binary)
  BY PocBitsAre DEF Readable
<1>5. <<x.gaps>> \in Seq(Binary)
  BY Single DEF Readable
<1>6. Five(FirstBits(x), Header(x), UeBits(x.sps_id), HighOrNot(x), UeBits(x.log2frm), PocBits(x))
  BY <1>1, <1>2, <1>3, <1>4 DEF Five, FirstBits
<1>7. FirstBits(x) \in Seq(Binary)
  BY <1>6, FiveIs
<1>8. SizeBits(x) = FirstBits(x) \o UeBits(x.max_ref) \o <<x.gaps>> \o UeBits(x.w) \o UeBits(x.h)
  BY DEF SizeBits, FirstBits, Header, HighOrNot
<1>9. Five(SizeBits(x), FirstBits(x), UeBits(x.max_ref), <<x.gaps>>, UeBits(x.w), UeBits(x.h))
  BY <1>2, <1>5, <1>7, <1>8 DEF Five
<1>10. SizeBits(x) \in Seq(Binary)
  BY <1>9, FiveIs
<1>11. FrameBits(x) \in Seq(Binary)
  BY FrameBitsAre, FourIs DEF Readable
<1> QED
  BY <1>6, <1>9, <1>10, <1>11

\* What is read of an SPS.
SpsRead(x) ==
    [profile |-> x.profile, constraint |-> x.constraint, level |-> x.level, sps_id |-> x.sps_id,
     log2frm |-> x.log2frm, poc_type |-> IF x.poc_type = 1 THEN 9 ELSE x.poc_type,
     poc_lsb |-> IF x.poc_type = 0 THEN x.poc_lsb ELSE 0, max_ref |-> x.max_ref,
     frame |-> IF x.w > 300 \/ x.h > 300 THEN NoFrame ELSE FrameRead(x)]

\* A NAL unit that begins with the bits of an SPS is parsed to its fields.
LEMMA ParseReads ==
    ASSUME NEW s \in Seq(Bytes), NEW x, Readable(x),
           x.profile \in HighProfiles => WholeLists(x.lists),
           Has(s, 0, SizeBits(x) \o FrameBits(x)),
           s[2] = x.profile, s[3] = x.constraint, s[4] = x.level
    PROVE  ParseStripped(s) = SpsRead(x)
<1>1. PICK hd, id, hi, fr, po, first : hd = Header(x) /\ id = UeBits(x.sps_id)
        /\ hi = HighOrNot(x) /\ fr = UeBits(x.log2frm) /\ po = PocBits(x) /\ first = FirstBits(x)
  OBVIOUS
<1>2. PICK rf, ga, wi, he, size, fb : rf = UeBits(x.max_ref) /\ ga = <<x.gaps>>
        /\ wi = UeBits(x.w) /\ he = UeBits(x.h) /\ size = SizeBits(x) /\ fb = FrameBits(x)
  OBVIOUS
<1>3. Five(first, hd, id, hi, fr, po) /\ Five(size, first, rf, ga, wi, he)
  BY <1>1, <1>2, SizeBitsAre
<1>4. size \in Seq(Binary) /\ fb \in Seq(Binary)
  BY <1>2, SizeBitsAre
<1>5. PICK z \in Nat : z = 0
  OBVIOUS
<1>6. Has(s, z, size) /\ Has(s, z + Len(size), fb)
  <2>1. Has(s, z, size \o fb)
    BY <1>2, <1>5
  <2> QED
    BY <1>4, <2>1, HasCat
<1>7. /\ Has(s, z, first) /\ Has(s, z + Len(first), rf) /\ Has(s, z + Len(first) + Len(rf), ga)
      /\ Has(s, z + Len(first) + Len(rf) + Len(ga), wi)
      /\ Has(s, z + Len(first) + Len(rf) + Len(ga) + Len(wi), he)
  BY <1>3, <1>6, HasFive
<1>8. /\ Has(s, z, hd) /\ Has(s, z + Len(hd), id) /\ Has(s, z + Len(hd) + Len(id), hi)
      /\ Has(s, z + Len(hd) + Len(id) + Len(hi), fr)
      /\ Has(s, z + Len(hd) + Len(id) + Len(hi) + Len(fr), po)
  BY <1>3, <1>7, HasFive
<1>9. Len(first) = Len(hd) + Len(id) + Len(hi) + Len(fr) + Len(po)
  BY <1>3, FiveIs
<1>10. Len(size) = Len(first) + Len(rf) + Len(ga) + Len(wi) + Len(he)
  BY <1>3, FiveIs
<1>11. PICK vi \in Ues, vf \in Ues, vr \in Ues, vw \in Ues, vh \in Ues :
         vi = x.sps_id /\ vf = x.log2frm /\ vr = x.max_ref /\ vw = x.w /\ vh = x.h
  BY DEF Readable
<1>12. PICK li \in Nat, lh \in Nat, lf \in Nat, lp \in Nat :
         li = Len(id) /\ lh = Len(hi) /\ lf = Len(fr) /\ lp = Len(po)
  <2>1. id \in Seq(Binary) /\ hi \in Seq(Binary) /\ fr \in Seq(Binary) /\ po \in Seq(Binary)
    BY <1>3 DEF Five
  <2> QED
    BY <2>1
<1>13. PICK lr \in Nat, lw \in Nat, le \in Nat : lr = Len(rf) /\ lw = Len(wi) /\ le = Len(he)
  <2>1. rf \in Seq(Binary) /\ wi \in Seq(Binary) /\ he \in Seq(Binary)
    BY <1>3 DEF Five
  <2> QED
    BY <2>1
<1>14. Len(hd) = 32 /\ Len(ga) = 1
  BY <1>1, <1>2, HeaderIs
<1>15. PICK p1 \in Nat : p1 = 32 + li
  OBVIOUS
<1>16. PICK p2 \in Nat : p2 = p1 + lh
  OBVIOUS
<1>17. PICK p3 \in Nat : p3 = p2 + lf
  OBVIOUS
<1>18. PICK p4 \in Nat : p4 = p3 + lp
  OBVIOUS
<1>19. PICK p5 \in Nat : p5 = p4 + lr
  OBVIOUS
<1>20. PICK p6 \in Nat : p6 = p5 + 1
  OBVIOUS
<1>21. PICK p7 \in Nat : p7 = p6 + lw
  OBVIOUS
<1>22. PICK p8 \in Nat : p8 = p7 + le
  OBVIOUS
<1>23. Has(s, 32, id) /\ Has(s, p1, hi) /\ Has(s, p2, fr) /\ Has(s, p3, po)
  <2>1. z + Len(hd) = 32 /\ 32 + Len(id) = p1 /\ p1 + Len(hi) = p2 /\ p2 + Len(fr) = p3
    BY <1>5, <1>12, <1>14, <1>15, <1>16, <1>17
  <2> QED
    BY <1>8, <2>1
<1>24. Has(s, p4, rf) /\ Has(s, p5, ga) /\ Has(s, p6, wi) /\ Has(s, p7, he)
  <2>1. z + Len(first) = p4
    BY <1>5, <1>9, <1>12, <1>14, <1>15, <1>16, <1>17, <1>18
  <2>2. p4 + Len(rf) = p5 /\ p5 + Len(ga) = p6 /\ p6 + Len(wi) = p7
    BY <1>13, <1>14, <1>19, <1>20, <1>21
  <2> QED
    BY <1>7, <2>1, <2>2
<1>25. Has(s, p8, fb)
  <2>1. z + Len(first) = p4
    BY <1>5, <1>9, <1>12, <1>14, <1>15, <1>16, <1>17, <1>18
  <2>2. z + Len(size) = z + Len(first) + lr + 1 + lw + le
    BY <1>5, <1>9, <1>10, <1>12, <1>13, <1>14
  <2>3. z + Len(size) = p8
    BY <1>19, <1>20, <1>21, <1>22, <2>1, <2>2
  <2> QED
    BY <1>6, <2>3
<1>26. ReadUe(s, 32) = [v |-> vi, pos |-> p1]
  <2>1. PICK q \in Nat : q = 32
    OBVIOUS
  <2>2. ReadUe(s, q) = [v |-> vi, pos |-> p1]
    <3>1. id = UeBits(vi) /\ Has(s, q, id) /\ p1 = q + Len(id)
      BY <1>1, <1>11, <1>12, <1>15, <1>23, <2>1
    <3> QED
      BY <1>11, <3>1, HasNumber
  <2> QED
    BY <2>1, <2>2
<1>27. (IF s[2] \in HighProfiles THEN HighPart(s, p1) ELSE p1) = p2
  <2>1. CASE x.profile \in HighProfiles
    <3>1. hi = HighBits(x)
      BY <1>1, <2>1 DEF HighOrNot
    <3>2. HighFields(x) /\ Has(s, p1, HighBits(x)) /\ lh = Len(HighBits(x))
      BY <1>12, <1>23, <2>1, <3>1 DEF Readable
    <3>3. HighPart(s, p1) = p1 + lh
      BY <2>1, <3>2, HighPartReads
    <3> QED
      BY <1>16, <2>1, <3>3
  <2>2. CASE x.profile \notin HighProfiles
    <3>1. hi = <<>>
      BY <1>1, <2>2 DEF HighOrNot
    <3>2. lh = 0
      BY <1>12, <3>1
    <3> QED
      BY <1>16, <2>2, <3>2
  <2> QED
    BY <2>1, <2>2
<1>28. ReadUe(s, p2) = [v |-> vf, pos |-> p3]
  <2>1. fr = UeBits(vf) /\ Has(s, p2, fr) /\ p3 = p2 + Len(fr)
    BY <1>1, <1>11, <1>12, <1>17, <1>23
  <2> QED
    BY <1>11, <2>1, HasNumber
<1>29. PocPart(s, p3) = [type |-> IF x.poc_type = 1 THEN 9 ELSE x.poc_type,
                         lsb  |-> IF x.poc_type = 0 THEN x.poc_lsb ELSE 0, pos |-> p4]
  <2>1. PocFields(x) /\ Has(s, p3, PocBits(x)) /\ p3 + Len(PocBits(x)) = p4
    BY <1>1, <1>12, <1>18, <1>23 DEF Readable
  <2> QED
    BY <2>1, PocReads
<1>30. ReadUe(s, p4) = [v |-> vr, pos |-> p5]
  <2>1. rf = UeBits(vr) /\ Has(s, p4, rf) /\ p5 = p4 + Len(rf)
    BY <1>2, <1>11, <1>13, <1>19, <1>24
  <2> QED
    BY <1>11, <2>1, HasNumber
<1>31. After(s, p5) = p6
  BY <1>2, <1>20, <1>24, HasFlag
<1>32. ReadUe(s, p6) = [v |-> vw, pos |-> p7]
  <2>1. wi = UeBits(vw) /\ Has(s, p6, wi) /\ p7 = p6 + Len(wi)
    BY <1>2, <1>11, <1>13, <1>21, <1>24
  <2> QED
    BY <1>11, <2>1, HasNumber
<1>33. ReadUe(s, p7) = [v |-> vh, pos |-> p8]
  <2>1. he = UeBits(vh) /\ Has(s, p7, he) /\ p8 = p7 + Len(he)
    BY <1>2, <1>11, <1>13, <1>22, <1>24
  <2> QED
    BY <1>11, <2>1, HasNumber
<1>34. FramePart(s, p8, vw, vh) = FrameRead(x)
  <2>1. FrameFields(x) /\ Has(s, p8, FrameBits(x))
    BY <1>2, <1>25 DEF Readable
  <2>2. FramePart(s, p8, x.w, x.h) = FrameRead(x)
    BY <2>1, FrameReads
  <2> QED
    BY <1>11, <2>2
<1>35. ParseStripped(s) =
         [profile |-> x.profile, constraint |-> x.constraint, level |-> x.level,
          sps_id |-> vi, log2frm |-> vf,
          poc_type |-> IF x.poc_type = 1 THEN 9 ELSE x.poc_type,
          poc_lsb |-> IF x.poc_type = 0 THEN x.poc_lsb ELSE 0, max_ref |-> vr,
          frame |-> IF vw > 300 \/ vh > 300 THEN NoFrame ELSE FramePart(s, p8, vw, vh)]
  <2> DEFINE i == ReadUe(s, 32)
             f == ReadUe(s, IF s[2] \in HighProfiles THEN HighPart(s, i.pos) ELSE i.pos)
             c == PocPart(s, f.pos)
             r == ReadUe(s, c.pos)
             w == ReadUe(s, After(s, r.pos))
             h == ReadUe(s, w.pos)
  <2>1. ParseStripped(s) =
          [profile |-> s[2], constraint |-> s[3], level |-> s[4], sps_id |-> i.v,
           log2frm |-> f.v, poc_type |-> c.type, poc_lsb |-> c.lsb, max_ref |-> r.v,
           frame |-> IF w.v > 300 \/ h.v > 300 THEN NoFrame
                     ELSE FramePart(s, h.pos, w.v, h.v)]
    BY DEF ParseStripped
  <2>2. i.v = vi /\ i.pos = p1
    BY <1>26
  <2> HIDE DEF i
  <2>3. f.v = vf /\ f.pos = p3
    BY <1>27, <1>28, <2>2
  <2> HIDE DEF f
  <2>4. /\ c.type = IF x.poc_type = 1 THEN 9 ELSE x.poc_type
        /\ c.lsb = IF x.poc_type = 0 THEN x.poc_lsb ELSE 0
        /\ c.pos = p4
    BY <1>29, <2>3
  <2> HIDE DEF c
  <2>5. r.v = vr /\ r.pos = p5
    BY <1>30, <2>4
  <2> HIDE DEF r
  <2>6. w.v = vw /\ w.pos = p7
    BY <1>31, <1>32, <2>5
  <2> HIDE DEF w
  <2>7. h.v = vh /\ h.pos = p8
    BY <1>33, <2>6
  <2> HIDE DEF h
  <2> QED
    BY <2>1, <2>2, <2>3, <2>4, <2>5, <2>6, <2>7
<1> QED
  BY <1>11, <1>34, <1>35 DEF SpsRead

-----------------------------------------------------------------------------
(* Bits into bytes *)

\* Eight bits make a byte that has them.
LEMMA EightBits ==
    ASSUME NEW c \in [1 .. 8 -> Binary]
    PROVE  Number(c) \in Bytes /\ \A k \in 1 .. 8 : (Number(c) \div Pow2[8 - k]) % 2 = c[k]
<1>1. PICK n \in Nat : n = 8
  OBVIOUS
<1>2. c \in [1 .. n -> Nat] /\ Len(c) = n
  <2>1. c \in [1 .. n -> Binary]
    BY <1>1
  <2>2. \A x \in Binary : x \in Nat
    BY DEF Binary
  <2>3. c \in [1 .. n -> Nat]
    BY <2>1, <2>2
  <2> QED
    BY <2>1, <2>3, IsSeq
<1>3. PICK x \in [0 .. n -> Nat] :
        /\ x[0] = 0 /\ \A i \in 1 .. n : x[i] = 2 * x[i - 1] + c[i]
        /\ Number(c) = x[n]
  BY <1>2, NumberLoop
<1>4. PICK c1, c2, c3, c4, c5, c6, c7, c8 :
        /\ c1 = c[1] /\ c2 = c[2] /\ c3 = c[3] /\ c4 = c[4]
        /\ c5 = c[5] /\ c6 = c[6] /\ c7 = c[7] /\ c8 = c[8]
  OBVIOUS
<1>5. /\ c1 \in 0 .. 1 /\ c2 \in 0 .. 1 /\ c3 \in 0 .. 1 /\ c4 \in 0 .. 1
      /\ c5 \in 0 .. 1 /\ c6 \in 0 .. 1 /\ c7 \in 0 .. 1 /\ c8 \in 0 .. 1
  BY <1>4 DEF Binary
<1>6. /\ x[1] = 2 * x[0] + c1 /\ x[2] = 2 * x[1] + c2 /\ x[3] = 2 * x[2] + c3
      /\ x[4] = 2 * x[3] + c4 /\ x[5] = 2 * x[4] + c5 /\ x[6] = 2 * x[5] + c6
      /\ x[7] = 2 * x[6] + c7 /\ x[8] = 2 * x[7] + c8
  BY <1>1, <1>3, <1>4
<1>7. PICK v : v = Number(c)
  OBVIOUS
<1>8. v = 128 * c1 + 64 * c2 + 32 * c3 + 16 * c4 + 8 * c5 + 4 * c6 + 2 * c7 + c8
  BY <1>1, <1>3, <1>5, <1>6, <1>7
<1>9. v \in Nat /\ v <= 255 /\ v \in Bytes
  BY <1>5, <1>8 DEF Bytes
<1>20. PICK x1 \in Nat, x2 \in Nat, x3 \in Nat, x4 \in Nat, x5 \in Nat, x6 \in Nat, x7 \in Nat :
         /\ x1 = c1 /\ x2 = 2 * x1 + c2 /\ x3 = 2 * x2 + c3 /\ x4 = 2 * x3 + c4
         /\ x5 = 2 * x4 + c5 /\ x6 = 2 * x5 + c6 /\ x7 = 2 * x6 + c7
  BY <1>5
<1>21. /\ v = 2 * x7 + c8 /\ v = 4 * x6 + (2 * c7 + c8) /\ v = 8 * x5 + (4 * c6 + 2 * c7 + c8)
       /\ v = 16 * x4 + (8 * c5 + 4 * c6 + 2 * c7 + c8)
  BY <1>5, <1>8, <1>20
<1>22. /\ v = 32 * x3 + (16 * c4 + 8 * c5 + 4 * c6 + 2 * c7 + c8)
       /\ v = 64 * x2 + (32 * c3 + 16 * c4 + 8 * c5 + 4 * c6 + 2 * c7 + c8)
       /\ v = 128 * x1 + (64 * c2 + 32 * c3 + 16 * c4 + 8 * c5 + 4 * c6 + 2 * c7 + c8)
  BY <1>5, <1>8, <1>20
<1>31. (v \div 128) % 2 = c1
  <2>1. PICK r : r = 64 * c2 + 32 * c3 + 16 * c4 + 8 * c5 + 4 * c6 + 2 * c7 + c8
    OBVIOUS
  <2>2. r \in Nat /\ r < 128
    BY <1>5, <2>1
  <2>3. v = 128 * x1 + r
    BY <1>21, <1>22, <2>1
  <2>4. v \div 128 = x1
    BY <1>9, <2>2, <2>3
  <2>5. x1 % 2 = c1
    BY <1>5, <1>20, SMTT(40)
  <2> QED
    BY <2>4, <2>5
<1>32. (v \div 64) % 2 = c2
  <2>1. PICK r : r = 32 * c3 + 16 * c4 + 8 * c5 + 4 * c6 + 2 * c7 + c8
    OBVIOUS
  <2>2. r \in Nat /\ r < 64
    BY <1>5, <2>1
  <2>3. v = 64 * x2 + r
    BY <1>21, <1>22, <2>1
  <2>4. v \div 64 = x2
    BY <1>9, <2>2, <2>3
  <2>5. x2 % 2 = c2
    <3>1. x2 = 2 * x1 + c2 /\ x1 \in Nat /\ c2 \in 0 .. 1
      BY <1>5, <1>20
    <3> QED
      BY <3>1
  <2> QED
    BY <2>4, <2>5
<1>33. (v \div 32) % 2 = c3
  <2>1. PICK r : r = 16 * c4 + 8 * c5 + 4 * c6 + 2 * c7 + c8
    OBVIOUS
  <2>2. r \in Nat /\ r < 32
    BY <1>5, <2>1
  <2>3. v = 32 * x3 + r
    BY <1>21, <1>22, <2>1
  <2>4. v \div 32 = x3
    BY <1>9, <2>2, <2>3
  <2>5. x3 % 2 = c3
    <3>1. x3 = 2 * x2 + c3 /\ x2 \in Nat /\ c3 \in 0 .. 1
      BY <1>5, <1>20
    <3> QED
      BY <3>1, SMTT(40)
  <2> QED
    BY <2>4, <2>5
<1>34. (v \div 16) % 2 = c4
  <2>1. PICK r : r = 8 * c5 + 4 * c6 + 2 * c7 + c8
    OBVIOUS
  <2>2. r \in Nat /\ r < 16
    BY <1>5, <2>1
  <2>3. v = 16 * x4 + r
    BY <1>21, <1>22, <2>1
  <2>4. v \div 16 = x4
    BY <1>9, <2>2, <2>3
  <2>5. x4 % 2 = c4
    <3>1. x4 = 2 * x3 + c4 /\ x3 \in Nat /\ c4 \in 0 .. 1
      BY <1>5, <1>20
    <3> QED
      BY <3>1, SMTT(40)
  <2> QED
    BY <2>4, <2>5
<1>35. (v \div 8) % 2 = c5
  <2>1. PICK r : r = 4 * c6 + 2 * c7 + c8
    OBVIOUS
  <2>2. r \in Nat /\ r < 8
    BY <1>5, <2>1
  <2>3. v = 8 * x5 + r
    BY <1>21, <1>22, <2>1
  <2>4. v \div 8 = x5
    BY <1>9, <2>2, <2>3
  <2>5. x5 % 2 = c5
    <3>1. x5 = 2 * x4 + c5 /\ x4 \in Nat /\ c5 \in 0 .. 1
      BY <1>5, <1>20
    <3> QED
      BY <3>1, SMTT(40)
  <2> QED
    BY <2>4, <2>5
<1>36. (v \div 4) % 2 = c6
  <2>1. PICK r : r = 2 * c7 + c8
    OBVIOUS
  <2>2. r \in Nat /\ r < 4
    BY <1>5, <2>1
  <2>3. v = 4 * x6 + r
    BY <1>21, <1>22, <2>1
  <2>4. v \div 4 = x6
    BY <1>9, <2>2, <2>3
  <2>5. x6 % 2 = c6
    <3>1. x6 = 2 * x5 + c6 /\ x5 \in Nat /\ c6 \in 0 .. 1
      BY <1>5, <1>20
    <3> QED
      BY <3>1
  <2> QED
    BY <2>4, <2>5
<1>37. (v \div 2) % 2 = c7
  <2>1. PICK r : r = c8
    OBVIOUS
  <2>2. r \in Nat /\ r < 2
    BY <1>5, <2>1
  <2>3. v = 2 * x7 + r
    BY <1>21, <1>22, <2>1
  <2>4. v \div 2 = x7
    BY <1>9, <2>2, <2>3
  <2>5. x7 % 2 = c7
    <3>1. x7 = 2 * x6 + c7 /\ x6 \in Nat /\ c7 \in 0 .. 1
      BY <1>5, <1>20
    <3> QED
      BY <3>1, SMTT(40)
  <2> QED
    BY <2>4, <2>5
<1>38. (v \div 1) % 2 = c8
  BY <1>5, <1>9, <1>21, SMTT(40)
<1>14. ASSUME NEW k \in 1 .. 8 PROVE (v \div Pow2[8 - k]) % 2 = c[k]
  <2>1. k = 1 \/ k = 2 \/ k = 3 \/ k = 4 \/ k = 5 \/ k = 6 \/ k = 7 \/ k = 8
    OBVIOUS
  <2>2. /\ Pow2[8 - 1] = 128 /\ Pow2[8 - 2] = 64 /\ Pow2[8 - 3] = 32 /\ Pow2[8 - 4] = 16
        /\ Pow2[8 - 5] = 8 /\ Pow2[8 - 6] = 4 /\ Pow2[8 - 7] = 2 /\ Pow2[8 - 8] = 1
    BY Pow2Table
  <2> QED
    BY <1>4, <1>31, <1>32, <1>33, <1>34, <1>35, <1>36, <1>37, <1>38, <2>1, <2>2, SMTT(40)
<1> QED
  BY <1>7, <1>9, <1>14

\* The i-th eight of the bits, zeros after them.
Eight(b, i) == [k \in 1 .. 8 |-> IF 8 * (i - 1) + k <= Len(b) THEN b[8 * (i - 1) + k] ELSE 0]

\* They are what Octet puts together.
LEMMA EightIs ==
    ASSUME NEW b \in Seq(Binary), NEW i \in Nat \ {0}
    PROVE  /\ Eight(b, i) \in [1 .. 8 -> Binary] /\ Octet(b, i) = Number(Eight(b, i))
           /\ \A k \in 1 .. 8 : Eight(b, i)[k] =
                IF 8 * (i - 1) + k <= Len(b) THEN b[8 * (i - 1) + k] ELSE 0
<1>1. ASSUME NEW k \in 1 .. 8
      PROVE  (IF 8 * (i - 1) + k <= Len(b) THEN b[8 * (i - 1) + k] ELSE 0) \in Binary
  <2>1. 0 \in Binary
    BY Flags
  <2>2. PICK j \in Nat \ {0} : j = 8 * (i - 1) + k
    OBVIOUS
  <2>3. j <= Len(b) => j \in 1 .. Len(b)
    OBVIOUS
  <2>4. j <= Len(b) => b[j] \in Binary
    BY <2>3
  <2> QED
    BY <2>1, <2>2, <2>4
<1>2. Octet(b, i) = Number(Eight(b, i))
  BY DEF Octet, Eight
<1> QED
  BY <1>1, <1>2 DEF Eight

\* As many bytes as the bits fill.
LEMMA PackIs ==
    ASSUME NEW b \in Seq(Binary)
    PROVE  /\ Pack(b) \in Seq(Bytes)
           /\ Len(b) <= 8 * Len(Pack(b)) /\ 8 * Len(Pack(b)) <= Len(b) + 7
           /\ \A i \in 1 .. Len(Pack(b)) : Pack(b)[i] = Octet(b, i)
<1>1. PICK l \in Nat : l = Len(b)
  OBVIOUS
<1>2. PICK n \in Nat : n = (l + 7) \div 8 /\ l <= 8 * n /\ 8 * n <= l + 7
  <2>1. PICK n : n = (l + 7) \div 8
    OBVIOUS
  <2>2. n \in Nat /\ l <= 8 * n /\ 8 * n <= l + 7
    BY <2>1
  <2> QED
    BY <2>1, <2>2
<1>3. PICK d : d = Pack(b)
  OBVIOUS
<1>4. d = [i \in 1 .. n |-> Octet(b, i)]
  BY <1>1, <1>2, <1>3 DEF Pack
<1>5. ASSUME NEW i \in 1 .. n PROVE Octet(b, i) \in Bytes
  <2>1. i \in Nat \ {0}
    OBVIOUS
  <2>2. PICK c \in [1 .. 8 -> Binary] : c = Eight(b, i) /\ Octet(b, i) = Number(c)
    BY <2>1, EightIs
  <2> QED
    BY <2>2, EightBits
<1>6. d \in [1 .. n -> Bytes]
  BY <1>4, <1>5
<1>7. d \in Seq(Bytes) /\ Len(d) = n
  BY <1>6, IsSeq
<1> QED
  BY <1>1, <1>2, <1>3, <1>4, <1>7

\* Packed bits are read back, then zeros.
LEMMA PackedBit ==
    ASSUME NEW b \in Seq(Binary), NEW p \in Nat, p < 8 * Len(Pack(b))
    PROVE  Bit(Pack(b), p) = IF p + 1 <= Len(b) THEN b[p + 1] ELSE 0
<1>1. PICK d \in Seq(Bytes) : d = Pack(b)
  BY PackIs
<1>2. PICK n \in Nat : n = Len(d)
  OBVIOUS
<1>3. PICK j, r : j = p \div 8 /\ r = p % 8
  OBVIOUS
<1>4. j \in Nat /\ r \in 0 .. 7 /\ p = 8 * j + r
  BY <1>3
<1>5. p < 8 * n
  BY <1>1, <1>2
<1>6. PICK i \in 1 .. n : i = j + 1
  BY <1>4, <1>5
<1>7. i \in Nat \ {0}
  OBVIOUS
<1>8. PICK c \in [1 .. 8 -> Binary] : c = Eight(b, i) /\ Octet(b, i) = Number(c)
  BY <1>7, EightIs
<1>9. d[i] = Number(c)
  BY <1>1, <1>2, <1>8, PackIs
<1>10. PICK k \in 1 .. 8 : k = r + 1 /\ 8 - k = 7 - r
  BY <1>4
<1>11. (Number(c) \div Pow2[8 - k]) % 2 = c[k]
  BY EightBits
<1>12. Bit(d, p) = (d[i] \div Pow2[7 - r]) % 2
  BY <1>2, <1>3, <1>5, <1>6 DEF Bit
<1>13. Bit(d, p) = c[k]
  BY <1>9, <1>10, <1>11, <1>12
<1>14. c[k] = IF 8 * (i - 1) + k <= Len(b) THEN b[8 * (i - 1) + k] ELSE 0
  BY <1>7, <1>8, EightIs
<1>15. 8 * (i - 1) + k = p + 1
  BY <1>4, <1>6, <1>10
<1> QED
  BY <1>1, <1>13, <1>14, <1>15

\* Packed bits are found from 0 on.
LEMMA PackHas ==
    ASSUME NEW b \in Seq(Binary)
    PROVE  Has(Pack(b), 0, b)
<1>1. PICK l \in Nat, e \in Nat : l = Len(b) /\ e = 8 * Len(Pack(b)) /\ l <= e
  <2>1. PICK d \in Seq(Bytes) : d = Pack(b) /\ Len(b) <= 8 * Len(d)
    BY PackIs
  <2> QED
    BY <2>1
<1>2. ASSUME NEW i \in 1 .. l PROVE Bit(Pack(b), 0 + i - 1) = b[i]
  <2>1. PICK p \in Nat : p = i - 1 /\ p + 1 = i /\ 0 + i - 1 = p /\ p < e
    BY <1>1
  <2>2. Bit(Pack(b), p) = IF p + 1 <= Len(b) THEN b[p + 1] ELSE 0
    BY <1>1, <2>1, PackedBit
  <2> QED
    BY <1>1, <2>1, <2>2
<1> QED
  BY <1>1, <1>2 DEF Has

\* Eight bits on the border of a byte are the byte.
LEMMA HasByte ==
    ASSUME NEW s \in Seq(Bytes), NEW i \in Nat \ {0}, NEW p \in Nat, p = 8 * (i - 1),
           NEW v \in Bytes, Has(s, p, Bits(v, 8))
    PROVE  s[i] = v /\ i <= Len(s)
<1>1. PICK n \in 0 .. 30 : n = 8
  OBVIOUS
<1>2. v \in Nat /\ v <= 255
  BY ByteIsNat, SMTT(40)
<1>3. PICK b : b = Bits(v, n) /\ b \in Seq(Binary) /\ Len(b) = n
               /\ \A k \in 1 .. n : b[k] = (v \div Pow2[n - k]) % 2
  <2>1. /\ Bits(v, n) \in Seq(Binary) /\ Len(Bits(v, n)) = n
        /\ \A k \in 1 .. n : Bits(v, n)[k] = (v \div Pow2[n - k]) % 2
    BY <1>2, BitsShape
  <2>2. PICK b : b = Bits(v, n)
    OBVIOUS
  <2> QED
    BY <2>1, <2>2, SMTT(40)
<1>4. PICK m \in Nat : m = Len(s)
  OBVIOUS
<1>5. p + 8 <= 8 * m /\ \A k \in 1 .. n : Bit(s, p + k - 1) = b[k]
  BY <1>1, <1>3, <1>4 DEF Has
<1>6. i \in 1 .. m
  BY <1>4, <1>5
<1>7. PICK u \in Bytes : u = s[i]
  BY <1>4, <1>6
<1>8. u \in Nat /\ u <= 255
  BY ByteIsNat
<1>9. ASSUME NEW k \in 1 .. n PROVE b[k] = (u \div Pow2[n - k]) % 2
  <2>1. PICK q \in Nat : q = p + k - 1 /\ q < 8 * m
    BY <1>1, <1>5, SMTT(40)
  <2>2. PICK j, r : j = q \div 8 /\ r = q % 8
    OBVIOUS
  <2>3. j + 1 = i /\ 7 - r = n - k
    BY <1>1, <2>1, <2>2
  <2>4. Bit(s, q) = (s[j + 1] \div Pow2[7 - r]) % 2
    BY <1>4, <2>1, <2>2 DEF Bit
  <2>5. Bit(s, q) = b[k]
    BY <1>5, <2>1
  <2> QED
    BY <1>7, <2>3, <2>4, <2>5
<1>10. b \in [1 .. n -> Nat]
  <2>1. \A x \in Binary : x \in Nat
    BY DEF Binary
  <2>2. b \in [1 .. n -> Binary]
    BY <1>3, SMTT(40)
  <2> QED
    BY <2>1, <2>2
<1>11. Pow2[n] = 256
  BY <1>1, Pow2Table, SMTT(40)
<1>12. Number(b) = IF v < Pow2[n] THEN v ELSE v - Pow2[n]
  <2>1. v < 2 * Pow2[n]
    BY <1>2, <1>11, SMTT(40)
  <2> QED
    BY <1>2, <1>3, <1>10, <2>1, NumberOfBits
<1>13. Number(b) = IF u < Pow2[n] THEN u ELSE u - Pow2[n]
  <2>1. u < 2 * Pow2[n]
    BY <1>8, <1>11
  <2> QED
    BY <1>3, <1>8, <1>9, <1>10, <2>1, NumberOfBits
<1>14. v < Pow2[n] /\ u < Pow2[n]
  BY <1>2, <1>8, <1>11
<1> QED
  BY <1>4, <1>6, <1>7, <1>12, <1>13, <1>14

\* The first four bytes of what holds the bits of an SPS.
LEMMA HeaderReads ==
    ASSUME NEW s \in Seq(Bytes), NEW x, Readable(x), Has(s, 0, SizeBits(x) \o FrameBits(x))
    PROVE  /\ s[1] = 103 /\ s[2] = x.profile /\ s[3] = x.constraint /\ s[4] = x.level
           /\ Len(s) >= 4
<1>1. PICK hd, first, size, fb : hd = Header(x) /\ first = FirstBits(x) /\ size = SizeBits(x)
        /\ fb = FrameBits(x)
  OBVIOUS
<1>2. PICK a, b, c, d : a = Bits(103, 8) /\ b = Bits(x.profile, 8) /\ c = Bits(x.constraint, 8)
                        /\ d = Bits(x.level, 8)
  OBVIOUS
<1>3. Four(hd, a, b, c, d)
  BY <1>1, <1>2, HeaderIs
<1>4. PICK z \in Nat : z = 0
  OBVIOUS
<1>5. Has(s, z, size)
  <2>1. Has(s, z, size \o fb) /\ size \in Seq(Binary) /\ fb \in Seq(Binary)
    BY <1>1, <1>4, SizeBitsAre
  <2> QED
    BY <2>1, HasCat
<1>6. Has(s, z, hd)
  <2>1. Five(size, first, UeBits(x.max_ref), <<x.gaps>>, UeBits(x.w), UeBits(x.h))
    BY <1>1, SizeBitsAre
  <2>2. Has(s, z, first)
    BY <1>5, <2>1, HasFive
  <2>3. Five(first, hd, UeBits(x.sps_id), HighOrNot(x), UeBits(x.log2frm), PocBits(x))
    BY <1>1, SizeBitsAre
  <2> QED
    BY <2>2, <2>3, HasFive
<1>7. /\ Has(s, z, a) /\ Has(s, z + Len(a), b) /\ Has(s, z + Len(a) + Len(b), c)
      /\ Has(s, z + Len(a) + Len(b) + Len(c), d)
  BY <1>3, <1>6, HasFour
<1>8. PICK v0 \in Bytes, v1 \in Bytes, v2 \in Bytes, v3 \in Bytes :
        v0 = 103 /\ v1 = x.profile /\ v2 = x.constraint /\ v3 = x.level
  <2>1. 103 \in Bytes
    BY DEF Bytes
  <2> QED
    BY <2>1 DEF Readable
<1>9. Len(a) = 8 /\ Len(b) = 8 /\ Len(c) = 8
  <2>1. PICK n \in 0 .. 30 : n = 8
    OBVIOUS
  <2>2. v0 \in Nat /\ v1 \in Nat /\ v2 \in Nat
    BY <1>8, ByteIsNat
  <2>3. Len(Bits(v0, n)) = n /\ Len(Bits(v1, n)) = n /\ Len(Bits(v2, n)) = n
    BY <2>2, BitsShape
  <2> QED
    BY <1>2, <1>8, <2>1, <2>3
<1>10. PICK q1 \in Nat, q2 \in Nat, q3 \in Nat : q1 = 8 /\ q2 = 16 /\ q3 = 24
  OBVIOUS
<1>11. /\ Has(s, z, Bits(v0, 8)) /\ Has(s, q1, Bits(v1, 8)) /\ Has(s, q2, Bits(v2, 8))
       /\ Has(s, q3, Bits(v3, 8))
  <2>1. z + Len(a) = q1 /\ z + Len(a) + Len(b) = q2 /\ z + Len(a) + Len(b) + Len(c) = q3
    BY <1>4, <1>9, <1>10
  <2>2. a = Bits(v0, 8) /\ b = Bits(v1, 8) /\ c = Bits(v2, 8) /\ d = Bits(v3, 8)
    BY <1>2, <1>8
  <2> QED
    BY <1>7, <2>1, <2>2
<1>12. PICK i1 \in Nat \ {0}, i2 \in Nat \ {0}, i3 \in Nat \ {0}, i4 \in Nat \ {0} :
         i1 = 1 /\ i2 = 2 /\ i3 = 3 /\ i4 = 4
  OBVIOUS
<1>13. z = 8 * (i1 - 1) /\ q1 = 8 * (i2 - 1) /\ q2 = 8 * (i3 - 1) /\ q3 = 8 * (i4 - 1)
  BY <1>4, <1>10, <1>12
<1>14. s[i1] = v0
  BY <1>11, <1>13, HasByte
<1>15. s[i2] = v1
  BY <1>11, <1>13, HasByte
<1>16. s[i3] = v2
  BY <1>11, <1>13, HasByte
<1>17. s[i4] = v3 /\ i4 <= Len(s)
  BY <1>11, <1>13, HasByte
<1> QED
  BY <1>8, <1>12, <1>14, <1>15, <1>16, <1>17

-----------------------------------------------------------------------------
(* Escaping and stripping *)

\* t begins with s.
Before(s, t) == Len(s) <= Len(t) /\ \A i \in 1 .. Len(s) : t[i] = s[i]

\* s ends with two zeros.
EndsZeros(s) == Len(s) >= 2 /\ s[Len(s)] = 0 /\ s[Len(s) - 1] = 0

\* One byte more.
LEMMA AppendIs ==
    ASSUME NEW s \in Seq(Bytes), NEW b \in Bytes, NEW t, t = Append(s, b)
    PROVE  /\ t \in Seq(Bytes) /\ Len(t) = Len(s) + 1 /\ t[Len(s) + 1] = b /\ Before(s, t)
<1>1. t \in Seq(Bytes) /\ Len(t) = Len(s) + 1 /\ t[Len(s) + 1] = b
  OBVIOUS
<1>2. \A i \in 1 .. Len(s) : t[i] = s[i]
  OBVIOUS
<1>3. Len(s) \in Nat
  OBVIOUS
<1> QED
  BY <1>1, <1>2, <1>3 DEF Before

LEMMA BeforeTwice ==
    ASSUME NEW r \in Seq(Bytes), NEW s \in Seq(Bytes), NEW t \in Seq(Bytes),
           Before(r, s), Before(s, t)
    PROVE  Before(r, t)
<1>1. PICK a \in Nat, b \in Nat, c \in Nat : a = Len(r) /\ b = Len(s) /\ c = Len(t)
  OBVIOUS
<1>2. a <= b /\ b <= c
  BY <1>1 DEF Before
<1>3. ASSUME NEW i \in 1 .. a PROVE t[i] = r[i]
  <2>1. i \in 1 .. b
    BY <1>2
  <2> QED
    BY <1>1, <2>1 DEF Before
<1> QED
  BY <1>1, <1>2, <1>3 DEF Before

LEMMA BeforeSame ==
    ASSUME NEW s \in Seq(Bytes)
    PROVE  Before(s, s)
  BY DEF Before

\* A byte is left out or added.
LEMMA StripByteIs ==
    ASSUME NEW s \in Seq(Bytes), NEW b \in Bytes
    PROVE  /\ StripByte(s, b) \in Seq(Bytes) /\ Before(s, StripByte(s, b))
           /\ Len(StripByte(s, b)) <= Len(s) + 1
           /\ StripByte(s, b) = IF b = 3 /\ EndsZeros(s) THEN s ELSE Append(s, b)
<1>1. StripByte(s, b) = IF b = 3 /\ EndsZeros(s) THEN s ELSE Append(s, b)
  BY DEF StripByte, EndsZeros
<1>2. PICK t : t = Append(s, b)
  OBVIOUS
<1>3. t \in Seq(Bytes) /\ Len(t) = Len(s) + 1 /\ Before(s, t)
  BY <1>2, AppendIs
<1>4. Len(s) \in Nat
  OBVIOUS
<1> QED
  BY <1>1, <1>2, <1>3, <1>4, BeforeSame

\* f holds what is left after each byte of d.
Strips(f, d) ==
    f[0] = <<>> /\ \A i \in 1 .. Len(d) : f[i] = StripByte(f[i - 1], d[i])

\* Strip is what its loop leaves.
LEMMA StripLoop ==
    ASSUME NEW d \in Seq(Bytes)
    PROVE  \E f \in [0 .. Len(d) -> Seq(Bytes)] : Strips(f, d) /\ Strip(d) = f[Len(d)]
<1>0. PICK n \in Nat : n = Len(d)
  OBVIOUS
<1>1. PICK X : X = Seq(Bytes)
  OBVIOUS
<1>2. ASSUME NEW x \in X, NEW i \in 1 .. n PROVE StripByte(x, d[i]) \in X
  <2>1. d[i] \in Bytes
    BY <1>0
  <2> QED
    BY <1>1, <2>1, StripByteIs
<1> DEFINE Q(f) == f = [i \in 0 .. n |-> IF i = 0 THEN <<>> ELSE StripByte(f[i - 1], d[i])]
<1>3. \E f \in [0 .. n -> X] : Q(f)
  <2> DEFINE G == [i \in 1 .. n |-> [x \in X |-> StripByte(x, d[i])]]
  <2>1. G \in [1 .. n -> [X -> X]]
    BY <1>2
  <2>2. \A i \in 1 .. n : \A x \in X : G[i][x] = StripByte(x, d[i])
    OBVIOUS
  <2> HIDE DEF G
  <2>3. <<>> \in X
    BY <1>1
  <2>4. PICK f \in [0 .. n -> X] : Runs(f, <<>>, n, G)
    BY <2>1, <2>3, LoopRuns
  <2>5. ASSUME NEW i \in 0 .. n PROVE f[i] = IF i = 0 THEN <<>> ELSE StripByte(f[i - 1], d[i])
    <3>1. i # 0 => i \in 1 .. n /\ i - 1 \in 0 .. n
      OBVIOUS
    <3>2. i # 0 => f[i - 1] \in X
      BY <3>1
    <3> QED
      BY <2>2, <2>4, <3>1, <3>2 DEF Runs
  <2>6. Q(f)
    BY <2>5
  <2> QED
    BY <2>6
<1> DEFINE q == CHOOSE f : Q(f)
<1>4. Q(q)
  BY <1>3
<1>5. Strip(d) = q[n]
  BY <1>0 DEF Strip
<1> HIDE DEF q
<1>6. q[0] = <<>> /\ \A i \in 1 .. n : q[i] = StripByte(q[i - 1], d[i])
  BY <1>4
<1>7. ASSUME NEW i \in 0 .. n PROVE q[i] \in X
  <2> DEFINE S == {m \in Nat : m <= n => q[m] \in X}
  <2>1. 0 \in S
    <3>1. <<>> \in X
      BY <1>1
    <3>2. q[0] \in X
      BY <1>6, <3>1
    <3> QED
      BY <3>2
  <2>2. ASSUME NEW m \in Nat, m \in S PROVE m + 1 \in S
    <3>1. m + 1 <= n => m <= n /\ m + 1 \in 1 .. n /\ (m + 1) - 1 = m
      OBVIOUS
    <3>2. PICK k : k = m + 1
      OBVIOUS
    <3>3. k <= n => q[k] = StripByte(q[m], d[k])
      BY <1>6, <3>1, <3>2
    <3>4. k <= n => q[m] \in X /\ k \in 1 .. n
      BY <2>2, <3>1, <3>2
    <3>5. k <= n => q[k] \in X
      BY <1>2, <3>3, <3>4
    <3> QED
      BY <3>2, <3>5
  <2>3. i \in S
    <3> HIDE DEF S
    <3> QED
      BY <2>1, <2>2, InductionOn
  <2> QED
    BY <2>3
<1>8. q \in [0 .. n -> X]
  BY <1>4, <1>7
<1> QED
  BY <1>0, <1>1, <1>5, <1>6, <1>8 DEF Strips

\* What is left of the first bytes does not depend on the others.
LEMMA StripsAgree ==
    ASSUME NEW d \in Seq(Bytes), NEW e \in Seq(Bytes), Before(d, e),
           NEW f \in [0 .. Len(d) -> Seq(Bytes)], NEW g \in [0 .. Len(e) -> Seq(Bytes)],
           Strips(f, d), Strips(g, e)
    PROVE  \A i \in 0 .. Len(d) : f[i] = g[i]
<1>1. PICK n \in Nat, l \in Nat : n = Len(d) /\ l = Len(e)
  OBVIOUS
<1> DEFINE S == {m \in Nat : m <= n => f[m] = g[m]}
<1>2. 0 \in S
  BY DEF Strips
<1>3. ASSUME NEW m \in Nat, m \in S PROVE m + 1 \in S
  <2>1. PICK k : k = m + 1 /\ m = k - 1
    OBVIOUS
  <2> SUFFICES ASSUME k <= n PROVE f[k] = g[k]
    BY <2>1
  <2>2. k \in 1 .. n /\ k \in 1 .. l /\ e[k] = d[k]
    BY <1>1, <2>1 DEF Before
  <2>3. f[m] = g[m]
    BY <1>3, <2>1
  <2>4. f[k] = StripByte(f[m], d[k]) /\ g[k] = StripByte(g[m], e[k])
    BY <1>1, <2>1, <2>2 DEF Strips
  <2> QED
    BY <2>2, <2>3, <2>4
<1>4. Nat \subseteq S
  <2> HIDE DEF S
  <2> QED
    BY <1>2, <1>3, InductionOn
<1> QED
  BY <1>1, <1>4

\* Nothing grows that is stripped.
LEMMA StripIs ==
    ASSUME NEW d \in Seq(Bytes)
    PROVE  Strip(d) \in Seq(Bytes) /\ Len(Strip(d)) <= Len(d)
<1>1. PICK n \in Nat : n = Len(d)
  OBVIOUS
<1>2. PICK f \in [0 .. n -> Seq(Bytes)] : Strips(f, d) /\ Strip(d) = f[n]
  BY <1>1, StripLoop
<1> DEFINE S == {m \in Nat : m <= n => Len(f[m]) <= m}
<1>3. 0 \in S
  BY <1>2 DEF Strips
<1>4. ASSUME NEW m \in Nat, m \in S PROVE m + 1 \in S
  <2>1. PICK k : k = m + 1 /\ m = k - 1
    OBVIOUS
  <2> SUFFICES ASSUME k <= n PROVE Len(f[k]) <= k
    BY <2>1
  <2>2. k \in 1 .. n /\ m \in 0 .. n
    BY <2>1
  <2>3. PICK x \in Seq(Bytes), b \in Bytes : x = f[m] /\ b = d[k] /\ f[k] = StripByte(x, b)
    <3>1. f[m] \in Seq(Bytes) /\ d[k] \in Bytes
      BY <1>1, <2>2
    <3>2. f[k] = StripByte(f[m], d[k])
      BY <1>1, <1>2, <2>1, <2>2 DEF Strips
    <3> QED
      BY <3>1, <3>2
  <2>4. Len(StripByte(x, b)) <= Len(x) + 1 /\ StripByte(x, b) \in Seq(Bytes)
    BY StripByteIs
  <2>5. Len(x) <= m /\ Len(x) \in Nat /\ Len(f[k]) \in Nat
    BY <1>4, <2>2, <2>3, <2>4
  <2> QED
    BY <2>1, <2>3, <2>4, <2>5
<1>5. n \in S
  <2> HIDE DEF S
  <2> QED
    BY <1>3, <1>4, InductionOn
<1> QED
  BY <1>1, <1>2, <1>5

\* One byte more.
LEMMA StripOn ==
    ASSUME NEW d \in Seq(Bytes), NEW b \in Bytes, NEW e, e = Append(d, b)
    PROVE  Strip(e) = StripByte(Strip(d), b)
<1>1. e \in Seq(Bytes) /\ Len(e) = Len(d) + 1 /\ e[Len(d) + 1] = b /\ Before(d, e)
  BY AppendIs
<1>2. PICK n \in Nat, l \in Nat : n = Len(d) /\ l = Len(e) /\ l = n + 1 /\ n = l - 1
  BY <1>1
<1>3. PICK f \in [0 .. Len(d) -> Seq(Bytes)] : Strips(f, d) /\ Strip(d) = f[n]
  BY <1>2, StripLoop
<1>4. PICK g \in [0 .. Len(e) -> Seq(Bytes)] : Strips(g, e) /\ Strip(e) = g[l]
  BY <1>1, <1>2, StripLoop
<1>5. f[n] = g[n]
  <2>1. n \in 0 .. Len(d)
    BY <1>2
  <2>2. \A i \in 0 .. Len(d) : f[i] = g[i]
    <3>1. e \in Seq(Bytes) /\ Before(d, e)
      BY <1>1
    <3>2. Strips(f, d) /\ Strips(g, e)
      BY <1>3, <1>4
    <3> QED
      BY <3>1, <3>2, StripsAgree, ZenonT(60)
  <2> QED
    BY <2>1, <2>2
<1>6. g[l] = StripByte(g[n], e[l])
  <2>1. l \in 1 .. Len(e)
    BY <1>2
  <2> QED
    BY <1>2, <1>4, <2>1 DEF Strips
<1>7. e[l] = b
  BY <1>1, <1>2
<1> QED
  BY <1>3, <1>4, <1>5, <1>6, <1>7

\* What grows step by step begins with what it once was.
LEMMA Grows ==
    ASSUME NEW l \in Nat, NEW h \in [0 .. l -> Seq(Bytes)],
           \A i \in 1 .. l : Before(h[i - 1], h[i]), NEW n \in 0 .. l
    PROVE  Before(h[n], h[l])
<1> DEFINE S == {m \in Nat : n + m <= l => Before(h[n], h[n + m])}
<1>1. 0 \in S
  <2>1. h[n] \in Seq(Bytes) /\ n + 0 = n
    OBVIOUS
  <2> QED
    BY <2>1, BeforeSame
<1>2. ASSUME NEW m \in Nat, m \in S PROVE m + 1 \in S
  <2>1. PICK j, k : j = n + m /\ k = n + (m + 1)
    OBVIOUS
  <2> SUFFICES ASSUME k <= l PROVE Before(h[n], h[k])
    BY <2>1
  <2>2. j \in 0 .. l /\ k \in 1 .. l /\ k \in 0 .. l /\ k - 1 = j
    BY <2>1
  <2>3. h[n] \in Seq(Bytes) /\ h[j] \in Seq(Bytes) /\ h[k] \in Seq(Bytes)
    BY <2>2
  <2>4. Before(h[n], h[j])
    BY <1>2, <2>1, <2>2
  <2>5. Before(h[j], h[k])
    BY <2>2
  <2> QED
    BY <2>3, <2>4, <2>5, BeforeTwice
<1>3. Nat \subseteq S
  <2> HIDE DEF S
  <2> QED
    BY <1>1, <1>2, InductionOn
<1>4. PICK m \in Nat : n + m = l
  <2>1. l - n \in Nat /\ n + (l - n) = l
    OBVIOUS
  <2> QED
    BY <2>1
<1>5. m \in S /\ n + m <= l
  <2> HIDE DEF S
  <2> QED
    BY <1>3, <1>4
<1> QED
  BY <1>4, <1>5

\* More bytes only add to what is left.
LEMMA StripBefore ==
    ASSUME NEW d \in Seq(Bytes), NEW e \in Seq(Bytes), Before(d, e)
    PROVE  Before(Strip(d), Strip(e))
<1>1. PICK n \in Nat, l \in Nat : n = Len(d) /\ l = Len(e) /\ n <= l
  <2>1. Len(d) \in Nat /\ Len(e) \in Nat
    OBVIOUS
  <2> QED
    BY <2>1 DEF Before
<1>3. PICK f \in [0 .. Len(d) -> Seq(Bytes)] : Strips(f, d) /\ Strip(d) = f[Len(d)]
  BY StripLoop
<1>4. PICK g \in [0 .. Len(e) -> Seq(Bytes)] : Strips(g, e) /\ Strip(e) = g[Len(e)]
  BY StripLoop
<1>5. \A i \in 0 .. Len(d) : f[i] = g[i]
  BY <1>3, <1>4, StripsAgree
<1>6. f[n] = g[n]
  BY <1>1, <1>5
<1>7. ASSUME NEW i \in 1 .. l PROVE Before(g[i - 1], g[i])
  <2>1. PICK j \in 0 .. l : j = i - 1
    OBVIOUS
  <2>2. g[j] \in Seq(Bytes) /\ e[i] \in Bytes
    <3>1. g \in [0 .. l -> Seq(Bytes)] /\ i \in 1 .. Len(e)
      BY <1>1, <1>4
    <3> QED
      BY <2>1, <3>1
  <2>3. g[i] = StripByte(g[j], e[i])
    BY <1>1, <1>4, <2>1 DEF Strips
  <2> QED
    BY <2>1, <2>2, <2>3, StripByteIs
<1>8. Before(g[n], g[l])
  <2>1. g \in [0 .. l -> Seq(Bytes)] /\ n \in 0 .. l
    BY <1>1, <1>4
  <2> QED
    BY <1>7, <2>1, Grows
<1> QED
  BY <1>1, <1>3, <1>4, <1>6, <1>8

LEMMA TwoMore ==
    ASSUME NEW s \in Seq(Bytes), NEW a \in Bytes, NEW b \in Bytes
    PROVE  s \o <<a, b>> = Append(Append(s, a), b)
  OBVIOUS

\* A byte is added, a 3 before it if it is low and two zeros come before.
LEMMA EscapeByteIs ==
    ASSUME NEW s \in Seq(Bytes), NEW b \in Bytes
    PROVE  /\ EscapeByte(s, b) \in Seq(Bytes) /\ Before(s, EscapeByte(s, b))
           /\ EscapeByte(s, b) = IF b <= 3 /\ EndsZeros(s) THEN Append(Append(s, 3), b)
                                 ELSE Append(s, b)
<1>1. 3 \in Bytes
  BY DEF Bytes
<1>2. PICK t \in Seq(Bytes) : t = Append(s, 3) /\ Before(s, t)
  BY <1>1, AppendIs, ZenonT(60)
<1>3. PICK u \in Seq(Bytes) : u = Append(t, b) /\ Before(t, u)
  BY AppendIs
<1>4. Before(s, u)
  BY <1>2, <1>3, BeforeTwice
<1>5. PICK v \in Seq(Bytes) : v = Append(s, b) /\ Before(s, v)
  BY AppendIs
<1>6. s \o <<3, b>> = u
  BY <1>1, <1>2, <1>3, TwoMore
<1>7. EscapeByte(s, b) = IF b <= 3 /\ EndsZeros(s) THEN u ELSE v
  BY <1>5, <1>6 DEF EscapeByte, EndsZeros
<1> QED
  BY <1>2, <1>3, <1>4, <1>5, <1>7

\* f holds what is sent after each byte of d.
Escapes(f, d) ==
    f[0] = <<>> /\ \A i \in 1 .. Len(d) : f[i] = EscapeByte(f[i - 1], d[i])

\* Escape is what its loop leaves.
LEMMA EscapeLoop ==
    ASSUME NEW d \in Seq(Bytes)
    PROVE  \E f \in [0 .. Len(d) -> Seq(Bytes)] : Escapes(f, d) /\ Escape(d) = f[Len(d)]
<1>0. PICK n \in Nat : n = Len(d)
  OBVIOUS
<1>1. PICK X : X = Seq(Bytes)
  OBVIOUS
<1>2. ASSUME NEW x \in X, NEW i \in 1 .. n PROVE EscapeByte(x, d[i]) \in X
  <2>1. d[i] \in Bytes
    BY <1>0
  <2> QED
    BY <1>1, <2>1, EscapeByteIs
<1> DEFINE Q(f) == f = [i \in 0 .. n |-> IF i = 0 THEN <<>> ELSE EscapeByte(f[i - 1], d[i])]
<1>3. \E f \in [0 .. n -> X] : Q(f)
  <2> DEFINE G == [i \in 1 .. n |-> [x \in X |-> EscapeByte(x, d[i])]]
  <2>1. G \in [1 .. n -> [X -> X]]
    BY <1>2
  <2>2. \A i \in 1 .. n : \A x \in X : G[i][x] = EscapeByte(x, d[i])
    OBVIOUS
  <2> HIDE DEF G
  <2>3. <<>> \in X
    BY <1>1
  <2>4. PICK f \in [0 .. n -> X] : Runs(f, <<>>, n, G)
    BY <2>1, <2>3, LoopRuns
  <2>5. ASSUME NEW i \in 0 .. n PROVE f[i] = IF i = 0 THEN <<>> ELSE EscapeByte(f[i - 1], d[i])
    <3>1. i # 0 => i \in 1 .. n /\ i - 1 \in 0 .. n
      OBVIOUS
    <3>2. i # 0 => f[i - 1] \in X
      BY <3>1
    <3> QED
      BY <2>2, <2>4, <3>1, <3>2 DEF Runs
  <2>6. Q(f)
    BY <2>5
  <2> QED
    BY <2>6
<1> DEFINE q == CHOOSE f : Q(f)
<1>4. Q(q)
  BY <1>3
<1>5. Escape(d) = q[n]
  BY <1>0 DEF Escape
<1> HIDE DEF q
<1>6. q[0] = <<>> /\ \A i \in 1 .. n : q[i] = EscapeByte(q[i - 1], d[i])
  BY <1>4
<1>7. ASSUME NEW i \in 0 .. n PROVE q[i] \in X
  <2> DEFINE S == {m \in Nat : m <= n => q[m] \in X}
  <2>1. 0 \in S
    <3>1. <<>> \in X
      BY <1>1
    <3>2. q[0] \in X
      BY <1>6, <3>1
    <3> QED
      BY <3>2
  <2>2. ASSUME NEW m \in Nat, m \in S PROVE m + 1 \in S
    <3>1. m + 1 <= n => m <= n /\ m + 1 \in 1 .. n /\ (m + 1) - 1 = m
      OBVIOUS
    <3>2. PICK k : k = m + 1
      OBVIOUS
    <3>3. k <= n => q[k] = EscapeByte(q[m], d[k])
      BY <1>6, <3>1, <3>2
    <3>4. k <= n => q[m] \in X /\ k \in 1 .. n
      BY <2>2, <3>1, <3>2
    <3>5. k <= n => q[k] \in X
      BY <1>2, <3>3, <3>4
    <3> QED
      BY <3>2, <3>5
  <2>3. i \in S
    <3> HIDE DEF S
    <3> QED
      BY <2>1, <2>2, InductionOn
  <2> QED
    BY <2>3
<1>8. q \in [0 .. n -> X]
  BY <1>4, <1>7
<1> QED
  BY <1>0, <1>1, <1>5, <1>6, <1>8 DEF Escapes

\* The first j bytes of d are sent as e, which is stripped to them.
Kept(e, d, j) ==
    /\ Len(Strip(e)) = j /\ Before(Strip(e), d)
    /\ j = 0 => e = <<>>
    /\ j # 0 => Len(e) # 0 /\ e[Len(e)] = d[j] /\ e[1] = d[1]
    /\ EndsZeros(e) => j >= 2 /\ d[j] = 0 /\ d[j - 1] = 0

LEMMA StripEmpty == Strip(<<>>) = <<>>
<1>1. PICK d \in Seq(Bytes) : d = <<>>
  <2>1. <<>> \in Seq(Bytes)
    OBVIOUS
  <2> QED
    BY <2>1
<1>2. Strip(d) \in Seq(Bytes) /\ Len(Strip(d)) <= Len(d)
  BY StripIs
<1>3. Len(d) = 0
  BY <1>1
<1>4. Len(Strip(d)) = 0
  BY <1>2, <1>3
<1> QED
  BY <1>1, <1>2, <1>4

\* One byte more, unless the stripping would take it for an escape.
LEMMA KeptFront ==
    ASSUME NEW s \in Seq(Bytes), NEW d \in Seq(Bytes), NEW j \in Nat, NEW k, k = j + 1,
           k <= Len(d), Len(s) = j, Before(s, d), NEW b, b = d[k],
           ~(k >= 3 /\ d[k] = 3 /\ d[k - 1] = 0 /\ d[k - 2] = 0)
    PROVE  /\ b \in Bytes /\ StripByte(s, b) = Append(s, b)
           /\ Len(StripByte(s, b)) = k /\ Before(StripByte(s, b), d)
<1>1. b \in Bytes
  OBVIOUS
<1>2. PICK t \in Seq(Bytes) : t = Append(s, b) /\ Len(t) = k /\ t[k] = b /\ Before(s, t)
  BY <1>1, AppendIs
<1>3. ~(b = 3 /\ EndsZeros(s))
  <2> SUFFICES ASSUME b = 3, EndsZeros(s) PROVE FALSE
    OBVIOUS
  <2>1. j >= 2 /\ s[j] = 0 /\ s[j - 1] = 0
    BY DEF EndsZeros
  <2>2. j \in 1 .. Len(s) /\ j - 1 \in 1 .. Len(s)
    BY <2>1
  <2>3. d[j] = 0 /\ d[j - 1] = 0
    BY <2>1, <2>2 DEF Before
  <2>4. k - 1 = j /\ k - 2 = j - 1 /\ k >= 3
    BY <2>1
  <2> QED
    BY <2>3, <2>4
<1>4. StripByte(s, b) = t
  BY <1>1, <1>2, <1>3, StripByteIs
<1>5. ASSUME NEW i \in 1 .. k PROVE d[i] = t[i]
  <2>1. CASE i = k
    BY <1>2, <2>1
  <2>2. CASE i # k
    <3>1. i \in 1 .. Len(s)
      BY <2>2
    <3> QED
      BY <1>2, <3>1 DEF Before
  <2> QED
    BY <2>1, <2>2
<1>6. Before(t, d)
  BY <1>2, <1>5 DEF Before
<1> QED
  BY <1>1, <1>2, <1>4, <1>6

\* A byte that is sent as it is keeps the bytes.
LEMMA KeptPlain ==
    ASSUME NEW e \in Seq(Bytes), NEW d \in Seq(Bytes), NEW j \in Nat, NEW k, k = j + 1,
           k <= Len(d), Kept(e, d, j), NEW b, b = d[k],
           ~(k >= 3 /\ d[k] = 3 /\ d[k - 1] = 0 /\ d[k - 2] = 0)
    PROVE  Kept(Append(e, b), d, k)
<1>1. PICK s \in Seq(Bytes) : s = Strip(e)
  BY StripIs
<1>2. Len(s) = j /\ Before(s, d)
  BY <1>1 DEF Kept
<1>3. b \in Bytes /\ Len(StripByte(s, b)) = k /\ Before(StripByte(s, b), d)
  BY <1>2, KeptFront
<1>4. PICK t \in Seq(Bytes) : t = Append(e, b) /\ Len(t) = Len(e) + 1 /\ t[Len(e) + 1] = b
                              /\ Before(e, t)
  BY <1>3, AppendIs
<1>5. Strip(t) = StripByte(s, b)
  BY <1>1, <1>3, <1>4, StripOn
<1>6. PICK n \in Nat : n = Len(e) /\ Len(t) = n + 1 /\ t[n + 1] = b
  BY <1>4
<1>7. j = 0 => n = 0
  BY <1>6 DEF Kept
<1>8. j # 0 => n # 0 /\ e[n] = d[j] /\ e[1] = d[1]
  BY <1>6 DEF Kept
<1>9. n # 0 => t[n] = e[n] /\ t[1] = e[1]
  <2>1. n # 0 => n \in 1 .. Len(e) /\ 1 \in 1 .. Len(e)
    BY <1>6
  <2> QED
    BY <1>4, <2>1 DEF Before
<1>10. t[1] = d[1]
  <2>1. CASE j = 0
    <3>1. t[1] = b /\ k = 1
      BY <1>6, <1>7, <2>1
    <3> QED
      BY <3>1
  <2>2. CASE j # 0
    BY <1>8, <1>9, <2>2
  <2> QED
    BY <2>1, <2>2
<1>11. EndsZeros(t) => k >= 2 /\ d[k] = 0 /\ d[k - 1] = 0
  <2> SUFFICES ASSUME EndsZeros(t) PROVE k >= 2 /\ d[k] = 0 /\ d[k - 1] = 0
    OBVIOUS
  <2>1. PICK m : m = n + 1 /\ m - 1 = n /\ m = Len(t)
    BY <1>6
  <2>2. m >= 2 /\ t[m] = 0 /\ t[n] = 0
    BY <2>1 DEF EndsZeros
  <2>3. n # 0 /\ b = 0
    BY <1>6, <2>1, <2>2
  <2>4. j # 0
    BY <1>7, <2>3
  <2>5. d[j] = 0
    BY <1>8, <1>9, <2>2, <2>3, <2>4
  <2>6. k >= 2 /\ k - 1 = j
    BY <2>4
  <2> QED
    BY <2>3, <2>5, <2>6
<1>12. k # 0 /\ Len(t) # 0 /\ t[Len(t)] = d[k]
  BY <1>6
<1>13. Kept(t, d, k)
  BY <1>3, <1>5, <1>10, <1>11, <1>12 DEF Kept
<1> QED
  BY <1>4, <1>13

\* So does one that is escaped.
LEMMA KeptEscaped ==
    ASSUME NEW e \in Seq(Bytes), NEW d \in Seq(Bytes), NEW j \in Nat, NEW k, k = j + 1,
           k <= Len(d), Kept(e, d, j), NEW b, b = d[k],
           ~(k >= 3 /\ d[k] = 3 /\ d[k - 1] = 0 /\ d[k - 2] = 0), EndsZeros(e)
    PROVE  Kept(Append(Append(e, 3), b), d, k)
<1>1. PICK s \in Seq(Bytes) : s = Strip(e)
  BY StripIs
<1>2. Len(s) = j /\ Before(s, d)
  BY <1>1 DEF Kept
<1>3. b \in Bytes /\ Len(StripByte(s, b)) = k /\ Before(StripByte(s, b), d)
  BY <1>2, KeptFront
<1>4. 3 \in Bytes
  BY DEF Bytes
<1>5. j >= 2 /\ d[j] = 0 /\ d[j - 1] = 0
  BY DEF Kept
<1>6. EndsZeros(s)
  <2>1. j \in 1 .. Len(s) /\ j - 1 \in 1 .. Len(s)
    BY <1>2, <1>5
  <2>2. s[j] = 0 /\ s[j - 1] = 0
    BY <1>2, <1>5, <2>1 DEF Before
  <2> QED
    BY <1>2, <1>5, <2>2 DEF EndsZeros
<1>7. PICK u \in Seq(Bytes) : u = Append(e, 3) /\ Len(u) = Len(e) + 1 /\ u[Len(e) + 1] = 3
                              /\ Before(e, u)
  <2>0. PICK x \in Bytes : x = 3
    BY <1>4
  <2>1. PICK v : v = Append(e, x)
    OBVIOUS
  <2>2. v \in Seq(Bytes) /\ Len(v) = Len(e) + 1 /\ v[Len(e) + 1] = x /\ Before(e, v)
    BY <2>1, AppendIs
  <2> QED
    BY <2>0, <2>1, <2>2
<1>8. Strip(u) = s
  <2>1. Strip(u) = StripByte(s, 3)
    BY <1>1, <1>4, <1>7, StripOn
  <2>2. StripByte(s, 3) = s
    BY <1>4, <1>6, StripByteIs
  <2> QED
    BY <2>1, <2>2
<1>9. PICK t \in Seq(Bytes) : t = Append(u, b) /\ Len(t) = Len(u) + 1 /\ t[Len(u) + 1] = b
                              /\ Before(u, t)
  BY <1>3, AppendIs
<1>10. Strip(t) = StripByte(s, b)
  BY <1>3, <1>8, <1>9, StripOn
<1>11. PICK n \in Nat : n = Len(e) /\ n >= 2 /\ Len(u) = n + 1 /\ Len(t) = n + 2
  <2>1. Len(e) \in Nat /\ Len(u) = Len(e) + 1 /\ Len(t) = Len(u) + 1 /\ Len(e) >= 2
    BY <1>7, <1>9 DEF EndsZeros
  <2> QED
    BY <2>1
<1>12. t[n + 2] = b /\ t[n + 1] = 3 /\ t[1] = d[1]
  <2>1. n + 1 \in 1 .. Len(u) /\ 1 \in 1 .. Len(u) /\ 1 \in 1 .. Len(e)
    BY <1>11
  <2>2. t[n + 1] = u[n + 1] /\ t[1] = u[1] /\ u[1] = e[1]
    BY <1>7, <1>9, <2>1 DEF Before
  <2>3. e[1] = d[1]
    BY <1>5 DEF Kept
  <2>4. u[n + 1] = 3
    BY <1>7, <1>11
  <2>5. t[n + 2] = b
    <3>1. Len(u) + 1 = n + 2
      BY <1>11
    <3> QED
      BY <1>9, <3>1
  <2> QED
    BY <2>2, <2>3, <2>4, <2>5
<1>13. ~EndsZeros(t)
  <2>1. Len(t) - 1 = n + 1
    BY <1>11
  <2> QED
    BY <1>12, <2>1, SMTT(40) DEF EndsZeros
<1>14. k # 0 /\ Len(t) # 0 /\ t[Len(t)] = d[k]
  BY <1>11, <1>12
<1>15. Kept(t, d, k)
  BY <1>3, <1>10, <1>12, <1>13, <1>14 DEF Kept
<1> QED
  BY <1>7, <1>9, <1>15

\* None of the first n bytes ends what the stripping takes for an escape.
Plain(d, n) == \A i \in 3 .. n : ~(d[i] = 3 /\ d[i - 1] = 0 /\ d[i - 2] = 0)

\* What is sent is stripped to what was escaped, as far as that is plain.
LEMMA EscapeKept ==
    ASSUME NEW d \in Seq(Bytes), NEW n \in 0 .. Len(d), Plain(d, n),
           NEW f \in [0 .. Len(d) -> Seq(Bytes)], Escapes(f, d)
    PROVE  Kept(f[n], d, n)
<1>0. PICK l \in Nat : l = Len(d) /\ n <= l /\ n \in Nat
  OBVIOUS
<1> DEFINE S == {m \in Nat : m <= n => Kept(f[m], d, m)}
<1>1. 0 \in S
  <2>1. f[0] = <<>>
    BY DEF Escapes
  <2>2. PICK e \in Seq(Bytes) : e = <<>> /\ Len(e) = 0
    <3>1. <<>> \in Seq(Bytes) /\ Len(<<>>) = 0
      OBVIOUS
    <3> QED
      BY <3>1
  <2>3. Strip(e) = e
    BY <2>2, StripEmpty
  <2>4. Before(e, d)
    BY <1>0, <2>2 DEF Before
  <2>5. ~EndsZeros(e)
    BY <2>2 DEF EndsZeros
  <2>6. Kept(e, d, 0)
    BY <2>2, <2>3, <2>4, <2>5 DEF Kept
  <2> QED
    BY <2>1, <2>2, <2>6
<1>2. ASSUME NEW m \in Nat, m \in S PROVE m + 1 \in S
  <2>1. PICK k : k = m + 1 /\ m = k - 1 /\ k \in Nat
    OBVIOUS
  <2> SUFFICES ASSUME k <= n PROVE Kept(f[k], d, k)
    BY <2>1
  <2>2. k \in 1 .. l /\ m \in 0 .. l /\ k <= Len(d)
    BY <1>0, <2>1
  <2>3. PICK e \in Seq(Bytes) : e = f[m]
    BY <1>0, <2>2
  <2>4. PICK b \in Bytes : b = d[k]
    BY <1>0, <2>2
  <2>5. f[k] = EscapeByte(e, b)
    BY <1>0, <2>1, <2>2, <2>3, <2>4 DEF Escapes
  <2>6. Kept(e, d, m)
    BY <1>2, <2>1, <2>3
  <2>7. ~(k >= 3 /\ d[k] = 3 /\ d[k - 1] = 0 /\ d[k - 2] = 0)
    BY <1>0, <2>1 DEF Plain
  <2>8. Kept(Append(e, b), d, k)
    BY <2>1, <2>2, <2>4, <2>6, <2>7, KeptPlain
  <2>9. EndsZeros(e) => Kept(Append(Append(e, 3), b), d, k)
    BY <2>1, <2>2, <2>4, <2>6, <2>7, KeptEscaped
  <2>10. EscapeByte(e, b) = IF b <= 3 /\ EndsZeros(e) THEN Append(Append(e, 3), b)
                            ELSE Append(e, b)
    BY EscapeByteIs
  <2> QED
    BY <2>5, <2>8, <2>9, <2>10
<1>3. n \in S
  <2> HIDE DEF S
  <2> QED
    BY <1>0, <1>1, <1>2, InductionOn
<1> QED
  BY <1>0, <1>3

\* The first n bytes of d are those of s.
Agree(d, s, n) == n <= Len(s) /\ \A i \in 1 .. n : s[i] = d[i]

\* The first n bytes of d are there again when what was sent, and whatever follows
\* it, is stripped.
LEMMA Unescaped ==
    ASSUME NEW d \in Seq(Bytes), NEW n \in 1 .. Len(d), Plain(d, n),
           NEW junk \in Seq(Bytes), NEW e, e = Escape(d) \o junk
    PROVE  /\ e \in Seq(Bytes) /\ Len(e) >= 1 /\ e[1] = d[1]
           /\ Strip(e) \in Seq(Bytes) /\ Len(Strip(e)) <= Len(e)
           /\ Agree(d, Strip(e), n)
<1>1. PICK l \in Nat : l = Len(d) /\ n \in 0 .. l /\ n # 0 /\ n \in Nat
  OBVIOUS
<1>2. PICK f \in [0 .. Len(d) -> Seq(Bytes)] : Escapes(f, d) /\ Escape(d) = f[Len(d)]
  BY EscapeLoop
<1>3. PICK x \in Seq(Bytes), y \in Seq(Bytes) : x = f[n] /\ y = f[l]
  <2>1. f[n] \in Seq(Bytes)
    BY <1>1
  <2>2. f[l] \in Seq(Bytes)
    BY <1>1
  <2> QED
    BY <2>1, <2>2
<1>4. Kept(x, d, n)
  <2>1. n \in 0 .. Len(d)
    BY <1>1
  <2>2. Kept(f[n], d, n)
    BY <1>2, <2>1, EscapeKept
  <2> QED
    BY <1>3, <2>2
<1>5. Before(x, y)
  <2>1. ASSUME NEW i \in 1 .. l PROVE Before(f[i - 1], f[i])
    <3>1. PICK j \in 0 .. l : j = i - 1
      OBVIOUS
    <3>2. f[j] \in Seq(Bytes) /\ d[i] \in Bytes
      <4>1. f[j] \in Seq(Bytes)
        BY <1>1, <3>1
      <4>2. i \in 1 .. Len(d)
        BY <1>1
      <4> QED
        BY <4>1, <4>2
    <3>3. f[i] = EscapeByte(f[j], d[i])
      BY <1>1, <1>2, <3>1 DEF Escapes
    <3> QED
      BY <3>1, <3>2, <3>3, EscapeByteIs
  <2>2. f \in [0 .. l -> Seq(Bytes)] /\ n \in 0 .. l
    BY <1>1
  <2>3. Before(f[n], f[l])
    BY <2>1, <2>2, Grows
  <2> QED
    BY <1>3, <2>3
<1>6. e = y \o junk
  BY <1>1, <1>2, <1>3
<1>7. e \in Seq(Bytes) /\ Before(y, e)
  <2>1. /\ e \in Seq(Bytes) /\ Len(e) = Len(y) + Len(junk)
        /\ \A i \in 1 .. Len(y) : e[i] = y[i]
    BY <1>6, CatIs
  <2>2. Len(y) \in Nat /\ Len(junk) \in Nat
    OBVIOUS
  <2> QED
    BY <2>1, <2>2 DEF Before
<1>8. Before(x, e)
  BY <1>5, <1>7, BeforeTwice
<1>9. Before(Strip(x), Strip(e))
  BY <1>7, <1>8, StripBefore
<1>10. Strip(e) \in Seq(Bytes) /\ Len(Strip(e)) <= Len(e)
  BY <1>7, StripIs
<1>11. Len(Strip(x)) = n /\ Before(Strip(x), d) /\ Len(x) # 0 /\ x[1] = d[1]
  BY <1>1, <1>4 DEF Kept
<1>12. Len(e) >= 1 /\ e[1] = d[1]
  <2>1. Len(x) \in Nat /\ Len(e) \in Nat /\ 1 \in 1 .. Len(x)
    BY <1>7, <1>11
  <2>2. Len(x) <= Len(e) /\ e[1] = x[1]
    BY <1>8, <2>1 DEF Before
  <2> QED
    BY <1>11, <2>1, <2>2
<1>13. n <= Len(Strip(e))
  BY <1>9, <1>11 DEF Before
<1>14. ASSUME NEW i \in 1 .. n PROVE Strip(e)[i] = d[i]
  <2>1. i \in 1 .. Len(Strip(x))
    BY <1>11
  <2>2. Strip(e)[i] = Strip(x)[i] /\ d[i] = Strip(x)[i]
    BY <1>9, <1>11, <2>1 DEF Before
  <2> QED
    BY <2>2
<1> QED
  BY <1>7, <1>10, <1>12, <1>13, <1>14 DEF Agree

\* Nothing is stripped from what is plain.
LEMMA StripPlain ==
    ASSUME NEW d \in Seq(Bytes), Plain(d, Len(d))
    PROVE  Strip(d) = d
<1>0. PICK l \in Nat : l = Len(d)
  OBVIOUS
<1>1. PICK f \in [0 .. Len(d) -> Seq(Bytes)] : Strips(f, d) /\ Strip(d) = f[Len(d)]
  BY StripLoop
<1> DEFINE S == {m \in Nat : m <= l => Len(f[m]) = m /\ Before(f[m], d)}
<1>2. 0 \in S
  <2>1. PICK e \in Seq(Bytes) : e = f[0] /\ Len(e) = 0
    <3>1. <<>> \in Seq(Bytes) /\ Len(<<>>) = 0
      OBVIOUS
    <3> QED
      BY <1>1, <3>1 DEF Strips
  <2>2. Before(e, d)
    BY <1>0, <2>1 DEF Before
  <2> QED
    BY <2>1, <2>2
<1>3. ASSUME NEW m \in Nat, m \in S PROVE m + 1 \in S
  <2>1. PICK k : k = m + 1 /\ m = k - 1 /\ k \in Nat
    OBVIOUS
  <2> SUFFICES ASSUME k <= l PROVE Len(f[k]) = k /\ Before(f[k], d)
    BY <2>1
  <2>2. k \in 1 .. l /\ m \in 0 .. l /\ k <= Len(d)
    BY <1>0, <2>1
  <2>3. PICK s \in Seq(Bytes) : s = f[m]
    BY <1>0, <2>2
  <2>4. PICK b \in Bytes : b = d[k]
    BY <1>0, <2>2
  <2>5. f[k] = StripByte(s, b)
    BY <1>0, <1>1, <2>1, <2>2, <2>3, <2>4 DEF Strips
  <2>6. Len(s) = m /\ Before(s, d)
    BY <1>3, <2>1, <2>3
  <2>7. ~(k >= 3 /\ d[k] = 3 /\ d[k - 1] = 0 /\ d[k - 2] = 0)
    BY <1>0, <2>1 DEF Plain
  <2>8. Len(StripByte(s, b)) = k /\ Before(StripByte(s, b), d)
    BY <2>1, <2>2, <2>4, <2>6, <2>7, KeptFront
  <2> QED
    BY <2>5, <2>8
<1>4. l \in S
  <2> HIDE DEF S
  <2> QED
    BY <1>2, <1>3, InductionOn
<1>5. PICK s \in Seq(Bytes) : s = Strip(d) /\ Len(s) = l /\ Before(s, d)
  <2>1. f[l] \in Seq(Bytes) /\ Strip(d) = f[l]
    BY <1>0, <1>1
  <2> QED
    BY <1>4, <2>1
<1>6. \A i \in 1 .. l : s[i] = d[i]
  BY <1>5 DEF Before
<1> QED
  BY <1>0, <1>5, <1>6

\* What bits are found depends on no other bytes.
LEMMA HasFront ==
    ASSUME NEW s \in Seq(Bytes), NEW d \in Seq(Bytes), NEW n \in Nat, n <= Len(d),
           Agree(d, s, n), NEW b \in Seq(Binary), Len(b) <= 8 * n, Has(d, 0, b)
    PROVE  Has(s, 0, b)
<1>1. PICK l \in Nat, m \in Nat, k \in Nat : l = Len(s) /\ m = Len(d) /\ k = Len(b)
  OBVIOUS
<1>2. n <= l /\ n <= m /\ k <= 8 * n
  BY <1>1 DEF Agree
<1>3. ASSUME NEW i \in 1 .. k PROVE Bit(s, 0 + i - 1) = b[i]
  <2>1. PICK p \in Nat : p = i - 1 /\ p = 0 + i - 1 /\ p < 8 * n
    BY <1>2
  <2>2. Bit(d, p) = b[i]
    BY <1>1, <2>1 DEF Has
  <2>3. PICK j : j = p \div 8
    OBVIOUS
  <2>4. j + 1 \in 1 .. n
    BY <2>1, <2>3
  <2>5. s[j + 1] = d[j + 1]
    BY <2>4 DEF Agree
  <2>6. p < 8 * l /\ p < 8 * m
    BY <1>2, <2>1
  <2>7. Bit(s, p) = Bit(d, p)
    BY <1>1, <2>3, <2>5, <2>6 DEF Bit
  <2> QED
    BY <2>1, <2>2, <2>7
<1>4. 0 + k <= 8 * l
  BY <1>2
<1> QED
  BY <1>1, <1>3, <1>4 DEF Has

-----------------------------------------------------------------------------
(* Runs of zeros *)

\* Bits among which no 22 zeros follow each other, and no more than t are at the end.
Ok(b, t) ==
    /\ b \in Seq(Binary)
    /\ \A i \in 1 .. Len(b) : i + t <= Len(b) =>
         \E j \in 1 .. Len(b) : i <= j /\ j <= i + 21 /\ b[j] = 1

\* After bits with at most t zeros at the end the bits of b leave at most u.
Takes(b, t, u) == b \in Seq(Binary) /\ \A a : Ok(a, t) => Ok(a \o b, u)

\* The bits from w + 1 on may be zeros, u of them, and the bits before w.
LEMMA OkPart ==
    ASSUME NEW t \in Nat, NEW a, Ok(a, t), NEW b \in Seq(Binary), NEW w \in 1 .. Len(b),
           b[w] = 1, t + w <= 22, NEW u \in Nat, Len(b) <= w + u
    PROVE  Ok(a \o b, u)
<1>1. a \in Seq(Binary)
  BY DEF Ok
<1>2. PICK c : c = a \o b
  OBVIOUS
<1>3. /\ c \in Seq(Binary) /\ Len(c) = Len(a) + Len(b)
      /\ \A i \in 1 .. Len(a) : c[i] = a[i]
      /\ \A i \in 1 .. Len(b) : c[Len(a) + i] = b[i]
  BY <1>1, <1>2, CatIs
<1>4. PICK l \in Nat, m \in Nat, n \in Nat : l = Len(a) /\ m = Len(b) /\ n = Len(c) /\ n = l + m
  BY <1>1, <1>3
<1>5. PICK k \in 1 .. n : k = l + w /\ c[k] = 1
  <2>1. w \in 1 .. m /\ l + w \in 1 .. n
    BY <1>4
  <2>2. c[l + w] = 1
    BY <1>3, <1>4, <2>1
  <2> QED
    BY <2>1, <2>2
<1>6. ASSUME NEW i \in 1 .. n, i + u <= n
      PROVE  \E j \in 1 .. n : i <= j /\ j <= i + 21 /\ c[j] = 1
  <2>1. CASE i + t <= l
    <3>1. PICK j \in 1 .. l : i <= j /\ j <= i + 21 /\ a[j] = 1
      <4>1. i \in 1 .. l
        BY <2>1
      <4> QED
        BY <1>4, <2>1, <4>1 DEF Ok
    <3>2. j \in 1 .. n /\ c[j] = a[j]
      BY <1>3, <1>4
    <3> QED
      BY <3>1, <3>2
  <2>2. CASE ~(i + t <= l)
    <3>1. k <= i + 21
      BY <1>5, <2>2
    <3>2. i <= k
      BY <1>4, <1>5, <1>6
    <3> QED
      BY <1>5, <3>1, <3>2
  <2> QED
    BY <2>1, <2>2
<1> QED
  BY <1>2, <1>3, <1>4, <1>6, SMTT(40) DEF Ok

\* Any bits, all of which may be zeros.
LEMMA OkPlain ==
    ASSUME NEW t \in Nat, NEW a, Ok(a, t), NEW b \in Seq(Binary), NEW u \in Nat,
           u = t + Len(b)
    PROVE  Ok(a \o b, u)
<1>1. a \in Seq(Binary)
  BY DEF Ok
<1>2. PICK c : c = a \o b
  OBVIOUS
<1>3. /\ c \in Seq(Binary) /\ Len(c) = Len(a) + Len(b)
      /\ \A i \in 1 .. Len(a) : c[i] = a[i]
  BY <1>1, <1>2, CatIs
<1>4. PICK l \in Nat, m \in Nat, n \in Nat : l = Len(a) /\ m = Len(b) /\ n = Len(c) /\ n = l + m
  BY <1>1, <1>3
<1>6. ASSUME NEW i \in 1 .. n, i + u <= n
      PROVE  \E j \in 1 .. n : i <= j /\ j <= i + 21 /\ c[j] = 1
  <2>1. i \in 1 .. l /\ i + t <= l
    BY <1>4, <1>6
  <2>2. PICK j \in 1 .. l : i <= j /\ j <= i + 21 /\ a[j] = 1
    BY <1>4, <2>1 DEF Ok
  <2>3. j \in 1 .. n /\ c[j] = a[j]
    BY <1>3, <1>4
  <2> QED
    BY <2>2, <2>3
<1> QED
  BY <1>2, <1>3, <1>4, <1>6 DEF Ok

\* More zeros at the end are no less fine.
LEMMA OkMore ==
    ASSUME NEW t \in Nat, NEW u \in Nat, t <= u, NEW a, Ok(a, t)
    PROVE  Ok(a, u)
<1>1. PICK l \in Nat : l = Len(a)
  BY DEF Ok
<1>2. \A i \in 1 .. l : i + u <= l => i + t <= l
  OBVIOUS
<1> QED
  BY <1>1, <1>2 DEF Ok

\* The same for what may follow any bits.
LEMMA TakesPart ==
    ASSUME NEW t \in Nat, NEW u \in Nat, NEW b \in Seq(Binary), NEW w \in 1 .. Len(b),
           b[w] = 1, t + w <= 22, Len(b) <= w + u
    PROVE  Takes(b, t, u)
  BY OkPart DEF Takes

LEMMA TakesPlain ==
    ASSUME NEW t \in Nat, NEW u \in Nat, NEW b \in Seq(Binary), u = t + Len(b)
    PROVE  Takes(b, t, u)
  BY OkPlain DEF Takes

LEMMA TakesMore ==
    ASSUME NEW t \in Nat, NEW u \in Nat, NEW b, Takes(b, t, u),
           NEW r \in Nat, NEW v \in Nat, r <= t, u <= v
    PROVE  Takes(b, r, v)
<1>1. ASSUME NEW a, Ok(a, r) PROVE Ok(a \o b, v)
  <2>1. Ok(a, t)
    BY <1>1, OkMore
  <2>2. Ok(a \o b, u)
    BY <2>1 DEF Takes
  <2> QED
    BY <2>2, OkMore
<1> QED
  BY <1>1 DEF Takes

LEMMA CatAssoc ==
    ASSUME NEW a \in Seq(Binary), NEW b \in Seq(Binary), NEW c \in Seq(Binary)
    PROVE  (a \o b) \o c = a \o (b \o c)
  OBVIOUS

\* What follows can be followed.
LEMMA TakesCat ==
    ASSUME NEW t \in Nat, NEW u \in Nat, NEW v \in Nat, NEW b, NEW c,
           Takes(b, t, u), Takes(c, u, v)
    PROVE  Takes(b \o c, t, v)
<1>1. b \in Seq(Binary) /\ c \in Seq(Binary) /\ b \o c \in Seq(Binary)
  <2>1. b \in Seq(Binary) /\ c \in Seq(Binary)
    BY DEF Takes
  <2> QED
    BY <2>1, CatIs
<1>2. ASSUME NEW a, Ok(a, t) PROVE Ok(a \o (b \o c), v)
  <2>1. Ok(a \o b, u)
    BY <1>2 DEF Takes
  <2>2. Ok((a \o b) \o c, v)
    BY <2>1 DEF Takes
  <2>3. a \in Seq(Binary)
    BY <1>2 DEF Ok
  <2> QED
    BY <1>1, <2>2, <2>3, CatAssoc
<1> QED
  BY <1>1, <1>2 DEF Takes

\* It can also be the first.
LEMMA OkStart ==
    ASSUME NEW t \in Nat, NEW u \in Nat, NEW b, Takes(b, t, u)
    PROVE  Ok(b, u)
<1>1. Ok(<<>>, t)
  <2>1. <<>> \in Seq(Binary) /\ Len(<<>>) = 0
    OBVIOUS
  <2> QED
    BY <2>1 DEF Ok
<1>2. Ok(<<>> \o b, u)
  BY <1>1 DEF Takes
<1>3. <<>> \o b = b
  BY DEF Takes
<1> QED
  BY <1>2, <1>3

\* Of parts each may follow the one before.
LEMMA TakesFour ==
    ASSUME NEW x, NEW a, NEW b, NEW c, NEW d, Four(x, a, b, c, d),
           NEW t \in Nat, NEW t1 \in Nat, NEW t2 \in Nat, NEW t3 \in Nat, NEW t4 \in Nat,
           Takes(a, t, t1), Takes(b, t1, t2), Takes(c, t2, t3), Takes(d, t3, t4)
    PROVE  Takes(x, t, t4)
<1>1. Takes(a \o b, t, t2)
  BY TakesCat
<1>2. Takes((a \o b) \o c, t, t3)
  BY <1>1, TakesCat
<1>3. Takes(((a \o b) \o c) \o d, t, t4)
  BY <1>2, TakesCat
<1> QED
  BY <1>3 DEF Four

LEMMA TakesFive ==
    ASSUME NEW x, NEW a, NEW b, NEW c, NEW d, NEW e, Five(x, a, b, c, d, e),
           NEW t \in Nat, NEW t1 \in Nat, NEW t2 \in Nat, NEW t3 \in Nat, NEW t4 \in Nat,
           NEW t5 \in Nat,
           Takes(a, t, t1), Takes(b, t1, t2), Takes(c, t2, t3), Takes(d, t3, t4),
           Takes(e, t4, t5)
    PROVE  Takes(x, t, t5)
<1>1. Takes(a \o b, t, t2)
  BY TakesCat
<1>2. Takes((a \o b) \o c, t, t3)
  BY <1>1, TakesCat
<1>3. Takes(((a \o b) \o c) \o d, t, t4)
  BY <1>2, TakesCat
<1>4. Takes((((a \o b) \o c) \o d) \o e, t, t5)
  BY <1>3, TakesCat
<1> QED
  BY <1>4 DEF Five

\* One bit.
LEMMA TakesFlag ==
    ASSUME NEW x \in Binary, NEW t \in Nat, NEW u \in Nat, u = t + 1
    PROVE  Takes(<<x>>, t, u)
<1>1. PICK b : b = <<x>> /\ b \in Seq(Binary) /\ Len(b) = 1
  <2>1. <<x>> \in Seq(Binary) /\ Len(<<x>>) = 1
    BY Single
  <2> QED
    BY <2>1
<1>2. Takes(b, t, u)
  BY <1>1, TakesPlain
<1> QED
  BY <1>1, <1>2

\* A 1 ends the zeros.
LEMMA TakesOne ==
    ASSUME NEW t \in Nat, t <= 21, NEW u \in Nat, u = 0
    PROVE  Takes(<<1>>, t, u)
<1>1. PICK b \in Seq(Binary) : b = <<1>> /\ Len(b) = 1 /\ b[1] = 1
  BY Flags
<1>2. PICK w \in 1 .. Len(b) : w = 1 /\ b[w] = 1 /\ t + w <= 22 /\ Len(b) <= w + u
  BY <1>1
<1>3. Takes(b, t, u)
  BY <1>2, TakesPart
<1> QED
  BY <1>1, <1>3

\* Nothing changes nothing.
LEMMA TakesNone ==
    ASSUME NEW t \in Nat
    PROVE  Takes(<<>>, t, t)
<1>1. PICK b \in Seq(Binary) : b = <<>> /\ Len(b) = 0
  BY Flags
<1>2. t = t + Len(b)
  BY <1>1
<1>3. Takes(b, t, t)
  BY <1>2, TakesPlain
<1> QED
  BY <1>1, <1>3

LEMMA Pow2Grows ==
    ASSUME NEW a \in 0 .. 30, NEW b \in 0 .. 30, a <= b
    PROVE  Pow2[a] <= Pow2[b]
<1> DEFINE S == {m \in Nat : a + m <= 30 => Pow2[a] <= Pow2[a + m]}
<1>1. 0 \in S
  <2>1. a + 0 = a /\ Pow2[a] \in Nat
    BY Pow2Positive
  <2> QED
    BY <2>1
<1>2. ASSUME NEW m \in Nat, m \in S PROVE m + 1 \in S
  <2>1. PICK k : k = a + (m + 1) /\ k - 1 = a + m
    OBVIOUS
  <2> SUFFICES ASSUME k <= 30 PROVE Pow2[a] <= Pow2[k]
    BY <2>1
  <2>2. PICK j \in 0 .. 30 : j = a + m /\ k - 1 = j /\ k \in 1 .. 30
    BY <2>1
  <2>3. Pow2[a] <= Pow2[j]
    BY <1>2, <2>2
  <2>4. Pow2[k] = 2 * Pow2[j]
    BY <2>2, Pow2Step
  <2>5. Pow2[a] \in Nat /\ Pow2[j] \in Nat
    BY Pow2Positive
  <2> QED
    BY <2>3, <2>4, <2>5
<1>3. PICK m \in Nat : a + m = b
  <2>1. b - a \in Nat /\ a + (b - a) = b
    OBVIOUS
  <2> QED
    BY <2>1
<1>4. m \in S
  <2> HIDE DEF S
  <2> QED
    BY <1>1, <1>2, InductionOn
<1> QED
  BY <1>3, <1>4

\* A number with n zeros in front, or fewer.
LEMMA TakesUe ==
    ASSUME NEW v \in Ues, NEW n \in 0 .. 10, v + 1 < Pow2[n + 1], NEW t \in Nat, t + n <= 21
    PROVE  Takes(UeBits(v), t, n)
<1>1. PICK b : b = UeBits(v)
  OBVIOUS
<1>2. PICK m \in 0 .. 10 :
        /\ Pow2[m] <= v + 1 /\ v + 1 < 2 * Pow2[m]
        /\ b \in Seq(Binary) /\ Len(b) = 2 * m + 1 /\ b[m + 1] = 1
  BY <1>1, UeShape
<1>3. v \in Nat
  BY UesAre
<1>4. m <= n
  <2> SUFFICES ASSUME n + 1 <= m PROVE FALSE
    OBVIOUS
  <2>1. PICK k \in 0 .. 30 : k = n + 1 /\ k <= m /\ m \in 0 .. 30
    OBVIOUS
  <2>2. Pow2[k] <= Pow2[m]
    BY <2>1, Pow2Grows
  <2>3. Pow2[k] \in Nat /\ Pow2[m] \in Nat
    BY <2>1, Pow2Positive
  <2> QED
    BY <1>2, <1>3, <2>1, <2>2, <2>3
<1>5. PICK w \in 1 .. Len(b) : w = m + 1 /\ b[w] = 1 /\ t + w <= 22 /\ Len(b) <= w + n
  <2>1. PICK w : w = m + 1
    OBVIOUS
  <2> QED
    BY <1>2, <1>4, <2>1
<1>6. b \in Seq(Binary) /\ n \in Nat
  BY <1>2
<1>7. Takes(b, t, n)
  BY <1>5, <1>6, TakesPart
<1> QED
  BY <1>1, <1>7

\* Bits that end with a 1 and have another one after few zeros.
LEMMA TakesTwo ==
    ASSUME NEW b \in Seq(Binary), NEW w \in Nat \ {0}, NEW m \in Nat \ {0},
           Len(b) = w + m, b[w] = 1, b[w + m] = 1, NEW t \in Nat, t + w <= 22, m <= w,
           NEW u \in Nat, u = 0
    PROVE  Takes(b, t, u)
<1> DEFINE c == [i \in 1 .. w |-> b[i]]
           d == [i \in 1 .. m |-> b[w + i]]
<1>1. c \in [1 .. w -> Binary]
  OBVIOUS
<1>2. d \in [1 .. m -> Binary]
  OBVIOUS
<1>3. c \in Seq(Binary) /\ Len(c) = w /\ d \in Seq(Binary) /\ Len(d) = m
  BY <1>1, <1>2, IsSeq
<1>4. c[w] = 1 /\ d[m] = 1
  OBVIOUS
<1>5. /\ \A i \in 1 .. w : c[i] = b[i]
      /\ \A i \in 1 .. m : d[i] = b[w + i]
  OBVIOUS
<1> HIDE DEF c, d
<1>6. c \o d = b
  <2>1. PICK e : e = c \o d
    OBVIOUS
  <2>2. /\ e \in Seq(Binary) /\ Len(e) = w + m
        /\ \A i \in 1 .. w : e[i] = c[i]
        /\ \A i \in 1 .. m : e[w + i] = d[i]
    <3>1. c \in Seq(Binary) /\ d \in Seq(Binary)
      BY <1>3
    <3>2. /\ e \in Seq(Binary) /\ Len(e) = Len(c) + Len(d)
          /\ \A i \in 1 .. Len(c) : e[i] = c[i]
          /\ \A i \in 1 .. Len(d) : e[Len(c) + i] = d[i]
      BY <2>1, <3>1, CatIs
    <3> QED
      BY <1>3, <3>2
  <2>3. ASSUME NEW i \in 1 .. w + m PROVE e[i] = b[i]
    <3>1. CASE i <= w
      BY <1>5, <2>2, <3>1
    <3>2. CASE ~(i <= w)
      <4>1. PICK j \in 1 .. m : j = i - w /\ w + j = i
        BY <3>2
      <4>2. e[w + j] = d[j] /\ d[j] = b[w + j]
        BY <1>5, <2>2
      <4> QED
        BY <4>1, <4>2
    <3> QED
      BY <3>1, <3>2
  <2> QED
    BY <2>1, <2>2, <2>3
<1>7. PICK x \in 1 .. Len(c), y \in 1 .. Len(d), z \in Nat :
        x = w /\ y = m /\ z = 0 /\ c[x] = 1 /\ d[y] = 1
  BY <1>3, <1>4
<1>8. Takes(c, t, z)
  <2>1. t + x <= 22 /\ Len(c) <= x + z
    BY <1>3, <1>7
  <2> QED
    BY <1>3, <1>7, <2>1, TakesPart
<1>9. Takes(d, z, z)
  <2>1. z + y <= 22 /\ Len(d) <= y + z
    BY <1>3, <1>7
  <2> QED
    BY <1>3, <1>7, <2>1, TakesPart
<1>10. Takes(c \o d, t, z)
  BY <1>8, <1>9, TakesCat
<1> QED
  BY <1>6, <1>7, <1>10

\* An increment of a scaling list.
LEMMA TakesCode ==
    ASSUME NEW v \in Increments, NEW t \in Nat, t = 7
    PROVE  Takes(UeBits(SeCode(v)), t, t)
<1>1. PICK u \in Ues : u = SeCode(v) /\ u \in Nat /\ u <= 256 /\ u # 255
  <2>1. SeCode(v) \in Ues /\ SeCode(v) \in Nat /\ SeCode(v) <= 256
    BY SeCodeIs
  <2>2. SeCode(v) # 255
    BY DEF SeCode, Increments
  <2> QED
    BY <2>1, <2>2
<1>2. CASE u <= 254
  <2>1. PICK n \in 0 .. 10 : n = 7 /\ n + 1 = 8
    OBVIOUS
  <2>2. u + 1 < Pow2[n + 1]
    BY <1>1, <1>2, <2>1, Pow2Table
  <2>3. t + n <= 21 /\ n = t
    BY <2>1
  <2>4. Takes(UeBits(u), t, n)
    BY <2>2, <2>3, TakesUe
  <2> QED
    BY <1>1, <2>3, <2>4
<1>3. CASE u = 256
  <2>1. PICK b : b = UeBits(u)
    OBVIOUS
  <2>2. PICK m \in 0 .. 10 :
        /\ Pow2[m] <= u + 1 /\ u + 1 < 2 * Pow2[m]
        /\ b \in Seq(Binary) /\ Len(b) = 2 * m + 1 /\ b[m + 1] = 1
        /\ \A i \in 1 .. m : b[m + 1 + i] = ((u + 1) \div Pow2[m - i]) % 2
    BY <2>1, UeShape
  <2>3. m = 8
    <3>1. \/ m = 0 \/ m = 1 \/ m = 2 \/ m = 3 \/ m = 4 \/ m = 5 \/ m = 6 \/ m = 7 \/ m = 8
          \/ m = 9 \/ m = 10
      OBVIOUS
    <3>2. Pow2[m] <= 257 /\ 257 < 2 * Pow2[m]
      BY <1>3, <2>2
    <3> QED
      BY <3>1, <3>2, Pow2Table
  <2>4. b[17] = 1
    <3>1. PICK i \in 1 .. m : i = 8 /\ m + 1 + i = 17 /\ m - i = 0
      BY <2>3
    <3>2. b[m + 1 + i] = ((u + 1) \div Pow2[m - i]) % 2
      BY <2>2
    <3>3. (257 \div 1) % 2 = 1
      OBVIOUS
    <3>4. Pow2[0] = 1 /\ u + 1 = 257
      BY <1>3, Pow2Table
    <3> QED
      BY <3>1, <3>2, <3>3, <3>4
  <2>5. PICK w \in Nat \ {0}, k \in Nat \ {0}, z \in Nat : w = 9 /\ k = 8 /\ z = 0
    OBVIOUS
  <2>6. /\ Len(b) = w + k /\ b[w] = 1 /\ b[w + k] = 1 /\ t + w <= 22 /\ k <= w
    <3>1. w + k = 17 /\ m + 1 = w /\ 2 * m + 1 = 17 /\ t + w <= 22 /\ k <= w
      BY <2>3, <2>5
    <3> QED
      BY <2>2, <2>4, <3>1
  <2>7. b \in Seq(Binary)
    BY <2>2
  <2>8. Takes(b, t, z)
    BY <2>5, <2>6, <2>7, TakesTwo
  <2>9. z <= t
    BY <2>5
  <2>10. Takes(b, t, t)
    BY <2>8, <2>9, TakesMore
  <2> QED
    BY <1>1, <2>1, <2>10
<1> QED
  BY <1>1, <1>2, <1>3

\* The increments of a list.
LEMMA TakesCodes ==
    ASSUME NEW l \in Seq(Increments), l # <<>>, NEW z \in Nat, z = 0, NEW t \in Nat, t = 7
    PROVE  Takes(FlattenSeq(Codes(l)), z, t)
<1>1. PICK n \in Nat \ {0} : n = Len(l)
  OBVIOUS
<1>2. PICK seqs \in [1 .. n -> Seq(Binary)] :
        /\ seqs = Codes(l)
        /\ \A i \in 1 .. n : seqs[i] = UeBits(SeCode(l[i])) /\ SeCode(l[i]) \in Ues
  BY <1>1, CodesAre
<1>3. PICK f \in [0 .. n -> Seq(Binary)] : Joins(f, n, seqs) /\ FlattenSeq(seqs) = f[n]
  BY FlattenLoop
<1> DEFINE S == {m \in Nat : m <= n => Takes(f[m], z, t)}
<1>4. 0 \in S
  <2>1. f[0] = <<>>
    BY <1>3 DEF Joins
  <2>2. Takes(<<>>, z, z)
    BY TakesNone
  <2>3. z <= z /\ z <= t
    OBVIOUS
  <2>4. Takes(<<>>, z, t)
    BY <2>2, <2>3, TakesMore
  <2> QED
    BY <2>1, <2>4
<1>5. ASSUME NEW m \in Nat, m \in S PROVE m + 1 \in S
  <2>1. PICK k : k = m + 1 /\ m = k - 1
    OBVIOUS
  <2> SUFFICES ASSUME k <= n PROVE Takes(f[k], z, t)
    BY <2>1
  <2>2. k \in 1 .. n
    BY <2>1
  <2>3. f[k] = f[m] \o seqs[k]
    BY <1>3, <2>1, <2>2 DEF Joins
  <2>4. Takes(f[m], z, t)
    BY <1>5, <2>1
  <2>5. PICK v \in Increments : v = l[k]
    BY <1>1, <2>2
  <2>6. Takes(UeBits(SeCode(v)), t, t)
    BY TakesCode
  <2>7. Takes(seqs[k], t, t)
    BY <1>2, <2>2, <2>5, <2>6
  <2> QED
    BY <2>3, <2>4, <2>7, TakesCat
<1>6. n \in S
  <2> HIDE DEF S
  <2> QED
    BY <1>4, <1>5, InductionOn
<1> QED
  BY <1>2, <1>3, <1>6

\* One list, or the bit that says there is none.
LEMMA TakesList ==
    ASSUME NEW l \in Seq(Increments), NEW t \in Nat, t \in 6 .. 20, NEW u \in Nat, u = t + 1
    PROVE  Takes(ListBits(l), t, u)
<1>1. CASE l = <<>>
  <2>1. PICK x \in Binary : x = 0
    BY Flags
  <2>2. Takes(<<x>>, t, u)
    BY TakesFlag
  <2>3. ListBits(l) = <<0>>
    BY <1>1, ListBitsAre
  <2> QED
    BY <2>1, <2>2, <2>3
<1>2. CASE l # <<>>
  <2>1. PICK z \in Nat, e \in Nat : z = 0 /\ e = 7
    OBVIOUS
  <2>2. Takes(<<1>>, t, z)
    BY <2>1, TakesOne
  <2>3. Takes(FlattenSeq(Codes(l)), z, e)
    BY <1>2, <2>1, TakesCodes
  <2>4. Takes(<<1>> \o FlattenSeq(Codes(l)), t, e)
    BY <2>2, <2>3, TakesCat
  <2>5. ListBits(l) = <<1>> \o FlattenSeq(Codes(l))
    BY <1>2, ListBitsAre
  <2>6. t <= t /\ e <= u
    BY <2>1
  <2>7. Takes(ListBits(l), t, e)
    BY <2>4, <2>5
  <2> QED
    BY <2>6, <2>7, TakesMore
<1> QED
  BY <1>1, <1>2

\* Twelve lists in a row leave no more than 18 zeros.
LEMMA TakesLists ==
    ASSUME NEW lists \in Seq(Seq(Increments)), lists # <<>>, Len(lists) <= 12,
           NEW a \in Nat, a = 6, NEW b \in Nat, b = 18
    PROVE  Takes(FlattenSeq(Lists(lists)), a, b)
<1>1. PICK n \in Nat \ {0} : n = Len(lists) /\ n <= 12
  OBVIOUS
<1>2. PICK seqs \in [1 .. n -> Seq(Binary)] :
        /\ seqs = Lists(lists)
        /\ \A m \in 1 .. n : seqs[m] = ListBits(lists[m])
  BY <1>1, ListsAre
<1>3. PICK f \in [0 .. n -> Seq(Binary)] : Joins(f, n, seqs) /\ FlattenSeq(seqs) = f[n]
  BY FlattenLoop
<1> DEFINE S == {m \in Nat : m <= n => Takes(f[m], a, 6 + m)}
<1>4. 0 \in S
  <2>1. f[0] = <<>>
    BY <1>3 DEF Joins
  <2>2. Takes(<<>>, a, a)
    BY TakesNone
  <2>3. 6 + 0 = a
    OBVIOUS
  <2> QED
    BY <2>1, <2>2, <2>3
<1>5. ASSUME NEW m \in Nat, m \in S PROVE m + 1 \in S
  <2>1. PICK k : k = m + 1 /\ m = k - 1
    OBVIOUS
  <2> SUFFICES ASSUME k <= n PROVE Takes(f[k], a, 6 + k)
    BY <2>1
  <2>2. k \in 1 .. n
    BY <2>1
  <2>3. f[k] = f[m] \o seqs[k]
    BY <1>3, <2>1, <2>2 DEF Joins
  <2>4. PICK t \in Nat, u \in Nat : t = 6 + m /\ u = 6 + k /\ u = t + 1 /\ t \in 6 .. 20
    BY <1>1, <2>1
  <2>5. Takes(f[m], a, t)
    BY <1>5, <2>1, <2>4
  <2>6. PICK l \in Seq(Increments) : l = lists[k]
    BY <1>1, <2>2
  <2>7. Takes(ListBits(l), t, u)
    BY <2>4, TakesList
  <2>8. Takes(seqs[k], t, u)
    BY <1>2, <2>2, <2>6, <2>7
  <2>9. Takes(f[m] \o seqs[k], a, u)
    BY <2>5, <2>8, TakesCat
  <2> QED
    BY <2>3, <2>4, <2>9
<1>6. n \in S
  <2> HIDE DEF S
  <2> QED
    BY <1>4, <1>5, InductionOn
<1>7. PICK t \in Nat : t = 6 + n /\ t <= b /\ a <= a
  BY <1>1
<1>8. Takes(f[n], a, t)
  BY <1>6, <1>7
<1>9. Takes(f[n], a, b)
  BY <1>7, <1>8, TakesMore, SMTT(40)
<1> QED
  BY <1>2, <1>3, <1>9

\* A number of eight bits.
LEMMA TakesByte ==
    ASSUME NEW v \in Bytes, NEW t \in Nat, NEW u \in Nat, u = t + 8
    PROVE  Takes(Bits(v, 8), t, u)
<1>1. PICK n \in 0 .. 30 : n = 8
  OBVIOUS
<1>2. v \in Nat
  BY ByteIsNat, SMTT(40)
<1>3. PICK b : b = Bits(v, n)
  BY SMTT(40)
<1>4. b \in Seq(Binary) /\ Len(b) = n
  BY <1>2, <1>3, BitsShape
<1>5. u = t + Len(b)
  BY <1>1, <1>4
<1>6. Takes(b, t, u)
  BY <1>4, <1>5, TakesPlain
<1> QED
  BY <1>1, <1>3, <1>6

\* No level is below 9: one of its first five bits is 1.
LEMMA TakesLevel ==
    ASSUME NEW v \in 9 .. 255, NEW t \in Nat, t = 16, NEW u \in Nat, u = 7
    PROVE  Takes(Bits(v, 8), t, u)
<1>1. PICK n \in 0 .. 30 : n = 8
  BY SMTT(40)
<1>2. v \in Nat /\ v >= 8 /\ v < 256
  BY SMTT(40)
<1>3. PICK b : b = Bits(v, n)
  BY SMTT(40)
<1>4. b \in Seq(Binary) /\ Len(b) = n /\ \A i \in 1 .. n : b[i] = (v \div Pow2[n - i]) % 2
  BY <1>2, <1>3, BitsShape
<1>5. PICK w \in 1 .. 5 : Pow2[8 - w] <= v /\ v < 2 * Pow2[8 - w]
  <2>1. /\ Pow2[8 - 1] = 128 /\ Pow2[8 - 2] = 64 /\ Pow2[8 - 3] = 32 /\ Pow2[8 - 4] = 16
        /\ Pow2[8 - 5] = 8
    BY Pow2Table
  <2>2. CASE 128 <= v
    BY <1>2, <2>1, <2>2
  <2>3. CASE 64 <= v /\ v < 128
    BY <1>2, <2>1, <2>3
  <2>4. CASE 32 <= v /\ v < 64
    BY <1>2, <2>1, <2>4
  <2>5. CASE 16 <= v /\ v < 32
    BY <1>2, <2>1, <2>5
  <2>6. CASE 8 <= v /\ v < 16
    BY <1>2, <2>1, <2>6
  <2> QED
    BY <1>2, <2>2, <2>3, <2>4, <2>5, <2>6
<1>6. PICK k \in 0 .. 30, p \in Nat \ {0} : k = 8 - w /\ p = Pow2[k]
  <2>1. PICK k \in 0 .. 30 : k = 8 - w
    OBVIOUS
  <2>2. Pow2[k] \in Nat \ {0}
    BY Pow2Positive
  <2> QED
    BY <2>1, <2>2
<1>7. v \div p = 1
  <2>1. p <= v /\ v < 2 * p
    BY <1>5, <1>6
  <2>2. v \div p = IF v < p THEN 0 ELSE 1
    BY <1>2, <2>1, DivOnce
  <2> QED
    BY <1>2, <2>1, <2>2
<1>8. b[w] = 1
  <2>1. w \in 1 .. n /\ n - w = k
    BY <1>1, <1>6
  <2>2. b[w] = (v \div p) % 2
    BY <1>4, <1>6, <2>1
  <2> QED
    BY <1>7, <2>2
<1>9. PICK j \in 1 .. Len(b) : j = w /\ b[j] = 1 /\ t + j <= 22 /\ Len(b) <= j + u
  BY <1>1, <1>4, <1>8
<1>10. Takes(b, t, u)
  BY <1>4, <1>9, TakesPart
<1> QED
  BY <1>1, <1>3, <1>10

\* The NAL header.
LEMMA TakesNal ==
    ASSUME NEW t \in Nat, t = 0
    PROVE  Takes(Bits(103, 8), t, t)
<1>1. PICK n \in 0 .. 30, v \in Nat : n = 8 /\ v = 103
  BY SMTT(40)
<1>3. PICK b : b = Bits(v, n)
  OBVIOUS
<1>4. b \in Seq(Binary) /\ Len(b) = n /\ \A i \in 1 .. n : b[i] = (v \div Pow2[n - i]) % 2
  BY <1>3, BitsShape
<1>5. PICK i \in 1 .. n : i = 8 /\ n - i = 0
  BY <1>1
<1>6. b[i] = 1
  <2>1. b[i] = (v \div Pow2[n - i]) % 2
    BY <1>4
  <2>2. (103 \div 1) % 2 = 1
    OBVIOUS
  <2>3. Pow2[0] = 1
    BY Pow2Table
  <2> QED
    BY <1>1, <1>5, <2>1, <2>2, <2>3
<1>7. PICK j \in 1 .. Len(b) : j = i /\ b[j] = 1 /\ t + j <= 22 /\ Len(b) <= j + t
  BY <1>1, <1>4, <1>5, <1>6
<1>8. Takes(b, t, t)
  BY <1>4, <1>7, TakesPart
<1> QED
  BY <1>1, <1>3, <1>8

\* Of the numbers of H.264 the ones that have few zeros in front.
Bounded(x) ==
    /\ x.level \in 9 .. 255 /\ x.sps_id \in 0 .. 31 /\ x.log2frm \in 0 .. 12
    /\ x.poc_lsb \in 0 .. 12 /\ x.max_ref \in 0 .. 16

\* The first four bytes leave 7 zeros.
LEMMA TakesHeader ==
    ASSUME NEW x, Readable(x), Bounded(x), NEW z \in Nat, z = 0, NEW u \in Nat, u = 7
    PROVE  Takes(Header(x), z, u)
<1>1. PICK t1 \in Nat, t2 \in Nat : t1 = 8 /\ t2 = 16 /\ t1 = z + 8 /\ t2 = t1 + 8
  OBVIOUS
<1>2. Takes(Bits(103, 8), z, z)
  BY TakesNal
<1>3. Takes(Bits(x.profile, 8), z, t1)
  <2>1. PICK v \in Bytes : v = x.profile
    BY DEF Readable
  <2>2. Takes(Bits(v, 8), z, t1)
    BY <1>1, TakesByte
  <2> QED
    BY <2>1, <2>2
<1>4. Takes(Bits(x.constraint, 8), t1, t2)
  <2>1. PICK v \in Bytes : v = x.constraint
    BY DEF Readable
  <2>2. Takes(Bits(v, 8), t1, t2)
    BY <1>1, TakesByte
  <2> QED
    BY <2>1, <2>2
<1>5. Takes(Bits(x.level, 8), t2, u)
  <2>1. PICK v \in 9 .. 255 : v = x.level
    BY DEF Bounded
  <2>2. Takes(Bits(v, 8), t2, u)
    BY <1>1, TakesLevel
  <2> QED
    BY <2>1, <2>2
<1>6. Four(Header(x), Bits(103, 8), Bits(x.profile, 8), Bits(x.constraint, 8), Bits(x.level, 8))
  BY HeaderIs
<1> QED
  BY <1>2, <1>3, <1>4, <1>5, <1>6, TakesFour

\* The numbers of an SPS by how many zeros they have in front.
LEMMA TakesSmall ==
    ASSUME NEW v \in Ues, NEW t \in Nat
    PROVE  /\ v <= 2 /\ t <= 20 => Takes(UeBits(v), t, 1)
           /\ v <= 3 /\ t <= 19 => Takes(UeBits(v), t, 2)
           /\ v <= 12 /\ t <= 18 => Takes(UeBits(v), t, 3)
           /\ v <= 16 /\ t <= 17 => Takes(UeBits(v), t, 4)
           /\ v <= 31 /\ t <= 16 => Takes(UeBits(v), t, 5)
           /\ t <= 11 => Takes(UeBits(v), t, 10)
           /\ v = 0 /\ t <= 21 => Takes(UeBits(v), t, 0)
<1>1. v \in Nat /\ v <= 2046
  BY UesAre
<1>2. ASSUME v <= 2, t <= 20 PROVE Takes(UeBits(v), t, 1)
  <2>1. PICK n \in 0 .. 10 : n = 1 /\ n + 1 = 2
    OBVIOUS
  <2>2. v + 1 < Pow2[n + 1] /\ t + n <= 21
    BY <1>1, <1>2, <2>1, Pow2Table
  <2>3. Takes(UeBits(v), t, n)
    BY <2>2, TakesUe
  <2> QED
    BY <2>1, <2>3
<1>3. ASSUME v <= 3, t <= 19 PROVE Takes(UeBits(v), t, 2)
  <2>1. PICK n \in 0 .. 10 : n = 2 /\ n + 1 = 3
    OBVIOUS
  <2>2. v + 1 < Pow2[n + 1] /\ t + n <= 21
    BY <1>1, <1>3, <2>1, Pow2Table
  <2>3. Takes(UeBits(v), t, n)
    BY <2>2, TakesUe
  <2> QED
    BY <2>1, <2>3
<1>4. ASSUME v <= 12, t <= 18 PROVE Takes(UeBits(v), t, 3)
  <2>1. PICK n \in 0 .. 10 : n = 3 /\ n + 1 = 4
    OBVIOUS
  <2>2. v + 1 < Pow2[n + 1] /\ t + n <= 21
    BY <1>1, <1>4, <2>1, Pow2Table
  <2>3. Takes(UeBits(v), t, n)
    BY <2>2, TakesUe
  <2> QED
    BY <2>1, <2>3
<1>5. ASSUME v <= 16, t <= 17 PROVE Takes(UeBits(v), t, 4)
  <2>1. PICK n \in 0 .. 10 : n = 4 /\ n + 1 = 5
    OBVIOUS
  <2>2. v + 1 < Pow2[n + 1] /\ t + n <= 21
    BY <1>1, <1>5, <2>1, Pow2Table
  <2>3. Takes(UeBits(v), t, n)
    BY <2>2, TakesUe
  <2> QED
    BY <2>1, <2>3
<1>6. ASSUME v <= 31, t <= 16 PROVE Takes(UeBits(v), t, 5)
  <2>1. PICK n \in 0 .. 10 : n = 5 /\ n + 1 = 6
    OBVIOUS
  <2>2. v + 1 < Pow2[n + 1] /\ t + n <= 21
    BY <1>1, <1>6, <2>1, Pow2Table
  <2>3. Takes(UeBits(v), t, n)
    BY <2>2, TakesUe
  <2> QED
    BY <2>1, <2>3
<1>7. ASSUME t <= 11 PROVE Takes(UeBits(v), t, 10)
  <2>1. PICK n \in 0 .. 10 : n = 10 /\ n + 1 = 11
    OBVIOUS
  <2>2. v + 1 < Pow2[n + 1] /\ t + n <= 21
    BY <1>1, <1>7, <2>1, Pow2Table
  <2>3. Takes(UeBits(v), t, n)
    BY <2>2, TakesUe
  <2> QED
    BY <2>1, <2>3
<1>8. ASSUME v = 0, t <= 21 PROVE Takes(UeBits(v), t, 0)
  <2>1. PICK n \in 0 .. 10 : n = 0 /\ n + 1 = 1
    OBVIOUS
  <2>2. v + 1 < Pow2[n + 1] /\ t + n <= 21
    BY <1>1, <1>8, <2>1, Pow2Table
  <2>3. Takes(UeBits(v), t, n)
    BY <2>2, TakesUe
  <2> QED
    BY <2>1, <2>3
<1> QED
  BY <1>2, <1>3, <1>4, <1>5, <1>6, <1>7, <1>8

\* The scaling lists, and the part they are in.
LEMMA TakesMatrix ==
    ASSUME NEW x, HighFields(x), NEW t \in Nat, t = 1, NEW u \in Nat, u = 18
    PROVE  Takes(Matrix(x), t, u)
<1>0. x.lists \in Seq(Seq(Increments))
  BY DEF HighFields
<1>1. CASE x.lists = <<>>
  <2>1. PICK y \in Binary, v \in Nat : y = 0 /\ v = t + 1 /\ v <= u /\ t <= t
    BY Flags
  <2>2. Takes(<<y>>, t, v)
    BY <2>1, TakesFlag
  <2>3. Takes(<<y>>, t, u)
    BY <2>1, <2>2, TakesMore
  <2>4. Matrix(x) = <<0>>
    BY <1>0, <1>1, MatrixIs
  <2> QED
    BY <2>1, <2>3, <2>4
<1>2. CASE x.lists # <<>>
  <2>1. PICK z \in Nat, a \in Nat : z = 0 /\ a = 6 /\ t <= t /\ z <= a
    OBVIOUS
  <2>2. Takes(<<1>>, t, z)
    BY <2>1, TakesOne
  <2>3. Takes(<<1>>, t, a)
    BY <2>1, <2>2, TakesMore
  <2>4. PICK l \in Seq(Seq(Increments)) : l = x.lists
    BY <1>0
  <2>5. l # <<>> /\ Len(l) <= 12
    BY <1>2, <2>4 DEF HighFields
  <2>6. Takes(FlattenSeq(Lists(l)), a, u)
    BY <2>1, <2>5, TakesLists
  <2>7. Takes(<<1>> \o FlattenSeq(Lists(l)), t, u)
    BY <2>3, <2>6, TakesCat
  <2>8. Matrix(x) = <<1>> \o FlattenSeq(Lists(l))
    BY <1>0, <1>2, <2>4, MatrixIs
  <2> QED
    BY <2>7, <2>8
<1> QED
  BY <1>1, <1>2

LEMMA TakesHigh ==
    ASSUME NEW x, HighFields(x), NEW t \in Nat, t = 5, NEW u \in Nat, u = 18
    PROVE  Takes(HighBits(x), t, u)
<1>1. PICK z \in Nat, t1 \in Nat, t2 \in Nat, t3 \in Nat : z = 0 /\ t1 = 1 /\ t2 = 2 /\ t3 = 3
  OBVIOUS
<1>2. PICK ch, pl, ue, fl, ma : ch = UeBits(x.chroma) /\ pl = Planes(x) /\ ue = UeBits(0)
        /\ fl = <<0>> /\ ma = Matrix(x)
  OBVIOUS
<1>3. Takes(ch, t, t2)
  <2>1. PICK v \in Ues : v = x.chroma /\ v <= 3
    BY HighBitsAre DEF HighFields
  <2>2. Takes(UeBits(v), t, 2)
    BY <2>1, TakesSmall
  <2> QED
    BY <1>1, <1>2, <2>1, <2>2
<1>4. Takes(pl, t2, t3)
  <2>1. PICK y \in Binary : y = 0
    BY Flags
  <2>2. Takes(<<y>>, t2, t3)
    BY <1>1, TakesFlag
  <2>3. Takes(<<>>, t2, t3)
    <3>1. Takes(<<>>, t2, t2)
      BY TakesNone
    <3>2. t2 <= t2 /\ t2 <= t3
      BY <1>1
    <3> QED
      BY <3>1, <3>2, TakesMore
  <2> QED
    BY <1>2, <2>1, <2>2, <2>3 DEF Planes
<1>5. Takes(ue, t3, z) /\ Takes(ue, z, z)
  <2>1. PICK v \in Ues : v = 0
    BY DEF Ues
  <2>2. Takes(UeBits(v), t3, 0)
    BY <1>1, <2>1, TakesSmall
  <2>3. Takes(UeBits(v), z, 0)
    BY <1>1, <2>1, TakesSmall
  <2> QED
    BY <1>1, <1>2, <2>1, <2>2, <2>3
<1>6. Takes(fl, z, t1)
  <2>1. PICK y \in Binary : y = 0
    BY Flags
  <2>2. Takes(<<y>>, z, t1)
    BY <1>1, TakesFlag
  <2> QED
    BY <1>2, <2>1, <2>2
<1>7. Takes(ma, t1, u)
  BY <1>1, <1>2, TakesMatrix
<1>8. Takes(ch \o pl, t, t3)
  BY <1>3, <1>4, TakesCat
<1>9. Takes(ch \o pl \o ue, t, z)
  BY <1>5, <1>8, TakesCat
<1>10. Takes(ch \o pl \o ue \o ue, t, z)
  BY <1>5, <1>9, TakesCat
<1>11. Takes(ch \o pl \o ue \o ue \o fl, t, t1)
  BY <1>6, <1>10, TakesCat
<1>12. Takes(ch \o pl \o ue \o ue \o fl \o ma, t, u)
  BY <1>7, <1>11, TakesCat
<1>13. HighBits(x) = ch \o pl \o ue \o ue \o fl \o ma
  BY <1>2, HighBitsAre
<1> QED
  BY <1>12, <1>13

\* Picture order count.
LEMMA TakesPoc ==
    ASSUME NEW x, PocFields(x), x.poc_lsb <= 12, NEW t \in Nat, t = 3, NEW u \in Nat, u = 3
    PROVE  Takes(PocBits(x), t, u)
<1>1. PICK z \in Nat, t1 \in Nat, t2 \in Nat : z = 0 /\ t1 = 1 /\ t2 = 2
  OBVIOUS
<1>2. PICK ty, po, re : ty = UeBits(x.poc_type) /\ po = PocBits(x) /\ re = PocRest(x)
  OBVIOUS
<1>3. po = ty \o re /\ x.poc_type \in Ues /\ x.poc_lsb \in Ues
  BY <1>2, PocBitsAre
<1>4. Takes(ty, t, t1)
  <2>1. PICK v \in Ues : v = x.poc_type /\ v <= 2
    BY <1>3 DEF PocFields
  <2>2. Takes(UeBits(v), t, 1)
    BY <2>1, TakesSmall
  <2> QED
    BY <1>1, <1>2, <2>1, <2>2
<1>5. Takes(re, t1, u)
  <2>1. CASE x.poc_type = 0
    <3>1. PICK v \in Ues : v = x.poc_lsb /\ v <= 12
      BY <1>3
    <3>2. Takes(UeBits(v), t1, 3)
      BY <1>1, <3>1, TakesSmall
    <3>3. re = UeBits(v)
      BY <1>2, <2>1, <3>1, PocBitsAre
    <3> QED
      BY <3>2, <3>3
  <2>2. CASE x.poc_type = 1
    <3>1. PICK v0 \in Ues, v1 \in Ues, v2 \in Ues, v3 \in Ues :
            v0 = 0 /\ v1 = 1 /\ v2 = 2 /\ v3 = 3
      BY DEF Ues
    <3>2. PICK y \in Binary : y = 0
      BY Flags
    <3>3. Takes(<<y>>, t1, t2)
      BY <1>1, TakesFlag
    <3>4. Takes(UeBits(v2), t2, 1)
      BY <1>1, <3>1, TakesSmall
    <3>5. Takes(UeBits(v0), t1, 0)
      BY <1>1, <3>1, TakesSmall
    <3>6. Takes(UeBits(v1), z, 1)
      BY <1>1, <3>1, TakesSmall
    <3>7. Takes(UeBits(v3), t1, 2)
      BY <1>1, <3>1, TakesSmall
    <3>8. Takes(UeBits(v2), t2, t1) /\ Takes(UeBits(v0), t1, z) /\ Takes(UeBits(v1), z, t1)
          /\ Takes(UeBits(v3), t1, t2)
      BY <1>1, <3>4, <3>5, <3>6, <3>7
    <3>9. Five(re, <<y>>, UeBits(v2), UeBits(v0), UeBits(v1), UeBits(v3))
      BY <1>2, <2>2, <3>1, <3>2, PocBitsAre
    <3>10. Takes(re, t1, t2)
      BY <3>3, <3>8, <3>9, TakesFive
    <3>11. t1 <= t1 /\ t2 <= u
      BY <1>1, SMTT(40)
    <3> QED
      BY <3>10, <3>11, TakesMore, SMTT(40)
  <2>3. CASE x.poc_type = 2
    <3>1. re = <<>>
      BY <1>2, <2>3, PocBitsAre
    <3>2. Takes(<<>>, t1, t1)
      BY TakesNone
    <3>3. t1 <= t1 /\ t1 <= u
      BY <1>1
    <3> QED
      BY <3>1, <3>2, <3>3, TakesMore
  <2>4. x.poc_type = 0 \/ x.poc_type = 1 \/ x.poc_type = 2
    BY DEF PocFields
  <2> QED
    BY <2>1, <2>2, <2>3, <2>4
<1>6. Takes(ty \o re, t, u)
  BY <1>4, <1>5, TakesCat
<1> QED
  BY <1>2, <1>3, <1>6

\* All up to the size, whatever the profile.
LEMMA TakesSize ==
    ASSUME NEW x, Readable(x), Bounded(x), NEW z \in Nat, z = 0, NEW u \in Nat, u = 10
    PROVE  Takes(SizeBits(x), z, u)
<1>1. PICK t3 \in Nat, t4 \in Nat, t5 \in Nat, t7 \in Nat, t18 \in Nat :
        t3 = 3 /\ t4 = 4 /\ t5 = 5 /\ t7 = 7 /\ t18 = 18 /\ t5 = t4 + 1
  OBVIOUS
<1>2. Takes(Header(x), z, t7)
  BY <1>1, TakesHeader
<1>3. Takes(UeBits(x.sps_id), t7, t5)
  <2>1. PICK v \in Ues : v = x.sps_id /\ v <= 31
    BY DEF Readable, Bounded
  <2>2. Takes(UeBits(v), t7, 5)
    BY <1>1, <2>1, TakesSmall
  <2> QED
    BY <1>1, <2>1, <2>2
<1>4. Takes(HighOrNot(x), t5, t18)
  <2>1. CASE x.profile \in HighProfiles
    <3>1. HighFields(x)
      BY <2>1 DEF Readable
    <3>2. Takes(HighBits(x), t5, t18)
      BY <1>1, <3>1, TakesHigh
    <3> QED
      BY <2>1, <3>2 DEF HighOrNot
  <2>2. CASE x.profile \notin HighProfiles
    <3>1. HighOrNot(x) = <<>>
      BY <2>2 DEF HighOrNot
    <3>2. Takes(<<>>, t5, t5)
      BY TakesNone
    <3>3. t5 <= t5 /\ t5 <= t18
      BY <1>1
    <3> QED
      BY <3>1, <3>2, <3>3, TakesMore
  <2> QED
    BY <2>1, <2>2
<1>5. Takes(UeBits(x.log2frm), t18, t3)
  <2>1. PICK v \in Ues : v = x.log2frm /\ v <= 12
    BY DEF Readable, Bounded
  <2>2. Takes(UeBits(v), t18, 3)
    BY <1>1, <2>1, TakesSmall
  <2> QED
    BY <1>1, <2>1, <2>2
<1>6. Takes(PocBits(x), t3, t3)
  <2>1. PocFields(x) /\ x.poc_lsb <= 12
    BY DEF Readable, Bounded
  <2> QED
    BY <1>1, <2>1, TakesPoc
<1>7. Takes(UeBits(x.max_ref), t3, t4)
  <2>1. PICK v \in Ues : v = x.max_ref /\ v <= 16
    BY DEF Readable, Bounded
  <2>2. Takes(UeBits(v), t3, 4)
    BY <1>1, <2>1, TakesSmall
  <2> QED
    BY <1>1, <2>1, <2>2
<1>8. Takes(<<x.gaps>>, t4, t5)
  <2>1. PICK y \in Binary : y = x.gaps
    BY DEF Readable
  <2>2. Takes(<<y>>, t4, t5)
    BY <1>1, TakesFlag
  <2> QED
    BY <2>1, <2>2
<1>9. Takes(UeBits(x.w), t5, u)
  <2>1. PICK v \in Ues : v = x.w
    BY DEF Readable
  <2>2. Takes(UeBits(v), t5, 10)
    BY <1>1, TakesSmall
  <2> QED
    BY <2>1, <2>2
<1>10. Takes(UeBits(x.h), u, u)
  <2>1. PICK v \in Ues : v = x.h
    BY DEF Readable
  <2>2. Takes(UeBits(v), u, 10)
    BY TakesSmall
  <2> QED
    BY <2>1, <2>2
<1>11. Takes(FirstBits(x), z, t3)
  <2>1. Five(FirstBits(x), Header(x), UeBits(x.sps_id), HighOrNot(x), UeBits(x.log2frm),
             PocBits(x))
    BY SizeBitsAre
  <2> QED
    BY <1>2, <1>3, <1>4, <1>5, <1>6, <2>1, TakesFive
<1>12. Five(SizeBits(x), FirstBits(x), UeBits(x.max_ref), <<x.gaps>>, UeBits(x.w), UeBits(x.h))
  BY SizeBitsAre
<1> QED
  BY <1>7, <1>8, <1>9, <1>10, <1>11, <1>12, TakesFive

\* What comes after it.
LEMMA TakesFrame ==
    ASSUME NEW x, FrameFields(x), NEW t \in Nat, t = 10, NEW u \in Nat, u = 14
    PROVE  Takes(FrameBits(x), t, u)
<1>1. PICK z \in Nat, t11 \in Nat, t12 \in Nat, t13 \in Nat :
        z = 0 /\ t11 = t + 1 /\ t12 = t11 + 1 /\ t13 = t12 + 1 /\ u = t13 + 1
  OBVIOUS
<1>2. Takes(<<x.fmbo>>, t, t11)
  <2>1. PICK y \in Binary : y = x.fmbo
    BY DEF FrameFields
  <2>2. Takes(<<y>>, t, t11)
    BY <1>1, TakesFlag
  <2> QED
    BY <2>1, <2>2
<1>3. Takes(FieldBit(x), t11, t12)
  <2>1. PICK y \in Binary : y = x.mb_adaptive
    BY DEF FrameFields
  <2>2. Takes(<<y>>, t11, t12)
    BY <1>1, TakesFlag
  <2>3. Takes(<<>>, t11, t12)
    <3>1. Takes(<<>>, t11, t11)
      BY TakesNone
    <3>2. t11 <= t11 /\ t11 <= t12
      BY <1>1
    <3> QED
      BY <3>1, <3>2, TakesMore
  <2> QED
    BY <2>1, <2>2, <2>3 DEF FieldBit
<1>4. Takes(<<x.direct8x8>>, t12, t13)
  <2>1. PICK y \in Binary : y = x.direct8x8
    BY DEF FrameFields
  <2>2. Takes(<<y>>, t12, t13)
    BY <1>1, TakesFlag
  <2> QED
    BY <2>1, <2>2
<1>5. Takes(CropPart(x), t13, u)
  <2>1. CASE x.crop = <<>>
    <3>1. PICK y \in Binary : y = 0
      BY Flags
    <3>2. Takes(<<y>>, t13, u)
      BY <1>1, TakesFlag
    <3> QED
      BY <2>1, <3>1, <3>2 DEF CropPart
  <2>2. CASE x.crop # <<>>
    <3>1. PICK c : c = x.crop /\ CropFields(c)
      BY <2>2 DEF FrameFields
    <3>2. PICK c1 \in Ues, c2 \in Ues, c3 \in Ues, c4 \in Ues :
            Four(CropBits(c), UeBits(c1), UeBits(c2), UeBits(c3), UeBits(c4))
      BY <3>1, CropIs
    <3>3. Takes(UeBits(c1), z, 10)
      BY <1>1, TakesSmall
    <3>4. Takes(UeBits(c1), z, t)
      BY <3>3
    <3>5. Takes(UeBits(c2), t, t)
      BY TakesSmall
    <3>6. Takes(UeBits(c3), t, t)
      BY TakesSmall
    <3>7. Takes(UeBits(c4), t, t)
      BY TakesSmall
    <3>8. Takes(CropBits(c), z, t)
      BY <3>2, <3>4, <3>5, <3>6, <3>7, TakesFour
    <3>9. Takes(<<1>>, t13, z)
      BY <1>1, TakesOne
    <3>10. Takes(<<1>> \o CropBits(c), t13, t)
      BY <3>8, <3>9, TakesCat
    <3>11. t13 <= t13 /\ t <= u
      BY <1>1
    <3>12. Takes(<<1>> \o CropBits(c), t13, u)
      BY <3>10, <3>11, TakesMore
    <3> QED
      BY <2>2, <3>1, <3>12 DEF CropPart
  <2> QED
    BY <2>1, <2>2
<1>6. Four(FrameBits(x), <<x.fmbo>>, FieldBit(x), <<x.direct8x8>>, CropPart(x))
  BY FrameBitsAre
<1> QED
  BY <1>2, <1>3, <1>4, <1>5, <1>6, TakesFour

\* The fields of an SPS have no 22 zeros in a row.
LEMMA FieldsOk ==
    ASSUME NEW x, Readable(x), Bounded(x), NEW u \in Nat, u = 14
    PROVE  Ok(SizeBits(x) \o FrameBits(x), u)
<1>1. PICK z \in Nat, t \in Nat : z = 0 /\ t = 10
  OBVIOUS
<1>2. Takes(SizeBits(x), z, t)
  BY <1>1, TakesSize
<1>3. Takes(FrameBits(x), t, u)
  BY <1>1, TakesFrame DEF Readable
<1>4. Takes(SizeBits(x) \o FrameBits(x), z, u)
  BY <1>2, <1>3, TakesCat
<1> QED
  BY <1>4, OkStart

\* No byte ends what looks like a start code or its escape.
Quiet(d, n) == \A i \in 3 .. n : ~(d[i] <= 3 /\ d[i - 1] = 0 /\ d[i - 2] = 0)

\* The bits of a byte of at most 3 are zeros but for the last two.
LEMMA LowByte ==
    ASSUME NEW d \in Seq(Bytes), NEW i \in 1 .. Len(d), d[i] <= 3,
           NEW p \in Nat, p >= 8 * (i - 1), p <= 8 * (i - 1) + 5
    PROVE  Bit(d, p) = 0
<1>1. PICK n \in Nat : n = Len(d) /\ i \in 1 .. n
  OBVIOUS
<1>2. PICK v \in Bytes : v = d[i] /\ v \in Nat /\ v <= 3
  <2>1. d[i] \in Bytes
    BY <1>1
  <2> QED
    BY <2>1, ByteIsNat
<1>3. PICK r \in 0 .. 5 : r = p % 8 /\ p \div 8 = i - 1
  OBVIOUS
<1>4. (p \div 8) + 1 = i /\ p < 8 * n
  BY <1>1, <1>3
<1>5. Bit(d, p) = (v \div Pow2[7 - r]) % 2
  BY <1>1, <1>2, <1>3, <1>4 DEF Bit
<1>6. PICK k \in 2 .. 7 : k = 7 - r
  OBVIOUS
<1>7. v \div Pow2[k] = 0
  <2>1. k = 2 \/ k = 3 \/ k = 4 \/ k = 5 \/ k = 6 \/ k = 7
    OBVIOUS
  <2>2. /\ Pow2[2] = 4 /\ Pow2[3] = 8 /\ Pow2[4] = 16 /\ Pow2[5] = 32 /\ Pow2[6] = 64
        /\ Pow2[7] = 128
    BY Pow2Table
  <2>3. PICK q : q = Pow2[k]
    OBVIOUS
  <2>4. q = 4 \/ q = 8 \/ q = 16 \/ q = 32 \/ q = 64 \/ q = 128
    BY <2>1, <2>2, <2>3, SMTT(40)
  <2>5. q \in Nat \ {0} /\ v < q /\ v < 2 * q
    BY <1>2, <2>4
  <2>6. v \in Nat
    BY <1>2
  <2>7. v \div q = IF v < q THEN 0 ELSE 1
    BY <2>5, <2>6, DivOnce
  <2> QED
    BY <2>3, <2>5, <2>7
<1> QED
  BY <1>5, <1>6, <1>7

\* Those of a 0 are all zeros.
LEMMA ZeroByte ==
    ASSUME NEW d \in Seq(Bytes), NEW i \in 1 .. Len(d), d[i] = 0,
           NEW p \in Nat, p >= 8 * (i - 1), p <= 8 * (i - 1) + 7
    PROVE  Bit(d, p) = 0
<1>1. PICK n \in Nat : n = Len(d) /\ i \in 1 .. n
  OBVIOUS
<1>3. PICK r \in 0 .. 7 : r = p % 8 /\ p \div 8 = i - 1
  OBVIOUS
<1>4. (p \div 8) + 1 = i /\ p < 8 * n
  BY <1>1, <1>3
<1>5. Bit(d, p) = (0 \div Pow2[7 - r]) % 2
  BY <1>1, <1>3, <1>4 DEF Bit
<1>6. PICK k \in 0 .. 30 : k = 7 - r
  OBVIOUS
<1>7. PICK q \in Nat \ {0} : q = Pow2[k]
  BY Pow2Positive
<1>8. 0 \div q = 0
  <2>1. 0 \in Nat /\ 0 < q /\ 0 < 2 * q
    OBVIOUS
  <2>2. PICK u \in Nat : u = 0
    OBVIOUS
  <2>3. u \div q = IF u < q THEN 0 ELSE 1
    BY <2>1, <2>2, DivOnce
  <2> QED
    BY <2>1, <2>2, <2>3
<1> QED
  BY <1>5, <1>6, <1>7, <1>8

\* Bytes that hold bits with no 22 zeros in a row, no two of them zeros before a low one.
LEMMA FieldsQuiet ==
    ASSUME NEW d \in Seq(Bytes), NEW b, NEW t \in Nat, t = 14, Ok(b, t), Has(d, 0, b),
           NEW n \in Nat, n <= Len(d), 8 * n <= Len(b) + 7
    PROVE  Quiet(d, n)
<1>1. PICK m \in Nat, l \in Nat : m = Len(d) /\ l = Len(b)
  BY DEF Ok
<1>2. ASSUME NEW i \in 3 .. n, d[i] <= 3, d[i - 1] = 0, d[i - 2] = 0 PROVE FALSE
  <2>1. PICK q \in 1 .. l : q = 8 * (i - 3) + 1 /\ q + t <= l
    <3>1. 8 * (i - 3) + 1 \in 1 .. l /\ 8 * (i - 3) + 1 + t <= l
      BY <1>1
    <3> QED
      BY <3>1
  <2>2. PICK j \in 1 .. l : q <= j /\ j <= q + 21 /\ b[j] = 1
    BY <1>1, <2>1 DEF Ok
  <2>3. PICK p \in Nat : p = j - 1 /\ p = 0 + j - 1
    OBVIOUS
  <2>4. Bit(d, p) = 1
    BY <1>1, <2>2, <2>3 DEF Has
  <2>5. PICK i1 \in 1 .. m, i2 \in 1 .. m, i3 \in 1 .. m :
          i1 = i - 2 /\ i2 = i - 1 /\ i3 = i
    BY <1>1
  <2>6. d[i1] <= 3 /\ d[i2] <= 3 /\ d[i3] <= 3
    BY <1>2, <2>5
  <2>7. \/ p >= 8 * (i1 - 1) /\ p <= 8 * (i1 - 1) + 7
        \/ p >= 8 * (i2 - 1) /\ p <= 8 * (i2 - 1) + 7
        \/ p >= 8 * (i3 - 1) /\ p <= 8 * (i3 - 1) + 5
    BY <2>1, <2>2, <2>3, <2>5
  <2>8. CASE p >= 8 * (i1 - 1) /\ p <= 8 * (i1 - 1) + 7
    <3>1. d[i1] = 0
      BY <1>2, <2>5
    <3> QED
      BY <1>1, <2>4, <2>8, <3>1, ZeroByte, SMTT(40)
  <2>9. CASE p >= 8 * (i2 - 1) /\ p <= 8 * (i2 - 1) + 7
    <3>1. d[i2] = 0
      BY <1>2, <2>5
    <3> QED
      BY <1>1, <2>4, <2>9, <3>1, ZeroByte, SMTT(40)
  <2>10. CASE p >= 8 * (i3 - 1) /\ p <= 8 * (i3 - 1) + 5
    BY <1>1, <2>4, <2>6, <2>10, LowByte, SMTT(40)
  <2> QED
    BY <2>7, <2>8, <2>9, <2>10
<1> QED
  BY <1>2 DEF Quiet

-----------------------------------------------------------------------------
(* An SPS on its way *)

\* The numbers of the header.
LEMMA SentIds ==
    ASSUME NEW x, IdFields(x)
    PROVE  /\ x.profile \in Bytes /\ x.constraint \in Bytes /\ x.level \in Bytes
           /\ x.sps_id \in Ues
  BY SMTT(40) DEF IdFields, Bytes, Ues

\* The numbers up to the size.
LEMMA SentSizes ==
    ASSUME NEW x, SizeFields(x)
    PROVE  /\ x.log2frm \in Ues /\ x.max_ref \in Ues /\ x.w \in Ues /\ x.h \in Ues
           /\ x.poc_lsb \in Ues /\ x.gaps \in Binary /\ PocFields(x)
<1>1. /\ x.log2frm \in Ues /\ x.max_ref \in Ues /\ x.w \in Ues /\ x.h \in Ues
      /\ x.poc_lsb \in Ues /\ x.gaps \in Binary
  <2>1. x.log2frm \in Ues /\ x.poc_lsb \in Ues
    BY SMTT(40) DEF SizeFields, Ues
  <2>2. x.max_ref \in Ues
    BY SMTT(40) DEF SizeFields, Ues
  <2>3. x.w \in Ues /\ x.h \in Ues
    BY SMTT(40) DEF SizeFields, Ues
  <2>4. x.gaps \in Binary
    BY SMTT(40) DEF SizeFields, Binary
  <2> QED
    BY <2>1, <2>2, <2>3, <2>4
<1>2. x.poc_type \in 0 .. 2
  BY SMTT(40) DEF SizeFields
<1> QED
  BY <1>1, <1>2, SMTT(40) DEF PocFields

\* The flags and the crop.
LEMMA SentFrame ==
    ASSUME NEW x, FlagFields(x), SentCrop(x.crop)
    PROVE  FrameFields(x)
<1>1. x.fmbo \in Binary /\ x.mb_adaptive \in Binary /\ x.direct8x8 \in Binary
  BY SMTT(40) DEF FlagFields, Binary
<1>2. ASSUME NEW c, SentCrop(c) PROVE c = <<>> \/ CropFields(c)
  BY <1>2, ZenonT(60) DEF SentCrop, CropFields, Ues
<1>3. x.crop = <<>> \/ CropFields(x.crop)
  BY <1>2
<1> QED
  BY <1>1, <1>3, SMTT(40) DEF FrameFields

\* The fields of H.264 can be read back and have few zeros in front.
LEMMA SentFields ==
    ASSUME NEW x, SpsFields(x), x.profile \in HighProfiles => HighSpsFields(x)
    PROVE  /\ Readable(x) /\ Bounded(x)
           /\ x.vui \in Seq(Binary) /\ Len(x.vui) >= 2 /\ x.junk \in Seq(Bytes)
<1>1. IdFields(x) /\ SizeFields(x) /\ FlagFields(x) /\ SentCrop(x.crop) /\ TailFields(x)
  BY DEF SpsFields
<1>2. x.vui \in Seq(Binary) /\ Len(x.vui) >= 2 /\ x.junk \in Seq(Bytes)
  BY <1>1 DEF TailFields, Binary, Bytes
<1>3. /\ x.profile \in Bytes /\ x.constraint \in Bytes /\ x.level \in Bytes
      /\ x.sps_id \in Ues
  BY <1>1, SentIds
<1>4. /\ x.log2frm \in Ues /\ x.max_ref \in Ues /\ x.w \in Ues /\ x.h \in Ues
      /\ x.poc_lsb \in Ues /\ x.gaps \in Binary /\ PocFields(x)
  BY <1>1, SentSizes
<1>5. FrameFields(x)
  BY <1>1, SentFrame
<1>6. x.profile \in HighProfiles => HighFields(x)
  BY DEF HighSpsFields, HighFields, Increments
<1>7. Bounded(x)
  <2>1. x.level \in 9 .. 255 /\ x.sps_id \in 0 .. 31
    BY <1>1 DEF IdFields
  <2>2. x.log2frm \in 0 .. 12 /\ x.poc_lsb \in 0 .. 12 /\ x.max_ref \in 0 .. 16
    BY <1>1 DEF SizeFields
  <2> QED
    BY <2>1, <2>2 DEF Bounded
<1> QED
  BY <1>2, <1>3, <1>4, <1>5, <1>6, <1>7 DEF Readable

\* They fill four bytes and more.
LEMMA FieldsLong ==
    ASSUME NEW x, Readable(x)
    PROVE  /\ SizeBits(x) \o FrameBits(x) \in Seq(Binary)
           /\ Len(SizeBits(x) \o FrameBits(x)) >= 32
<1>1. PICK hd, first, size, fb : hd = Header(x) /\ first = FirstBits(x) /\ size = SizeBits(x)
        /\ fb = FrameBits(x)
  OBVIOUS
<1>2. /\ Five(first, hd, UeBits(x.sps_id), HighOrNot(x), UeBits(x.log2frm), PocBits(x))
      /\ Five(size, first, UeBits(x.max_ref), <<x.gaps>>, UeBits(x.w), UeBits(x.h))
      /\ size \in Seq(Binary) /\ fb \in Seq(Binary)
  BY <1>1, SizeBitsAre
<1>3. Len(hd) = 32
  BY <1>1, HeaderIs
<1>4. Len(first) >= 32
  <2>1. Len(first) = Len(hd) + Len(UeBits(x.sps_id)) + Len(HighOrNot(x))
                       + Len(UeBits(x.log2frm)) + Len(PocBits(x))
    BY <1>2, FiveIs
  <2>2. /\ Len(UeBits(x.sps_id)) \in Nat /\ Len(HighOrNot(x)) \in Nat
        /\ Len(UeBits(x.log2frm)) \in Nat /\ Len(PocBits(x)) \in Nat
    BY <1>2 DEF Five
  <2> QED
    BY <1>3, <2>1, <2>2
<1>5. Len(size) >= 32
  <2>1. Len(size) = Len(first) + Len(UeBits(x.max_ref)) + Len(<<x.gaps>>) + Len(UeBits(x.w))
                      + Len(UeBits(x.h))
    <3>1. PICK rf, ga, wi, he : rf = UeBits(x.max_ref) /\ ga = <<x.gaps>> /\ wi = UeBits(x.w)
                                /\ he = UeBits(x.h)
      OBVIOUS
    <3>2. Five(size, first, rf, ga, wi, he)
      BY <1>2, <3>1
    <3>3. Len(size) = Len(first) + Len(rf) + Len(ga) + Len(wi) + Len(he)
      BY <3>2, FiveIs
    <3> QED
      BY <3>1, <3>3
  <2>2. /\ Len(first) \in Nat /\ Len(UeBits(x.max_ref)) \in Nat /\ Len(<<x.gaps>>) \in Nat
        /\ Len(UeBits(x.w)) \in Nat /\ Len(UeBits(x.h)) \in Nat
    BY <1>2 DEF Five
  <2> QED
    BY <1>4, <2>1, <2>2
<1>6. PICK b : b = size \o fb /\ b \in Seq(Binary) /\ Len(b) = Len(size) + Len(fb)
  <2>1. PICK b : b = size \o fb
    OBVIOUS
  <2>2. b \in Seq(Binary) /\ Len(b) = Len(size) + Len(fb)
    BY <1>2, <2>1, CatIs
  <2> QED
    BY <2>1, <2>2
<1>7. Len(size) \in Nat /\ Len(fb) \in Nat
  BY <1>2
<1> QED
  BY <1>1, <1>5, <1>6, <1>7

\* What is parsed of a NAL unit begins with the bits of the fields.
SentAs(x, d, s) ==
    /\ d \in Seq(Bytes) /\ Len(d) >= 4 /\ d[1] = 103
    /\ s = Strip(d) /\ s \in Seq(Bytes) /\ Len(s) >= 4
    /\ Has(s, 0, SizeBits(x) \o FrameBits(x))
    /\ s[2] = x.profile /\ s[3] = x.constraint /\ s[4] = x.level

\* What the app sends is stripped to what begins with the bits of the fields.
LEMMA SentIs ==
    ASSUME NEW x, Readable(x), Bounded(x), x.vui \in Seq(Binary), x.junk \in Seq(Bytes),
           NEW e, e = Escape(Pack(Encode(x))) \o x.junk
    PROVE  \E s : SentAs(x, e, s)
<1>1. PICK b, v, c : b = SizeBits(x) \o FrameBits(x) /\ v = x.vui /\ c = b \o v
  OBVIOUS
<1>2. b \in Seq(Binary) /\ v \in Seq(Binary) /\ Len(b) >= 32
  BY <1>1, FieldsLong
<1>3. c \in Seq(Binary) /\ Len(c) = Len(b) + Len(v)
  BY <1>1, <1>2, CatIs
<1>4. PICK d : d = Pack(c)
  OBVIOUS
<1>5. d \in Seq(Bytes) /\ Len(c) <= 8 * Len(d)
  BY <1>3, <1>4, PackIs
<1>6. PICK z \in Nat : z = 0
  OBVIOUS
<1>7. Has(d, z, c)
  BY <1>3, <1>4, <1>6, PackHas
<1>8. Has(d, z, b)
  BY <1>1, <1>2, <1>5, <1>7, HasCat
<1>9. PICK l \in Nat, m \in Nat, k \in Nat :
        l = Len(b) /\ m = Len(d) /\ k = Len(v) /\ l >= 32 /\ l + k <= 8 * m
  BY <1>2, <1>3, <1>5
<1>10. PICK n \in Nat : n >= 1 /\ n <= m /\ l <= 8 * n /\ 8 * n <= l + 7
  <2>1. PICK n : n = (l + 7) \div 8
    OBVIOUS
  <2>2. n \in Nat /\ n >= 1 /\ n <= m /\ l <= 8 * n /\ 8 * n <= l + 7
    BY <1>9, <2>1, SMTT(40)
  <2> QED
    BY <2>2
<1>11. PICK t \in Nat : t = 14 /\ Ok(b, t)
  <2>1. PICK t \in Nat : t = 14
    OBVIOUS
  <2> QED
    BY <1>1, <2>1, FieldsOk
<1>12. Quiet(d, n)
  <2>1. Has(d, 0, b) /\ n <= Len(d) /\ 8 * n <= Len(b) + 7
    BY <1>6, <1>8, <1>9, <1>10
  <2> QED
    BY <1>5, <1>11, <2>1, FieldsQuiet
<1>13. Plain(d, n)
  <2>1. \A i \in 3 .. n : d[i] = 3 => d[i] <= 3
    OBVIOUS
  <2> QED
    BY <1>12, <2>1 DEF Quiet, Plain
<1>14. e = Escape(d) \o x.junk
  BY <1>1, <1>4 DEF Encode
<1>15. PICK s : s = Strip(e)
  OBVIOUS
<1>16. /\ e \in Seq(Bytes) /\ Len(e) >= 1 /\ e[1] = d[1]
       /\ s \in Seq(Bytes) /\ Len(s) <= Len(e)
       /\ Agree(d, s, n)
  <2>1. n \in 1 .. Len(d)
    BY <1>9, <1>10
  <2>2. PICK junk \in Seq(Bytes) : junk = x.junk /\ e = Escape(d) \o junk
    BY <1>14
  <2> QED
    <3>1. /\ e \in Seq(Bytes) /\ Len(e) >= 1 /\ e[1] = d[1]
          /\ Strip(e) \in Seq(Bytes) /\ Len(Strip(e)) <= Len(e)
          /\ Agree(d, Strip(e), n)
      <4>1. d \in Seq(Bytes) /\ Plain(d, n)
        BY <1>5, <1>13
      <4>2. PICK f : f = Escape(d) \o junk
        OBVIOUS
      <4>3. f \in Seq(Bytes) /\ Len(f) >= 1 /\ f[1] = d[1]
        BY <2>1, <4>1, <4>2, Unescaped
      <4>4. Strip(f) \in Seq(Bytes) /\ Len(Strip(f)) <= Len(f)
        BY <2>1, <4>1, <4>2, Unescaped
      <4>5. Agree(d, Strip(f), n)
        BY <2>1, <4>1, <4>2, Unescaped
      <4>6. e = f
        BY <2>2, <4>2
      <4> QED
        BY <4>3, <4>4, <4>5, <4>6
    <3> QED
      BY <1>15, <3>1
<1>17. Has(s, 0, b)
  <2>1. n <= Len(d) /\ Len(b) <= 8 * n /\ Has(d, 0, b)
    BY <1>6, <1>8, <1>9, <1>10
  <2> QED
    BY <1>2, <1>5, <1>16, <2>1, HasFront
<1>18. d[1] = 103
  <2>1. Has(d, 0, SizeBits(x) \o FrameBits(x))
    BY <1>1, <1>6, <1>8
  <2> QED
    BY <1>5, <2>1, HeaderReads
<1>19. s[2] = x.profile /\ s[3] = x.constraint /\ s[4] = x.level /\ Len(s) >= 4
  <2>1. Has(s, 0, SizeBits(x) \o FrameBits(x))
    BY <1>1, <1>17
  <2> QED
    BY <1>16, <2>1, HeaderReads
<1>20. Len(e) >= 4
  <2>1. Len(s) \in Nat /\ Len(e) \in Nat
    BY <1>16
  <2> QED
    BY <1>16, <1>19, <2>1
<1>21. SentAs(x, e, s)
  BY <1>1, <1>15, <1>16, <1>17, <1>18, <1>19, <1>20 DEF SentAs
<1> QED
  BY <1>21

\* It is parsed to them.
LEMMA ParseSent ==
    ASSUME NEW x, Readable(x), NEW d, NEW s, SentAs(x, d, s), Len(d) <= NAL_BUF_MAX
    PROVE  /\ Parse(d) = ParseStripped(s) /\ NalType(d) = 7
           /\ Parse(d).profile = x.profile
           /\ (x.profile \in HighProfiles => WholeLists(x.lists)) => Parse(d) = SpsRead(x)
<1>1. PICK n \in Nat, m \in Nat : n = Len(d) /\ m = Len(s) /\ n >= 4 /\ m >= 4
                                  /\ n <= NAL_BUF_MAX
  BY DEF SentAs
<1>2. Parse(d) = ParseStripped(s)
  <2>1. ~(n < 4) /\ ~(n > NAL_BUF_MAX) /\ ~(m < 4)
    BY <1>1, CodecAssumption
  <2>2. s = Strip(d)
    BY DEF SentAs
  <2> QED
    BY <1>1, <2>1, <2>2 DEF Parse
<1>3. NalType(d) = 7
  <2>1. d[1] = 103
    BY DEF SentAs
  <2>2. 103 % 32 = 7
    OBVIOUS
  <2> QED
    BY <2>1, <2>2 DEF NalType
<1>4. ParseStripped(s).profile = x.profile
  <2>1. s[2] = x.profile
    BY DEF SentAs
  <2> QED
    BY <2>1 DEF ParseStripped
<1>5. ASSUME x.profile \in HighProfiles => WholeLists(x.lists)
      PROVE  ParseStripped(s) = SpsRead(x)
  <2>1. s \in Seq(Bytes) /\ Has(s, 0, SizeBits(x) \o FrameBits(x))
    BY DEF SentAs
  <2>2. s[2] = x.profile /\ s[3] = x.constraint /\ s[4] = x.level
    BY DEF SentAs
  <2> QED
    BY <1>5, <2>1, <2>2, ParseReads
<1> QED
  BY <1>2, <1>3, <1>4, <1>5

\* Scaling lists that do not end early are whole.
LEMMA ListsWhole ==
    ASSUME NEW x, HighSpsFields(x), ~EndsEarly(x), \A m \in DOMAIN x.lists : ReadWhole(x.lists[m])
    PROVE  WholeLists(x.lists)
<1>1. PICK lists \in Seq(Seq(Increments)) : lists = x.lists
  BY DEF HighSpsFields, Increments
<1>2. PICK n \in Nat : n = Len(lists) /\ DOMAIN lists = 1 .. n
  BY <1>1
<1>3. ASSUME NEW m \in 1 .. n PROVE WholeList(lists[m], m)
  <2>1. PICK l \in Seq(Increments) : l = lists[m]
    BY <1>2
  <2>2. ReadWhole(l) /\ Len(l) <= ListSize(m)
    BY <1>1, <1>2, <2>1 DEF HighSpsFields
  <2>3. l = <<>> \/ ~(Len(l) < ListSize(m))
    BY <1>1, <1>2, <2>1 DEF EndsEarly
  <2>4. ListSize(m) \in Nat /\ Len(l) \in Nat
    BY DEF ListSize
  <2>5. l = <<>> \/ Len(l) = ListSize(m)
    BY <2>2, <2>3, <2>4
  <2> QED
    BY <2>1, <2>2, <2>5 DEF WholeList
<1> QED
  BY <1>1, <1>2, <1>3 DEF WholeLists

-----------------------------------------------------------------------------
\* An SPS, what is read of it and what is written.
SpsIInv ==
    /\ at # "record" /\ sent # NoSps =>
         sent \in Sent /\ nal = Escape(Pack(Encode(sent))) \o sent.junk
    /\ at \in {"parsed", "done"} /\ sent # NoSps => si = Parse(nal)
    /\ at = "done" /\ sent # NoSps => out = IF Rebuilt THEN Build(si) ELSE nal

\* The NAL unit of an SPS is parsed, and so are its fields if no scaling list ends early.
LEMMA SpsParsed ==
    ASSUME SpssRead, SpsIInv, at # "record", sent # NoSps
    PROVE  /\ Readable(sent) /\ Bounded(sent) /\ Len(nal) <= NAL_BUF_MAX
           /\ NalType(nal) = 7 /\ Parse(nal).profile = sent.profile
           /\ (sent.profile \in HighProfiles => ~EndsEarly(sent)) => Parse(nal) = SpsRead(sent)
<1>1. PICK x \in Sent : x = sent /\ nal = Escape(Pack(Encode(x))) \o x.junk
  BY DEF SpsIInv
<1>2. /\ SpsFields(x)
      /\ x.profile \in HighProfiles => HighSpsFields(x)
      /\ Len(Escape(Pack(Encode(x))) \o x.junk) <= NAL_BUF_MAX
      /\ ~EndsEarly(x) => \A m \in DOMAIN x.lists : ReadWhole(x.lists[m])
  BY DEF SpssRead
<1>3. /\ Readable(x) /\ Bounded(x) /\ x.vui \in Seq(Binary) /\ x.junk \in Seq(Bytes)
  BY <1>2, SentFields
<1>4. PICK s : SentAs(x, nal, s)
  BY <1>1, <1>3, SentIs
<1>5. Len(nal) <= NAL_BUF_MAX
  BY <1>1, <1>2
<1>6. /\ NalType(nal) = 7 /\ Parse(nal).profile = x.profile
      /\ (x.profile \in HighProfiles => WholeLists(x.lists)) => Parse(nal) = SpsRead(x)
  BY <1>3, <1>4, <1>5, ParseSent
<1>7. x.profile \in HighProfiles /\ ~EndsEarly(x) => WholeLists(x.lists)
  BY <1>2, ListsWhole
<1> QED
  BY <1>1, <1>3, <1>5, <1>6, <1>7

\* Every step preserves the invariant.
LEMMA SpsIInvNext ==
    ASSUME SpssRead, SpsIInv, [Next]_vars
    PROVE  SpsIInv'
<1>1. CASE Arrive
  BY <1>1 DEF Arrive, SpsIInv
<1>2. CASE ParseSps
  BY <1>2 DEF ParseSps, SpsIInv
<1>3. CASE WriteSps
  BY <1>3 DEF WriteSps, SpsIInv, Rebuilt
<1>4. CASE WritePps
  <2>1. /\ at = "nal" /\ NalType(nal) = 8 /\ UNCHANGED sent
    BY <1>4 DEF WritePps
  <2>2. sent = NoSps
    <3> SUFFICES ASSUME sent # NoSps PROVE FALSE
      OBVIOUS
    <3>1. NalType(nal) = 7
      BY <2>1, SpsParsed
    <3> QED
      BY <2>1, <3>1
  <2> QED
    BY <2>1, <2>2 DEF SpsIInv
<1>5. CASE UNCHANGED vars
  BY <1>5 DEF vars, SpsIInv, Rebuilt
<1> QED
  BY <1>1, <1>2, <1>3, <1>4, <1>5 DEF Next

LEMMA SpsIInvInit == Init => SpsIInv
  BY DEF Init, SpsIInv

\* With it the fields are read as they were sent.
LEMMA SpsIInvRead ==
    ASSUME SpssRead, SpsIInv
    PROVE  ParsedAsSent
<1> SUFFICES ASSUME at \in {"parsed", "done"}, sent # NoSps, sent.w <= 300, sent.h <= 300,
                    ~EndsEarly(sent)
             PROVE  /\ si.profile = sent.profile /\ si.constraint = sent.constraint
                    /\ si.level = sent.level /\ si.sps_id = sent.sps_id
                    /\ si.log2frm = sent.log2frm
                    /\ si.poc_type = IF sent.poc_type = 1 THEN 9 ELSE sent.poc_type
                    /\ sent.poc_type = 0 => si.poc_lsb = sent.poc_lsb
                    /\ si.max_ref = sent.max_ref
                    /\ si.frame.ok /\ si.frame.fmbo = sent.fmbo
                    /\ si.frame.direct8x8 = sent.direct8x8
                    /\ sent.fmbo = 0 => si.frame.mb_adaptive = sent.mb_adaptive
                    /\ si.frame.w = 16 * (sent.w + 1)
                    /\ si.frame.h = 16 * (sent.h + 1) * (2 - sent.fmbo)
                    /\ si.frame.crop = IF sent.crop = <<>> THEN <<0, 0, 0, 0>> ELSE sent.crop
  BY DEF ParsedAsSent
<1>1. si = SpsRead(sent) /\ Readable(sent)
  <2>1. at # "record"
    OBVIOUS
  <2>2. si = Parse(nal)
    BY DEF SpsIInv
  <2> QED
    BY <2>1, <2>2, SpsParsed
<1>2. si.frame = FrameRead(sent)
  <2>1. ~(sent.w > 300 \/ sent.h > 300)
    <3>1. sent.w \in Ues /\ sent.h \in Ues
      BY <1>1 DEF Readable
    <3> QED
      BY <3>1, UesAre
  <2>2. si.frame = IF sent.w > 300 \/ sent.h > 300 THEN NoFrame ELSE FrameRead(sent)
    BY <1>1 DEF SpsRead
  <2> QED
    BY <2>1, <2>2
<1>3. /\ si.profile = sent.profile /\ si.constraint = sent.constraint
      /\ si.level = sent.level /\ si.sps_id = sent.sps_id /\ si.log2frm = sent.log2frm
      /\ si.poc_type = IF sent.poc_type = 1 THEN 9 ELSE sent.poc_type
      /\ sent.poc_type = 0 => si.poc_lsb = sent.poc_lsb
      /\ si.max_ref = sent.max_ref
  BY <1>1 DEF SpsRead
<1>4. PICK f : f = FrameRead(sent)
  OBVIOUS
<1>5. /\ f.ok /\ f.fmbo = sent.fmbo /\ f.direct8x8 = sent.direct8x8
      /\ sent.fmbo = 0 => f.mb_adaptive = sent.mb_adaptive
      /\ f.w = 16 * (sent.w + 1)
      /\ f.h = 16 * (sent.h + 1) * (2 - sent.fmbo)
      /\ f.crop = IF sent.crop = <<>> THEN <<0, 0, 0, 0>> ELSE sent.crop
  <2>1. sent.fmbo = 0 => sent.fmbo # 1
    OBVIOUS
  <2> QED
    BY <1>4, <2>1 DEF FrameRead
<1> QED
  BY <1>2, <1>3, <1>4, <1>5

\* Whatever SPS the app sends, of every profile, with every value that H.264 gives
\* its fields, with scaling lists that end where their entries do, with any VUI and
\* anything glued to it: its fields are read as they were sent, behind the bytes that
\* escape it (parse_sps_full, fshare2fifo.c 322-417).
THEOREM ParsedAsSentTheorem == SpssRead => (Spec => []ParsedAsSent)
<1> SUFFICES ASSUME SpssRead
             PROVE  Spec => []ParsedAsSent
  OBVIOUS
<1>1. Init => SpsIInv
  BY SpsIInvInit
<1>2. SpsIInv /\ [Next]_vars => SpsIInv'
  BY SpsIInvNext
<1>3. SpsIInv => ParsedAsSent
  BY SpsIInvRead
<1> QED
  BY <1>1, <1>2, <1>3, PTL DEF Spec

-----------------------------------------------------------------------------
(* An SPS built anew *)

LEMMA CatType ==
    ASSUME NEW a \in Seq(Binary), NEW b \in Seq(Binary)
    PROVE  a \o b \in Seq(Binary)
BY CatIs

LEMMA CatEmpty ==
    ASSUME NEW a \in Seq(Binary)
    PROVE  a \o <<>> = a
OBVIOUS

\* Concatenation as a symbol of its own.
Cat(a, b) == a \o b

\* It gives bits, however it is grouped.
LEMMA CatLaws ==
    /\ \A a, b \in Seq(Binary) : Cat(a, b) \in Seq(Binary)
    /\ \A a, b, c \in Seq(Binary) : Cat(Cat(a, b), c) = Cat(a, Cat(b, c))
<1>1. ASSUME NEW a \in Seq(Binary), NEW b \in Seq(Binary) PROVE Cat(a, b) \in Seq(Binary)
  BY CatType DEF Cat
<1>2. ASSUME NEW a \in Seq(Binary), NEW b \in Seq(Binary), NEW c \in Seq(Binary)
      PROVE  Cat(Cat(a, b), c) = Cat(a, Cat(b, c))
  BY CatAssoc DEF Cat
<1> QED
  BY <1>1, <1>2

\* The grouping that BuildIs needs.
Regrouped(p, f, g, d, e, c) ==
    p \o f \o g \o (d \o e) \o c = p \o (f \o g \o d \o (e \o c))

LEMMA Regroup ==
    ASSUME NEW p \in Seq(Binary), NEW f \in Seq(Binary), NEW g \in Seq(Binary),
           NEW d \in Seq(Binary), NEW e \in Seq(Binary), NEW c \in Seq(Binary)
    PROVE  Regrouped(p, f, g, d, e, c)
<1>1. /\ Cat(f, g) \in Seq(Binary) /\ Cat(Cat(f, g), d) \in Seq(Binary)
      /\ Cat(d, e) \in Seq(Binary) /\ Cat(e, c) \in Seq(Binary)
  BY CatLaws
<1>2. Cat(Cat(p, f), g) = Cat(p, Cat(f, g))
  BY CatLaws
<1>3. Cat(Cat(p, Cat(f, g)), Cat(d, e)) = Cat(p, Cat(Cat(f, g), Cat(d, e)))
  BY <1>1, CatLaws
<1>4. Cat(Cat(f, g), Cat(d, e)) = Cat(Cat(Cat(f, g), d), e)
  BY <1>1, CatLaws
<1>5. Cat(Cat(Cat(f, g), d), e) \in Seq(Binary)
  BY <1>1, CatLaws
<1>6. Cat(Cat(p, Cat(Cat(Cat(f, g), d), e)), c) = Cat(p, Cat(Cat(Cat(Cat(f, g), d), e), c))
  BY <1>5, CatLaws
<1>7. Cat(Cat(Cat(Cat(f, g), d), e), c) = Cat(Cat(Cat(f, g), d), Cat(e, c))
  BY <1>1, CatLaws
<1>8. Cat(Cat(Cat(Cat(p, f), g), Cat(d, e)), c) = Cat(p, Cat(Cat(Cat(f, g), d), Cat(e, c)))
  BY <1>2, <1>3, <1>4, <1>6, <1>7
<1> QED
  BY <1>8 DEF Cat, Regrouped

LEMMA TwoBits ==
    ASSUME NEW a \in Binary, NEW b \in Binary, NEW x, NEW y, x = <<a>>, y = <<b>>
    PROVE  x \o y = <<a, b>>
<1>1. x \in Seq(Binary) /\ Len(x) = 1 /\ x[1] = a
  OBVIOUS
<1>2. y \in Seq(Binary) /\ Len(y) = 1 /\ y[1] = b
  OBVIOUS
<1>3. PICK z \in Seq(Binary) : z = x \o y /\ Len(z) = 2 /\ z[1] = a /\ z[2] = b
  <2>1. PICK z : z = x \o y
    OBVIOUS
  <2>2. /\ z \in Seq(Binary) /\ Len(z) = Len(x) + Len(y)
        /\ \A i \in 1 .. Len(x) : z[i] = x[i]
        /\ \A i \in 1 .. Len(y) : z[Len(x) + i] = y[i]
    BY <1>1, <1>2, <2>1, CatIs
  <2>3. Len(z) = 2
    BY <1>1, <1>2, <2>2
  <2>4. z[1] = a
    <3>1. 1 \in 1 .. Len(x)
      BY <1>1
    <3>2. z[1] = x[1]
      BY <2>2, <3>1
    <3> QED
      BY <1>1, <3>2
  <2>5. 1 \in 1 .. Len(y) /\ Len(x) + 1 = 2
    BY <1>1, <1>2
  <2>6. z[2] = b
    <3>1. z[Len(x) + 1] = y[1]
      BY <2>2, <2>5
    <3> QED
      BY <1>2, <2>5, <3>1
  <2> QED
    BY <2>1, <2>2, <2>3, <2>4, <2>6
<1>4. z \in [1 .. 2 -> Binary]
  <2>1. z \in [1 .. Len(z) -> Binary]
    OBVIOUS
  <2> QED
    BY <1>3, <2>1
<1>5. z = <<z[1], z[2]>>
  BY <1>4
<1> QED
  BY <1>3, <1>5

\* The bits that are written for x up to its size, and first up to picture order count.
WrittenFirst(x) ==
    Header(x) \o UeBits(x.sps_id) \o UeBits(x.log2frm) \o UeBits(x.poc_type) \o UeBits(x.poc_lsb)
Written(x) == WrittenFirst(x) \o UeBits(x.max_ref) \o <<0>> \o UeBits(x.w) \o UeBits(x.h)

\* They are these parts.
LEMMA WrittenIs ==
    ASSUME NEW x, Readable(x)
    PROVE  /\ Five(WrittenFirst(x), Header(x), UeBits(x.sps_id), UeBits(x.log2frm),
                   UeBits(x.poc_type), UeBits(x.poc_lsb))
           /\ Five(Written(x), WrittenFirst(x), UeBits(x.max_ref), <<0>>, UeBits(x.w),
                   UeBits(x.h))
           /\ Written(x) \in Seq(Binary) /\ FrameBits(x) \in Seq(Binary)
<1>1. Header(x) \in Seq(Binary)
  BY HeaderIs
<1>2. /\ UeBits(x.sps_id) \in Seq(Binary) /\ UeBits(x.log2frm) \in Seq(Binary)
      /\ UeBits(x.max_ref) \in Seq(Binary) /\ UeBits(x.w) \in Seq(Binary)
      /\ UeBits(x.h) \in Seq(Binary)
  BY UesAre, SMTT(40) DEF Readable
<1>3. UeBits(x.poc_type) \in Seq(Binary) /\ UeBits(x.poc_lsb) \in Seq(Binary)
  <2>1. x.poc_type \in Ues /\ x.poc_lsb \in Ues
    BY PocBitsAre DEF Readable
  <2> QED
    BY <2>1, UesAre
<1>4. <<0>> \in Seq(Binary)
  BY Flags
<1>5. Five(WrittenFirst(x), Header(x), UeBits(x.sps_id), UeBits(x.log2frm),
           UeBits(x.poc_type), UeBits(x.poc_lsb))
  BY <1>1, <1>2, <1>3 DEF Five, WrittenFirst
<1>6. WrittenFirst(x) \in Seq(Binary)
  BY <1>5, FiveIs
<1>7. Five(Written(x), WrittenFirst(x), UeBits(x.max_ref), <<0>>, UeBits(x.w), UeBits(x.h))
  BY <1>2, <1>4, <1>6 DEF Five, Written
<1>8. Written(x) \in Seq(Binary)
  BY <1>7, FiveIs
<1>9. FrameBits(x) \in Seq(Binary)
  BY SizeBitsAre
<1> QED
  BY <1>5, <1>7, <1>8, <1>9

\* The size that is written is the one that was read, in macroblocks again.
LEMMA SizesBack ==
    ASSUME NEW x, x.w \in Ues, x.h \in Ues, x.fmbo \in Binary, NEW f, f = FrameRead(x)
    PROVE  /\ f.w \div 16 - 1 = x.w
           /\ (IF f.fmbo = 1 THEN f.h ELSE f.h \div 2) \div 16 - 1 = x.h
<1>1. PICK w \in Nat, h \in Nat : w = x.w /\ h = x.h
  BY UesAre
<1>2. f.w = 16 * (w + 1) /\ f.fmbo = x.fmbo /\ f.h = 16 * (h + 1) * (2 - x.fmbo)
  BY <1>1 DEF FrameRead
<1>3. f.w \div 16 - 1 = w
  <2>1. (16 * (w + 1)) \div 16 = w + 1
    OBVIOUS
  <2> QED
    BY <1>2, <2>1
<1>4. CASE x.fmbo = 1
  <2>1. PICK g : g = f.h
    OBVIOUS
  <2>2. g = 16 * (h + 1)
    BY <1>2, <1>4, <2>1
  <2>3. g \div 16 = h + 1
    BY <2>2
  <2>4. g \div 16 - 1 = h
    BY <2>3
  <2> QED
    BY <1>1, <1>2, <1>3, <1>4, <2>1, <2>4
<1>5. CASE x.fmbo = 0
  <2>1. PICK g : g = f.h
    OBVIOUS
  <2>2. g = 2 * (16 * (h + 1))
    BY <1>2, <1>5, <2>1
  <2>3. PICK k \in Nat : k = 16 * (h + 1)
    OBVIOUS
  <2>4. g \div 2 = k
    BY <2>2, <2>3
  <2>5. k \div 16 = h + 1
    BY <2>3
  <2>6. (g \div 2) \div 16 - 1 = h
    BY <2>4, <2>5
  <2> QED
    BY <1>1, <1>2, <1>3, <1>5, <2>1, <2>6
<1> QED
  BY <1>4, <1>5 DEF Binary

\* The bits that are written for what was read of x.
LEMMA BuildIs ==
    ASSUME NEW x, Readable(x), x.poc_type = 0, x.w <= 300, x.h <= 300
    PROVE  Build(SpsRead(x)) = Pack(Written(x) \o FrameBits(x) \o <<0, 1>>)
<1>1. PICK i : i = SpsRead(x)
  OBVIOUS
<1>2. PICK f : f = FrameRead(x)
  OBVIOUS
<1>3. FrameFields(x) /\ x.w \in Ues /\ x.h \in Ues /\ x.fmbo \in Binary
  BY DEF Readable, FrameFields
<1>4. i.frame = f
  <2>1. ~(x.w > 300 \/ x.h > 300)
    BY <1>3, UesAre
  <2>2. i.frame = IF x.w > 300 \/ x.h > 300 THEN NoFrame ELSE f
    BY <1>1, <1>2 DEF SpsRead
  <2> QED
    BY <2>1, <2>2
<1>5. /\ i.profile = x.profile /\ i.constraint = x.constraint /\ i.level = x.level
      /\ i.sps_id = x.sps_id /\ i.log2frm = x.log2frm /\ i.max_ref = x.max_ref
      /\ i.poc_type = 0 /\ i.poc_lsb = x.poc_lsb
  BY <1>1 DEF SpsRead
<1>6. PICK w, h : w = x.w /\ h = x.h
  OBVIOUS
<1>7. f.w \div 16 - 1 = w /\ (IF f.fmbo = 1 THEN f.h ELSE f.h \div 2) \div 16 - 1 = h
  BY <1>2, <1>3, <1>6, SizesBack
<1>8. PICK fm, fb, dc, cr :
        /\ fm = <<f.fmbo>> /\ fb = (IF f.fmbo = 1 THEN <<>> ELSE <<f.mb_adaptive>>)
        /\ dc = <<f.direct8x8, f.crop_flag>>
        /\ cr = (IF f.crop_flag = 1 THEN CropBits(f.crop) ELSE <<>>)
  OBVIOUS
<1>9. Build(i) = Pack(Written(x) \o fm \o fb \o dc \o cr \o <<0, 1>>)
  BY <1>4, <1>5, <1>6, <1>7, <1>8 DEF Build, Written, WrittenFirst, Header
<1>10. Written(x) \in Seq(Binary)
  BY WrittenIs
<1>11. Written(x) \o fm \o fb \o dc \o cr = Written(x) \o FrameBits(x)
  <2>1. PICK p \in Seq(Binary) : p = Written(x)
    BY <1>10
  <2>2. PICK d8 \in Seq(Binary) : d8 = <<x.direct8x8>>
    BY Single DEF Readable, FrameFields
  <2>3. /\ f.fmbo = x.fmbo /\ f.direct8x8 = x.direct8x8
        /\ f.crop_flag = (IF x.crop = <<>> THEN 0 ELSE 1)
        /\ f.mb_adaptive = (IF x.fmbo = 1 THEN 0 ELSE x.mb_adaptive)
        /\ f.crop = (IF x.crop = <<>> THEN <<0, 0, 0, 0>> ELSE x.crop)
    BY <1>2 DEF FrameRead
  <2>4. fm = <<x.fmbo>> /\ fm \in Seq(Binary)
    BY <1>8, <2>3, Single DEF Readable, FrameFields
  <2>5. fb = FieldBit(x)
    BY <1>8, <2>3 DEF FieldBit
  <2>6. /\ FrameBits(x) = fm \o fb \o d8 \o CropPart(x) /\ fb \in Seq(Binary)
        /\ x.crop # <<>> => CropBits(x.crop) \in Seq(Binary)
    BY <1>3, <2>2, <2>4, <2>5, FrameBitsAre DEF Four
  <2>9. x.direct8x8 \in Binary
    BY DEF Readable, FrameFields
  <2>7. PICK e \in Seq(Binary), c \in Seq(Binary) :
          dc = d8 \o e /\ cr = c /\ CropPart(x) = e \o c
    <3>1. CASE x.crop = <<>>
      <4>1. PICK e \in Seq(Binary), c \in Seq(Binary) : e = <<0>> /\ c = <<>>
        BY Flags
      <4>2. f.crop_flag = 0
        BY <2>3, <3>1
      <4>3. dc = d8 \o e
        <5>1. dc = <<x.direct8x8, 0>>
          BY <1>8, <2>3, <4>2
        <5>2. d8 \o e = <<x.direct8x8, 0>>
          BY <2>2, <2>9, <4>1, Flags, TwoBits
        <5> QED
          BY <5>1, <5>2
      <4>4. cr = c
        BY <1>8, <4>1, <4>2
      <4>5. CropPart(x) = e \o c
        <5>1. CropPart(x) = e
          BY <3>1, <4>1 DEF CropPart
        <5>2. e \o c = e
          BY <4>1, CatEmpty
        <5> QED
          BY <5>1, <5>2
      <4> QED
        BY <4>3, <4>4, <4>5
    <3>2. CASE x.crop # <<>>
      <4>1. PICK e \in Seq(Binary), c \in Seq(Binary) : e = <<1>> /\ c = CropBits(x.crop)
        BY <2>6, <3>2, Flags
      <4>2. f.crop_flag = 1 /\ f.crop = x.crop
        BY <2>3, <3>2
      <4>3. dc = d8 \o e
        <5>1. dc = <<x.direct8x8, 1>>
          BY <1>8, <2>3, <4>2
        <5>2. d8 \o e = <<x.direct8x8, 1>>
          BY <2>2, <2>9, <4>1, Flags, TwoBits
        <5> QED
          BY <5>1, <5>2
      <4>4. cr = c
        BY <1>8, <4>1, <4>2
      <4>5. CropPart(x) = e \o c
        BY <3>2, <4>1 DEF CropPart
      <4> QED
        BY <4>3, <4>4, <4>5
    <3> QED
      BY <3>1, <3>2
  <2>8. p \o fm \o fb \o (d8 \o e) \o c = p \o (fm \o fb \o d8 \o (e \o c))
    <3>1. p \in Seq(Binary) /\ d8 \in Seq(Binary) /\ e \in Seq(Binary) /\ c \in Seq(Binary)
      BY <2>1, <2>2, <2>7
    <3>2. fm \in Seq(Binary) /\ fb \in Seq(Binary)
      BY <2>4, <2>6
    <3>3. Regrouped(p, fm, fb, d8, e, c)
      BY <3>1, <3>2, Regroup
    <3> QED
      BY <3>1, <3>2, <3>3 DEF Regrouped
  <2> QED
    BY <2>1, <2>6, <2>7, <2>8
<1> QED
  BY <1>1, <1>9, <1>11

\* They have no long run of zeros.
LEMMA TakesWritten ==
    ASSUME NEW x, Readable(x), Bounded(x), x.poc_type = 0, NEW z \in Nat, z = 0,
           NEW u \in Nat, u = 10
    PROVE  Takes(Written(x), z, u)
<1>1. PICK t3 \in Nat, t4 \in Nat, t5 \in Nat, t7 \in Nat :
        t3 = 3 /\ t4 = 4 /\ t5 = 5 /\ t7 = 7 /\ t5 = t4 + 1
  OBVIOUS
<1>2. Takes(Header(x), z, t7)
  BY <1>1, TakesHeader
<1>3. Takes(UeBits(x.sps_id), t7, t5)
  <2>1. PICK v \in Ues : v = x.sps_id /\ v <= 31
    BY DEF Readable, Bounded
  <2>2. Takes(UeBits(v), t7, 5)
    BY <1>1, <2>1, TakesSmall
  <2> QED
    BY <1>1, <2>1, <2>2
<1>4. Takes(UeBits(x.log2frm), t5, t3)
  <2>1. PICK v \in Ues : v = x.log2frm /\ v <= 12
    BY DEF Readable, Bounded
  <2>2. Takes(UeBits(v), t5, 3)
    BY <1>1, <2>1, TakesSmall
  <2> QED
    BY <1>1, <2>1, <2>2
<1>5. Takes(UeBits(x.poc_type), t3, z)
  <2>1. PICK v \in Ues : v = x.poc_type /\ v = 0
    BY PocBitsAre DEF Readable
  <2>2. Takes(UeBits(v), t3, 0)
    BY <1>1, <2>1, TakesSmall
  <2> QED
    BY <2>1, <2>2
<1>6. Takes(UeBits(x.poc_lsb), z, t3)
  <2>1. PICK v \in Ues : v = x.poc_lsb /\ v <= 12
    BY PocBitsAre, SMTT(40) DEF Readable, Bounded
  <2>2. Takes(UeBits(v), z, 3)
    BY <2>1, TakesSmall
  <2> QED
    BY <1>1, <2>1, <2>2
<1>7. Takes(UeBits(x.max_ref), t3, t4)
  <2>1. PICK v \in Ues : v = x.max_ref /\ v <= 16
    BY DEF Readable, Bounded
  <2>2. Takes(UeBits(v), t3, 4)
    BY <1>1, <2>1, TakesSmall
  <2> QED
    BY <1>1, <2>1, <2>2
<1>8. Takes(<<0>>, t4, t5)
  BY <1>1, Flags, TakesFlag
<1>9. Takes(UeBits(x.w), t5, u)
  <2>1. PICK v \in Ues : v = x.w
    BY DEF Readable
  <2>2. Takes(UeBits(v), t5, 10)
    BY <1>1, TakesSmall
  <2> QED
    BY <2>1, <2>2
<1>10. Takes(UeBits(x.h), u, u)
  <2>1. PICK v \in Ues : v = x.h
    BY DEF Readable
  <2>2. Takes(UeBits(v), u, 10)
    BY TakesSmall
  <2> QED
    BY <2>1, <2>2
<1>11. Takes(WrittenFirst(x), z, t3)
  <2>1. Five(WrittenFirst(x), Header(x), UeBits(x.sps_id), UeBits(x.log2frm),
             UeBits(x.poc_type), UeBits(x.poc_lsb))
    BY WrittenIs
  <2> QED
    BY <1>2, <1>3, <1>4, <1>5, <1>6, <2>1, TakesFive
<1>12. Five(Written(x), WrittenFirst(x), UeBits(x.max_ref), <<0>>, UeBits(x.w), UeBits(x.h))
  BY WrittenIs
<1> QED
  BY <1>7, <1>8, <1>9, <1>10, <1>11, <1>12, TakesFive

\* The end of what is written: no VUI, and the stop bit.
LEMMA EndIs ==
    /\ <<0, 1>> \in Seq(Binary) /\ Len(<<0, 1>>) = 2
    /\ \A b : b = <<0, 1>> => b[1] = 0 /\ b[2] = 1
  BY DEF Binary

LEMMA TakesEnd ==
    ASSUME NEW t \in Nat, t = 14, NEW u \in Nat, u = 0
    PROVE  Takes(<<0, 1>>, t, u)
<1>0. PICK b \in Seq(Binary) : b = <<0, 1>> /\ Len(b) = 2 /\ b[2] = 1
  BY EndIs
<1>1. PICK w \in 1 .. Len(b) : w = 2 /\ b[w] = 1
  BY <1>0
<1>2. t + w <= 22 /\ Len(b) <= w + u
  BY <1>0, <1>1
<1>3. Takes(b, t, u)
  BY <1>1, <1>2, TakesPart
<1> QED
  BY <1>0, <1>3

\* What is written in place of an SPS needs no escaping.
LEMMA BuildQuiet ==
    ASSUME NEW x, Readable(x), Bounded(x), x.poc_type = 0, x.w <= 300, x.h <= 300,
           NEW d, d = Build(SpsRead(x))
    PROVE  d \in Seq(Bytes) /\ Quiet(d, Len(d))
<1>1. PICK z \in Nat, t10 \in Nat, t14 \in Nat : z = 0 /\ t10 = 10 /\ t14 = 14
  OBVIOUS
<1>2. PICK e \in Seq(Binary) : e = <<0, 1>>
  BY EndIs
<1>3. Takes(Written(x), z, t10)
  BY <1>1, TakesWritten
<1>4. Takes(FrameBits(x), t10, t14)
  BY <1>1, TakesFrame DEF Readable
<1>5. Takes(e, t14, z)
  BY <1>1, <1>2, TakesEnd
<1>6. PICK f : f = Written(x) \o FrameBits(x)
  OBVIOUS
<1>7. Takes(f, z, t14)
  BY <1>3, <1>4, <1>6, TakesCat
<1>8. PICK b : b = f \o e
  OBVIOUS
<1>9. Takes(b, z, z)
  BY <1>5, <1>7, <1>8, TakesCat
<1>10. Ok(b, t14)
  <2>1. Ok(b, z)
    BY <1>9, OkStart
  <2> QED
    BY <1>1, <2>1, OkMore
<1>11. b \in Seq(Binary)
  BY <1>9 DEF Takes
<1>12. d = Pack(b)
  BY <1>2, <1>6, <1>8, BuildIs
<1>13. d \in Seq(Bytes) /\ 8 * Len(d) <= Len(b) + 7
  BY <1>11, <1>12, PackIs
<1>14. Has(d, 0, b)
  BY <1>11, <1>12, PackHas
<1>15. PICK n \in Nat : n = Len(d)
  BY <1>13
<1>16. Quiet(d, n)
  BY <1>1, <1>10, <1>13, <1>14, <1>15, FieldsQuiet
<1> QED
  BY <1>13, <1>15, <1>16

\* An SPS that is built anew is that of the fields that were sent.
LEMMA RebuiltIs ==
    ASSUME SpssRead, SpsIInv, at = "done", sent # NoSps, Rebuilt, si = SpsRead(sent)
    PROVE  sent.poc_type = 0 /\ sent.w <= 300 /\ sent.h <= 300 /\ out = Build(SpsRead(sent))
<1>1. out = Build(SpsRead(sent))
  BY DEF SpsIInv
<1>2. si.frame.ok /\ si.poc_type = 0
  BY DEF Rebuilt
<1>3. sent.poc_type = 0
  BY <1>2 DEF SpsRead
<1>4. ~(sent.w > 300 \/ sent.h > 300)
  <2> SUFFICES ASSUME sent.w > 300 \/ sent.h > 300 PROVE FALSE
    OBVIOUS
  <2>1. si.frame = NoFrame
    BY DEF SpsRead
  <2> QED
    BY <1>2, <2>1 DEF NoFrame
<1>5. sent.w \in Nat /\ sent.h \in Nat
  <2>1. at # "record"
    OBVIOUS
  <2>2. Readable(sent)
    BY <2>1, SpsParsed
  <2>3. sent.w \in Ues /\ sent.h \in Ues
    BY <2>2 DEF Readable
  <2> QED
    BY <2>3, UesAre
<1> QED
  BY <1>1, <1>3, <1>4, <1>5

\* With the invariant nothing written looks like a start code.
LEMMA SpsIInvQuiet ==
    ASSUME SpssRead, SpsIInv, \A x \in Sent : x.profile \in HighProfiles => ~EndsEarly(x)
    PROVE  NoStartCode
<1> SUFFICES ASSUME at = "done", sent # NoSps, Rebuilt
             PROVE  \A i \in 1 .. Len(out) - 2 :
                      ~(out[i] = 0 /\ out[i + 1] = 0 /\ out[i + 2] <= 3)
  BY DEF NoStartCode
<1>1. at # "record"
  OBVIOUS
<1>2. Readable(sent) /\ Bounded(sent) /\ Parse(nal) = SpsRead(sent)
  <2>1. sent \in Sent
    BY <1>1 DEF SpsIInv
  <2> QED
    BY <1>1, <2>1, SpsParsed
<1>3. si = SpsRead(sent)
  BY <1>2 DEF SpsIInv
<1>4. sent.poc_type = 0 /\ sent.w <= 300 /\ sent.h <= 300 /\ out = Build(SpsRead(sent))
  BY <1>3, RebuiltIs
<1>5. out \in Seq(Bytes) /\ Quiet(out, Len(out))
  BY <1>2, <1>4, BuildQuiet
<1>6. ASSUME NEW i \in 1 .. Len(out) - 2
      PROVE  ~(out[i] = 0 /\ out[i + 1] = 0 /\ out[i + 2] <= 3)
  <2>1. PICK k : k = i + 2
    OBVIOUS
  <2>2. k \in 3 .. Len(out) /\ k - 1 = i + 1 /\ k - 2 = i
    BY <1>5, <2>1
  <2> QED
    BY <1>5, <2>1, <2>2 DEF Quiet
<1> QED
  BY <1>6

\* Escaping makes nothing shorter.
LEMMA EscapeLonger ==
    ASSUME NEW d \in Seq(Bytes)
    PROVE  Escape(d) \in Seq(Bytes) /\ Len(d) <= Len(Escape(d))
<1>1. PICK n \in Nat : n = Len(d)
  OBVIOUS
<1>2. PICK f \in [0 .. Len(d) -> Seq(Bytes)] : Escapes(f, d) /\ Escape(d) = f[Len(d)]
  BY EscapeLoop
<1>3. f[0] = <<>>
  BY <1>2 DEF Escapes
<1>4. ASSUME NEW k \in 1 .. n, NEW j \in 0 .. n, j = k - 1
      PROVE  Len(f[j]) + 1 <= Len(f[k])
  <2>1. d[k] \in Bytes /\ f[j] \in Seq(Bytes)
    BY <1>1
  <2>2. f[k] = EscapeByte(f[j], d[k])
    BY <1>1, <1>2, <1>4 DEF Escapes
  <2>3. PICK s \in Seq(Bytes), b \in Bytes : s = f[j] /\ b = d[k]
    BY <2>1
  <2>4. f[k] = IF b <= 3 /\ EndsZeros(s) THEN Append(Append(s, 3), b) ELSE Append(s, b)
    BY <2>2, <2>3, EscapeByteIs
  <2>5. 3 \in Bytes
    BY DEF Bytes
  <2>6. PICK t \in Seq(Bytes) : t = Append(s, 3) /\ Len(t) = Len(s) + 1
    BY <2>5, AppendIs
  <2>7. Len(Append(t, b)) = Len(t) + 1 /\ Len(Append(s, b)) = Len(s) + 1
    BY AppendIs
  <2>8. Len(s) \in Nat
    OBVIOUS
  <2> QED
    BY <2>3, <2>4, <2>6, <2>7, <2>8
<1> DEFINE S == {m \in Nat : m <= n => m <= Len(f[m])}
<1>5. 0 \in S
  BY <1>3
<1>6. ASSUME NEW m \in Nat, m \in S PROVE m + 1 \in S
  <2>1. PICK k : k = m + 1
    OBVIOUS
  <2> SUFFICES ASSUME k <= n PROVE k <= Len(f[k])
    BY <2>1
  <2>2. k \in 1 .. n /\ m \in 0 .. n /\ k \in 0 .. n /\ m = k - 1
    BY <2>1
  <2>3. m <= Len(f[m])
    BY <1>6, <2>2
  <2>4. Len(f[m]) + 1 <= Len(f[k])
    BY <1>4, <2>2
  <2>5. Len(f[m]) \in Nat /\ Len(f[k]) \in Nat
    BY <1>1, <2>2
  <2> QED
    BY <2>1, <2>3, <2>4, <2>5
<1>7. Nat \subseteq S
  <2> HIDE DEF S
  <2> QED
    BY <1>5, <1>6, InductionOn
<1>8. n <= Len(f[n])
  <2>1. n \in S
    <3> HIDE DEF S
    <3> QED
      BY <1>7
  <2> QED
    BY <2>1
<1>9. f[Len(d)] \in Seq(Bytes)
  BY <1>1
<1> QED
  BY <1>1, <1>2, <1>8, <1>9

\* Without the part for the high profiles, with an order count of type 0, an SPS is
\* written as it was sent, but for the gaps.
LEMMA FirstSame ==
    ASSUME NEW x, Readable(x), x.poc_type = 0, x.profile \notin HighProfiles
    PROVE  FirstBits(x) = WrittenFirst(x)
<1>1. HighOrNot(x) = <<>>
  BY DEF HighOrNot
<1>2. PocBits(x) = UeBits(x.poc_type) \o UeBits(x.poc_lsb)
  <2>1. PocFields(x)
    BY DEF Readable
  <2> QED
    BY <2>1, PocBitsAre
<1>3. PICK h \in Seq(Binary), i \in Seq(Binary), r \in Seq(Binary), t \in Seq(Binary),
           l \in Seq(Binary) :
        /\ h = Header(x) /\ i = UeBits(x.sps_id) /\ r = UeBits(x.log2frm)
        /\ t = UeBits(x.poc_type) /\ l = UeBits(x.poc_lsb)
  BY WrittenIs DEF Five
<1>4. Cat(h, i) \in Seq(Binary) /\ Cat(Cat(h, i), r) \in Seq(Binary)
  BY CatLaws
<1>5. Cat(Cat(Cat(h, i), r), Cat(t, l)) = Cat(Cat(Cat(Cat(h, i), r), t), l)
  BY <1>4, CatLaws
<1>6. Cat(Cat(h, i), <<>>) = Cat(h, i)
  BY <1>4, CatEmpty DEF Cat
<1>7. FirstBits(x) = Cat(Cat(Cat(Cat(h, i), <<>>), r), Cat(t, l))
  BY <1>1, <1>2, <1>3 DEF FirstBits, Cat
<1>8. WrittenFirst(x) = Cat(Cat(Cat(Cat(h, i), r), t), l)
  BY <1>3 DEF WrittenFirst, Cat
<1> QED
  BY <1>5, <1>6, <1>7, <1>8

\* What is written, as an SPS that is sent.
Anew(x) ==
    [profile |-> x.profile, constraint |-> x.constraint, level |-> x.level,
     sps_id |-> x.sps_id, chroma |-> 0, lists |-> <<>>, log2frm |-> x.log2frm,
     poc_type |-> x.poc_type, poc_lsb |-> x.poc_lsb, max_ref |-> x.max_ref, gaps |-> 0,
     w |-> x.w, h |-> x.h, fmbo |-> x.fmbo, mb_adaptive |-> x.mb_adaptive,
     direct8x8 |-> x.direct8x8, crop |-> x.crop]

\* Its bits are those that are written.
LEMMA AnewIs ==
    ASSUME NEW x, Readable(x), x.poc_type = 0, x.profile \notin HighProfiles,
           NEW y, y = Anew(x)
    PROVE  /\ Readable(y) /\ y.profile \notin HighProfiles
           /\ SpsRead(y) = SpsRead(x)
           /\ SizeBits(y) = Written(x) /\ FrameBits(y) = FrameBits(x)
           /\ Len(SizeBits(x)) = Len(Written(x))
<1>1. /\ y.profile = x.profile /\ y.constraint = x.constraint /\ y.level = x.level
      /\ y.sps_id = x.sps_id /\ y.log2frm = x.log2frm /\ y.poc_type = x.poc_type
      /\ y.poc_lsb = x.poc_lsb /\ y.max_ref = x.max_ref /\ y.gaps = 0 /\ y.w = x.w /\ y.h = x.h
      /\ y.fmbo = x.fmbo /\ y.mb_adaptive = x.mb_adaptive /\ y.direct8x8 = x.direct8x8
      /\ y.crop = x.crop
  BY DEF Anew
<1>2. y.profile \notin HighProfiles
  BY <1>1
<1>3. Readable(y)
  <2>1. PocFields(y)
    BY <1>1 DEF Readable, PocFields
  <2>2. FrameFields(y)
    BY <1>1 DEF Readable, FrameFields
  <2>3. y.gaps \in Binary
    BY <1>1 DEF Binary
  <2> QED
    BY <1>1, <1>2, <2>1, <2>2, <2>3 DEF Readable
<1>4. SpsRead(y) = SpsRead(x)
  <2>1. FrameRead(y) = FrameRead(x)
    BY <1>1 DEF FrameRead
  <2> QED
    BY <1>1, <2>1 DEF SpsRead
<1>5. FirstBits(y) = WrittenFirst(x)
  <2>1. FirstBits(y) = WrittenFirst(y)
    BY <1>1, <1>2, <1>3, FirstSame
  <2>2. Header(y) = Header(x)
    BY <1>1 DEF Header
  <2>3. WrittenFirst(y) = WrittenFirst(x)
    BY <1>1, <2>2 DEF WrittenFirst
  <2> QED
    BY <2>1, <2>3
<1>6. SizeBits(y) = Written(x)
  <2>1. SizeBits(y) = FirstBits(y) \o UeBits(y.max_ref) \o <<y.gaps>> \o UeBits(y.w) \o UeBits(y.h)
    BY <1>3, SizeBitsAre DEF Five
  <2> QED
    BY <1>1, <1>5, <2>1 DEF Written
<1>7. FrameBits(y) = FrameBits(x)
  BY <1>1 DEF FrameBits
<1>8. Len(SizeBits(x)) = Len(Written(x))
  <2>1. FirstBits(x) = WrittenFirst(x)
    BY FirstSame
  <2>2. Five(SizeBits(x), FirstBits(x), UeBits(x.max_ref), <<x.gaps>>, UeBits(x.w), UeBits(x.h))
    BY SizeBitsAre
  <2>3. Five(Written(x), WrittenFirst(x), UeBits(x.max_ref), <<0>>, UeBits(x.w), UeBits(x.h))
    BY WrittenIs
  <2>4. PICK s, v, a, b, c, z, d, e :
          /\ s = SizeBits(x) /\ v = Written(x) /\ a = FirstBits(x) /\ b = UeBits(x.max_ref)
          /\ c = <<x.gaps>> /\ z = <<0>> /\ d = UeBits(x.w) /\ e = UeBits(x.h)
    OBVIOUS
  <2>5. Five(s, a, b, c, d, e) /\ Five(v, a, b, z, d, e)
    BY <2>1, <2>2, <2>3, <2>4
  <2>6. Len(s) = Len(a) + Len(b) + Len(c) + Len(d) + Len(e)
    BY <2>5, FiveIs
  <2>7. Len(v) = Len(a) + Len(b) + Len(z) + Len(d) + Len(e)
    BY <2>5, FiveIs
  <2>8. Len(c) = Len(z)
    BY <2>4
  <2> QED
    BY <2>4, <2>6, <2>7, <2>8
<1> QED
  BY <1>2, <1>3, <1>4, <1>6, <1>7, <1>8

\* What is written is no longer than what was sent.
LEMMA BuildFits ==
    ASSUME NEW x, Readable(x), x.poc_type = 0, x.profile \notin HighProfiles,
           x.vui \in Seq(Binary), Len(x.vui) >= 2, x.junk \in Seq(Bytes),
           NEW b \in Seq(Binary), Len(b) = Len(Written(x)) + Len(FrameBits(x)) + 2
    PROVE  Len(Pack(b)) <= Len(Escape(Pack(Encode(x))) \o x.junk)
<1>1. PICK s \in Seq(Binary), f \in Seq(Binary), v \in Seq(Binary) :
        s = SizeBits(x) /\ f = FrameBits(x) /\ v = x.vui
  BY SizeBitsAre
<1>2. PICK sf : sf = s \o f /\ sf \in Seq(Binary) /\ Len(sf) = Len(s) + Len(f)
  <2>1. PICK sf : sf = s \o f
    OBVIOUS
  <2>2. sf \in Seq(Binary) /\ Len(sf) = Len(s) + Len(f)
    BY <2>1, CatIs
  <2> QED
    BY <2>1, <2>2
<1>3. PICK e : e = sf \o v /\ e \in Seq(Binary) /\ Len(e) = Len(sf) + Len(v)
  <2>1. PICK e : e = sf \o v
    OBVIOUS
  <2>2. e \in Seq(Binary) /\ Len(e) = Len(sf) + Len(v)
    BY <1>2, <2>1, CatIs
  <2> QED
    BY <2>1, <2>2
<1>4. e = Encode(x)
  BY <1>1, <1>2, <1>3 DEF Encode
<1>5. Len(s) = Len(Written(x))
  <2>1. PICK y : y = Anew(x)
    OBVIOUS
  <2> QED
    BY <1>1, <2>1, AnewIs
<1>6. Len(b) <= Len(e)
  <2>1. Len(s) \in Nat /\ Len(f) \in Nat /\ Len(v) \in Nat /\ Len(v) >= 2
    BY <1>1
  <2> QED
    BY <1>1, <1>2, <1>3, <1>5, <2>1
<1>7. PICK p \in Seq(Bytes) : p = Pack(e) /\ Len(e) <= 8 * Len(p)
  BY <1>3, PackIs
<1>8. PICK q \in Seq(Bytes) : q = Pack(b) /\ 8 * Len(q) <= Len(b) + 7
  BY PackIs
<1>9. Len(q) <= Len(p)
  <2>1. Len(q) \in Nat /\ Len(p) \in Nat /\ Len(b) \in Nat /\ Len(e) \in Nat
    BY <1>3
  <2> QED
    BY <1>6, <1>7, <1>8, <2>1
<1>10. PICK r \in Seq(Bytes) : r = Escape(p) /\ Len(p) <= Len(r)
  BY EscapeLonger
<1>11. PICK j, t : j = x.junk /\ t = r \o j
  OBVIOUS
<1>12. j \in Seq(Bytes) /\ Len(t) = Len(r) + Len(j)
  BY <1>11, CatIs
<1>13. Len(q) <= Len(t)
  <2>1. Len(q) \in Nat /\ Len(p) \in Nat /\ Len(r) \in Nat /\ Len(j) \in Nat
    BY <1>12, SMTT(40)
  <2> QED
    BY <1>9, <1>10, <1>12, <2>1
<1> QED
  BY <1>4, <1>7, <1>8, <1>10, <1>11, <1>13

\* What is written is read as what was sent.
LEMMA BuildReads ==
    ASSUME NEW x, Readable(x), Bounded(x), x.poc_type = 0, x.w <= 300, x.h <= 300,
           x.profile \notin HighProfiles,
           x.vui \in Seq(Binary), Len(x.vui) >= 2, x.junk \in Seq(Bytes),
           Len(Escape(Pack(Encode(x))) \o x.junk) <= NAL_BUF_MAX,
           NEW d, d = Build(SpsRead(x))
    PROVE  Parse(d) = SpsRead(x)
<1>1. PICK y : y = Anew(x)
  OBVIOUS
<1>2. /\ Readable(y) /\ y.profile \notin HighProfiles /\ SpsRead(y) = SpsRead(x)
      /\ SizeBits(y) = Written(x) /\ FrameBits(y) = FrameBits(x)
  BY <1>1, AnewIs
<1>3. PICK e \in Seq(Binary) : e = <<0, 1>> /\ Len(e) = 2
  BY EndIs
<1>4. PICK f : /\ f = Written(x) \o FrameBits(x) /\ f \in Seq(Binary)
               /\ Len(f) = Len(Written(x)) + Len(FrameBits(x))
  <2>1. PICK w, g, f : w = Written(x) /\ g = FrameBits(x) /\ f = w \o g
    OBVIOUS
  <2>2. w \in Seq(Binary) /\ g \in Seq(Binary)
    BY <2>1, WrittenIs
  <2>3. f \in Seq(Binary) /\ Len(f) = Len(w) + Len(g)
    BY <2>1, <2>2, CatIs
  <2> QED
    BY <2>1, <2>3
<1>5. PICK b : b = f \o e /\ b \in Seq(Binary) /\ Len(b) = Len(f) + Len(e)
  <2>1. PICK b : b = f \o e
    OBVIOUS
  <2>2. b \in Seq(Binary) /\ Len(b) = Len(f) + Len(e)
    BY <1>4, <2>1, CatIs
  <2> QED
    BY <2>1, <2>2
<1>6. d = Pack(b)
  BY <1>3, <1>4, <1>5, BuildIs
<1>7. d \in Seq(Bytes) /\ Quiet(d, Len(d))
  BY BuildQuiet
<1>8. Has(d, 0, f)
  <2>1. PICK z \in Nat : z = 0
    OBVIOUS
  <2>2. Has(d, z, f \o e)
    BY <1>5, <1>6, <2>1, PackHas
  <2>3. e \in Seq(Binary) /\ f \in Seq(Binary) /\ d \in Seq(Bytes)
    BY <1>3, <1>4, <1>7
  <2>4. Has(d, z, f)
    BY <2>2, <2>3, HasCat
  <2> QED
    BY <2>1, <2>4
<1>9. Strip(d) = d
  <2>1. Plain(d, Len(d))
    BY <1>7 DEF Quiet, Plain
  <2> QED
    BY <1>7, <2>1, StripPlain
<1>10. Has(d, 0, SizeBits(y) \o FrameBits(y))
  BY <1>2, <1>4, <1>8
<1>11. /\ d[1] = 103 /\ d[2] = y.profile /\ d[3] = y.constraint /\ d[4] = y.level
       /\ Len(d) >= 4
  BY <1>2, <1>7, <1>10, HeaderReads
<1>12. SentAs(y, d, d)
  BY <1>7, <1>9, <1>10, <1>11 DEF SentAs
<1>13. Len(d) <= NAL_BUF_MAX
  <2>1. Len(b) = Len(Written(x)) + Len(FrameBits(x)) + 2
    BY <1>3, <1>4, <1>5
  <2>2. PICK t : t = Escape(Pack(Encode(x))) \o x.junk /\ Len(t) <= NAL_BUF_MAX
    OBVIOUS
  <2>3. Len(d) <= Len(t)
    BY <1>5, <1>6, <2>1, <2>2, BuildFits
  <2>4. Len(d) \in Nat /\ NAL_BUF_MAX \in Nat
    BY <1>7, CodecAssumption
  <2>5. Len(t) \in Nat
    <3>1. Escape(Pack(Encode(x))) \in Seq(Bytes)
      <4>1. PICK s \in Seq(Binary), g \in Seq(Binary), v \in Seq(Binary) :
              s = SizeBits(x) /\ g = FrameBits(x) /\ v = x.vui
        BY SizeBitsAre
      <4>2. (s \o g) \o v \in Seq(Binary)
        BY CatType
      <4>3. Encode(x) \in Seq(Binary)
        BY <4>1, <4>2 DEF Encode
      <4>4. Pack(Encode(x)) \in Seq(Bytes)
        BY <4>3, PackIs
      <4> QED
        BY <4>4, EscapeLonger
    <3>2. PICK r \in Seq(Bytes), j \in Seq(Bytes) : r = Escape(Pack(Encode(x))) /\ j = x.junk
      BY <3>1
    <3>3. t \in Seq(Bytes)
      BY <2>2, <3>2, CatIs
    <3> QED
      BY <3>3
  <2> QED
    BY <2>2, <2>3, <2>4, <2>5
<1>14. Parse(d) = SpsRead(y)
  BY <1>2, <1>12, <1>13, ParseSent
<1> QED
  BY <1>2, <1>14

\* After the fields come a 0, a 1 and the zeros of the last byte.
Stops(d) ==
    \E k \in 0 .. 7 : LET end == 8 * Len(d) - k IN
      /\ \A p \in end .. 8 * Len(d) - 1 : Bit(d, p) = 0
      /\ Bit(d, end - 1) = 1 /\ Bit(d, end - 2) = 0

\* What is written stops.
LEMMA StopBit ==
    ASSUME NEW f \in Seq(Binary), NEW e, e = <<0, 1>>, NEW b, b = f \o e,
           NEW d, d = Pack(b)
    PROVE  Stops(d)
<1>1. e \in Seq(Binary) /\ Len(e) = 2 /\ e[1] = 0 /\ e[2] = 1
  BY EndIs
<1>2. /\ b \in Seq(Binary) /\ Len(b) = Len(f) + 2
      /\ \A i \in 1 .. Len(e) : b[Len(f) + i] = e[i]
  BY <1>1, CatIs
<1>3. PICK n \in Nat, m \in Nat : n = Len(b) /\ m = Len(f) /\ n = m + 2
  BY <1>2
<1>4. b[m + 1] = 0 /\ b[m + 2] = 1
  <2>1. 1 \in 1 .. Len(e) /\ 2 \in 1 .. Len(e)
    BY <1>1
  <2>2. b[m + 1] = e[1] /\ b[m + 2] = e[2]
    BY <1>2, <1>3, <2>1
  <2> QED
    BY <1>1, <2>2
<1>5. d \in Seq(Bytes) /\ n <= 8 * Len(d) /\ 8 * Len(d) <= n + 7
  BY <1>2, <1>3, PackIs
<1>6. PICK l \in Nat : l = Len(d)
  BY <1>5
<1>7. ASSUME NEW p \in Nat, p < 8 * l
      PROVE  Bit(d, p) = IF p + 1 <= n THEN b[p + 1] ELSE 0
  BY <1>2, <1>3, <1>6, <1>7, PackedBit
<1>8. PICK k \in 0 .. 7 : 8 * l - k = n
  <2>1. n <= 8 * l /\ 8 * l <= n + 7
    BY <1>5, <1>6
  <2>2. PICK j \in Int : j = 8 * l
    OBVIOUS
  <2>3. j - n \in 0 .. 7 /\ j - (j - n) = n
    BY <2>1, <2>2
  <2> QED
    BY <2>2, <2>3
<1>9. ASSUME NEW p \in n .. 8 * l - 1 PROVE Bit(d, p) = 0
  <2>1. p \in Nat /\ p < 8 * l /\ ~(p + 1 <= n)
    OBVIOUS
  <2> QED
    BY <1>7, <2>1
<1>10. Bit(d, n - 1) = 1
  <2>1. PICK p \in Nat : p = n - 1 /\ p < 8 * l /\ p + 1 <= n /\ p + 1 = m + 2
    <3>1. n - 1 \in Nat /\ n - 1 < 8 * l /\ n - 1 + 1 <= n /\ n - 1 + 1 = m + 2
      BY <1>3, <1>5, <1>6
    <3> QED
      BY <3>1
  <2> QED
    BY <1>4, <1>7, <2>1
<1>11. Bit(d, n - 2) = 0
  <2>1. PICK p \in Nat : p = n - 2 /\ p < 8 * l /\ p + 1 <= n /\ p + 1 = m + 1
    <3>1. n - 2 \in Nat /\ n - 2 < 8 * l /\ n - 2 + 1 <= n /\ n - 2 + 1 = m + 1
      BY <1>3, <1>5, <1>6
    <3> QED
      BY <3>1
  <2> QED
    BY <1>4, <1>7, <2>1
<1>12. PICK end : end = 8 * l - k
  OBVIOUS
<1>13. end = n
  BY <1>8, <1>12
<1>14. /\ \A p \in 8 * Len(d) - k .. 8 * Len(d) - 1 : Bit(d, p) = 0
       /\ Bit(d, 8 * Len(d) - k - 1) = 1 /\ Bit(d, 8 * Len(d) - k - 2) = 0
  BY <1>6, <1>8, <1>9, <1>10, <1>11
<1> QED
  BY <1>14 DEF Stops

\* With the invariant what is written is read as what was sent.
LEMMA SpsIInvSame ==
    ASSUME SpssRead, SpsIInv
    PROVE  RebuiltReadsSame
<1> SUFFICES ASSUME at = "done", sent # NoSps, Rebuilt, si.profile \notin HighProfiles
             PROVE  Parse(out) = si /\ Stops(out)
  BY DEF RebuiltReadsSame, Stops
<1>1. at # "record"
  OBVIOUS
<1>2. si = Parse(nal)
  BY DEF SpsIInv
<1>3. sent.profile \notin HighProfiles
  <2>1. Parse(nal).profile = sent.profile
    BY <1>1, SpsParsed
  <2> QED
    BY <1>2, <2>1
<1>4. Readable(sent) /\ Bounded(sent) /\ Parse(nal) = SpsRead(sent)
  BY <1>1, <1>3, SpsParsed
<1>5. si = SpsRead(sent)
  BY <1>2, <1>4
<1>6. sent.poc_type = 0 /\ sent.w <= 300 /\ sent.h <= 300 /\ out = Build(SpsRead(sent))
  BY <1>5, RebuiltIs
<1>7. PICK x \in Sent : x = sent
  BY <1>1 DEF SpsIInv
<1>8. /\ SpsFields(x) /\ Len(Escape(Pack(Encode(x))) \o x.junk) <= NAL_BUF_MAX
      /\ x.profile \in HighProfiles => HighSpsFields(x)
  BY DEF SpssRead
<1>9. x.vui \in Seq(Binary) /\ Len(x.vui) >= 2 /\ x.junk \in Seq(Bytes)
  BY <1>8, SentFields
<1>10. Parse(out) = si
  BY <1>3, <1>4, <1>5, <1>6, <1>7, <1>8, <1>9, BuildReads
<1>11. PICK f, e, b : f = Written(sent) \o FrameBits(sent) /\ e = <<0, 1>> /\ b = f \o e
  OBVIOUS
<1>12. f \in Seq(Binary)
  BY <1>4, <1>11, WrittenIs, CatType
<1>13. out = Pack(b)
  BY <1>4, <1>6, <1>11, BuildIs
<1> QED
  BY <1>10, <1>11, <1>12, <1>13, StopBit

\* Whatever SPS the app sends that is no high profile's: what a decoder reads from the
\* one that is built anew is what was read of the one sent, and behind it no VUI, the
\* stop bit and fewer than eight zeros (build_sps, fshare2fifo.c 446-479).
THEOREM RebuiltReadsSameTheorem == SpssRead => (Spec => []RebuiltReadsSame)
<1> SUFFICES ASSUME SpssRead
             PROVE  Spec => []RebuiltReadsSame
  OBVIOUS
<1>1. Init => SpsIInv
  BY SpsIInvInit
<1>2. SpsIInv /\ [Next]_vars => SpsIInv'
  BY SpsIInvNext
<1>3. SpsIInv => RebuiltReadsSame
  BY SpsIInvSame
<1> QED
  BY <1>1, <1>2, <1>3, PTL DEF Spec

\* In no SPS that is built anew three bytes look like a start code or its escape,
\* although nothing escapes them: no 22 zeros follow each other among its bits.  Of
\* the high profiles this is said of those that send no scaling list that ends early,
\* which is misread (build_sps, fshare2fifo.c 446-479).
THEOREM NoStartCodeTheorem ==
    (SpssRead /\ \A x \in Sent : x.profile \in HighProfiles => ~EndsEarly(x))
      => (Spec => []NoStartCode)
<1> SUFFICES ASSUME SpssRead, \A x \in Sent : x.profile \in HighProfiles => ~EndsEarly(x)
             PROVE  Spec => []NoStartCode
  OBVIOUS
<1>1. Init => SpsIInv
  BY SpsIInvInit
<1>2. SpsIInv /\ [Next]_vars => SpsIInv'
  BY SpsIInvNext
<1>3. SpsIInv => NoStartCode
  BY SpsIInvQuiet
<1> QED
  BY <1>1, <1>2, <1>3, PTL DEF Spec

-----------------------------------------------------------------------------
(* PPS *)
\* A set of numbers up to n has a greatest one: there is no least bound that
\* is not in it.
LEMMA Greatest ==
    ASSUME NEW n \in Nat, NEW S \in SUBSET (0 .. n), 0 \in S
    PROVE  Max(S) \in S /\ \A i \in S : i <= Max(S)
<1> DEFINE Bounds == {m \in Nat : \A i \in S : i <= m}
<1>1. PICK m \in Bounds : \A k \in Bounds : ~(k < m)
  <2>1. IsWellFoundedOn(OpToRel(<, Nat), Nat)
    BY NatLessThanWellFounded
  <2>2. Bounds \subseteq Nat /\ n \in Bounds
    OBVIOUS
  <2> HIDE DEF Bounds
  <2>3. PICK m \in Bounds : \A k \in Bounds : ~(<<k, m>> \in OpToRel(<, Nat))
    BY <2>1, <2>2, WFMin
  <2> QED
    BY <2>2, <2>3 DEF OpToRel
<1>2. m \in Nat /\ \A i \in S : i \in Nat /\ i <= m
  BY <1>1
<1>3. m \in S
  <2> SUFFICES ASSUME m \notin S PROVE FALSE
    OBVIOUS
  <2>1. m # 0 /\ m - 1 \in Nat /\ m - 1 < m
    BY <1>2
  <2>2. ASSUME NEW i \in S PROVE i <= m - 1
    BY <1>2, <2>1
  <2>3. m - 1 \in Bounds
    BY <2>1, <2>2
  <2> QED
    BY <1>1, <2>1, <2>3
<1>4. \A y \in S : m >= y
  BY <1>2
<1>5. Max(S) \in S /\ \A y \in S : Max(S) >= y
  <2>1. \E x \in S : \A y \in S : x >= y
    BY <1>3, <1>4
  <2> QED
    BY <2>1 DEF Max
<1> QED
  BY <1>2, <1>5

\* The first n entries.
LEMMA FrontOf ==
    ASSUME NEW S, NEW d \in Seq(S), NEW n \in Nat, n <= Len(d)
    PROVE  /\ SubSeq(d, 1, n) \in Seq(S) /\ Len(SubSeq(d, 1, n)) = n
           /\ \A i \in 1 .. n : SubSeq(d, 1, n)[i] = d[i]
<1>1. \A i \in 1 .. n : d[i] \in S
  OBVIOUS
<1>2. /\ SubSeq(d, 1, n) \in Seq(S)
      /\ Len(SubSeq(d, 1, n)) = IF 1 <= n THEN n - 1 + 1 ELSE 0
      /\ \A i \in 1 .. n - 1 + 1 : SubSeq(d, 1, n)[i] = d[1 + i - 1]
  BY <1>1, SubSeqProperties
<1> QED
  BY <1>2

\* PpsBody takes the zeros behind the last other byte, and nothing else.
LEMMA BodyEnds ==
    ASSUME NEW d \in Seq(0 .. 255), NEW b, b = PpsBody(d)
    PROVE  /\ b \in Seq(0 .. 255) /\ IsPrefix(b, d) /\ Len(b) <= Len(d)
           /\ Len(b) # 0 => b[Len(b)] = d[Len(b)] /\ d[Len(b)] # 0
           /\ \A i \in Len(b) + 1 .. Len(d) : d[i] = 0
<1>1. PICK l \in Nat : l = Len(d)
  OBVIOUS
<1>2. PICK S : S = {0} \union {i \in DOMAIN d : d[i] # 0}
  OBVIOUS
<1>3. DOMAIN d = 1 .. l
  BY <1>1
<1>4. /\ S \in SUBSET (0 .. l) /\ 0 \in S
      /\ \A i \in S : i # 0 => i \in 1 .. l /\ d[i] # 0
      /\ \A i \in 1 .. l : d[i] # 0 => i \in S
  BY <1>2, <1>3
<1>5. PICK n : n = Max(S)
  OBVIOUS
<1>6. n \in S /\ \A i \in S : i <= n
  BY <1>4, <1>5, Greatest
<1>7. n \in Nat /\ n <= l
  BY <1>4, <1>6
<1>8. b = SubSeq(d, 1, n)
  BY <1>2, <1>5 DEF PpsBody
<1>9. b \in Seq(0 .. 255) /\ Len(b) = n /\ \A i \in 1 .. n : b[i] = d[i]
  <2>1. PICK T : T = 0 .. 255
    OBVIOUS
  <2>2. d \in Seq(T) /\ n \in Nat /\ n <= Len(d)
    BY <1>1, <1>7, <2>1
  <2>3. /\ SubSeq(d, 1, n) \in Seq(T) /\ Len(SubSeq(d, 1, n)) = n
        /\ \A i \in 1 .. n : SubSeq(d, 1, n)[i] = d[i]
    BY <2>2, FrontOf, Zenon
  <2> QED
    BY <1>8, <2>1, <2>3
<1>10. IsPrefix(b, d)
  <2>1. SubSeq(b, 1, n) = SubSeq(d, 1, n)
    <3>1. SubSeq(b, 1, n) = b
      BY <1>9
    <3> QED
      BY <1>8, <3>1
  <2> QED
    BY <1>1, <1>7, <1>9, <2>1 DEF IsPrefix
<1>11. n # 0 => b[n] = d[n] /\ d[n] # 0
  <2> SUFFICES ASSUME n # 0 PROVE b[n] = d[n] /\ d[n] # 0
    OBVIOUS
  <2>1. n \in 1 .. n
    BY <1>7
  <2> QED
    BY <1>4, <1>6, <1>9, <2>1
<1>12. ASSUME NEW i \in n + 1 .. l PROVE d[i] = 0
  <2>1. i \in 1 .. l /\ ~(i <= n)
    BY <1>7
  <2> QED
    BY <1>4, <1>6, <2>1
<1> QED
  BY <1>1, <1>7, <1>9, <1>10, <1>11, <1>12
-----------------------------------------------------------------------------
\* A PPS and what is written of it.
PpsIInv ==
    /\ at # "record" /\ sent = NoSps => nal \in Ppss
    /\ at = "parsed" => NalType(nal) = 7
    /\ at = "done" /\ sent = NoSps =>
         out = IF PpsRefused(PpsBody(nal)) THEN <<>> ELSE PpsBody(nal)

LEMMA PpsIInvNext ==
    ASSUME PpssRead, PpsIInv, [Next]_vars
    PROVE  PpsIInv'
<1>1. CASE Arrive
  BY <1>1 DEF Arrive, PpsIInv, PpssRead
<1>2. CASE ParseSps
  BY <1>2 DEF ParseSps, PpsIInv
<1>3. CASE WriteSps
  <2>1. /\ at = "parsed" /\ at' = "done" /\ UNCHANGED <<sent, nal>>
        /\ NalType(nal) = 7
    BY <1>3 DEF WriteSps, PpsIInv
  <2>2. sent # NoSps
    BY <2>1 DEF PpsIInv, PpssRead
  <2> QED
    BY <2>1, <2>2 DEF PpsIInv
<1>4. CASE WritePps
  BY <1>4 DEF WritePps, PpsIInv
<1>5. CASE UNCHANGED vars
  BY <1>5 DEF vars, PpsIInv
<1> QED
  BY <1>1, <1>2, <1>3, <1>4, <1>5 DEF Next

LEMMA PpsIInvTrims ==
    ASSUME PpssRead, PpsIInv
    PROVE  PpsTrimmed
<1> SUFFICES ASSUME at = "done", sent = NoSps
             PROVE  /\ (\E i \in 2 .. Len(nal) : nal[i] # 0) <=> out # <<>>
                    /\ out # <<>> =>
                         /\ Last(out) # 0 /\ IsPrefix(out, nal)
                         /\ \A i \in Len(out) + 1 .. Len(nal) : nal[i] = 0
  BY DEF PpsTrimmed
<1>1. PICK b : b = PpsBody(nal)
  OBVIOUS
<1>2. /\ nal \in Seq(0 .. 255) /\ nal # <<>> /\ NalType(nal) = 8
      /\ out = IF PpsRefused(b) THEN <<>> ELSE b
  BY <1>1 DEF PpsIInv, PpssRead
<1>3. /\ b \in Seq(0 .. 255) /\ IsPrefix(b, nal) /\ Len(b) <= Len(nal)
      /\ Len(b) # 0 => b[Len(b)] = nal[Len(b)] /\ nal[Len(b)] # 0
      /\ \A i \in Len(b) + 1 .. Len(nal) : nal[i] = 0
  BY <1>1, <1>2, BodyEnds
<1>4. PICK n \in Nat, l \in Nat : n = Len(b) /\ l = Len(nal)
  BY <1>2, <1>3
<1>5. PpsRefused(b) <=> n < 2
  <2>1. LET x == ReadUe(b, 0)
        IN  Len(b) >= 2 => x.v # 65535 /\ ReadUe(b, x.pos).v # 65535
    BY <1>1 DEF PpsIInv, PpssRead
  <2>2. Len(b) < 2 <=> ~(Len(b) >= 2)
    BY <1>4
  <2>3. PpsRefused(b) <=> Len(b) < 2
    BY <2>1, <2>2 DEF PpsRefused
  <2> QED
    BY <1>4, <2>3
<1>6. out # <<>> <=> n >= 2
  <2>1. n >= 2 => b # <<>>
    BY <1>4
  <2>2. n >= 2 <=> ~(n < 2)
    OBVIOUS
  <2> QED
    BY <1>2, <1>5, <2>1, <2>2
<1>7. n >= 2 => \E i \in 2 .. l : nal[i] # 0
  <2> SUFFICES ASSUME n >= 2 PROVE nal[n] # 0 /\ n \in 2 .. l
    OBVIOUS
  <2>1. n <= l /\ n # 0
    BY <1>3, <1>4
  <2> QED
    BY <1>3, <1>4, <2>1
<1>8. ASSUME NEW i \in 2 .. l, nal[i] # 0 PROVE n >= 2
  <2>1. i \in n + 1 .. l => nal[i] = 0
    BY <1>3, <1>4
  <2> QED
    BY <1>8, <2>1
<1>9. out # <<>> => out = b /\ n # 0
  BY <1>2, <1>6
<1>10. out # <<>> => Last(out) # 0
  BY <1>3, <1>4, <1>9 DEF Last
<1> QED
  BY <1>3, <1>4, <1>6, <1>7, <1>8, <1>9, <1>10

\* Whatever PPS the app sends, of whatever length and with whatever zeros
\* behind it: what is written is the PPS up to its last byte that is not 0, and
\* it is dropped only if nothing but zeros follows its NAL header
\* (emit_record, fshare2fifo.c 616-645).
THEOREM PpsTrimmedTheorem == PpssRead => (Spec => []PpsTrimmed)
<1> SUFFICES ASSUME PpssRead
             PROVE  Spec => []PpsTrimmed
  OBVIOUS
<1>1. Init => PpsIInv
  BY DEF Init, PpsIInv
<1>2. PpsIInv /\ [Next]_vars => PpsIInv'
  BY PpsIInvNext
<1>3. PpsIInv => PpsTrimmed
  BY PpsIInvTrims
<1> QED
  BY <1>1, <1>2, <1>3, PTL DEF Spec
=============================================================================
