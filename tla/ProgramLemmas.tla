---------------------------- MODULE ProgramLemmas ----------------------------
(***************************************************************************)
(* Lemmas about sequences, with induction over the naturals for a set of   *)
(* them, and about the builder and programs, for every operation table     *)
(* that satisfies IRAssumption: what an append makes of a builder, that it *)
(* never panics, and that the lookup keeps the same books.                 *)
(***************************************************************************)
EXTENDS Programs, Integers, SequenceTheorems, FiniteSetTheorems, FunctionTheorems,
        WellFoundedInduction, TLAPS

(* Induction, for a set of numbers: without an operator as its parameter.  *)
LEMMA Induction ==
  ASSUME NEW T \in SUBSET Nat, 0 \in T, \A n \in Nat : n \in T => n + 1 \in T
  PROVE  T = Nat
<1>1. SUFFICES ASSUME T # Nat PROVE FALSE
  OBVIOUS
<1> DEFINE U == Nat \ T
<1>2. U \subseteq Nat /\ U # {}
  BY <1>1
<1>3. PICK x \in U : \A y \in U : ~ (<<y, x>> \in OpToRel(<, Nat))
  <2> HIDE DEF U
  <2> QED BY <1>2, NatLessThanWellFounded, WFMin
<1>4. \A y \in U : ~ (y < x)
  BY <1>2, <1>3 DEF OpToRel
<1>5. x # 0 /\ x \in Nat
  BY <1>3
<1>6. x - 1 \in Nat /\ x - 1 < x
  BY <1>5
<1>7. x - 1 \in T
  BY <1>4, <1>6
<1>8. (x - 1) + 1 = x
  BY <1>5
<1>9. QED
  BY <1>3, <1>6, <1>7, <1>8

(* A function over the naturals that is defined by primitive recursion.    *)
Recurs(S, a, step) ==
  \E f \in [Nat -> S] : f[0] = a /\ \A n \in Nat : f[n + 1] = step[<<n, f[n]>>]

(* It exists for every first value and every step.                         *)
LEMMA Recursion ==
  ASSUME NEW S, NEW a \in S, NEW step \in [Nat \X S -> S]
  PROVE  Recurs(S, a, step)
<1> DEFINE Rec(g, m) == g[0] = a /\ \A n \in Nat : n < m => g[n + 1] = step[<<n, g[n]>>]
           T == { m \in Nat : \E g \in [Nat -> S] : Rec(g, m) }
<1>1. 0 \in T
  <2>1. [n \in Nat |-> a] \in [Nat -> S] /\ Rec([n \in Nat |-> a], 0)
    OBVIOUS
  <2>2. QED
    BY <2>1
<1>2. \A m \in Nat : m \in T => m + 1 \in T
  <2>1. SUFFICES ASSUME NEW m \in Nat, m \in T PROVE m + 1 \in T
    OBVIOUS
  <2>2. PICK g \in [Nat -> S] : Rec(g, m)
    BY <2>1
  <2> DEFINE h == [n \in Nat |-> IF n = m + 1 THEN step[<<m, g[m]>>] ELSE g[n]]
  <2>3. h \in [Nat -> S]
    OBVIOUS
  <2>4. h[0] = a
    BY <2>2
  <2>5. ASSUME NEW n \in Nat, n < m + 1 PROVE h[n + 1] = step[<<n, h[n]>>]
    <3>1. CASE n = m
      BY <3>1
    <3>2. CASE n # m
      <4>1. n < m /\ n # m + 1 /\ n + 1 # m + 1 /\ n + 1 \in Nat
        BY <2>5, <3>2
      <4>2. g[n + 1] = step[<<n, g[n]>>]
        BY <2>2, <4>1
      <4>3. QED
        BY <4>1, <4>2
    <3>3. QED
      BY <3>1, <3>2
  <2>6. Rec(h, m + 1)
    BY <2>4, <2>5
  <2>7. m + 1 \in Nat
    OBVIOUS
  <2>8. QED
    <3> HIDE DEF h, Rec
    <3>1. QED
      BY <2>3, <2>6, <2>7
<1>3. T = Nat
  <2>1. T \in SUBSET Nat
    OBVIOUS
  <2> HIDE DEF T
  <2>2. QED
    BY <1>1, <1>2, <2>1, Induction
<1>4. PICK solution \in [Nat -> [Nat -> S]] : \A m \in Nat : Rec(solution[m], m)
  <2>1. \A m \in Nat : \E g \in [Nat -> S] : Rec(g, m)
    BY <1>3
  <2> HIDE DEF Rec
  <2> DEFINE pick == [m \in Nat |-> CHOOSE g \in [Nat -> S] : Rec(g, m)]
  <2>2. pick \in [Nat -> [Nat -> S]] /\ \A m \in Nat : Rec(pick[m], m)
    BY <2>1
  <2>3. QED
    BY <2>2
(* Solutions agree as far as both go.                                      *)
<1>5. ASSUME NEW m \in Nat PROVE solution[m][m] = solution[m + 1][m]
  <2> DEFINE g == solution[m]
             h == solution[m + 1]
             U == { n \in Nat : n <= m => g[n] = h[n] }
  <2>1. Rec(g, m) /\ Rec(h, m + 1)
    BY <1>4
  <2>2. 0 \in U
    BY <2>1
  <2>3. \A n \in Nat : n \in U => n + 1 \in U
    <3>1. SUFFICES ASSUME NEW n \in Nat, n \in U, n + 1 <= m PROVE g[n + 1] = h[n + 1]
      OBVIOUS
    <3>2. g[n] = h[n] /\ n < m /\ n < m + 1
      BY <3>1
    <3>3. QED
      BY <2>1, <3>2
  <2>4. U = Nat
    <3>1. U \in SUBSET Nat
      OBVIOUS
    <3> HIDE DEF U
    <3>2. QED
      BY <2>2, <2>3, <3>1, Induction
  <2>5. m \in U
    BY <2>4
  <2>6. QED
    BY <2>5
<1> DEFINE f == [n \in Nat |-> solution[n][n]]
<1>6. f \in [Nat -> S] /\ f[0] = a
  BY <1>4
<1>7. ASSUME NEW n \in Nat PROVE f[n + 1] = step[<<n, f[n]>>]
  <2>1. Rec(solution[n + 1], n + 1) /\ n + 1 \in Nat /\ n < n + 1
    BY <1>4
  <2>2. solution[n + 1][n + 1] = step[<<n, solution[n + 1][n]>>]
    BY <2>1
  <2>3. QED
    BY <1>5, <2>1, <2>2
<1>8. QED
  BY <1>6, <1>7 DEF Recurs

(* Induction up to a number.                                               *)
LEMMA InductionUpTo ==
  ASSUME NEW m \in Nat, NEW P, 0 \in P, \A n \in 1..m : n - 1 \in P => n \in P
  PROVE  \A n \in 0..m : n \in P
<1> DEFINE T == { n \in Nat : n <= m => n \in P }
<1>1. 0 \in T
  OBVIOUS
<1>2. ASSUME NEW n \in Nat, n \in T
      PROVE  n + 1 \in T
  <2>1. n + 1 <= m => n + 1 \in 1..m /\ (n + 1) - 1 = n /\ n <= m
    OBVIOUS
  <2>2. QED
    BY <1>2, <2>1
<1>3. T \in SUBSET Nat
  OBVIOUS
<1>4. T = Nat
  <2> HIDE DEF T
  <2>1. QED
    BY <1>1, <1>2, <1>3, Induction
<1>5. QED
  BY <1>4

(* What a fold goes through, if each of its steps stays in a set.          *)
Folds(S, a, p, step) ==
  \E f \in [0..Len(p) -> S] : f[0] = a /\ \A n \in 1..Len(p) : f[n] = step[<<f[n - 1], p[n]>>]

(* Every fold goes through something.                                      *)
LEMMA FoldSteps ==
  ASSUME NEW S, NEW T, NEW a \in S, NEW p \in Seq(T), NEW step \in [S \X T -> S]
  PROVE  Folds(S, a, p, step)
<1> DEFINE len == Len(p)
           go == [x \in Nat \X S |-> IF x[1] < len THEN step[<<x[2], p[x[1] + 1]>>] ELSE x[2]]
<1>1. len \in Nat /\ \A n \in 1..len : p[n] \in T
  OBVIOUS
<1>2. go \in [Nat \X S -> S]
  <2>1. ASSUME NEW x \in Nat \X S
        PROVE  (IF x[1] < len THEN step[<<x[2], p[x[1] + 1]>>] ELSE x[2]) \in S
    <3>1. x[1] \in Nat /\ x[2] \in S
      OBVIOUS
    <3>2. x[1] < len => x[1] + 1 \in 1..len
      BY <1>1, <3>1
    <3>3. x[1] < len => p[x[1] + 1] \in T
      BY <1>1, <3>2
    <3> HIDE DEF len
    <3>4. QED
      BY <3>1, <3>3
  <2>2. QED
    BY <2>1
<1>3. \A n \in Nat : \A y \in S : n < len => go[<<n, y>>] = step[<<y, p[n + 1]>>]
  OBVIOUS
<1> HIDE DEF go, len
<1>4. Recurs(S, a, go)
  BY <1>2, Recursion
<1>5. PICK f \in [Nat -> S] : f[0] = a /\ \A n \in Nat : f[n + 1] = go[<<n, f[n]>>]
  BY <1>4 DEF Recurs
<1> DEFINE g == [n \in 0..len |-> f[n]]
<1>6. g \in [0..len -> S] /\ g[0] = a
  BY <1>1, <1>5
<1>7. ASSUME NEW n \in 1..len
      PROVE  g[n] = step[<<g[n - 1], p[n]>>]
  <2>1. n - 1 \in Nat /\ n - 1 < len /\ (n - 1) + 1 = n /\ n - 1 \in 0..len /\ n \in 0..len
    BY <1>1
  <2>2. f[n - 1] \in S
    BY <2>1
  <2>3. f[n] = go[<<n - 1, f[n - 1]>>]
    BY <1>5, <2>1
  <2>4. f[n] = step[<<f[n - 1], p[n]>>]
    BY <1>3, <2>1, <2>2, <2>3
  <2>5. QED
    BY <2>1, <2>4
<1> HIDE DEF g
<1>8. QED
  BY <1>6, <1>7 DEF len, Folds

(* The largest of some numbers.                                            *)
LEMMA MaxOfNumbers ==
  ASSUME NEW n \in Nat, NEW S, S \subseteq 1..n, S # {}
  PROVE  Max(S) \in S /\ \A x \in S : x <= Max(S)
<1> DEFINE Largest(T) == \E x \in T : \A y \in T : x >= y
           P == { m \in Nat : \A T \in SUBSET (1..m) : T # {} => Largest(T) }
<1>1. 0 \in P
  <2>1. \A T \in SUBSET (1..0) : T = {}
    OBVIOUS
  <2>2. QED
    BY <2>1
<1>2. ASSUME NEW m \in 1..n, m - 1 \in P
      PROVE  m \in P
  <2>1. ASSUME NEW T \in SUBSET (1..m), T # {}
        PROVE  Largest(T)
    <3>1. CASE m \in T
      BY <3>1
    <3>2. CASE m \notin T
      <4>1. T \in SUBSET (1..(m - 1))
        BY <3>2
      <4>2. QED
        BY <1>2, <2>1, <4>1
    <3>3. QED
      BY <3>1, <3>2
  <2>2. QED
    BY <2>1
<1>3. n \in P
  <2>1. \A m \in 0..n : m \in P
    <3> HIDE DEF P
    <3>1. QED
      BY <1>1, <1>2, InductionUpTo
  <2>2. QED
    BY <2>1
<1>4. \E x \in S : \A y \in S : x >= y
  BY <1>3
<1>5. Max(S) \in S /\ \A y \in S : Max(S) >= y
  BY <1>4 DEF Max
<1>6. \A x \in S : x \in Int
  OBVIOUS
<1>7. QED
  BY <1>5, <1>6

-----------------------------------------------------------------------------
(* How many of the numbers up to n are of a set.                           *)
CountUpTo(S, n) == Cardinality({ k \in 1..n : k \in S })

(* One number more is counted if it is of the set.                         *)
LEMMA CountedStep ==
  ASSUME NEW S
  PROVE  /\ CountUpTo(S, 0) = 0
         /\ \A n \in Nat : CountUpTo(S, n) \in Nat
         /\ \A n \in Nat \ {0} :
              /\ CountUpTo(S, n) = CountUpTo(S, n - 1) + (IF n \in S THEN 1 ELSE 0)
              /\ CountUpTo(S, n - 1) \in Nat /\ n - 1 \in Nat
<1> DEFINE Upto(n) == { k \in 1..n : k \in S }
<1>1. CountUpTo(S, 0) = 0
  <2>1. Upto(0) = {}
    OBVIOUS
  <2>2. QED
    BY <2>1, FS_EmptySet DEF CountUpTo
<1>2. ASSUME NEW n \in Nat
      PROVE  IsFiniteSet(Upto(n)) /\ CountUpTo(S, n) \in Nat
  <2>1. IsFiniteSet(1..n)
    BY FS_Interval, 1 \in Int
  <2>2. Upto(n) \subseteq 1..n
    OBVIOUS
  <2>3. IsFiniteSet(Upto(n))
    <3> HIDE DEF Upto
    <3>1. QED
      BY <2>1, <2>2, FS_Subset
  <2>4. CountUpTo(S, n) = Cardinality(Upto(n))
    BY DEF CountUpTo
  <2> HIDE DEF Upto
  <2>5. QED
    BY <2>3, <2>4, FS_CardinalityType
<1>3. ASSUME NEW n \in Nat \ {0}
      PROVE  CountUpTo(S, n) = CountUpTo(S, n - 1) + (IF n \in S THEN 1 ELSE 0)
  <2>1. n - 1 \in Nat /\ 1..n = (1..(n - 1)) \cup {n}
    OBVIOUS
  <2>2. CountUpTo(S, n) = Cardinality(Upto(n)) /\ CountUpTo(S, n - 1) = Cardinality(Upto(n - 1))
    BY DEF CountUpTo
  <2>3. IsFiniteSet(Upto(n - 1)) /\ CountUpTo(S, n - 1) \in Nat
    BY <1>2, <2>1
  <2>4. CASE n \in S
    <3>1. Upto(n) = Upto(n - 1) \cup {n} /\ n \notin Upto(n - 1)
      BY <2>1, <2>4
    <3> HIDE DEF Upto
    <3>2. QED
      BY <2>2, <2>3, <2>4, <3>1, FS_AddElement
  <2>5. CASE n \notin S
    <3>1. Upto(n) = Upto(n - 1)
      BY <2>1, <2>5
    <3> HIDE DEF Upto
    <3>2. QED
      BY <2>2, <2>3, <2>5, <3>1
  <2>6. QED
    BY <2>4, <2>5
<1>4. \A n \in Nat \ {0} : n - 1 \in Nat
  OBVIOUS
<1> HIDE DEF Upto
<1>5. QED
  BY <1>1, <1>2, <1>3, <1>4

(* What is counted grows with the numbers, and not faster.                 *)
LEMMA CountedGrows ==
  ASSUME NEW S, NEW n \in Nat
  PROVE  /\ CountUpTo(S, n) \in 0..n
         /\ \A m \in 0..n : CountUpTo(S, m) <= CountUpTo(S, n)
         /\ \A m \in 1..n : m \in S => CountUpTo(S, m) \in 1..CountUpTo(S, n)
<1> DEFINE P == { k \in Nat : /\ CountUpTo(S, k) \in 0..k
                             /\ \A m \in 0..k : CountUpTo(S, m) <= CountUpTo(S, k) }
<1>1. 0 \in P
  BY CountedStep
<1>2. ASSUME NEW k \in 1..n, k - 1 \in P
      PROVE  k \in P
  <2>1. /\ CountUpTo(S, k) = CountUpTo(S, k - 1) + (IF k \in S THEN 1 ELSE 0)
        /\ CountUpTo(S, k) \in Nat /\ CountUpTo(S, k - 1) \in Nat
    <3>1. k \in Nat \ {0} /\ k \in Nat
      OBVIOUS
    <3>2. QED
      BY <3>1, CountedStep
  <2>2. CountUpTo(S, k) \in 0..k
    BY <1>2, <2>1
  <2>3. ASSUME NEW m \in 0..k
        PROVE  CountUpTo(S, m) <= CountUpTo(S, k)
    <3>1. CASE m = k
      BY <2>1, <3>1
    <3>2. CASE m # k
      <4>1. m \in 0..(k - 1)
        BY <3>2
      <4>2. CountUpTo(S, m) <= CountUpTo(S, k - 1) /\ CountUpTo(S, m) \in Nat
        BY <1>2, <4>1, CountedStep
      <4>3. QED
        BY <2>1, <4>2
    <3>3. QED
      BY <3>1, <3>2
  <2>4. QED
    BY <2>2, <2>3
<1>3. \A k \in 0..n : k \in P
  <2> HIDE DEF P
  <2>1. QED
    BY <1>1, <1>2, InductionUpTo
<1>4. ASSUME NEW m \in 1..n, m \in S
      PROVE  CountUpTo(S, m) \in 1..CountUpTo(S, n)
  <2>1. CountUpTo(S, m) = CountUpTo(S, m - 1) + 1 /\ CountUpTo(S, m - 1) \in Nat
    <3>1. m \in Nat \ {0}
      OBVIOUS
    <3>2. QED
      BY <1>4, <3>1, CountedStep
  <2>2. CountUpTo(S, m) <= CountUpTo(S, n) /\ CountUpTo(S, n) \in Nat
    BY <1>3, CountedStep
  <2>3. QED
    BY <2>1, <2>2
<1>5. QED
  BY <1>3, <1>4

(* Every count is that of a number of the set.                             *)
LEMMA CountedAll ==
  ASSUME NEW S, NEW n \in Nat
  PROVE  \A j \in 1..CountUpTo(S, n) : \E k \in 1..n : k \in S /\ CountUpTo(S, k) = j
<1> DEFINE P == { m \in Nat :
                    \A j \in 1..CountUpTo(S, m) : \E k \in 1..m : k \in S /\ CountUpTo(S, k) = j }
<1>1. 0 \in P
  BY CountedStep
<1>2. ASSUME NEW m \in 1..n, m - 1 \in P
      PROVE  m \in P
  <2>1. /\ CountUpTo(S, m) = CountUpTo(S, m - 1) + (IF m \in S THEN 1 ELSE 0)
        /\ CountUpTo(S, m) \in Nat /\ CountUpTo(S, m - 1) \in Nat
    <3>1. m \in Nat \ {0} /\ m \in Nat
      OBVIOUS
    <3>2. QED
      BY <3>1, CountedStep
  <2>2. ASSUME NEW j \in 1..CountUpTo(S, m)
        PROVE  \E k \in 1..m : k \in S /\ CountUpTo(S, k) = j
    <3>1. CASE j <= CountUpTo(S, m - 1)
      <4>1. PICK k \in 1..(m - 1) : k \in S /\ CountUpTo(S, k) = j
        BY <1>2, <2>1, <3>1
      <4>2. k \in 1..m
        OBVIOUS
      <4>3. QED
        BY <4>1, <4>2
    <3>2. CASE j > CountUpTo(S, m - 1)
      <4>1. m \in S /\ CountUpTo(S, m) = j
        BY <2>1, <3>2
      <4>2. QED
        BY <4>1
    <3>3. QED
      BY <2>1, <3>1, <3>2
  <2>3. QED
    BY <2>2
<1>3. \A m \in 0..n : m \in P
  <2> HIDE DEF P
  <2>1. QED
    BY <1>1, <1>2, InductionUpTo
<1>4. QED
  BY <1>3

(* Numbers in a row that are all of the set, or all are not.               *)
LEMMA CountedRow ==
  ASSUME NEW S, NEW n \in Nat, NEW m \in Nat
  PROVE  /\ (\A k \in 1..m : n + k \in S) =>
              \A k \in 0..m : CountUpTo(S, n + k) = CountUpTo(S, n) + k
         /\ (\A k \in 1..m : n + k \notin S) =>
              \A k \in 0..m : CountUpTo(S, n + k) = CountUpTo(S, n)
<1>0. CountUpTo(S, n) \in Nat
  BY CountedStep
<1>1. ASSUME NEW k \in 1..m
      PROVE  /\ n + k \in Nat \ {0} /\ (n + k) - 1 = n + (k - 1)
             /\ CountUpTo(S, n + k) = CountUpTo(S, n + (k - 1)) + (IF n + k \in S THEN 1 ELSE 0)
  <2>1. n + k \in Nat \ {0} /\ (n + k) - 1 = n + (k - 1)
    OBVIOUS
  <2>2. QED
    BY <2>1, CountedStep
<1>2. ASSUME \A k \in 1..m : n + k \in S
      PROVE  \A k \in 0..m : CountUpTo(S, n + k) = CountUpTo(S, n) + k
  <2> DEFINE P == { k \in Nat : CountUpTo(S, n + k) = CountUpTo(S, n) + k }
  <2>1. 0 \in P
    BY <1>0
  <2>2. ASSUME NEW k \in 1..m, k - 1 \in P
        PROVE  k \in P
    BY <1>0, <1>1, <1>2, <2>2
  <2>3. \A k \in 0..m : k \in P
    <3> HIDE DEF P
    <3>1. QED
      BY <2>1, <2>2, InductionUpTo
  <2>4. QED
    BY <2>3
<1>3. ASSUME \A k \in 1..m : n + k \notin S
      PROVE  \A k \in 0..m : CountUpTo(S, n + k) = CountUpTo(S, n)
  <2> DEFINE P == { k \in Nat : CountUpTo(S, n + k) = CountUpTo(S, n) }
  <2>1. 0 \in P
    BY <1>0
  <2>2. ASSUME NEW k \in 1..m, k - 1 \in P
        PROVE  k \in P
    BY <1>0, <1>1, <1>3, <2>2
  <2>3. \A k \in 0..m : k \in P
    <3> HIDE DEF P
    <3>1. QED
      BY <2>1, <2>2, InductionUpTo
  <2>4. QED
    BY <2>3
<1>4. QED
  BY <1>2, <1>3

(* A sequence from which the elements at some positions are kept, step by  *)
(* step: where each of them goes.                                          *)
Keeps(s, S, g) ==
  /\ g[0] = <<>>
  /\ \A n \in 1..Len(s) : g[n] = IF n \in S THEN Append(g[n - 1], s[n]) ELSE g[n - 1]

(* The count of the kept elements up to one says where it goes.            *)
LEMMA KeptPositions ==
  ASSUME NEW T, NEW s \in Seq(T), NEW S, NEW g, Keeps(s, S, g)
  PROVE  \A n \in 0..Len(s) :
           /\ g[n] \in Seq(T) /\ Len(g[n]) = CountUpTo(S, n)
           /\ \A k \in 1..n : k \in S => g[n][CountUpTo(S, k)] = s[k]
<1> DEFINE Good(n) == /\ g[n] \in Seq(T) /\ Len(g[n]) = CountUpTo(S, n)
                      /\ \A k \in 1..n : k \in S => g[n][CountUpTo(S, k)] = s[k]
           P == { n \in Nat : Good(n) }
<1>1. 0 \in P
  <2>1. <<>> \in Seq(T) /\ Len(<<>>) = 0
    OBVIOUS
  <2>2. g[0] \in Seq(T) /\ Len(g[0]) = CountUpTo(S, 0)
    BY <2>1, CountedStep DEF Keeps
  <2>3. QED
    BY <2>2
<1>2. ASSUME NEW n \in 1..Len(s), n - 1 \in P
      PROVE  n \in P
  <2>1. /\ CountUpTo(S, n) = CountUpTo(S, n - 1) + (IF n \in S THEN 1 ELSE 0)
        /\ CountUpTo(S, n) \in Nat /\ CountUpTo(S, n - 1) \in Nat
        /\ n - 1 \in Nat /\ n \in Nat
    <3>1. n \in Nat \ {0} /\ n \in Nat /\ n - 1 \in Nat
      OBVIOUS
    <3>2. QED
      BY <3>1, CountedStep
  <2>2. g[n - 1] \in Seq(T) /\ Len(g[n - 1]) = CountUpTo(S, n - 1) /\ s[n] \in T
    BY <1>2
  <2>3. \A k \in 1..(n - 1) : k \in S => g[n - 1][CountUpTo(S, k)] = s[k]
    BY <1>2
  <2>4. \A k \in 1..(n - 1) : k \in S => CountUpTo(S, k) \in 1..CountUpTo(S, n - 1)
    BY <2>1, CountedGrows
  <2>5. \A k \in 1..n : k \in 1..(n - 1) \/ k = n
    OBVIOUS
  <2>6. CASE n \in S
    <3>1. g[n] = Append(g[n - 1], s[n])
      BY <2>6 DEF Keeps
    <3>2. /\ g[n] \in Seq(T) /\ Len(g[n]) = CountUpTo(S, n)
          /\ g[n][CountUpTo(S, n)] = s[n]
          /\ \A j \in 1..CountUpTo(S, n - 1) : g[n][j] = g[n - 1][j]
      BY <2>1, <2>2, <2>6, <3>1
    <3>3. \A k \in 1..n : k \in S => g[n][CountUpTo(S, k)] = s[k]
      BY <2>3, <2>4, <2>5, <3>2
    <3>4. QED
      BY <2>1, <3>2, <3>3
  <2>7. CASE n \notin S
    <3>1. g[n] = g[n - 1]
      BY <2>7 DEF Keeps
    <3>2. QED
      BY <2>1, <2>2, <2>3, <2>5, <2>7, <3>1
  <2>8. QED
    BY <2>6, <2>7
<1>3. \A n \in 0..Len(s) : n \in P
  <2>1. Len(s) \in Nat
    OBVIOUS
  <2> HIDE DEF P
  <2>2. QED
    BY <1>1, <1>2, <2>1, InductionUpTo
<1>4. QED
  BY <1>3

(* Where the elements of two sequences are in their concatenation.         *)
LEMMA ConcatElements ==
  ASSUME NEW T, NEW s \in Seq(T), NEW u \in Seq(T)
  PROVE  /\ s \o u \in Seq(T) /\ Len(s \o u) = Len(s) + Len(u)
         /\ \A k \in 1..Len(s) : (s \o u)[k] = s[k]
         /\ \A k \in 1..Len(u) : (s \o u)[Len(s) + k] = u[k]
  OBVIOUS

-----------------------------------------------------------------------------
(* A variable that exists only inside a block was declared in a scope      *)
(* other than the global one, or in none (by a Nop).  This is what keeps   *)
(* the end of a block from being appended in the global scope.             *)
VariablesOK(variables) ==
  \A v \in 1..Len(variables) :
    variables[v].var \in BlockType /\ variables[v].scope_id # 0 => variables[v].scope_id > 1

-----------------------------------------------------------------------------
(* The operation table, fact by fact.                                      *)
LEMMA TableFacts ==
  /\ \A op \in Op : /\ Signature[op].in \in Seq(VarType)
                    /\ Signature[op].out \in Seq(VarType)
                    /\ Signature[op].inner \in Seq(VarType)
  /\ \A op \in Op \ NopOp : \A k \in 1..Len(Signature[op].out) :
        Signature[op].out[k] \notin BlockType
  /\ \A op \in Op \ (Begins \cup NopOp) : Signature[op].inner = <<>>
  /\ \A b \in Begins : EnteredContext[b] \in Context
BY IRAssumption DEF BlockType

(* Each step of append on a builder gives a builder, and what it changes.  *)
LEMMA EnterScopeType ==
  ASSUME NEW b \in Builder, NEW begin \in Nat, NEW c \in Context
  PROVE  LET e == EnterScope(b, begin, c)
             g == [begin |-> begin, id |-> b.scope_counter + 1, context |-> c]
         IN  /\ e \in Builder
             /\ e.active_scopes = Append(b.active_scopes, g)
             /\ e.active_scopes_set = b.active_scopes_set \cup {b.scope_counter + 1}
             /\ e.scope_counter = b.scope_counter + 1
             /\ e.variables = b.variables
             /\ e.instructions = b.instructions
<1> DEFINE g == [begin |-> begin, id |-> b.scope_counter + 1, context |-> c]
<1>1. g \in Scope
  BY DEF Builder, Scope
<1> HIDE DEF g
<1>2. Append(b.active_scopes, g) \in Seq(Scope)
  BY <1>1, AppendProperties DEF Builder
<1>3. /\ b.scope_counter + 1 \in Nat
      /\ b.active_scopes_set \cup {b.scope_counter + 1} \in SUBSET Nat
  BY DEF Builder
<1>4. EnterScope(b, begin, c) =
        [b EXCEPT !.active_scopes = Append(@, g),
                  !.active_scopes_set = @ \cup {b.scope_counter + 1},
                  !.scope_counter = b.scope_counter + 1]
  BY DEF EnterScope, g
<1>5. QED
  BY <1>1, <1>2, <1>3, <1>4 DEF Builder, g

(* Declaring variables (builder.rs:309-341) changes only the variables.    *)
LEMMA DeclareType ==
  ASSUME NEW b \in Builder, NEW types \in Seq(VarType), NEW id \in Nat
  PROVE  LET d == Declare(b, types, id)
         IN  /\ d \in Builder
             /\ d.active_scopes = b.active_scopes
             /\ d.active_scopes_set = b.active_scopes_set
             /\ d.scope_counter = b.scope_counter
             /\ d.instructions = b.instructions
<1> DEFINE d == [k \in 1..Len(types) |-> [var |-> types[k], scope_id |-> id]]
<1>1. d \in Seq(ScopedVariable)
  BY DEF ScopedVariable
<1> HIDE DEF d
<1>2. b.variables \o d \in Seq(ScopedVariable)
  BY <1>1, ConcatProperties DEF Builder
<1>3. Declare(b, types, id) = [b EXCEPT !.variables = @ \o d]
  BY DEF Declare, d
<1>4. QED
  BY <1>1, <1>2, <1>3 DEF Builder

(* Recording the context of an instruction (builder.rs:284) needs a scope  *)
(* on the stack and changes only the contexts.                             *)
LEMMA NoteContextType ==
  ASSUME NEW b \in Builder, b.active_scopes # <<>>
  PROVE  LET n == NoteContext(b)
         IN  /\ n \in Builder
             /\ n.active_scopes = b.active_scopes
             /\ n.active_scopes_set = b.active_scopes_set
             /\ n.scope_counter = b.scope_counter
             /\ n.variables = b.variables
             /\ n.instructions = b.instructions
<1>1. CurrentScope(b) \in Scope
  BY DEF Builder, CurrentScope
<1>2. Append(b.contexts, CurrentScope(b).context) \in Seq(Context)
  BY <1>1, AppendProperties DEF Builder, Scope
<1>3. QED
  BY <1>1, <1>2 DEF Builder, NoteContext

(* Pushing the instruction (builder.rs:344) changes only the               *)
(* instructions.                                                           *)
LEMMA PushType ==
  ASSUME NEW b \in Builder, NEW i \in Instr
  PROVE  LET p == [b EXCEPT !.instructions = Append(@, i)]
         IN  /\ p \in Builder
             /\ p.active_scopes = b.active_scopes
             /\ p.active_scopes_set = b.active_scopes_set
             /\ p.scope_counter = b.scope_counter
             /\ p.variables = b.variables
             /\ p.instructions = Append(b.instructions, i)
<1>1. Append(b.instructions, i) \in Seq(Instr)
  BY AppendProperties DEF Builder
<1>2. QED
  BY <1>1 DEF Builder

(* Declaring variables keeps VariablesOK if block variables are declared   *)
(* in no scope or in one that is not global.                               *)
LEMMA DeclareVariablesOK ==
  ASSUME NEW b \in Builder, NEW types \in Seq(VarType), NEW id \in Nat,
         VariablesOK(b.variables),
         \A k \in 1..Len(types) : types[k] \in BlockType => id = 0 \/ id > 1
  PROVE  VariablesOK(Declare(b, types, id).variables)
<1> DEFINE d == [k \in 1..Len(types) |-> [var |-> types[k], scope_id |-> id]]
<1>1. d \in Seq(ScopedVariable) /\ Len(d) = Len(types)
  BY DEF ScopedVariable
<1>2. \A k \in 1..Len(types) : d[k].var = types[k] /\ d[k].scope_id = id
  OBVIOUS
<1>3. Declare(b, types, id).variables = b.variables \o d
  BY DEF Declare, Builder
<1> HIDE DEF d
<1>4. b.variables \in Seq(ScopedVariable)
  BY DEF Builder
<1> DEFINE old == b.variables
           all == old \o d
<1>5. /\ Len(all) = Len(old) + Len(d) /\ Len(old) \in Nat /\ Len(d) \in Nat
      /\ \A v \in 1..(Len(old) + Len(d)) :
            all[v] = IF v <= Len(old) THEN old[v] ELSE d[v - Len(old)]
  <2> HIDE DEF old
  <2>1. old \in Seq(ScopedVariable)
    BY <1>4 DEF old
  <2>2. Len(old) \in Nat /\ Len(d) \in Nat
    BY <1>1, <2>1
  <2>3. QED
    BY <1>1, <2>1, <2>2, ConcatProperties
<1> HIDE DEF all, old
<1>6. VariablesOK(all)
  <2>1. SUFFICES ASSUME NEW v \in 1..Len(all), all[v].var \in BlockType, all[v].scope_id # 0
                 PROVE  all[v].scope_id > 1
    BY DEF VariablesOK
  <2>2. CASE v <= Len(old)
    <3>1. v \in 1..Len(old) /\ all[v] = old[v]
      BY <1>5, <2>2
    <3>2. QED
      BY <2>1, <3>1 DEF VariablesOK, old
  <2>3. CASE v > Len(old)
    <3>1. v - Len(old) \in 1..Len(types) /\ all[v] = d[v - Len(old)]
      BY <1>1, <1>5, <2>3
    <3>2. QED
      BY <1>2, <2>1, <3>1
  <2>4. QED
    BY <1>5, <2>2, <2>3
<1>7. QED
  BY <1>3, <1>6 DEF all, old

(* A new builder (builder.rs:156-171) has just the global scope, with id   *)
(* 1.                                                                      *)
LEMMA NewBuilderOK ==
  /\ NewBuilder \in Builder
  /\ ScopesOK(NewBuilder)
  /\ VariablesOK(NewBuilder.variables)
<1> DEFINE g == [begin |-> 0, id |-> 1, context |-> Global]
           t == Append(<<>>, g)
<1>1. /\ NewBuilder.active_scopes = t /\ NewBuilder.active_scopes_set = {1}
      /\ NewBuilder.scope_counter = 1 /\ NewBuilder.variables = <<>>
      /\ NewBuilder.instructions = <<>> /\ NewBuilder.contexts = <<>>
  BY DEF NewBuilder, EnterScope
<1>2. g \in Scope /\ g.begin = 0 /\ g.id = 1
  BY IRAssumption DEF Scope
<1>3. t \in Seq(Scope) /\ Len(t) = 1 /\ t[1] = g
  <2>1. <<>> \in Seq(Scope) /\ Len(<<>>) = 0
    OBVIOUS
  <2>2. QED
    BY <1>2, <2>1, AppendProperties
<1>4. NewBuilder \in Builder
  <2> DEFINE e == [ active_scopes |-> <<>>, active_scopes_set |-> {}, scope_counter |-> 0,
                    variables |-> <<>>, instructions |-> <<>>, contexts |-> <<>> ]
  <2>1. e \in Builder
    BY DEF Builder
  <2> HIDE DEF e
  <2>2. EnterScope(e, 0, Global) \in Builder
    BY <2>1, EnterScopeType, IRAssumption
  <2>3. QED
    BY <2>2 DEF NewBuilder, e
<1> HIDE DEF t, g
<1>5. {1} = { t[k].id : k \in 1..Len(t) }
  BY <1>2, <1>3
<1>6. ScopeStack(t, {1}, 1, <<>>)
  BY <1>2, <1>3, <1>5 DEF ScopeStack
<1>7. QED
  BY <1>1, <1>4, <1>6 DEF ScopesOK, VariablesOK

(* Leaving a scope that is not the global one.                             *)
LEMMA PopScope ==
  ASSUME NEW scopes \in Seq(Scope), NEW ids, NEW counter \in Nat, NEW instructions \in Seq(Instr),
         ScopeStack(scopes, ids, counter, instructions), NEW n \in Nat \ {0}, Len(scopes) = n + 1
  PROVE  /\ SubSeq(scopes, 1, n) \in Seq(Scope)
         /\ ScopeStack(SubSeq(scopes, 1, n), ids \ {scopes[n + 1].id}, counter, instructions)
<1> DEFINE s == SubSeq(scopes, 1, n)
<1>1. s \in Seq(Scope) /\ Len(s) = n /\ \A k \in 1..n : s[k] = scopes[k]
  <2>1. \A k \in 1..n : scopes[k] \in Scope
    OBVIOUS
  <2>2. QED
    BY <2>1, SubSeqProperties
<1> HIDE DEF s
<1>2. \A k \in 1..n : s[k].id # scopes[n + 1].id
  <2>1. SUFFICES ASSUME NEW k \in 1..n
                 PROVE  scopes[k].id # scopes[n + 1].id
    BY <1>1
  <2>2. n + 1 \in 1..Len(scopes) /\ k \in 1..((n + 1) - 1) /\ k \in 1..Len(scopes)
    OBVIOUS
  <2>3. scopes[k].id < scopes[n + 1].id /\ scopes[k].id \in 1..counter
    BY <2>2 DEF ScopeStack
  <2>4. QED
    BY <2>3
<1>3. ids \ {scopes[n + 1].id} = { s[k].id : k \in 1..Len(s) }
  <2>1. ids = { scopes[k].id : k \in 1..Len(scopes) }
    BY DEF ScopeStack
  <2>2. 1..Len(scopes) = 1..n \cup {n + 1}
    OBVIOUS
  <2>3. QED
    BY <1>1, <1>2, <2>1, <2>2
<1>4. s # <<>>
  BY <1>1
<1>5. ScopeStack(s, ids \ {scopes[n + 1].id}, counter, instructions)
  BY <1>1, <1>3, <1>4 DEF ScopeStack
<1>6. QED
  BY <1>1, <1>5 DEF s

(* Entering a scope with the instruction about to be pushed as its begin.  *)
LEMMA PushScope ==
  ASSUME NEW scopes \in Seq(Scope), NEW ids \in SUBSET Nat, NEW counter \in Nat,
         NEW instructions \in Seq(Instr),
         ScopeStack(scopes, ids, counter, instructions),
         NEW i \in Instr, i.op \in Begins, NEW c \in Context
  PROVE  LET s == [begin |-> Len(instructions) + 1, id |-> counter + 1, context |-> c]
         IN  /\ Append(scopes, s) \in Seq(Scope)
             /\ ScopeStack(Append(scopes, s), ids \cup {counter + 1}, counter + 1,
                           Append(instructions, i))
<1> DEFINE s == [begin |-> Len(instructions) + 1, id |-> counter + 1, context |-> c]
           t == Append(scopes, s)
           n == Len(scopes)
<1>1. /\ s \in Scope /\ t \in Seq(Scope) /\ Len(t) = n + 1 /\ n \in Nat \ {0}
      /\ t[n + 1] = s /\ \A k \in 1..n : t[k] = scopes[k]
  BY DEF Scope, ScopeStack
<1>2. ids \cup {counter + 1} = { t[k].id : k \in 1..Len(t) }
  BY <1>1 DEF ScopeStack
<1>3. \A k \in 1..n : scopes[k].id \in 1..counter
  BY DEF ScopeStack
<1>4. /\ Len(Append(instructions, i)) = Len(instructions) + 1
      /\ Append(instructions, i)[Len(instructions) + 1] = i
      /\ \A k \in 1..Len(instructions) : Append(instructions, i)[k] = instructions[k]
  OBVIOUS
<1>5. \A k \in 1..Len(t) :
       /\ t[k].id \in 1..(counter + 1)
       /\ k = 1 => t[k].begin = 0 /\ t[k].id = 1
       /\ k > 1 => /\ t[k].begin \in 1..Len(Append(instructions, i))
                   /\ Append(instructions, i)[t[k].begin].op \in Begins
       /\ \A m \in 1..(k - 1) : t[m].id < t[k].id
  BY <1>1, <1>3, <1>4 DEF ScopeStack
<1>6. QED
  BY <1>1, <1>2, <1>5 DEF ScopeStack

(* Pushing an instruction leaves the stack as it is.                       *)
LEMMA PushInstruction ==
  ASSUME NEW scopes \in Seq(Scope), NEW ids, NEW counter \in Nat, NEW instructions \in Seq(Instr),
         ScopeStack(scopes, ids, counter, instructions), NEW i \in Instr
  PROVE  ScopeStack(scopes, ids, counter, Append(instructions, i))
<1>1. /\ Len(Append(instructions, i)) = Len(instructions) + 1
      /\ \A k \in 1..Len(instructions) : Append(instructions, i)[k] = instructions[k]
  OBVIOUS
<1>2. QED
  BY <1>1 DEF ScopeStack

(* An end whose inputs are in scope and of the types it asks for is inside *)
(* a block: the block variable it takes is in scope only there.            *)
LEMMA EndIsNested ==
  ASSUME NEW b \in Builder, ScopesOK(b), VariablesOK(b.variables),
         NEW i \in Instr, i.op \in Ends,
         Len(i.inputs) = Len(Signature[i.op].in),
         \A k \in 1..Len(i.inputs) : InScope(b, i.inputs[k]),
         \A k \in 1..Len(i.inputs) : b.variables[i.inputs[k]].var = Signature[i.op].in[k]
  PROVE  Len(b.active_scopes) > 1
<1>1. PICK k \in 1..Len(Signature[i.op].in) : Signature[i.op].in[k] \in BlockType
  BY IRAssumption
<1> DEFINE v == i.inputs[k]
<1>2. /\ v \in 1..Len(b.variables)
      /\ b.variables[v].scope_id \in b.active_scopes_set
      /\ b.variables[v].var \in BlockType
  BY <1>1 DEF InScope
<1>3. PICK m \in 1..Len(b.active_scopes) : b.variables[v].scope_id = b.active_scopes[m].id
  BY <1>2 DEF ScopesOK, ScopeStack
<1>4. b.active_scopes[m].id \in 1..b.scope_counter /\ (m = 1 => b.active_scopes[m].id = 1)
  BY DEF ScopesOK, ScopeStack
<1>5. b.variables[v].scope_id > 1
  <2>1. b.variables[v].scope_id # 0 /\ b.scope_counter \in Nat
    BY <1>3, <1>4 DEF Builder
  <2>2. QED
    BY <1>2, <2>1 DEF VariablesOK
<1>6. Len(b.active_scopes) \in Nat
  BY DEF Builder
<1>7. QED
  BY <1>3, <1>4, <1>5, <1>6

(* append never panics on a builder whose bookkeeping is sound.            *)
LEMMA AppendDoesNotPanic ==
  ASSUME NEW b \in Builder, ScopesOK(b), VariablesOK(b.variables), NEW i \in Instr
  PROVE  Outcome(b, i) # "Panic"
<1>1. SUFFICES ASSUME Outcome(b, i) = "Panic"
               PROVE  FALSE
  OBVIOUS
<1>2. /\ Len(i.inputs) = Len(Signature[i.op].in)
      /\ \A k \in 1..Len(i.inputs) : InScope(b, i.inputs[k])
      /\ \A k \in 1..Len(i.inputs) : b.variables[i.inputs[k]].var = Signature[i.op].in[k]
      /\ Panics(b, i)
  BY <1>1 DEF Outcome
<1> DEFINE n == Len(b.active_scopes)
<1>3. b.active_scopes # <<>> /\ n \in Nat
  BY DEF ScopesOK, ScopeStack, Builder
<1>4. i.op \in Ends
  BY <1>2, <1>3 DEF Panics
<1>5. n > 1
  BY <1>2, <1>4, EndIsNested
<1>6. /\ b.active_scopes[n].id \in b.active_scopes_set
      /\ b.active_scopes[n].begin \in 1..Len(b.instructions)
  BY <1>3, <1>5 DEF ScopesOK, ScopeStack
<1>7. QED
  BY <1>2, <1>3, <1>5, <1>6 DEF Panics, CurrentScope

(* Leaving the current scope, if it is not the global one.                 *)
LEMMA ExitScopeOK ==
  ASSUME NEW b \in Builder, ScopesOK(b), Len(b.active_scopes) > 1
  PROVE  LET e == ExitScope(b)
         IN  /\ e \in Builder
             /\ ScopesOK(e)
             /\ e.active_scopes # <<>>
             /\ e.scope_counter = b.scope_counter
             /\ e.variables = b.variables
             /\ e.instructions = b.instructions
<1> DEFINE scopes == b.active_scopes
           n == Len(scopes) - 1
           top == scopes[n + 1].id
<1>1. n \in Nat \ {0} /\ Len(scopes) = n + 1 /\ scopes \in Seq(Scope)
  BY DEF Builder
<1>2. /\ b.scope_counter \in Nat
      /\ b.instructions \in Seq(Instr)
      /\ b.active_scopes_set \ {top} \in SUBSET Nat
      /\ ScopeStack(scopes, b.active_scopes_set, b.scope_counter, b.instructions)
  BY DEF Builder, ScopesOK
<1>3. /\ SubSeq(scopes, 1, n) \in Seq(Scope)
      /\ ScopeStack(SubSeq(scopes, 1, n), b.active_scopes_set \ {top}, b.scope_counter,
                    b.instructions)
  <2> HIDE DEF n, scopes
  <2>1. QED
    BY <1>1, <1>2, PopScope
<1>4. CurrentScope(b).id = top
  BY <1>1 DEF CurrentScope
<1>5. ExitScope(b) = [b EXCEPT !.active_scopes = SubSeq(scopes, 1, n),
                               !.active_scopes_set = b.active_scopes_set \ {top}]
  BY <1>4 DEF ExitScope
<1> HIDE DEF n, top, scopes
<1>6. /\ ExitScope(b).active_scopes = SubSeq(scopes, 1, n)
      /\ ExitScope(b).active_scopes_set = b.active_scopes_set \ {top}
      /\ ExitScope(b).scope_counter = b.scope_counter
      /\ ExitScope(b).variables = b.variables
      /\ ExitScope(b).instructions = b.instructions
  BY <1>5 DEF Builder
<1>7. ExitScope(b) \in Builder
  BY <1>2, <1>3, <1>5 DEF Builder
<1>8. SubSeq(scopes, 1, n) # <<>>
  BY <1>3 DEF ScopeStack
<1>9. QED
  BY <1>3, <1>6, <1>7, <1>8 DEF ScopesOK

(* The builder after an append that returned Ok.                           *)
LEMMA AppendedOK ==
  ASSUME NEW b \in Builder, ScopesOK(b), VariablesOK(b.variables),
         NEW i \in Instr, Outcome(b, i) = "Ok"
  PROVE  /\ Appended(b, i) \in Builder
         /\ ScopesOK(Appended(b, i))
         /\ VariablesOK(Appended(b, i).variables)
<1> DEFINE nop == i.op \in NopOp
           noted == NoteContext(b)
           exited == IF i.op \in Ends THEN ExitScope(noted) ELSE noted
           outerId == IF nop THEN 0 ELSE CurrentScope(exited).id
           outer == Declare(exited, Signature[i.op].out, outerId)
           entered == IF i.op \in Begins
                      THEN EnterScope(outer, Len(outer.instructions) + 1, EnteredContext[i.op])
                      ELSE outer
           innerId == IF nop THEN 0 ELSE entered.scope_counter
           inner == Declare(entered, Signature[i.op].inner, innerId)
           pushed == [inner EXCEPT !.instructions = Append(@, i)]
<1>1. Appended(b, i) = pushed
  BY DEF Appended
<1>2. i.op \in Op
  BY DEF Instr
<1>3. /\ noted \in Builder /\ ScopesOK(noted) /\ VariablesOK(noted.variables)
      /\ noted.active_scopes = b.active_scopes /\ noted.active_scopes # <<>>
      /\ noted.instructions = b.instructions
  <2>1. b.active_scopes # <<>>
    BY DEF ScopesOK, ScopeStack
  <2>2. QED
    BY <2>1, NoteContextType DEF ScopesOK
<1>4. i.op \in Ends => Len(noted.active_scopes) > 1
  <2>1. /\ Len(i.inputs) = Len(Signature[i.op].in)
        /\ \A k \in 1..Len(i.inputs) : InScope(b, i.inputs[k])
        /\ \A k \in 1..Len(i.inputs) : b.variables[i.inputs[k]].var = Signature[i.op].in[k]
    BY DEF Outcome
  <2>2. QED
    BY <1>3, <2>1, EndIsNested
<1> HIDE DEF noted
<1>5. /\ exited \in Builder /\ ScopesOK(exited) /\ VariablesOK(exited.variables)
      /\ exited.active_scopes # <<>> /\ exited.instructions = b.instructions
  BY <1>3, <1>4, ExitScopeOK
<1> HIDE DEF exited
<1>6. CurrentScope(exited).id \in Nat \ {0}
  <2>1. Len(exited.active_scopes) \in 1..Len(exited.active_scopes)
    BY <1>5 DEF Builder
  <2>2. CurrentScope(exited).id \in 1..exited.scope_counter /\ exited.scope_counter \in Nat
    BY <1>5, <2>1 DEF CurrentScope, ScopesOK, ScopeStack, Builder
  <2>3. QED
    BY <2>2
<1>7. /\ outer \in Builder /\ ScopesOK(outer) /\ VariablesOK(outer.variables)
      /\ outer.instructions = b.instructions
  <2>1. Signature[i.op].out \in Seq(VarType) /\ outerId \in Nat
    BY <1>2, <1>6, TableFacts
  <2>2. \A k \in 1..Len(Signature[i.op].out) :
           Signature[i.op].out[k] \in BlockType => outerId = 0 \/ outerId > 1
    BY <1>2, TableFacts
  <2> HIDE DEF outerId
  <2>3. QED
    BY <1>5, <2>1, <2>2, DeclareType, DeclareVariablesOK DEF ScopesOK
<1> HIDE DEF outer
<1>8. /\ entered \in Builder /\ VariablesOK(entered.variables)
      /\ entered.scope_counter \in Nat
      /\ i.op \in Begins => entered.scope_counter > 1
      /\ ScopeStack(entered.active_scopes, entered.active_scopes_set, entered.scope_counter,
                    Append(b.instructions, i))
      /\ entered.instructions = b.instructions
  <2>1. /\ outer.active_scopes \in Seq(Scope) /\ outer.active_scopes_set \in SUBSET Nat
        /\ outer.scope_counter \in Nat /\ b.instructions \in Seq(Instr)
        /\ ScopeStack(outer.active_scopes, outer.active_scopes_set, outer.scope_counter,
                      b.instructions)
    BY <1>7 DEF Builder, ScopesOK
  <2>2. CASE i.op \in Begins
    <3>1. EnteredContext[i.op] \in Context /\ Len(b.instructions) + 1 \in Nat
      BY <2>1, <2>2, TableFacts
    <3> DEFINE g == [begin |-> Len(b.instructions) + 1, id |-> outer.scope_counter + 1,
                     context |-> EnteredContext[i.op]]
    <3>2. entered = EnterScope(outer, Len(b.instructions) + 1, EnteredContext[i.op])
      BY <1>7, <2>2
    <3> HIDE DEF entered
    <3>3. /\ entered \in Builder
          /\ entered.active_scopes = Append(outer.active_scopes, g)
          /\ entered.active_scopes_set = outer.active_scopes_set \cup {outer.scope_counter + 1}
          /\ entered.scope_counter = outer.scope_counter + 1
          /\ entered.variables = outer.variables
          /\ entered.instructions = outer.instructions
      BY <1>7, <3>1, <3>2, EnterScopeType
    <3>4. ScopeStack(Append(outer.active_scopes, g),
                     outer.active_scopes_set \cup {outer.scope_counter + 1},
                     outer.scope_counter + 1, Append(b.instructions, i))
      BY <2>1, <2>2, <3>1, PushScope
    <3> HIDE DEF g
    <3>5. ScopeStack(entered.active_scopes, entered.active_scopes_set, entered.scope_counter,
                     Append(b.instructions, i))
      BY <3>3, <3>4
    <3>6. outer.scope_counter > 0
      <4>1. 1 \in 1..Len(outer.active_scopes)
        BY <2>1 DEF ScopeStack
      <4>2. outer.active_scopes[1].id \in 1..outer.scope_counter
        BY <2>1, <4>1 DEF ScopeStack
      <4>3. QED
        BY <2>1, <4>2
    <3>7. QED
      BY <1>7, <2>1, <3>5, <3>6, <3>3
  <2>3. CASE i.op \notin Begins
    <3>1. entered = outer
      BY <2>3
    <3>2. QED
      BY <1>7, <2>1, <2>3, <3>1, PushInstruction
  <2>4. QED
    BY <2>2, <2>3
<1> HIDE DEF entered
<1>9. /\ inner \in Builder /\ VariablesOK(inner.variables)
      /\ ScopeStack(inner.active_scopes, inner.active_scopes_set, inner.scope_counter,
                    Append(inner.instructions, i))
  <2>1. Signature[i.op].inner \in Seq(VarType) /\ innerId \in Nat
    BY <1>2, <1>8, TableFacts
  <2>2. \A k \in 1..Len(Signature[i.op].inner) :
           Signature[i.op].inner[k] \in BlockType => innerId = 0 \/ innerId > 1
    <3>1. CASE i.op \in Begins \/ nop
      BY <1>8, <3>1
    <3>2. CASE i.op \notin Begins /\ ~nop
      BY <1>2, <3>2, TableFacts
    <3>3. QED
      BY <3>1, <3>2
  <2> HIDE DEF innerId
  <2>3. QED
    BY <1>8, <2>1, <2>2, DeclareType, DeclareVariablesOK
<1> HIDE DEF inner
<1>10. QED
  BY <1>1, <1>9, PushType DEF ScopesOK

(* The stack never holds an id twice, so it is as long as the set is large. *)
LEMMA FinalizeDoesNotPanic ==
  ASSUME NEW b \in Builder, ScopesOK(b)
  PROVE  FinalizeOutcome(b) # "Panic"
<1> DEFINE n == Len(b.active_scopes)
           f == [k \in 1..n |-> b.active_scopes[k].id]
<1>1. n \in Nat
  BY DEF Builder
<1>2. \A k \in 1..n : f[k] = b.active_scopes[k].id /\ f[k] \in Int
  BY DEF ScopesOK, ScopeStack
<1>3. \A k \in 1..n : \A m \in 1..(k - 1) : f[m] < f[k]
  BY <1>1, <1>2 DEF ScopesOK, ScopeStack
<1>4. b.active_scopes_set = { f[k] : k \in 1..n }
  BY <1>2 DEF ScopesOK, ScopeStack
<1> HIDE DEF n
<1>5. f \in [1..n -> b.active_scopes_set]
  BY <1>4
<1> HIDE DEF f
<1>6. \A k, m \in 1..n : f[k] = f[m] => k = m
  <2>1. SUFFICES ASSUME NEW k \in 1..n, NEW m \in 1..n, m < k
                 PROVE  f[m] # f[k]
    BY <1>1
  <2>2. m \in 1..(k - 1)
    BY <1>1, <2>1
  <2>3. QED
    BY <1>2, <1>3, <2>2
<1>7. ExistsBijection(1..n, b.active_scopes_set)
  <2>1. \A t \in b.active_scopes_set : \E k \in 1..n : f[k] = t
    BY <1>4
  <2>2. f \in Bijection(1..n, b.active_scopes_set)
    BY <1>5, <1>6, <2>1, Fun_IsBij
  <2>3. QED
    BY <2>2 DEF ExistsBijection
<1>8. Cardinality(b.active_scopes_set) = n
  <2>1. IsFiniteSet(1..n) /\ Cardinality(1..n) = n
    BY <1>1, FS_Interval, 1 \in Int
  <2>2. QED
    BY <1>7, <2>1, FS_Bijection
<1>9. QED
  BY <1>8 DEF FinalizeOutcome, n

(* A refused append leaves a builder behind too, with its scopes in order: *)
(* an end that does not match was nested, and has only left its block.     *)
LEMMA RefusedOK ==
  ASSUME NEW b \in Builder, ScopesOK(b), VariablesOK(b.variables), NEW i \in Instr
  PROVE  /\ Refused(b, i) \in Builder
         /\ ScopesOK(Refused(b, i))
         /\ Refused(b, i).variables = b.variables
<1>1. CASE Outcome(b, i) = "InvalidBlockEnd"
  <2>1. /\ i.op \in Ends
        /\ Len(i.inputs) = Len(Signature[i.op].in)
        /\ \A k \in 1..Len(i.inputs) : InScope(b, i.inputs[k])
        /\ \A k \in 1..Len(i.inputs) : b.variables[i.inputs[k]].var = Signature[i.op].in[k]
    BY <1>1 DEF Outcome
  <2>2. Len(b.active_scopes) > 1
    BY <2>1, EndIsNested
  <2>3. b.active_scopes # <<>>
    BY DEF ScopesOK, ScopeStack
  <2>4. NoteContext(b) \in Builder /\ ScopesOK(NoteContext(b))
        /\ Len(NoteContext(b).active_scopes) > 1
    BY <2>2, <2>3, NoteContextType DEF ScopesOK
  <2>5. NoteContext(b).variables = b.variables
    BY DEF NoteContext, Builder
  <2>6. QED
    BY <1>1, <2>4, <2>5, ExitScopeOK DEF Refused
<1>2. CASE Outcome(b, i) # "InvalidBlockEnd"
  BY <1>2 DEF Refused
<1>3. QED
  BY <1>1, <1>2

-----------------------------------------------------------------------------
(* What an append that returned Ok makes of the fields.                    *)
Left(scopes, i) == IF i.op \in Ends THEN SubSeq(scopes, 1, Len(scopes) - 1) ELSE scopes

Entered(scopes, counter, n, i) ==
  IF i.op \in Begins
  THEN Append(scopes, [begin |-> n, id |-> counter + 1, context |-> EnteredContext[i.op]])
  ELSE scopes

(* The variables of d are those of b and new ones of the types.            *)
HasMore(d, b, types, id) ==
  /\ Len(b.variables) \in Nat
  /\ Len(d.variables) = Len(b.variables) + Len(types)
  /\ \A v \in 1..Len(b.variables) : d.variables[v] = b.variables[v]
  /\ \A k \in 1..Len(types) :
       d.variables[Len(b.variables) + k] = [var |-> types[k], scope_id |-> id]

(* Declaring variables, one by one.                                        *)
LEMMA Declared ==
  ASSUME NEW b \in Builder, NEW types \in Seq(VarType), NEW id \in Nat
  PROVE  /\ Declare(b, types, id) \in Builder
         /\ HasMore(Declare(b, types, id), b, types, id)
         /\ Declare(b, types, id).active_scopes = b.active_scopes
         /\ Declare(b, types, id).scope_counter = b.scope_counter
         /\ Declare(b, types, id).instructions = b.instructions
<1> DEFINE new == [k \in 1..Len(types) |-> [var |-> types[k], scope_id |-> id]]
           old == b.variables
           d == Declare(b, types, id)
<1>1. new \in Seq(ScopedVariable) /\ Len(new) = Len(types)
  BY DEF ScopedVariable
<1>2. \A k \in 1..Len(types) : new[k] = [var |-> types[k], scope_id |-> id]
  OBVIOUS
<1>3. d.variables = old \o new
  BY DEF Declare, Builder
<1>4. old \in Seq(ScopedVariable)
  BY DEF Builder
<1> HIDE DEF new, old, d
<1>5. /\ Len(old \o new) = Len(old) + Len(new) /\ Len(old) \in Nat /\ Len(new) \in Nat
      /\ \A v \in 1..(Len(old) + Len(new)) :
            (old \o new)[v] = IF v <= Len(old) THEN old[v] ELSE new[v - Len(old)]
  <2>1. Len(old) \in Nat /\ Len(new) \in Nat
    BY <1>1, <1>4
  <2>2. QED
    BY <1>1, <1>4, <2>1, ConcatProperties
<1>6. \A v \in 1..Len(old) : (old \o new)[v] = old[v]
  BY <1>5
<1>7. ASSUME NEW k \in 1..Len(types)
      PROVE  (old \o new)[Len(old) + k] = new[k]
  <2>1. Len(old) + k \in 1..(Len(old) + Len(new)) /\ ~ (Len(old) + k <= Len(old))
        /\ (Len(old) + k) - Len(old) = k
    BY <1>1, <1>5
  <2>2. QED
    BY <1>5, <2>1
<1>9. /\ d \in Builder /\ d.active_scopes = b.active_scopes /\ d.scope_counter = b.scope_counter
      /\ d.instructions = b.instructions
  BY DeclareType DEF d
<1>10. HasMore(d, b, types, id)
  BY <1>1, <1>2, <1>3, <1>5, <1>6, <1>7 DEF old, HasMore
<1>11. QED
  BY <1>9, <1>10 DEF d

(* The current scope is where the outputs go, and the inner outputs too:   *)
(* an instruction with inner outputs is a begin, or a Nop.                 *)
LEMMA AppendedFields ==
  ASSUME NEW b \in Builder, ScopesOK(b), NEW i \in Instr,
         i.op \in Ends => Len(b.active_scopes) > 1
  PROVE  LET a == Appended(b, i)
             id == IF i.op \in NopOp THEN 0 ELSE CurrentScope(a).id
         IN  /\ a.instructions = Append(b.instructions, i)
             /\ a.active_scopes = Entered(Left(b.active_scopes, i), b.scope_counter,
                                          Len(b.instructions) + 1, i)
             /\ a.scope_counter = b.scope_counter + (IF i.op \in Begins THEN 1 ELSE 0)
             /\ HasMore(a, b, Created(i), id)
<1> DEFINE nop == i.op \in NopOp
           noted == NoteContext(b)
           exited == IF i.op \in Ends THEN ExitScope(noted) ELSE noted
           outerId == IF nop THEN 0 ELSE CurrentScope(exited).id
           out == Signature[i.op].out
           outer == Declare(exited, out, outerId)
           entered == IF i.op \in Begins
                      THEN EnterScope(outer, Len(outer.instructions) + 1, EnteredContext[i.op])
                      ELSE outer
           innerId == IF nop THEN 0 ELSE entered.scope_counter
           in == Signature[i.op].inner
           inner == Declare(entered, in, innerId)
           pushed == [inner EXCEPT !.instructions = Append(@, i)]
           n == Len(b.variables)
           id == IF i.op \in NopOp THEN 0 ELSE CurrentScope(pushed).id
<1>1. Appended(b, i) = pushed
  BY DEF Appended
<1>2. /\ i.op \in Op /\ out \in Seq(VarType) /\ in \in Seq(VarType)
      /\ i.op \in Begins => out = <<>> /\ ~ nop /\ i.op \notin Ends
      /\ i.op \notin Begins /\ ~ nop => in = <<>>
  BY IRAssumption DEF Instr
<1>3. /\ noted \in Builder /\ ScopesOK(noted) /\ noted.active_scopes = b.active_scopes
      /\ noted.scope_counter = b.scope_counter
      /\ noted.instructions = b.instructions /\ noted.variables = b.variables
  <2>1. b.active_scopes # <<>>
    BY DEF ScopesOK, ScopeStack
  <2>2. QED
    BY <2>1, NoteContextType DEF ScopesOK
<1>4. /\ exited \in Builder /\ ScopesOK(exited) /\ exited.active_scopes # <<>>
      /\ exited.active_scopes = Left(b.active_scopes, i)
      /\ exited.scope_counter = b.scope_counter
      /\ exited.instructions = b.instructions /\ exited.variables = b.variables
  <2> HIDE DEF noted
  <2>1. CASE i.op \in Ends
    <3>1. ExitScope(noted).active_scopes = SubSeq(b.active_scopes, 1, Len(b.active_scopes) - 1)
      BY <1>3 DEF ExitScope, Builder
    <3>2. QED
      BY <1>3, <2>1, <3>1, ExitScopeOK DEF Left
  <2>2. CASE i.op \notin Ends
    BY <1>3, <2>2 DEF Left, ScopesOK, ScopeStack
  <2>3. QED
    BY <2>1, <2>2
<1> HIDE DEF noted, exited
<1>5. CurrentScope(exited).id \in Nat \ {0} /\ outerId \in Nat
  <2>1. Len(exited.active_scopes) \in 1..Len(exited.active_scopes)
    BY <1>4 DEF Builder
  <2>2. CurrentScope(exited).id \in 1..exited.scope_counter /\ exited.scope_counter \in Nat
    BY <1>4, <2>1 DEF CurrentScope, ScopesOK, ScopeStack, Builder
  <2>3. QED
    BY <2>2
<1>20. outer = Declare(exited, out, outerId)
  OBVIOUS
<1>6. /\ outer \in Builder /\ outer.active_scopes = exited.active_scopes
      /\ outer.scope_counter = b.scope_counter /\ outer.instructions = b.instructions
      /\ HasMore(outer, b, out, outerId)
  <2> HIDE DEF outerId, out, outer
  <2>1. /\ outer \in Builder /\ outer.active_scopes = exited.active_scopes
        /\ outer.scope_counter = exited.scope_counter /\ outer.instructions = exited.instructions
        /\ HasMore(outer, exited, out, outerId)
    BY <1>2, <1>4, <1>5, <1>20, Declared
  <2>2. QED
    BY <1>4, <2>1 DEF HasMore
<1> HIDE DEF outer
<1>7. /\ entered \in Builder /\ entered.variables = outer.variables
      /\ entered.instructions = b.instructions
      /\ entered.active_scopes =
           Entered(exited.active_scopes, b.scope_counter, Len(b.instructions) + 1, i)
      /\ entered.scope_counter = b.scope_counter + (IF i.op \in Begins THEN 1 ELSE 0)
      /\ i.op \in Begins => CurrentScope(entered).id = entered.scope_counter
      /\ i.op \notin Begins => CurrentScope(entered).id = CurrentScope(exited).id
  <2>1. CASE i.op \in Begins
    <3> DEFINE g == [begin |-> Len(b.instructions) + 1, id |-> b.scope_counter + 1,
                     context |-> EnteredContext[i.op]]
    <3>1. EnteredContext[i.op] \in Context /\ Len(b.instructions) + 1 \in Nat
      BY <2>1, TableFacts DEF Builder
    <3>2. entered = EnterScope(outer, Len(b.instructions) + 1, EnteredContext[i.op])
      BY <1>6, <2>1
    <3>3. /\ entered \in Builder /\ entered.active_scopes = Append(outer.active_scopes, g)
          /\ entered.scope_counter = b.scope_counter + 1
          /\ entered.variables = outer.variables
          /\ entered.instructions = b.instructions
      <4> HIDE DEF entered, g
      <4>1. /\ entered \in Builder
            /\ entered.scope_counter = outer.scope_counter + 1
            /\ entered.variables = outer.variables
            /\ entered.instructions = outer.instructions
        BY <1>6, <3>1, <3>2, EnterScopeType
      <4>2. entered.active_scopes = Append(outer.active_scopes, g)
        BY <1>6, <3>1, <3>2 DEF EnterScope, Builder, g
      <4>3. QED
        BY <1>6, <4>1, <4>2
    <3> HIDE DEF entered
    <3>4. CurrentScope(entered) = g
      <4>1. outer.active_scopes \in Seq(Scope) /\ g \in Scope
        BY <1>6, <3>1 DEF Builder, Scope
      <4> HIDE DEF g
      <4>2. QED
        BY <3>3, <4>1 DEF CurrentScope
    <3>5. QED
      BY <1>6, <2>1, <3>3, <3>4 DEF Entered
  <2>2. CASE i.op \notin Begins
    <3>1. entered = outer /\ b.scope_counter + 0 = b.scope_counter
      BY <2>2 DEF Builder
    <3>2. QED
      BY <1>6, <2>2, <3>1 DEF Entered, CurrentScope
  <2>3. QED
    BY <2>1, <2>2
<1> HIDE DEF entered
<1>8. innerId \in Nat
  BY <1>7 DEF Builder
<1>21. inner = Declare(entered, in, innerId)
  OBVIOUS
<1>9. /\ inner \in Builder /\ inner.active_scopes = entered.active_scopes
      /\ inner.scope_counter = entered.scope_counter /\ inner.instructions = b.instructions
      /\ HasMore(inner, outer, in, innerId)
  <2> HIDE DEF innerId, in, inner
  <2>1. /\ inner \in Builder /\ inner.active_scopes = entered.active_scopes
        /\ inner.scope_counter = entered.scope_counter
        /\ inner.instructions = entered.instructions
        /\ HasMore(inner, entered, in, innerId)
    BY <1>2, <1>7, <1>8, <1>21, Declared
  <2>2. QED
    BY <1>7, <2>1 DEF HasMore
<1> HIDE DEF inner
<1>10. /\ pushed.active_scopes = inner.active_scopes /\ pushed.variables = inner.variables
       /\ pushed.scope_counter = inner.scope_counter
       /\ pushed.instructions = Append(b.instructions, i)
  BY <1>9, PushType
<1> HIDE DEF pushed
<1>11. CurrentScope(pushed).id = CurrentScope(entered).id
  BY <1>9, <1>10 DEF CurrentScope
<1>12. /\ Len(Created(i)) = Len(out) + Len(in) /\ Len(out) \in Nat /\ Len(in) \in Nat
       /\ \A k \in 1..Len(out) : Created(i)[k] = out[k]
       /\ \A k \in 1..Len(in) : Created(i)[Len(out) + k] = in[k]
  <2>1. Created(i) = out \o in
    BY DEF Created
  <2> HIDE DEF out, in
  <2>2. QED
    BY <1>2, <2>1
<1>13. n \in Nat /\ Len(outer.variables) = n + Len(out)
  BY <1>6 DEF HasMore
<1>14. ASSUME NEW v \in 1..n
       PROVE  pushed.variables[v] = b.variables[v]
  <2>1. v \in 1..Len(outer.variables)
    <3> HIDE DEF n, out
    <3>1. QED
      BY <1>12, <1>13
  <2>2. inner.variables[v] = outer.variables[v]
    BY <1>9, <2>1 DEF HasMore
  <2>3. outer.variables[v] = b.variables[v]
    <3>1. v \in 1..Len(b.variables)
      OBVIOUS
    <3> HIDE DEF n
    <3>2. QED
      BY <1>6, <3>1 DEF HasMore
  <2>4. QED
    BY <1>10, <2>2, <2>3
<1>15. ASSUME NEW k \in 1..Len(Created(i))
       PROVE  pushed.variables[n + k] = [var |-> Created(i)[k], scope_id |-> id]
  <2>1. CASE k \in 1..Len(out)
    <3>1. n + k \in 1..Len(outer.variables)
      <4> HIDE DEF n
      <4>1. QED
        BY <1>12, <1>13, <2>1
    <3>2. i.op \notin Begins
      BY <1>2, <2>1
    <3>3. outerId = id
      BY <1>7, <1>11, <3>2
    <3>4. outer.variables[n + k] = [var |-> out[k], scope_id |-> outerId]
      BY <1>6, <2>1 DEF HasMore
    <3>5. inner.variables[n + k] = outer.variables[n + k]
      BY <1>9, <3>1 DEF HasMore
    <3> HIDE DEF n, id, outerId
    <3>6. QED
      BY <1>10, <1>12, <2>1, <3>3, <3>4, <3>5
  <2>2. CASE k \notin 1..Len(out)
    <3> DEFINE j == k - Len(out)
    <3>1. j \in 1..Len(in) /\ Len(out) + j = k /\ Len(outer.variables) + j = n + k
      <4> HIDE DEF n, out, in
      <4>1. QED
        BY <1>12, <1>13, <2>2
    <3>2. i.op \in Begins \/ nop
      BY <1>2, <3>1
    <3>3. innerId = id
      BY <1>7, <1>11, <3>2
    <3> HIDE DEF j
    <3>4. inner.variables[Len(outer.variables) + j] = [var |-> in[j], scope_id |-> innerId]
      BY <1>9, <3>1 DEF HasMore
    <3> HIDE DEF n, id, innerId
    <3>5. QED
      BY <1>10, <1>12, <3>1, <3>3, <3>4
  <2>3. QED
    BY <2>1, <2>2
<1>16. Len(pushed.variables) = n + Len(Created(i))
  <2>1. Len(pushed.variables) = Len(outer.variables) + Len(in)
    BY <1>9, <1>10 DEF HasMore
  <2> HIDE DEF n, out, in
  <2>2. QED
    BY <1>12, <1>13, <2>1
<1>17. HasMore(pushed, b, Created(i), id)
  BY <1>13, <1>14, <1>15, <1>16 DEF HasMore
<1>18. QED
  BY <1>1, <1>4, <1>7, <1>9, <1>10, <1>17

-----------------------------------------------------------------------------
(* The lookups of the prefixes of a program.                               *)
Solves(l, p) ==
  l = [n \in 0..Len(p) |-> IF n = 0 THEN NewLookup ELSE LookupStep(l[n - 1], p[n])]

(* The recursion has exactly one solution, and it ends in x.               *)
Defines(p, x) ==
  \E l : /\ Solves(l, p) /\ l[Len(p)] = x
         /\ \A m : Solves(m, p) => m = l

(* What the lookup keeps of a builder.                                     *)
Ids(scopes) == [k \in 1..Len(scopes) |-> scopes[k].id]

Trace(b) == [ variables |-> b.variables, active_scopes |-> Ids(b.active_scopes),
              active_scopes_set |-> b.active_scopes_set, scope_counter |-> b.scope_counter ]

-----------------------------------------------------------------------------
(* The function in Lookup is a solution, if there is one.                  *)
LEMMA DefinesLookup ==
  ASSUME NEW p, NEW x, Defines(p, x)
  PROVE  Lookup(p) = x
<1>1. Lookup(p) = (CHOOSE l : Solves(l, p))[Len(p)]
  BY DEF Lookup, Solves
<1>2. PICK l : /\ Solves(l, p) /\ l[Len(p)] = x
               /\ \A m : Solves(m, p) => m = l
  BY DEF Defines
<1>3. Solves(CHOOSE m : Solves(m, p), p)
  BY <1>2
<1>4. (CHOOSE m : Solves(m, p)) = l
  BY <1>2, <1>3
<1>5. QED
  BY <1>1, <1>2, <1>4

(* The empty program.                                                      *)
LEMMA DefinesNothing == Defines(<<>>, NewLookup)
<1> DEFINE l == [n \in {0} |-> NewLookup]
<1>1. \A m : Solves(m, <<>>) <=> m = l
  <2>1. 0..Len(<<>>) = {0}
    OBVIOUS
  <2>2. \A m : [n \in {0} |-> IF n = 0 THEN NewLookup ELSE LookupStep(m[n - 1], <<>>[n])] = l
    OBVIOUS
  <2> HIDE DEF l
  <2>3. QED
    BY <2>1, <2>2 DEF Solves
<1>2. l[Len(<<>>)] = NewLookup
  OBVIOUS
<1> HIDE DEF l
<1>3. QED
  BY <1>1, <1>2 DEF Defines

(* The lookup of the empty program is that of a new builder.               *)
LEMMA NewTrace == Trace(NewBuilder) = NewLookup
<1> DEFINE g == [begin |-> 0, id |-> 1, context |-> Global]
           t == Append(<<>>, g)
<1>1. /\ NewBuilder.active_scopes = t /\ NewBuilder.active_scopes_set = {1}
      /\ NewBuilder.scope_counter = 1 /\ NewBuilder.variables = <<>>
  BY DEF NewBuilder, EnterScope
<1>2. g \in Scope /\ g.id = 1
  BY IRAssumption DEF Scope
<1> HIDE DEF g
<1>3. Len(t) = 1 /\ t[1] = g
  BY <1>2
<1> HIDE DEF t
<1>4. Ids(t) = <<1>>
  <2>1. Ids(t) = [k \in 1..1 |-> t[k].id]
    BY <1>3 DEF Ids
  <2>2. \A k \in 1..1 : t[k].id = 1
    BY <1>2, <1>3
  <2>3. QED
    BY <2>1, <2>2
<1>5. QED
  BY <1>1, <1>4 DEF Trace, NewLookup

(* One more instruction is one more step.                                  *)
LEMMA DefinesStep ==
  ASSUME NEW p \in Seq(Instr), NEW i \in Instr, NEW x, Defines(p, x)
  PROVE  Defines(Append(p, i), LookupStep(x, i))
<1> DEFINE q == Append(p, i)
           n == Len(p)
<1>1. /\ n \in Nat /\ Len(q) = n + 1 /\ q[n + 1] = i /\ \A k \in 1..n : q[k] = p[k]
  OBVIOUS
<1> HIDE DEF q
<1>2. PICK l : /\ Solves(l, p) /\ l[n] = x
               /\ \A m : Solves(m, p) => m = l
  BY DEF Defines
<1>3. n = Len(p)
  OBVIOUS
<1> HIDE DEF n
<1> DEFINE e == [k \in 0..(n + 1) |-> IF k = n + 1 THEN LookupStep(x, i) ELSE l[k]]
<1>4. /\ DOMAIN l = 0..n
      /\ \A k \in 0..n : l[k] = IF k = 0 THEN NewLookup ELSE LookupStep(l[k - 1], p[k])
  BY <1>2, <1>3 DEF Solves
<1>5. Solves(e, q)
  <2>1. \A k \in 0..n : e[k] = l[k]
    BY <1>1
  <2>2. e[n + 1] = LookupStep(x, i)
    BY <1>1
  <2>3. ASSUME NEW k \in 0..(n + 1)
        PROVE  e[k] = IF k = 0 THEN NewLookup ELSE LookupStep(e[k - 1], q[k])
    <3>1. CASE k = n + 1
      <4>1. k # 0 /\ k - 1 = n /\ n \in 0..n /\ q[k] = i
        BY <1>1, <3>1
      <4> HIDE DEF e
      <4>2. e[k - 1] = x
        BY <1>2, <2>1, <4>1
      <4>3. QED
        BY <2>2, <3>1, <4>1, <4>2
    <3>2. CASE k # n + 1
      <4>1. k \in 0..n /\ (k # 0 => k - 1 \in 0..n /\ k \in 1..n)
        BY <1>1, <3>2
      <4> HIDE DEF e
      <4>2. QED
        BY <1>1, <1>4, <2>1, <4>1
    <3>3. QED
      BY <3>1, <3>2
  <2>4. e = [k \in 0..(n + 1) |-> e[k]]
    OBVIOUS
  <2> HIDE DEF e
  <2>5. QED
    BY <1>1, <2>3, <2>4 DEF Solves
<1>6. ASSUME NEW m, Solves(m, q)
      PROVE  m = e
  <2>1. /\ m = [k \in 0..(n + 1) |-> m[k]]
        /\ \A k \in 0..(n + 1) : m[k] = IF k = 0 THEN NewLookup ELSE LookupStep(m[k - 1], q[k])
    BY <1>1, <1>6 DEF Solves
  <2> DEFINE r == [k \in 0..n |-> m[k]]
  <2>2. ASSUME NEW k \in 0..n
        PROVE  r[k] = IF k = 0 THEN NewLookup ELSE LookupStep(r[k - 1], p[k])
    <3>1. k \in 0..(n + 1) /\ (k # 0 => k - 1 \in 0..n /\ k \in 1..n)
      BY <1>1
    <3>2. r[k] = m[k] /\ (k # 0 => r[k - 1] = m[k - 1] /\ q[k] = p[k])
      BY <1>1, <3>1
    <3> HIDE DEF r
    <3>3. QED
      BY <2>1, <3>1, <3>2
  <2>3. Solves(r, p)
    <3>1. r = [k \in 0..n |-> r[k]]
      OBVIOUS
    <3> HIDE DEF r
    <3>2. QED
      BY <1>3, <2>2, <3>1 DEF Solves
  <2>4. r = l
    BY <1>2, <2>3
  <2>5. \A k \in 0..n : m[k] = l[k]
    BY <2>4
  <2>6. m[n + 1] = LookupStep(x, i)
    <3>1. n + 1 \in 0..(n + 1) /\ n + 1 # 0 /\ (n + 1) - 1 = n /\ n \in 0..n
      BY <1>1
    <3>2. m[n + 1] = LookupStep(m[n], q[n + 1])
      BY <2>1, <3>1
    <3>3. QED
      BY <1>1, <1>2, <2>5, <3>1, <3>2
  <2>7. \A k \in 0..(n + 1) : m[k] = IF k = n + 1 THEN LookupStep(x, i) ELSE l[k]
    BY <1>1, <2>5, <2>6
  <2>8. QED
    BY <2>1, <2>7
<1>7. e[Len(q)] = LookupStep(x, i)
  BY <1>1
<1> HIDE DEF e
<1>8. Defines(q, LookupStep(x, i))
  BY <1>5, <1>6, <1>7 DEF Defines
<1>9. QED
  BY <1>8 DEF q

(* The ids of the stack, popped and pushed.                                *)
LEMMA IdsStep ==
  ASSUME NEW scopes \in Seq(Scope), scopes # <<>>
  PROVE  /\ Ids(scopes) \in Seq(Nat) /\ Len(Ids(scopes)) = Len(scopes)
         /\ Len(scopes) \in Nat \ {0}
         /\ \A k \in 1..Len(scopes) : Ids(scopes)[k] = scopes[k].id
         /\ Ids(SubSeq(scopes, 1, Len(scopes) - 1)) = SubSeq(Ids(scopes), 1, Len(scopes) - 1)
         /\ \A g \in Scope : Ids(Append(scopes, g)) = Append(Ids(scopes), g.id)
<1> DEFINE ids == Ids(scopes)
           n == Len(scopes)
<1>1. n \in Nat /\ n # 0
  OBVIOUS
<1>2. \A k \in 1..n : scopes[k] \in Scope
  OBVIOUS
<1>3. \A k \in 1..n : scopes[k].id \in Nat
  BY <1>2 DEF Scope
<1>4. ids = [k \in 1..n |-> scopes[k].id]
  BY DEF Ids
<1> HIDE DEF ids
<1>5. ids \in Seq(Nat) /\ Len(ids) = n /\ \A k \in 1..n : ids[k] = scopes[k].id
  <2> HIDE DEF n
  <2>1. QED
    BY <1>1, <1>3, <1>4
<1>6. Ids(SubSeq(scopes, 1, n - 1)) = SubSeq(ids, 1, n - 1)
  <2> DEFINE s == SubSeq(scopes, 1, n - 1)
             t == SubSeq(ids, 1, n - 1)
             m == n - 1
  <2>1. m \in Nat /\ m <= n
    <3> HIDE DEF n
    <3>1. QED
      BY <1>1
  <2>2. s \in Seq(Scope) /\ Len(s) = m /\ \A k \in 1..m : s[k] = scopes[k]
    <3>1. \A k \in 1..m : scopes[k] \in Scope
      BY <1>1, <1>2, <2>1
    <3> HIDE DEF m, n
    <3>2. s = SubSeq(scopes, 1, m)
      BY DEF m
    <3> HIDE DEF s
    <3>3. QED
      BY <2>1, <3>1, <3>2, SubSeqProperties
  <2>3. t \in Seq(Nat) /\ Len(t) = m /\ \A k \in 1..m : t[k] = ids[k]
    <3>1. \A k \in 1..m : ids[k] \in Nat
      BY <1>1, <1>3, <1>5, <2>1
    <3> HIDE DEF m, n
    <3>2. t = SubSeq(ids, 1, m)
      BY DEF m
    <3> HIDE DEF t
    <3>3. QED
      BY <2>1, <3>1, <3>2, SubSeqProperties
  <2>4. \A k \in 1..m : k \in 1..n
    <3> HIDE DEF n
    <3>1. QED
      BY <1>1
  <2> HIDE DEF s, t, m, n
  <2>5. Ids(s) = [k \in 1..m |-> s[k].id]
    BY <2>2 DEF Ids
  <2>6. \A k \in 1..m : s[k].id = t[k]
    BY <1>5, <2>2, <2>3, <2>4
  <2>7. t = [k \in 1..m |-> t[k]]
    BY <2>3, LenProperties
  <2>8. Ids(s) = t
    BY <2>5, <2>6, <2>7
  <2>9. QED
    BY <2>8 DEF s, t
<1>7. ASSUME NEW g \in Scope
      PROVE  Ids(Append(scopes, g)) = Append(ids, g.id)
  <2> DEFINE s == Append(scopes, g)
             t == Append(ids, g.id)
  <2>1. g.id \in Nat
    BY DEF Scope
  <2>2. Len(s) = n + 1 /\ s[n + 1] = g /\ \A k \in 1..n : s[k] = scopes[k]
    OBVIOUS
  <2>3. t \in Seq(Nat) /\ Len(t) = n + 1 /\ t[n + 1] = g.id /\ \A k \in 1..n : t[k] = ids[k]
    BY <1>5, <2>1
  <2> HIDE DEF s, t, n
  <2>4. Ids(s) = [k \in 1..(n + 1) |-> s[k].id]
    BY <2>2 DEF Ids
  <2>5. \A k \in 1..(n + 1) : k \in 1..n \/ k = n + 1
    BY <1>1
  <2>6. \A k \in 1..(n + 1) : s[k].id = t[k]
    BY <1>5, <2>2, <2>3, <2>5
  <2>7. t = [k \in 1..(n + 1) |-> t[k]]
    BY <2>3, LenProperties
  <2>8. Ids(s) = t
    BY <2>4, <2>6, <2>7
  <2>9. QED
    BY <2>8 DEF s, t
<1>8. n \in Nat \ {0}
  BY <1>1
<1>9. QED
  BY <1>5, <1>6, <1>7, <1>8 DEF ids, n

(* One step of the lookup does what an append does.                        *)
LEMMA LookupStepIsAppended ==
  ASSUME NEW b \in Builder, ScopesOK(b), NEW i \in Instr,
         i.op \in Ends => Len(b.active_scopes) > 1
  PROVE  LookupStep(Trace(b), i) = Trace(Appended(b, i))
<1> DEFINE nop == i.op \in NopOp
           noted == NoteContext(b)
           exited == IF i.op \in Ends THEN ExitScope(noted) ELSE noted
           outerId == IF nop THEN 0 ELSE CurrentScope(exited).id
           out == Signature[i.op].out
           outer == Declare(exited, out, outerId)
           entered == IF i.op \in Begins
                      THEN EnterScope(outer, Len(outer.instructions) + 1, EnteredContext[i.op])
                      ELSE outer
           innerId == IF nop THEN 0 ELSE entered.scope_counter
           in == Signature[i.op].inner
           inner == Declare(entered, in, innerId)
           pushed == [inner EXCEPT !.instructions = Append(@, i)]
           l == Trace(b)
           n == Len(l.active_scopes)
           exits == i.op \in Ends /\ n > 0
           scopes == IF exits THEN SubSeq(l.active_scopes, 1, n - 1) ELSE l.active_scopes
           active == IF exits THEN l.active_scopes_set \ {l.active_scopes[n]}
                              ELSE l.active_scopes_set
           here == IF scopes = <<>> THEN 1 ELSE scopes[Len(scopes)]
           id == l.scope_counter + 1
           opened == i.op \in Begins
           louter == Declare(l, out, IF nop THEN 0 ELSE here)
           linner == Declare(louter, in, IF nop THEN 0 ELSE IF opened THEN id ELSE l.scope_counter)
<1>1. Appended(b, i) = pushed
  BY DEF Appended
<1>2. LookupStep(l, i) =
        [ variables         |-> linner.variables,
          active_scopes     |-> IF opened THEN Append(scopes, id) ELSE scopes,
          active_scopes_set |-> IF opened THEN active \cup {id} ELSE active,
          scope_counter     |-> IF opened THEN id ELSE l.scope_counter ]
  BY DEF LookupStep
<1>3. i.op \in Op /\ out \in Seq(VarType) /\ in \in Seq(VarType)
  BY IRAssumption DEF Instr
<1>4. /\ noted \in Builder /\ ScopesOK(noted) /\ noted.active_scopes = b.active_scopes
      /\ noted.active_scopes_set = b.active_scopes_set
      /\ noted.scope_counter = b.scope_counter /\ noted.variables = b.variables
  <2>1. b.active_scopes # <<>>
    BY DEF ScopesOK, ScopeStack
  <2>2. QED
    BY <2>1, NoteContextType DEF ScopesOK
<1>5. /\ l.variables = b.variables /\ l.active_scopes = Ids(b.active_scopes)
      /\ l.active_scopes_set = b.active_scopes_set /\ l.scope_counter = b.scope_counter
  BY DEF Trace
<1>6. /\ b.active_scopes \in Seq(Scope) /\ b.active_scopes # <<>> /\ b.scope_counter \in Nat
      /\ n = Len(b.active_scopes) /\ n \in Nat /\ n # 0
      /\ l.active_scopes[n] = b.active_scopes[n].id
  <2>1. b.active_scopes \in Seq(Scope) /\ b.active_scopes # <<>> /\ b.scope_counter \in Nat
    BY DEF ScopesOK, ScopeStack, Builder
  <2>2. n = Len(b.active_scopes) /\ n \in Nat /\ n # 0
    BY <1>5, <2>1, IdsStep
  <2>3. n \in 1..Len(b.active_scopes)
    BY <2>2
  <2>4. QED
    BY <1>5, <2>1, <2>2, <2>3, IdsStep
<1> HIDE DEF noted, n, l
<1>7. /\ exited \in Builder /\ ScopesOK(exited) /\ exited.variables = b.variables
      /\ exited.scope_counter = b.scope_counter
      /\ Ids(exited.active_scopes) = scopes /\ exited.active_scopes_set = active
      /\ exited.active_scopes # <<>>
  <2>1. CASE i.op \in Ends
    <3>1. exits /\ exited = ExitScope(noted)
      BY <1>6, <2>1
    <3>2. /\ ExitScope(noted).active_scopes = SubSeq(b.active_scopes, 1, n - 1)
          /\ ExitScope(noted).active_scopes_set = b.active_scopes_set \ {b.active_scopes[n].id}
      BY <1>4, <1>6 DEF ExitScope, CurrentScope, Builder
    <3>3. Ids(SubSeq(b.active_scopes, 1, n - 1)) = SubSeq(l.active_scopes, 1, n - 1)
      BY <1>5, <1>6, IdsStep
    <3>4. /\ ExitScope(noted) \in Builder /\ ScopesOK(ExitScope(noted))
          /\ ExitScope(noted).variables = b.variables
          /\ ExitScope(noted).scope_counter = b.scope_counter
          /\ ExitScope(noted).active_scopes # <<>>
      BY <1>4, <2>1, ExitScopeOK
    <3>5. QED
      BY <1>5, <1>6, <3>1, <3>2, <3>3, <3>4
  <2>2. CASE i.op \notin Ends
    BY <1>4, <1>5, <1>6, <2>2
  <2>3. QED
    BY <2>1, <2>2
<1> HIDE DEF exited, scopes, active
<1>8. here = CurrentScope(exited).id /\ CurrentScope(exited).id \in Nat
  <2>1. exited.active_scopes \in Seq(Scope)
    BY <1>7 DEF Builder
  <2>2. /\ scopes \in Seq(Nat) /\ Len(scopes) = Len(exited.active_scopes)
        /\ Len(exited.active_scopes) \in Nat \ {0}
        /\ \A k \in 1..Len(exited.active_scopes) : scopes[k] = exited.active_scopes[k].id
    BY <1>7, <2>1, IdsStep
  <2>3. Len(scopes) \in 1..Len(exited.active_scopes) /\ scopes # <<>>
    BY <2>2
  <2>4. here = scopes[Len(scopes)] /\ scopes[Len(scopes)] \in Nat
    BY <2>2, <2>3
  <2>5. scopes[Len(scopes)] = exited.active_scopes[Len(exited.active_scopes)].id
    BY <2>2, <2>3
  <2>6. QED
    BY <2>4, <2>5 DEF CurrentScope
<1> HIDE DEF here
<1>9. outerId = (IF nop THEN 0 ELSE here) /\ outerId \in Nat
  BY <1>8
<1>10. /\ outer \in Builder /\ outer.active_scopes = exited.active_scopes
       /\ outer.active_scopes_set = active /\ outer.scope_counter = b.scope_counter
       /\ outer.variables = louter.variables
  <2>1. louter = Declare(l, out, outerId)
    BY <1>9
  <2> HIDE DEF outerId, out
  <2>2. louter.variables = outer.variables
    BY <1>5, <1>7, <2>1 DEF Declare, Builder, Trace, l
  <2>3. /\ outer \in Builder /\ outer.active_scopes = exited.active_scopes
        /\ outer.active_scopes_set = exited.active_scopes_set
        /\ outer.scope_counter = exited.scope_counter
    BY <1>3, <1>7, <1>9, DeclareType DEF out
  <2>4. QED
    BY <1>7, <2>2, <2>3
<1> HIDE DEF outer
<1>11. /\ entered \in Builder /\ entered.variables = outer.variables
       /\ Ids(entered.active_scopes) = IF opened THEN Append(scopes, id) ELSE scopes
       /\ entered.active_scopes_set = IF opened THEN active \cup {id} ELSE active
       /\ entered.scope_counter = IF opened THEN id ELSE l.scope_counter
  <2>1. CASE i.op \in Begins
    <3> DEFINE begin == Len(outer.instructions) + 1
               context == EnteredContext[i.op]
               g == [begin |-> begin, id |-> outer.scope_counter + 1, context |-> context]
    <3>1. context \in Context /\ begin \in Nat
      BY <1>10, <2>1, TableFacts DEF Builder
    <3>2. entered = EnterScope(outer, begin, context)
      BY <2>1
    <3>3. g \in Scope /\ g.id = id
      BY <1>5, <1>6, <1>10, <3>1 DEF Scope
    <3> HIDE DEF entered, begin, context
    <3>4. /\ entered \in Builder
          /\ entered.active_scopes = Append(outer.active_scopes, g)
          /\ entered.active_scopes_set = outer.active_scopes_set \cup {outer.scope_counter + 1}
          /\ entered.scope_counter = outer.scope_counter + 1
          /\ entered.variables = outer.variables
      BY <1>10, <3>1, <3>2, EnterScopeType
    <3> HIDE DEF g
    <3>5. Ids(Append(exited.active_scopes, g)) = Append(Ids(exited.active_scopes), g.id)
      <4>1. exited.active_scopes \in Seq(Scope) /\ exited.active_scopes # <<>>
        BY <1>7 DEF Builder
      <4>2. QED
        BY <3>3, <4>1, IdsStep
    <3>6. QED
      BY <1>5, <1>7, <1>10, <2>1, <3>3, <3>4, <3>5
  <2>2. CASE i.op \notin Begins
    BY <1>5, <1>7, <1>10, <2>2
  <2>3. QED
    BY <2>1, <2>2
<1> HIDE DEF entered, louter
<1>12. innerId = (IF nop THEN 0 ELSE IF opened THEN id ELSE l.scope_counter) /\ innerId \in Nat
  BY <1>5, <1>6, <1>11
<1>13. /\ inner \in Builder /\ inner.active_scopes = entered.active_scopes
       /\ inner.active_scopes_set = entered.active_scopes_set
       /\ inner.scope_counter = entered.scope_counter
       /\ inner.variables = linner.variables
  <2>1. linner = Declare(louter, in, innerId)
    BY <1>12
  <2> DEFINE new == [k \in 1..Len(in) |-> [var |-> in[k], scope_id |-> innerId]]
  <2>10. Declare(louter, in, innerId).variables = louter.variables \o new
    <3>1. "variables" \in DOMAIN l
      BY DEF Trace, l
    <3>2. DOMAIN louter = DOMAIN l
      BY DEF Declare, louter
    <3> HIDE DEF in, innerId
    <3>3. QED
      BY <3>1, <3>2 DEF Declare
  <2>11. inner.variables = entered.variables \o new
    <3> HIDE DEF in, innerId
    <3>1. QED
      BY <1>11 DEF Declare, Builder, inner
  <2> HIDE DEF innerId, in, new
  <2>2. linner.variables = inner.variables
    BY <1>10, <1>11, <2>1, <2>10, <2>11
  <2>3. /\ inner \in Builder /\ inner.active_scopes = entered.active_scopes
        /\ inner.active_scopes_set = entered.active_scopes_set
        /\ inner.scope_counter = entered.scope_counter
    BY <1>3, <1>11, <1>12, DeclareType DEF in
  <2>4. QED
    BY <2>2, <2>3
<1> HIDE DEF inner, linner
<1>14. /\ pushed.active_scopes = inner.active_scopes /\ pushed.variables = inner.variables
       /\ pushed.active_scopes_set = inner.active_scopes_set
       /\ pushed.scope_counter = inner.scope_counter
  BY <1>13, PushType
<1> HIDE DEF pushed, id, opened
<1>15. Trace(pushed) = LookupStep(l, i)
  BY <1>2, <1>11, <1>13, <1>14 DEF Trace
<1>16. QED
  BY <1>1, <1>15 DEF l


-----------------------------------------------------------------------------
(* The builders whose bookkeeping is sound: all that appends can make of a *)
(* new one.                                                                *)
Sound == { b \in Builder : ScopesOK(b) /\ VariablesOK(b.variables) }

Errors == { "InvalidNumberOfInputs", "VariableNotDefined", "InvalidVariableType",
            "InvalidArgument", "InvalidBlockEnd" }

(* What append_all has returned so far.                                    *)
Run == [result : {"Ok"}, builder : Sound] \cup [result : Errors, builder : Builder]

AfterStep(r, i) ==
  IF r.result # "Ok" THEN r ELSE AppendReturning(Outcome(r.builder, i), r.builder, i)

(* One more instruction on a sound builder: accepted or refused.           *)
LEMMA RunStep ==
  ASSUME NEW r \in Run, NEW i \in Instr
  PROVE  AfterStep(r, i) \in Run
<1>1. CASE r.result # "Ok"
  BY <1>1 DEF AfterStep
<1>2. CASE r.result = "Ok"
  <2> DEFINE b == r.builder
             o == Outcome(b, i)
  <2>1. b \in Builder /\ ScopesOK(b) /\ VariablesOK(b.variables)
    BY <1>2 DEF Run, Sound, Errors
  <2>2. AfterStep(r, i) = AppendReturning(o, b, i)
    BY <1>2 DEF AfterStep
  <2>3. o \in Errors \cup {"Ok", "Panic"}
    BY DEF Outcome, Errors
  <2> HIDE DEF b, o
  <2>4. o # "Panic"
    BY <2>1, AppendDoesNotPanic DEF o
  <2>5. CASE o = "Ok"
    <3>1. Appended(b, i) \in Sound
      BY <2>1, <2>5, AppendedOK DEF Sound, o
    <3>2. QED
      BY <2>2, <2>5, <3>1 DEF AppendReturning, Run
  <2>6. CASE o # "Ok"
    <3>1. o \in Errors
      BY <2>3, <2>4, <2>6
    <3>2. Refused(b, i) \in Builder
      BY <2>1, RefusedOK
    <3>3. QED
      BY <2>2, <2>6, <3>1, <3>2 DEF AppendReturning, Run
  <2>7. QED
    BY <2>5, <2>6
<1>3. QED
  BY <1>1, <1>2

(* The runs of append_all over the prefixes of a program.                  *)
Runs(b, p, f) ==
  /\ f \in [0..Len(p) -> Run]
  /\ f[0] = [result |-> "Ok", builder |-> b]
  /\ \A n \in 1..Len(p) : f[n] = AfterStep(f[n - 1], p[n])

AppendedAll(b, p, f) ==
  f = [ n \in 0..Len(p) |->
          IF n = 0 THEN [result |-> "Ok", builder |-> b]
          ELSE IF f[n - 1].result # "Ok" THEN f[n - 1]
          ELSE AppendReturning(Outcome(f[n - 1].builder, p[n]), f[n - 1].builder, p[n]) ]

(* append_all appends one instruction after the other.                     *)
LEMMA AppendAllRuns ==
  ASSUME NEW b \in Sound, NEW p \in Seq(Instr)
  PROVE  \E f : Runs(b, p, f) /\ AppendAll(b, p) = f[Len(p)]
<1> DEFINE new == [result |-> "Ok", builder |-> b]
           step == [x \in Run \X Instr |-> AfterStep(x[1], x[2])]
<1>1. new \in Run
  BY DEF Run
<1>2. step \in [Run \X Instr -> Run]
  BY RunStep
<1>3. \A r \in Run : \A i \in Instr : step[<<r, i>>] = AfterStep(r, i)
  OBVIOUS
<1> HIDE DEF step, new
<1>14. Folds(Run, new, p, step)
  BY <1>1, <1>2, FoldSteps
<1>4. PICK f \in [0..Len(p) -> Run] :
        f[0] = new /\ \A n \in 1..Len(p) : f[n] = step[<<f[n - 1], p[n]>>]
  BY <1>14 DEF Folds
<1>5. ASSUME NEW n \in 1..Len(p)
      PROVE  f[n] = AfterStep(f[n - 1], p[n])
  <2>1. n - 1 \in 0..Len(p) /\ p[n] \in Instr
    OBVIOUS
  <2>2. f[n - 1] \in Run
    BY <2>1
  <2>3. QED
    BY <1>3, <1>4, <2>1, <2>2
<1>6. AppendedAll(b, p, f)
  <2>1. f = [n \in 0..Len(p) |-> f[n]]
    OBVIOUS
  <2>2. \A n \in 0..Len(p) : n = 0 \/ n \in 1..Len(p)
    OBVIOUS
  <2>3. ASSUME NEW n \in 0..Len(p)
        PROVE  f[n] = IF n = 0 THEN [result |-> "Ok", builder |-> b]
                      ELSE IF f[n - 1].result # "Ok" THEN f[n - 1]
                      ELSE AppendReturning(Outcome(f[n - 1].builder, p[n]), f[n - 1].builder, p[n])
    BY <1>4, <1>5, <2>2 DEF AfterStep, new
  <2>4. QED
    BY <2>1, <2>3 DEF AppendedAll
<1> DEFINE g == CHOOSE h : AppendedAll(b, p, h)
<1>7. AppendedAll(b, p, g)
  BY <1>6
<1>8. AppendAll(b, p) = g[Len(p)]
  BY DEF AppendAll, Folded, AppendedAll
<1> HIDE DEF g
<1>9. g[0] = new /\ \A n \in 1..Len(p) : g[n] = AfterStep(g[n - 1], p[n])
  <2>1. \A n \in 1..Len(p) : n \in 0..Len(p) /\ n # 0
    OBVIOUS
  <2>2. 0 \in 0..Len(p)
    OBVIOUS
  <2>3. QED
    BY <1>7, <2>1, <2>2 DEF AppendedAll, AfterStep, new
<1>10. \A n \in 0..Len(p) : g[n] = f[n]
  <2> DEFINE T == { n \in Nat : n <= Len(p) => g[n] = f[n] }
  <2>1. 0 \in T
    BY <1>4, <1>9
  <2>2. ASSUME NEW n \in Nat, n \in T
        PROVE  n + 1 \in T
    <3>1. SUFFICES ASSUME n + 1 <= Len(p)
                   PROVE  g[n + 1] = f[n + 1]
      OBVIOUS
    <3>2. n + 1 \in 1..Len(p) /\ (n + 1) - 1 = n /\ n <= Len(p)
      BY <3>1
    <3>3. g[n] = f[n]
      BY <2>2, <3>2
    <3>4. QED
      BY <1>5, <1>9, <3>2, <3>3
  <2>3. T \in SUBSET Nat
    OBVIOUS
  <2> HIDE DEF T
  <2>4. T = Nat
    BY <2>1, <2>2, <2>3, Induction
  <2>5. QED
    BY <2>4 DEF T
<1>11. Runs(b, p, f)
  BY <1>4, <1>5 DEF Runs, new
<1>12. Len(p) \in 0..Len(p)
  OBVIOUS
<1>13. QED
  BY <1>8, <1>10, <1>11, <1>12

(* A run that ends well went well all along: a chain of accepted appends.  *)
LEMMA AllAccepted ==
  ASSUME NEW b \in Sound, NEW p \in Seq(Instr), NEW f, Runs(b, p, f), f[Len(p)].result = "Ok"
  PROVE  /\ \A n \in 0..Len(p) : f[n].result = "Ok" /\ f[n].builder \in Sound
         /\ \A n \in 1..Len(p) : /\ Outcome(f[n - 1].builder, p[n]) = "Ok"
                                 /\ f[n].builder = Appended(f[n - 1].builder, p[n])
<1> DEFINE T == { k \in Nat : k <= Len(p) => f[Len(p) - k].result = "Ok" }
<1>1. Len(p) \in Nat /\ Len(p) - 0 = Len(p)
  OBVIOUS
<1>2. 0 \in T
  BY <1>1
<1>3. ASSUME NEW k \in Nat, k \in T
      PROVE  k + 1 \in T
  <2>1. SUFFICES ASSUME k + 1 <= Len(p)
                 PROVE  f[Len(p) - (k + 1)].result = "Ok"
    OBVIOUS
  <2>2. k <= Len(p) /\ Len(p) - k \in 1..Len(p) /\ (Len(p) - k) - 1 = Len(p) - (k + 1)
    BY <1>1, <2>1
  <2>3. f[Len(p) - k].result = "Ok"
    BY <1>3, <2>2
  <2>4. f[Len(p) - k] = AfterStep(f[Len(p) - (k + 1)], p[Len(p) - k])
    BY <2>2 DEF Runs
  <2>5. QED
    BY <2>3, <2>4 DEF AfterStep
<1>4. T \in SUBSET Nat
  OBVIOUS
<1>5. T = Nat
  <2> HIDE DEF T
  <2>1. QED
    BY <1>2, <1>3, <1>4, Induction
<1>6. ASSUME NEW n \in 0..Len(p)
      PROVE  f[n].result = "Ok" /\ f[n].builder \in Sound
  <2>1. Len(p) - n \in Nat /\ Len(p) - n <= Len(p) /\ Len(p) - (Len(p) - n) = n
    BY <1>1
  <2>2. Len(p) - n \in T
    BY <1>5, <2>1
  <2>3. f[n].result = "Ok"
    BY <2>1, <2>2
  <2>4. f[n] \in Run
    BY DEF Runs
  <2>5. QED
    BY <2>3, <2>4 DEF Run, Errors
<1>7. ASSUME NEW n \in 1..Len(p)
      PROVE  /\ Outcome(f[n - 1].builder, p[n]) = "Ok"
             /\ f[n].builder = Appended(f[n - 1].builder, p[n])
  <2>1. n - 1 \in 0..Len(p) /\ n \in 0..Len(p)
    BY <1>1
  <2>2. f[n - 1].result = "Ok" /\ f[n].result = "Ok" /\ f[n] = AfterStep(f[n - 1], p[n])
    BY <1>6, <2>1 DEF Runs
  <2>3. QED
    BY <2>2 DEF AfterStep, AppendReturning
<1>8. QED
  BY <1>6, <1>7

-----------------------------------------------------------------------------
(* The instructions that are no Nops, by their positions.                  *)
Real(p) == { k \in 1..Len(p) : p[k].op \notin NopOp }

(* The retain of remove_nops keeps the instructions at those positions.    *)
LEMMA RetainedInstructions ==
  ASSUME NEW p \in Seq(Instr)
  PROVE  \E g : /\ Keeps(p, Real(p), g)
                /\ Filtered(p, LAMBDA i : i.op \notin NopOp) = g[Len(p)]
<1> DEFINE step == [x \in Seq(Instr) \X Instr |->
                      IF x[2].op \notin NopOp THEN Append(x[1], x[2]) ELSE x[1]]
           empty == <<>>
           Filters(g) == g = [n \in 0..Len(p) |->
                                IF n = 0 THEN <<>>
                                ELSE IF p[n].op \notin NopOp THEN Append(g[n - 1], p[n]) ELSE g[n - 1]]
<1>1. empty \in Seq(Instr)
  OBVIOUS
<1>2. step \in [Seq(Instr) \X Instr -> Seq(Instr)]
  OBVIOUS
<1>3. \A s \in Seq(Instr) : \A i \in Instr :
        step[<<s, i>>] = IF i.op \notin NopOp THEN Append(s, i) ELSE s
  OBVIOUS
<1> HIDE DEF step, empty
<1>4. Folds(Seq(Instr), empty, p, step)
  BY <1>1, <1>2, FoldSteps
<1>5. PICK f \in [0..Len(p) -> Seq(Instr)] :
        f[0] = empty /\ \A n \in 1..Len(p) : f[n] = step[<<f[n - 1], p[n]>>]
  BY <1>4 DEF Folds
<1>6. ASSUME NEW n \in 1..Len(p)
      PROVE  f[n] = IF p[n].op \notin NopOp THEN Append(f[n - 1], p[n]) ELSE f[n - 1]
  <2>1. n - 1 \in 0..Len(p) /\ p[n] \in Instr
    OBVIOUS
  <2>2. f[n - 1] \in Seq(Instr)
    BY <2>1
  <2>3. QED
    BY <1>3, <1>5, <2>1, <2>2
<1>7. Filters(f)
  <2>1. f = [n \in 0..Len(p) |-> f[n]]
    OBVIOUS
  <2>2. \A n \in 0..Len(p) : n = 0 \/ n \in 1..Len(p)
    OBVIOUS
  <2>3. ASSUME NEW n \in 0..Len(p)
        PROVE  f[n] = IF n = 0 THEN <<>>
                      ELSE IF p[n].op \notin NopOp THEN Append(f[n - 1], p[n]) ELSE f[n - 1]
    BY <1>5, <1>6, <2>2 DEF empty
  <2>4. QED
    BY <2>1, <2>3
<1> DEFINE g == CHOOSE h : Filters(h)
<1>8. Filters(g)
  BY <1>7
<1>9. Filtered(p, LAMBDA i : i.op \notin NopOp) = g[Len(p)]
  BY DEF Filtered, Folded
<1> HIDE DEF g
<1>10. Keeps(p, Real(p), g)
  <2>1. \A n \in 1..Len(p) : n \in 0..Len(p) /\ n # 0 /\ (n \in Real(p) <=> p[n].op \notin NopOp)
    BY DEF Real
  <2>2. 0 \in 0..Len(p)
    OBVIOUS
  <2>3. QED
    BY <1>8, <2>1, <2>2 DEF Keeps
<1>11. QED
  BY <1>9, <1>10

(* The types of the variables that a program creates.                      *)
CreatesTypes(p, t) ==
  /\ t \in [0..Len(p) -> Seq(VarType)]
  /\ t[0] = <<>>
  /\ \A n \in 1..Len(p) : t[n] = t[n - 1] \o Created(p[n])

(* What an instruction creates is a sequence of types.                     *)
LEMMA CreatedType ==
  ASSUME NEW i \in Instr
  PROVE  Created(i) \in Seq(VarType) /\ Len(Created(i)) \in Nat
<1>1. i.op \in Op
  BY DEF Instr
<1>2. Signature[i.op].out \in Seq(VarType) /\ Signature[i.op].inner \in Seq(VarType)
  BY <1>1, TableFacts
<1>3. Created(i) \in Seq(VarType)
  BY <1>2, ConcatProperties DEF Created
<1>4. QED
  BY <1>3

(* remove_nops collects them one instruction after the other.              *)
LEMMA TypesOfVariables ==
  ASSUME NEW p \in Seq(Instr)
  PROVE  \E t : /\ CreatesTypes(p, t)
                /\ Folded(LAMBDA u, i : u \o Created(i), <<>>, p) = t[Len(p)]
<1> DEFINE S == Seq(VarType)
           step == [x \in S \X Instr |-> x[1] \o Created(x[2])]
           empty == <<>>
           Collects(g) == g = [n \in 0..Len(p) |-> IF n = 0 THEN <<>> ELSE g[n - 1] \o Created(p[n])]
<1>1. empty \in S
  OBVIOUS
<1>2. step \in [S \X Instr -> S]
  <2>1. \A x \in S \X Instr : x[1] \o Created(x[2]) \in S
    <3>1. SUFFICES ASSUME NEW u \in S, NEW i \in Instr
                   PROVE  u \o Created(i) \in S
      OBVIOUS
    <3>2. QED
      BY CreatedType, ConcatProperties
  <2>2. QED
    BY <2>1
<1>3. \A s \in S : \A i \in Instr : step[<<s, i>>] = s \o Created(i)
  OBVIOUS
<1> HIDE DEF step, empty, S
<1>4. Folds(S, empty, p, step)
  BY <1>1, <1>2, FoldSteps
<1>5. PICK f \in [0..Len(p) -> S] :
        f[0] = empty /\ \A n \in 1..Len(p) : f[n] = step[<<f[n - 1], p[n]>>]
  BY <1>4 DEF Folds
<1>6. ASSUME NEW n \in 1..Len(p)
      PROVE  f[n] = f[n - 1] \o Created(p[n])
  <2>1. n - 1 \in 0..Len(p) /\ p[n] \in Instr
    OBVIOUS
  <2>2. f[n - 1] \in S
    BY <2>1
  <2>3. QED
    BY <1>3, <1>5, <2>1, <2>2
<1>7. Collects(f)
  <2>1. f = [n \in 0..Len(p) |-> f[n]]
    OBVIOUS
  <2>2. \A n \in 0..Len(p) : n = 0 \/ n \in 1..Len(p)
    OBVIOUS
  <2>3. ASSUME NEW n \in 0..Len(p)
        PROVE  f[n] = IF n = 0 THEN <<>> ELSE f[n - 1] \o Created(p[n])
    BY <1>5, <1>6, <2>2 DEF empty
  <2>4. QED
    BY <2>1, <2>3
<1> DEFINE g == CHOOSE h : Collects(h)
<1>8. Collects(g)
  BY <1>7
<1>9. Folded(LAMBDA u, i : u \o Created(i), <<>>, p) = g[Len(p)]
  BY DEF Folded
<1> HIDE DEF g
<1>10. g[0] = empty /\ \A n \in 1..Len(p) : g[n] = g[n - 1] \o Created(p[n])
  <2>1. \A n \in 1..Len(p) : n \in 0..Len(p) /\ n # 0
    OBVIOUS
  <2>2. 0 \in 0..Len(p)
    OBVIOUS
  <2>3. QED
    BY <1>8, <2>1, <2>2 DEF empty
<1>11. \A n \in 0..Len(p) : f[n] = g[n]
  <2> DEFINE P == { n \in Nat : f[n] = g[n] }
  <2>1. 0 \in P /\ Len(p) \in Nat
    BY <1>5, <1>10
  <2>2. ASSUME NEW n \in 1..Len(p), n - 1 \in P
        PROVE  n \in P
    <3>1. f[n - 1] = g[n - 1] /\ n \in Nat
      BY <2>2
    <3>2. f[n] = g[n]
      BY <1>6, <1>10, <3>1
    <3>3. QED
      BY <3>1, <3>2
  <2>3. \A n \in 0..Len(p) : n \in P
    <3> HIDE DEF P
    <3>1. QED
      BY <2>1, <2>2, InductionUpTo
  <2>4. QED
    BY <2>3
<1>12. CreatesTypes(p, f)
  BY <1>5, <1>6 DEF CreatesTypes, S, empty
<1>13. Len(p) \in 0..Len(p)
  OBVIOUS
<1>14. QED
  BY <1>9, <1>11, <1>12, <1>13

(* The variables of instruction k, as Origins names them.                  *)
Named(i, k) == [m \in Indices(Created(i)) |-> <<k, m>>]

TracesOrigins(p, o) ==
  /\ o \in [0..Len(p) -> Seq(Nat \X Nat)]
  /\ o[0] = <<>>
  /\ \A n \in 1..Len(p) : o[n] = o[n - 1] \o Named(p[n], n)

(* Named gives each variable of an instruction its place among them.       *)
LEMMA NamedType ==
  ASSUME NEW i \in Instr, NEW k \in Nat
  PROVE  /\ Named(i, k) \in Seq(Nat \X Nat)
         /\ Len(Named(i, k)) = Len(Created(i))
         /\ \A m \in 1..Len(Created(i)) : Named(i, k)[m] = <<k, m>>
<1> DEFINE n == Len(Created(i))
<1>1. n \in Nat
  BY CreatedType
<1>2. Named(i, k) = [m \in 1..n |-> <<k, m>>]
  BY DEF Named, Indices
<1> HIDE DEF n
<1>3. Named(i, k) \in Seq(Nat \X Nat) /\ Len(Named(i, k)) = n
      /\ \A m \in 1..n : Named(i, k)[m] = <<k, m>>
  BY <1>1, <1>2
<1>4. QED
  BY <1>3 DEF n

(* Origins names the variables of one instruction after the other.         *)
LEMMA OriginsOfVariables ==
  ASSUME NEW p \in Seq(Instr)
  PROVE  \E o : TracesOrigins(p, o) /\ Origins(p) = o[Len(p)]
<1> DEFINE S == Seq(Nat \X Nat)
           D == 1..Len(p)
           ks == [k \in D |-> k]
           step == [x \in S \X D |-> x[1] \o Named(p[x[2]], x[2])]
           empty == <<>>
           Collects(g) == g = [n \in 0..Len(ks) |->
                                 IF n = 0 THEN <<>>
                                 ELSE g[n - 1] \o [m \in Indices(Created(p[ks[n]])) |-> <<ks[n], m>>]]
<1>1. empty \in S /\ Len(p) \in Nat
  OBVIOUS
<1>2. step \in [S \X D -> S]
  <2>1. ASSUME NEW u \in S, NEW k \in D
        PROVE  u \o Named(p[k], k) \in S
    <3>1. p[k] \in Instr /\ k \in Nat
      OBVIOUS
    <3>2. Named(p[k], k) \in S
      BY <3>1, NamedType
    <3>3. QED
      BY <3>2, ConcatProperties
  <2>2. \A x \in S \X D : x[1] \o Named(p[x[2]], x[2]) \in S
    BY <2>1
  <2>3. QED
    BY <2>2
<1>3. \A s \in S : \A k \in D : step[<<s, k>>] = s \o Named(p[k], k)
  OBVIOUS
<1>4. ks \in Seq(D) /\ Len(ks) = Len(p) /\ \A k \in D : ks[k] = k
  <2>1. Len(p) \in Nat
    OBVIOUS
  <2>2. QED
    BY <2>1
<1> HIDE DEF step, empty, S, ks
<1>5. Folds(S, empty, ks, step)
  BY <1>1, <1>2, <1>4, FoldSteps
<1>6. PICK f \in [0..Len(p) -> S] :
        f[0] = empty /\ \A n \in D : f[n] = step[<<f[n - 1], ks[n]>>]
  BY <1>4, <1>5 DEF Folds
<1>7. ASSUME NEW n \in D
      PROVE  f[n] = f[n - 1] \o Named(p[n], n)
  <2>1. n - 1 \in 0..Len(p)
    BY <1>1
  <2>2. f[n - 1] \in S
    BY <2>1
  <2>3. QED
    BY <1>3, <1>4, <1>6, <2>2
<1>8. Collects(f)
  <2>1. f = [n \in 0..Len(ks) |-> f[n]]
    BY <1>4
  <2>2. \A n \in 0..Len(ks) : n = 0 \/ n \in D
    BY <1>1, <1>4
  <2>3. ASSUME NEW n \in 0..Len(ks)
        PROVE  f[n] = IF n = 0 THEN <<>>
                      ELSE f[n - 1] \o [m \in Indices(Created(p[ks[n]])) |-> <<ks[n], m>>]
    <3> HIDE DEF D
    <3>1. QED
      BY <1>4, <1>6, <1>7, <2>2 DEF empty, Named
  <2>4. QED
    BY <2>1, <2>3
<1> DEFINE g == CHOOSE h : Collects(h)
<1>9. Collects(g)
  BY <1>8
<1>10. Origins(p) = g[Len(ks)]
  BY DEF Origins, Folded, Indices, ks
<1> HIDE DEF g
<1>11. g[0] = empty /\ \A n \in D : g[n] = g[n - 1] \o Named(p[n], n)
  <2>1. \A n \in D : n \in 0..Len(ks) /\ n # 0
    BY <1>1, <1>4
  <2>2. 0 \in 0..Len(ks)
    BY <1>1, <1>4
  <2>3. g[0] = empty
    BY <1>9, <2>2 DEF empty
  <2>4. ASSUME NEW n \in D
        PROVE  g[n] = g[n - 1] \o Named(p[n], n)
    <3>1. g[n] = g[n - 1] \o [m \in Indices(Created(p[ks[n]])) |-> <<ks[n], m>>]
      BY <1>9, <2>1
    <3>2. QED
      BY <1>4, <3>1 DEF Named
  <2>5. QED
    BY <2>3, <2>4
<1>12. \A n \in 0..Len(p) : f[n] = g[n]
  <2> DEFINE P == { n \in Nat : f[n] = g[n] }
  <2>1. 0 \in P /\ Len(p) \in Nat
    BY <1>6, <1>11
  <2>2. ASSUME NEW n \in 1..Len(p), n - 1 \in P
        PROVE  n \in P
    <3>1. f[n - 1] = g[n - 1] /\ n \in Nat
      BY <2>2
    <3>2. f[n] = g[n]
      BY <1>7, <1>11, <3>1
    <3>3. QED
      BY <3>1, <3>2
  <2>3. \A n \in 0..Len(p) : n \in P
    <3> HIDE DEF P
    <3>1. QED
      BY <2>1, <2>2, InductionUpTo
  <2>4. QED
    BY <2>3
<1>13. TracesOrigins(p, f)
  BY <1>6, <1>7 DEF TracesOrigins, S, empty
<1>14. Len(p) \in 0..Len(p)
  OBVIOUS
<1>15. QED
  BY <1>4, <1>10, <1>12, <1>13, <1>14

-----------------------------------------------------------------------------
(* What an accepted append makes of a sound builder.                       *)
LEMMA AcceptedIsSound ==
  ASSUME NEW b \in Sound, NEW i \in Instr, Outcome(b, i) = "Ok"
  PROVE  /\ Appended(b, i) \in Sound
         /\ i.op \in Ends => Len(b.active_scopes) > 1
         /\ Len(i.inputs) = Len(Signature[i.op].in)
         /\ \A k \in 1..Len(i.inputs) : /\ InScope(b, i.inputs[k])
                                        /\ b.variables[i.inputs[k]].var = Signature[i.op].in[k]
         /\ i.arg < ArgLimit[i.op]
         /\ i.op \in Ends => b.instructions[CurrentScope(b).begin].op = BeginOf[i.op]
<1>1. b \in Builder /\ ScopesOK(b) /\ VariablesOK(b.variables)
  BY DEF Sound
<1>2. Appended(b, i) \in Sound
  BY <1>1, AppendedOK DEF Sound
<1>3. /\ Len(i.inputs) = Len(Signature[i.op].in)
      /\ \A k \in 1..Len(i.inputs) : InScope(b, i.inputs[k])
      /\ \A k \in 1..Len(i.inputs) : b.variables[i.inputs[k]].var = Signature[i.op].in[k]
      /\ ~ (i.arg >= ArgLimit[i.op])
      /\ i.op \in Ends => b.instructions[CurrentScope(b).begin].op = BeginOf[i.op]
  BY DEF Outcome
<1>4. i.op \in Ends => Len(b.active_scopes) > 1
  BY <1>1, <1>3, EndIsNested
<1>5. i.arg < ArgLimit[i.op]
  <2>1. i.arg \in Nat /\ ArgLimit[i.op] \in Nat
    BY IRAssumption DEF Instr
  <2>2. QED
    BY <1>3, <2>1
<1>6. QED
  BY <1>2, <1>3, <1>4, <1>5

(* And its fields.                                                         *)
NextFields(b, i, a) ==
  /\ a.instructions = Append(b.instructions, i)
  /\ a.active_scopes = Entered(Left(b.active_scopes, i), b.scope_counter,
                               Len(b.instructions) + 1, i)
  /\ a.scope_counter = b.scope_counter + (IF i.op \in Begins THEN 1 ELSE 0)
  /\ HasMore(a, b, Created(i), IF i.op \in NopOp THEN 0 ELSE CurrentScope(a).id)

(* An instruction that is accepted makes the fields of the next builder.   *)
LEMMA AcceptedFields ==
  ASSUME NEW b \in Sound, NEW i \in Instr, Outcome(b, i) = "Ok"
  PROVE  NextFields(b, i, Appended(b, i))
<1>1. b \in Builder /\ ScopesOK(b) /\ (i.op \in Ends => Len(b.active_scopes) > 1)
  BY AcceptedIsSound DEF Sound
<1>2. QED
  BY <1>1, AppendedFields DEF NextFields

(* Where the stack of scopes is after an append.                           *)
Same(scopes, i) == IF i.op \in Ends THEN Len(scopes) - 1 ELSE Len(scopes)

StackMoved(next, scopes, counter, n, i) ==
  LET low == Same(scopes, i)
  IN  /\ low \in Nat /\ low <= Len(scopes) /\ Len(scopes) \in Nat
      /\ Len(next) = low + (IF i.op \in Begins THEN 1 ELSE 0)
      /\ \A k \in 1..low : next[k] = scopes[k]
      /\ i.op \in Begins => next[low + 1] = [begin |-> n, id |-> counter + 1,
                                             context |-> EnteredContext[i.op]]

(* An end leaves the top, a begin enters a new one.                        *)
LEMMA NextStack ==
  ASSUME NEW scopes \in Seq(Scope), NEW counter \in Nat, NEW n \in Nat, NEW i \in Instr,
         i.op \in Ends => Len(scopes) > 1
  PROVE  StackMoved(Entered(Left(scopes, i), counter, n, i), scopes, counter, n, i)
<1> DEFINE left == Left(scopes, i)
           low == Same(scopes, i)
           g == [begin |-> n, id |-> counter + 1, context |-> EnteredContext[i.op]]
<1>1. Len(scopes) \in Nat /\ \A k \in 1..Len(scopes) : scopes[k] \in Scope
  OBVIOUS
<1>2. low \in Nat /\ low <= Len(scopes)
  BY <1>1 DEF Same
<1>3. left \in Seq(Scope) /\ Len(left) = low /\ \A k \in 1..low : left[k] = scopes[k]
  <2>1. CASE i.op \in Ends
    <3>1. left = SubSeq(scopes, 1, low)
      BY <2>1 DEF Left, Same
    <3>2. \A k \in 1..low : scopes[k] \in Scope
      BY <1>1, <1>2
    <3> HIDE DEF left, low
    <3>3. QED
      BY <1>2, <3>1, <3>2, SubSeqProperties
  <2>2. CASE i.op \notin Ends
    BY <2>2 DEF Left, Same
  <2>3. QED
    BY <2>1, <2>2
<1> HIDE DEF left, low
<1>4. CASE i.op \in Begins
  <2>1. g \in Scope
    BY <1>4, TableFacts DEF Scope
  <2>2. Entered(left, counter, n, i) = Append(left, g)
    BY <1>4 DEF Entered
  <2> HIDE DEF g
  <2>3. /\ Len(Append(left, g)) = low + 1 /\ Append(left, g)[low + 1] = g
        /\ \A k \in 1..low : Append(left, g)[k] = scopes[k]
    BY <1>2, <1>3, <2>1
  <2>4. QED
    BY <1>1, <1>2, <1>4, <2>2, <2>3 DEF left, low, g, StackMoved
<1>5. CASE i.op \notin Begins
  <2>1. Entered(left, counter, n, i) = left
    BY <1>5 DEF Entered
  <2>2. QED
    BY <1>1, <1>2, <1>3, <1>5, <2>1 DEF left, low, StackMoved
<1>6. QED
  BY <1>4, <1>5

-----------------------------------------------------------------------------
(* One program does what another does, at another place: builder c has the *)
(* scopes of builder b above d others of its own, and its variables, under *)
(* other numbers.  `mu' are the variables and `sig' the scope ids of c for *)
(* those of b; a variable that is in no scope has no counterpart.          *)
SameStack(b, c, d, sig) ==
  /\ Len(c.active_scopes) = Len(b.active_scopes) + d
  /\ \A k \in 1..Len(b.active_scopes) :
       /\ c.active_scopes[k + d].id = sig[b.active_scopes[k].id]
       /\ k > 1 => c.instructions[c.active_scopes[k + d].begin].op
                     = b.instructions[b.active_scopes[k].begin].op

SameVariables(b, c, mu, sig) ==
  \A v \in 1..Len(b.variables) :
    /\ b.variables[v].scope_id \in 0..b.scope_counter
    /\ b.variables[v].scope_id # 0 =>
         /\ mu[v] \in 1..Len(c.variables)
         /\ c.variables[mu[v]].var = b.variables[v].var
         /\ c.variables[mu[v]].scope_id = sig[b.variables[v].scope_id]

Mirrors(b, c, d, mu, sig) == SameStack(b, c, d, sig) /\ SameVariables(b, c, mu, sig)

(* What is in scope has a counterpart of its type in scope.                *)
LEMMA MirrorsInScope ==
  ASSUME NEW b \in Sound, NEW c \in Sound, NEW d \in Nat, NEW mu, NEW sig,
         Mirrors(b, c, d, mu, sig), NEW v, InScope(b, v)
  PROVE  /\ InScope(c, mu[v]) /\ c.variables[mu[v]].var = b.variables[v].var
         /\ b.variables[v].scope_id # 0 /\ v \in 1..Len(b.variables)
<1> DEFINE id == b.variables[v].scope_id
<1>1. /\ b \in Builder /\ ScopesOK(b) /\ c \in Builder /\ ScopesOK(c)
  BY DEF Sound
<1>2. v \in 1..Len(b.variables) /\ id \in b.active_scopes_set
  BY DEF InScope
<1>3. PICK k \in 1..Len(b.active_scopes) : id = b.active_scopes[k].id
  BY <1>1, <1>2 DEF ScopesOK, ScopeStack
<1>4. id # 0
  <2>1. b.active_scopes[k].id \in 1..b.scope_counter
    BY <1>1 DEF ScopesOK, ScopeStack
  <2> HIDE DEF id
  <2>2. QED
    BY <1>3, <2>1
<1>5. /\ mu[v] \in 1..Len(c.variables) /\ c.variables[mu[v]].var = b.variables[v].var
      /\ c.variables[mu[v]].scope_id = sig[id]
  BY <1>2, <1>4 DEF Mirrors, SameVariables
<1>6. Len(c.active_scopes) = Len(b.active_scopes) + d
      /\ c.active_scopes[k + d].id = sig[b.active_scopes[k].id]
  BY DEF Mirrors, SameStack
<1>7. k + d \in 1..Len(c.active_scopes)
  <2>1. Len(b.active_scopes) \in Nat
    BY <1>1 DEF Builder
  <2>2. QED
    BY <1>6, <2>1
<1>8. sig[id] \in c.active_scopes_set
  <2>1. c.active_scopes[k + d].id = sig[id]
    BY <1>3, <1>6
  <2> HIDE DEF id
  <2>2. QED
    BY <1>1, <1>7, <2>1 DEF ScopesOK, ScopeStack
<1>9. QED
  BY <1>2, <1>4, <1>5, <1>8 DEF InScope

(* Appends of the same operation, on counterparts, keep the stacks alike.  *)
LEMMA SameStackStep ==
  ASSUME NEW b \in Sound, NEW c \in Sound, NEW d \in Nat, NEW sig, SameStack(b, c, d, sig),
         NEW i \in Instr, NEW j \in Instr, j.op = i.op,
         i.op \in Ends => Len(b.active_scopes) > 1,
         i.op \in Begins => sig[b.scope_counter + 1] = c.scope_counter + 1,
         NEW a, NextFields(b, i, a), NEW e, NextFields(c, j, e)
  PROVE  SameStack(a, e, d, sig)
<1> DEFINE sb == b.active_scopes
           sc == c.active_scopes
           low == Same(sb, i)
           high == Same(sc, j)
<1>1. /\ b \in Builder /\ ScopesOK(b) /\ c \in Builder /\ ScopesOK(c)
  BY DEF Sound
<1>2. /\ sb \in Seq(Scope) /\ sc \in Seq(Scope) /\ b.scope_counter \in Nat
      /\ c.scope_counter \in Nat /\ b.instructions \in Seq(Instr) /\ c.instructions \in Seq(Instr)
      /\ Len(sb) \in Nat /\ Len(sc) \in Nat
  BY <1>1 DEF Builder
<1>3. /\ Len(sc) = Len(sb) + d
      /\ \A k \in 1..Len(sb) :
           /\ sc[k + d].id = sig[sb[k].id]
           /\ k > 1 => c.instructions[sc[k + d].begin].op = b.instructions[sb[k].begin].op
  BY DEF SameStack
<1>4. (i.op \in Ends => Len(sb) > 1) /\ (j.op \in Ends => Len(sc) > 1)
  BY <1>2, <1>3
<1>5. high = low + d
  BY <1>2, <1>3 DEF Same
<1>6. /\ low \in Nat /\ low <= Len(sb)
      /\ Len(a.active_scopes) = low + (IF i.op \in Begins THEN 1 ELSE 0)
      /\ \A k \in 1..low : a.active_scopes[k] = sb[k]
      /\ i.op \in Begins =>
           a.active_scopes[low + 1] = [begin |-> Len(b.instructions) + 1, id |-> b.scope_counter + 1,
                                       context |-> EnteredContext[i.op]]
  <2>1. Len(b.instructions) + 1 \in Nat
    BY <1>2
  <2>2. a.active_scopes = Entered(Left(sb, i), b.scope_counter, Len(b.instructions) + 1, i)
    BY DEF NextFields
  <2> HIDE DEF sb, low
  <2>3. StackMoved(a.active_scopes, sb, b.scope_counter, Len(b.instructions) + 1, i)
    BY <1>2, <1>4, <2>1, <2>2, NextStack
  <2>4. QED
    BY <2>3 DEF StackMoved, low
<1>7. /\ high \in Nat /\ high <= Len(sc)
      /\ Len(e.active_scopes) = high + (IF j.op \in Begins THEN 1 ELSE 0)
      /\ \A k \in 1..high : e.active_scopes[k] = sc[k]
      /\ j.op \in Begins =>
           e.active_scopes[high + 1] = [begin |-> Len(c.instructions) + 1, id |-> c.scope_counter + 1,
                                        context |-> EnteredContext[j.op]]
  <2>1. Len(c.instructions) + 1 \in Nat
    BY <1>2
  <2>2. e.active_scopes = Entered(Left(sc, j), c.scope_counter, Len(c.instructions) + 1, j)
    BY DEF NextFields
  <2> HIDE DEF sc, high
  <2>3. StackMoved(e.active_scopes, sc, c.scope_counter, Len(c.instructions) + 1, j)
    BY <1>2, <1>4, <2>1, <2>2, NextStack
  <2>4. QED
    BY <2>3 DEF StackMoved, high
<1>8. /\ \A k \in 1..Len(b.instructions) : a.instructions[k] = b.instructions[k]
      /\ a.instructions[Len(b.instructions) + 1] = i
      /\ \A k \in 1..Len(c.instructions) : e.instructions[k] = c.instructions[k]
      /\ e.instructions[Len(c.instructions) + 1] = j
  BY <1>2 DEF NextFields
<1>9. /\ \A k \in 1..Len(sb) : k > 1 => sb[k].begin \in 1..Len(b.instructions)
      /\ \A k \in 1..Len(sc) : k > 1 => sc[k].begin \in 1..Len(c.instructions)
  BY <1>1 DEF ScopesOK, ScopeStack
<1> HIDE DEF low, high, sb, sc
<1>10. Len(e.active_scopes) = Len(a.active_scopes) + d
  BY <1>5, <1>6, <1>7
<1>11. ASSUME NEW k \in 1..Len(a.active_scopes)
       PROVE  /\ e.active_scopes[k + d].id = sig[a.active_scopes[k].id]
              /\ k > 1 => e.instructions[e.active_scopes[k + d].begin].op
                            = a.instructions[a.active_scopes[k].begin].op
  <2>1. CASE k <= low
    <3>5. k \in Nat \ {0} /\ low \in Nat /\ low <= Len(sb) /\ high = low + d /\ high <= Len(sc)
      BY <1>5, <1>6, <1>7
    <3>1. k \in 1..low /\ k \in 1..Len(sb) /\ k + d \in 1..high /\ k + d \in 1..Len(sc)
          /\ (k > 1 => k + d > 1)
      BY <1>2, <2>1, <3>5
    <3>2. a.active_scopes[k] = sb[k] /\ e.active_scopes[k + d] = sc[k + d]
      BY <1>6, <1>7, <3>1
    <3>3. k > 1 => /\ a.instructions[sb[k].begin] = b.instructions[sb[k].begin]
                   /\ e.instructions[sc[k + d].begin] = c.instructions[sc[k + d].begin]
      BY <1>8, <1>9, <3>1
    <3>4. QED
      BY <1>3, <3>1, <3>2, <3>3
  <2>2. CASE k > low
    <3>1. i.op \in Begins /\ k = low + 1 /\ k + d = high + 1
      BY <1>5, <1>6, <1>7, <2>2
    <3>2. /\ a.active_scopes[k] = [begin |-> Len(b.instructions) + 1, id |-> b.scope_counter + 1,
                                   context |-> EnteredContext[i.op]]
          /\ e.active_scopes[k + d] = [begin |-> Len(c.instructions) + 1, id |-> c.scope_counter + 1,
                                       context |-> EnteredContext[i.op]]
      BY <1>6, <1>7, <3>1
    <3>3. QED
      BY <1>8, <3>1, <3>2
  <2>3. QED
    BY <1>6, <2>1, <2>2
<1>12. QED
  BY <1>10, <1>11 DEF SameStack

(* And the variables.                                                      *)
LEMMA SameVariablesStep ==
  ASSUME NEW b \in Sound, NEW c \in Sound, NEW d \in Nat, NEW mu, NEW sig,
         SameVariables(b, c, mu, sig),
         NEW i \in Instr, NEW j \in Instr, j.op = i.op,
         \A k \in 1..Len(Created(i)) : mu[Len(b.variables) + k] = Len(c.variables) + k,
         NEW a \in Sound, NextFields(b, i, a), NEW e \in Sound, NextFields(c, j, e),
         SameStack(a, e, d, sig)
  PROVE  SameVariables(a, e, mu, sig)
<1> DEFINE n == Len(b.variables)
           m == Len(c.variables)
           more == Len(Created(i))
           top == CurrentScope(a).id
<1>1. /\ a \in Builder /\ ScopesOK(a) /\ e \in Builder
      /\ n \in Nat /\ m \in Nat /\ more \in Nat
      /\ a.scope_counter \in Nat /\ b.scope_counter \in Nat
  <2>1. more \in Nat
    BY CreatedType
  <2>2. a \in Builder /\ ScopesOK(a) /\ e \in Builder /\ b \in Builder /\ c \in Builder
    BY DEF Sound
  <2>3. \A x \in Builder : Len(x.variables) \in Nat /\ x.scope_counter \in Nat
    BY DEF Builder
  <2> HIDE DEF more
  <2>4. n \in Nat /\ m \in Nat /\ a.scope_counter \in Nat /\ b.scope_counter \in Nat
    BY <2>2, <2>3
  <2>5. QED
    BY <2>1, <2>2, <2>4
<1>2. Created(j) = Created(i)
  BY DEF Created
<1>3. /\ Len(a.variables) = n + more
      /\ \A v \in 1..n : a.variables[v] = b.variables[v]
      /\ \A k \in 1..more : a.variables[n + k] =
           [var |-> Created(i)[k], scope_id |-> IF i.op \in NopOp THEN 0 ELSE top]
  BY DEF NextFields, HasMore
<1>4. /\ Len(e.variables) = m + more
      /\ \A v \in 1..m : e.variables[v] = c.variables[v]
      /\ \A k \in 1..more : e.variables[m + k] =
           [var |-> Created(i)[k], scope_id |-> IF i.op \in NopOp THEN 0 ELSE CurrentScope(e).id]
  BY <1>2 DEF NextFields, HasMore
<1>5. top \in 1..a.scope_counter /\ CurrentScope(e).id = sig[top]
  <2>1. Len(a.active_scopes) \in 1..Len(a.active_scopes)
    BY <1>1 DEF ScopesOK, ScopeStack, Builder
  <2>2. top \in 1..a.scope_counter
    BY <1>1, <2>1 DEF ScopesOK, ScopeStack, CurrentScope
  <2>3. CurrentScope(e).id = sig[top]
    BY <2>1 DEF SameStack, CurrentScope
  <2>4. QED
    BY <2>2, <2>3
<1>6. b.scope_counter <= a.scope_counter
  BY <1>1 DEF NextFields
<1>7. \A v \in 1..n :
        /\ b.variables[v].scope_id \in 0..b.scope_counter
        /\ b.variables[v].scope_id # 0 =>
             /\ mu[v] \in 1..m
             /\ c.variables[mu[v]].var = b.variables[v].var
             /\ c.variables[mu[v]].scope_id = sig[b.variables[v].scope_id]
  BY DEF SameVariables
<1>8. \A k \in 1..more : mu[n + k] = m + k
  OBVIOUS
<1> HIDE DEF n, m, more, top
<1>9. ASSUME NEW v \in 1..Len(a.variables)
      PROVE  /\ a.variables[v].scope_id \in 0..a.scope_counter
             /\ a.variables[v].scope_id # 0 =>
                  /\ mu[v] \in 1..Len(e.variables)
                  /\ e.variables[mu[v]].var = a.variables[v].var
                  /\ e.variables[mu[v]].scope_id = sig[a.variables[v].scope_id]
  <2>1. CASE v <= n
    <3>1. v \in 1..n
      BY <1>1, <2>1
    <3>2. a.variables[v] = b.variables[v] /\ b.variables[v].scope_id \in 0..b.scope_counter
      BY <1>3, <1>7, <3>1
    <3>3. b.variables[v].scope_id # 0 => mu[v] \in 1..m /\ mu[v] \in 1..Len(e.variables)
      BY <1>1, <1>4, <1>7, <3>1
    <3>4. b.variables[v].scope_id # 0 => e.variables[mu[v]] = c.variables[mu[v]]
      BY <1>4, <3>3
    <3>5. a.variables[v].scope_id \in 0..a.scope_counter
      BY <1>1, <1>6, <3>2
    <3>6. QED
      BY <1>7, <3>1, <3>2, <3>3, <3>4, <3>5
  <2>2. CASE v > n
    <3> DEFINE k == v - n
    <3>1. k \in 1..more /\ v = n + k
      BY <1>1, <1>3, <2>2
    <3> HIDE DEF k
    <3>2. m + k \in 1..Len(e.variables)
      BY <1>1, <1>4, <3>1
    <3>3. /\ a.variables[v].var = Created(i)[k]
          /\ a.variables[v].scope_id = IF i.op \in NopOp THEN 0 ELSE top
          /\ e.variables[m + k].var = Created(i)[k]
          /\ e.variables[m + k].scope_id = IF i.op \in NopOp THEN 0 ELSE CurrentScope(e).id
      <4>1. /\ a.variables[n + k] = [var |-> Created(i)[k], scope_id |-> IF i.op \in NopOp THEN 0 ELSE top]
            /\ e.variables[m + k] = [var |-> Created(i)[k],
                                     scope_id |-> IF i.op \in NopOp THEN 0 ELSE CurrentScope(e).id]
        BY <1>3, <1>4, <3>1
      <4>2. QED
        BY <3>1, <4>1
    <3>4. a.variables[v].scope_id \in 0..a.scope_counter
      BY <1>1, <1>5, <3>3
    <3>5. mu[v] = m + k
      BY <1>8, <3>1
    <3>6. QED
      BY <1>5, <3>2, <3>3, <3>4, <3>5
  <2>3. QED
    BY <1>1, <2>1, <2>2
<1>10. QED
  BY <1>9 DEF SameVariables

(* An instruction that is accepted is accepted at the other place too,     *)
(* when it takes the counterparts of its inputs.                           *)
LEMMA MirrorsStep ==
  ASSUME NEW b \in Sound, NEW c \in Sound, NEW d \in Nat, NEW mu, NEW sig,
         Mirrors(b, c, d, mu, sig),
         NEW i \in Instr, NEW j \in Instr, Outcome(b, i) = "Ok",
         j.op = i.op, j.arg = i.arg, Len(j.inputs) = Len(i.inputs),
         \A k \in 1..Len(i.inputs) : j.inputs[k] = mu[i.inputs[k]],
         i.op \in Begins => sig[b.scope_counter + 1] = c.scope_counter + 1,
         \A k \in 1..Len(Created(i)) : mu[Len(b.variables) + k] = Len(c.variables) + k
  PROVE  Outcome(c, j) = "Ok" /\ Mirrors(Appended(b, i), Appended(c, j), d, mu, sig)
<1>1. /\ b \in Builder /\ ScopesOK(b) /\ c \in Builder /\ ScopesOK(c)
      /\ VariablesOK(c.variables)
  BY DEF Sound
<1>2. /\ Appended(b, i) \in Sound
      /\ i.op \in Ends => Len(b.active_scopes) > 1
      /\ Len(i.inputs) = Len(Signature[i.op].in)
      /\ \A k \in 1..Len(i.inputs) : /\ InScope(b, i.inputs[k])
                                     /\ b.variables[i.inputs[k]].var = Signature[i.op].in[k]
      /\ i.arg < ArgLimit[i.op]
      /\ i.op \in Ends => b.instructions[CurrentScope(b).begin].op = BeginOf[i.op]
  BY AcceptedIsSound
<1>3. \A k \in 1..Len(i.inputs) : /\ InScope(c, j.inputs[k])
                                  /\ c.variables[j.inputs[k]].var = Signature[i.op].in[k]
  <2>1. SUFFICES ASSUME NEW k \in 1..Len(i.inputs)
                 PROVE  InScope(c, j.inputs[k])
                        /\ c.variables[j.inputs[k]].var = Signature[i.op].in[k]
    OBVIOUS
  <2>2. InScope(b, i.inputs[k]) /\ b.variables[i.inputs[k]].var = Signature[i.op].in[k]
        /\ j.inputs[k] = mu[i.inputs[k]]
    BY <1>2
  <2>3. InScope(c, mu[i.inputs[k]])
        /\ c.variables[mu[i.inputs[k]]].var = b.variables[i.inputs[k]].var
    BY <2>2, MirrorsInScope
  <2>4. QED
    BY <2>2, <2>3
<1>4. ~ (j.arg >= ArgLimit[j.op])
  <2>1. i.arg \in Nat /\ ArgLimit[i.op] \in Nat
    BY IRAssumption DEF Instr
  <2>2. QED
    BY <1>2, <2>1
<1>5. i.op \in Ends => c.instructions[CurrentScope(c).begin].op = BeginOf[i.op]
  <2>1. SUFFICES ASSUME i.op \in Ends
                 PROVE  c.instructions[CurrentScope(c).begin].op = BeginOf[i.op]
    OBVIOUS
  <2> DEFINE k == Len(b.active_scopes)
  <2>2. k \in 1..Len(b.active_scopes) /\ k > 1
    BY <1>1, <1>2, <2>1 DEF Builder
  <2>3. k + d = Len(c.active_scopes)
        /\ c.instructions[c.active_scopes[k + d].begin].op = b.instructions[b.active_scopes[k].begin].op
    BY <2>2 DEF Mirrors, SameStack
  <2>4. QED
    BY <1>2, <2>1, <2>3 DEF CurrentScope
<1>6. Outcome(c, j) # "Panic"
  BY <1>1, AppendDoesNotPanic
<1>7. Outcome(c, j) = "Ok"
  BY <1>2, <1>3, <1>4, <1>5, <1>6 DEF Outcome
<1>8. Appended(c, j) \in Sound
  BY <1>7, AcceptedIsSound
<1> DEFINE a == Appended(b, i)
           e == Appended(c, j)
<1>9. NextFields(b, i, a) /\ NextFields(c, j, e)
  BY <1>7, AcceptedFields
<1> HIDE DEF a, e
<1>10. SameStack(b, c, d, sig) /\ SameVariables(b, c, mu, sig)
  BY DEF Mirrors
<1>11. SameStack(a, e, d, sig)
  BY <1>2, <1>9, <1>10, SameStackStep
<1>12. SameVariables(a, e, mu, sig)
  BY <1>2, <1>8, <1>9, <1>10, <1>11, SameVariablesStep DEF a, e
<1>13. QED
  BY <1>7, <1>11, <1>12 DEF Mirrors, a, e

(* A program whose counterpart is at the same depth is complete if its     *)
(* counterpart is.                                                         *)
LEMMA MirrorsComplete ==
  ASSUME NEW b \in Sound, NEW c \in Sound, NEW mu, NEW sig, Mirrors(b, c, 0, mu, sig),
         FinalizeOutcome(b) = "Ok"
  PROVE  FinalizeOutcome(c) = "Ok"
<1>1. /\ b \in Builder /\ c \in Builder /\ ScopesOK(c)
  BY DEF Sound
<1>2. Len(b.active_scopes) = 1
  BY DEF FinalizeOutcome
<1>3. Len(c.active_scopes) = 1
  BY <1>2 DEF Mirrors, SameStack
<1>4. FinalizeOutcome(c) # "Panic"
  BY <1>1, FinalizeDoesNotPanic
<1>5. QED
  BY <1>3, <1>4 DEF FinalizeOutcome

-----------------------------------------------------------------------------
(* Sequences, each of which is the last one and some more.                 *)
Growing(S, N, t, x) ==
  /\ N \in Nat /\ t \in [0..N -> Seq(S)] /\ x \in [1..N -> Seq(S)]
  /\ \A n \in 1..N : t[n] = t[n - 1] \o x[n]

(* They keep the elements they have.                                       *)
LEMMA PrefixesStay ==
  ASSUME NEW S, NEW N, NEW t, NEW x, Growing(S, N, t, x)
  PROVE  \A n \in 0..N : \A m \in 0..n :
           /\ Len(t[m]) <= Len(t[n]) /\ Len(t[n]) \in Nat /\ Len(t[m]) \in Nat
           /\ \A v \in 1..Len(t[m]) : t[n][v] = t[m][v]
<1> DEFINE Stays(m, n) == /\ Len(t[m]) <= Len(t[n]) /\ Len(t[n]) \in Nat /\ Len(t[m]) \in Nat
                          /\ \A v \in 1..Len(t[m]) : t[n][v] = t[m][v]
           P == { n \in Nat : \A m \in 0..n : Stays(m, n) }
<1>0. /\ N \in Nat /\ t \in [0..N -> Seq(S)] /\ x \in [1..N -> Seq(S)]
      /\ \A n \in 1..N : t[n] = t[n - 1] \o x[n]
  BY DEF Growing
<1>1. \A n \in 0..N : t[n] \in Seq(S) /\ Len(t[n]) \in Nat
  BY <1>0
<1>2. 0 \in P
  <2>1. 0 \in 0..N
    BY <1>0
  <2>2. QED
    BY <1>1, <2>1
<1>3. ASSUME NEW n \in 1..N, n - 1 \in P
      PROVE  n \in P
  <2>1. n \in Nat /\ n \in 0..N /\ n - 1 \in 0..N
    BY <1>0
  <2>2. Len(t[n]) >= Len(t[n - 1]) /\ \A v \in 1..Len(t[n - 1]) : t[n][v] = t[n - 1][v]
    <3> DEFINE u == t[n - 1]
               y == x[n]
    <3>1. t[n] = u \o y /\ y \in Seq(S) /\ u \in Seq(S)
      BY <1>0, <1>1, <2>1
    <3> HIDE DEF u, y
    <3>2. Len(u \o y) >= Len(u) /\ \A v \in 1..Len(u) : (u \o y)[v] = u[v]
      BY <3>1
    <3>3. QED
      BY <3>1, <3>2 DEF u
  <2>3. ASSUME NEW m \in 0..n
        PROVE  Stays(m, n)
    <3>1. CASE m = n
      BY <1>1, <2>1, <3>1
    <3>2. CASE m # n
      <4>1. m \in 0..(n - 1)
        BY <3>2
      <4>2. Stays(m, n - 1)
        BY <1>3, <4>1
      <4>3. \A v \in 1..Len(t[m]) : v \in 1..Len(t[n - 1])
        BY <4>2
      <4>4. Len(t[n]) \in Nat /\ Len(t[n - 1]) \in Nat
        BY <1>1, <2>1
      <4>5. Len(t[m]) <= Len(t[n])
        BY <2>2, <4>2, <4>4
      <4>6. \A v \in 1..Len(t[m]) : t[n][v] = t[m][v]
        BY <2>2, <4>2, <4>3
      <4>7. QED
        BY <4>2, <4>4, <4>5, <4>6
    <3>3. QED
      BY <3>1, <3>2
  <2>4. QED
    BY <2>1, <2>3
<1>4. \A n \in 0..N : n \in P
  <2> HIDE DEF P
  <2>1. QED
    BY <1>0, <1>2, <1>3, InductionUpTo
<1>5. QED
  BY <1>4

(* The variables of the builder are those that the instructions create,    *)
(* and those of the Nops are in no scope.                                  *)
TypedAs(b, t) ==
  /\ Len(b.variables) = Len(t)
  /\ \A v \in 1..Len(t) : /\ b.variables[v].var = t[v]
                          /\ t[v] = "Nop" <=> b.variables[v].scope_id = 0

(* A variable is of type Nop if the instruction that creates it is a Nop.  *)
LEMMA NopTypes ==
  ASSUME NEW i \in Instr, NEW k \in 1..Len(Created(i))
  PROVE  Created(i)[k] = "Nop" <=> i.op \in NopOp
<1>1. i.op \in Op
  BY DEF Instr
<1>2. Created(i)[k] \in ToSet(Created(i))
  BY CreatedType DEF ToSet
<1>3. QED
  BY <1>1, <1>2, ProgramsAssumption DEF Created

(* An accepted instruction declares what it creates.                       *)
LEMMA TypedAsStep ==
  ASSUME NEW b \in Sound, NEW i \in Instr, Outcome(b, i) = "Ok",
         NEW t \in Seq(VarType), TypedAs(b, t)
  PROVE  TypedAs(Appended(b, i), t \o Created(i))
<1> DEFINE a == Appended(b, i)
           more == Len(Created(i))
           id == IF i.op \in NopOp THEN 0 ELSE CurrentScope(a).id
<1>1. NextFields(b, i, a) /\ a \in Sound
  BY AcceptedIsSound, AcceptedFields
<1>2. Created(i) \in Seq(VarType) /\ more \in Nat /\ Len(t) \in Nat /\ Len(b.variables) = Len(t)
  BY CreatedType DEF TypedAs
<1>3. id = 0 <=> i.op \in NopOp
  <2> HIDE DEF a
  <2>1. a \in Builder /\ ScopesOK(a)
    BY <1>1 DEF Sound
  <2>2. Len(a.active_scopes) \in 1..Len(a.active_scopes)
    BY <2>1 DEF ScopesOK, ScopeStack, Builder
  <2>3. CurrentScope(a).id \in 1..a.scope_counter
    BY <2>1, <2>2 DEF ScopesOK, ScopeStack, CurrentScope
  <2>4. CurrentScope(a).id # 0
    BY <2>3
  <2>5. QED
    BY <2>4
<1>4. HasMore(a, b, Created(i), id)
  BY <1>1 DEF NextFields
<1> DEFINE types == Created(i)
<1>5. /\ Len(a.variables) = Len(t) + more
      /\ \A v \in 1..Len(t) : a.variables[v] = b.variables[v]
      /\ \A k \in 1..more : a.variables[Len(t) + k] = [var |-> types[k], scope_id |-> id]
  <2> HIDE DEF a, id
  <2>1. QED
    BY <1>2, <1>4 DEF HasMore
<1>6. \A k \in 1..more : types[k] = "Nop" <=> id = 0
  BY <1>3, NopTypes
<1> HIDE DEF a, id, types, more
<1>7. /\ Len(t \o types) = Len(t) + more
      /\ \A v \in 1..Len(t) : (t \o types)[v] = t[v]
      /\ \A k \in 1..more : (t \o types)[Len(t) + k] = types[k]
  <2>1. more = Len(types) /\ types \in Seq(VarType)
    BY <1>2 DEF more, types
  <2>2. QED
    BY <1>2, <2>1
<1> DEFINE u == t \o types
<1>8. ASSUME NEW v \in 1..Len(u)
      PROVE  /\ a.variables[v].var = u[v]
             /\ u[v] = "Nop" <=> a.variables[v].scope_id = 0
  <2>1. CASE v <= Len(t)
    <3>1. v \in 1..Len(t)
      BY <2>1
    <3>2. QED
      BY <1>5, <1>7, <3>1 DEF TypedAs
  <2>2. CASE v > Len(t)
    <3> DEFINE k == v - Len(t)
    <3>1. k \in 1..more /\ v = Len(t) + k
      BY <1>2, <1>7, <2>2
    <3> HIDE DEF k
    <3>2. a.variables[v] = [var |-> types[k], scope_id |-> id] /\ u[v] = types[k]
      BY <1>5, <1>7, <3>1
    <3>3. QED
      BY <1>6, <3>1, <3>2
  <2>3. QED
    BY <1>2, <2>1, <2>2
<1>9. TypedAs(a, u)
  BY <1>5, <1>7, <1>8 DEF TypedAs
<1>10. QED
  BY <1>9 DEF a, types, u

(* The variables of every prefix of a program that is accepted.            *)
LEMMA VariablesOfRun ==
  ASSUME NEW p \in Seq(Instr), NEW f, Runs(NewBuilder, p, f), f[Len(p)].result = "Ok",
         NEW t, CreatesTypes(p, t)
  PROVE  \A n \in 0..Len(p) : TypedAs(f[n].builder, t[n])
<1> DEFINE P == { n \in Nat : TypedAs(f[n].builder, t[n]) }
<1>1. NewBuilder \in Sound /\ NewBuilder.variables = <<>>
  BY NewBuilderOK DEF Sound, NewBuilder, EnterScope
<1>2. /\ \A n \in 0..Len(p) : f[n].result = "Ok" /\ f[n].builder \in Sound
      /\ \A n \in 1..Len(p) : /\ Outcome(f[n - 1].builder, p[n]) = "Ok"
                              /\ f[n].builder = Appended(f[n - 1].builder, p[n])
  <2> HIDE DEF P
  <2>1. QED
    BY <1>1, AllAccepted
<1>3. 0 \in P
  <2>1. Len(<<>>) = 0 /\ 0 \in Nat
    OBVIOUS
  <2>2. f[0].builder = NewBuilder /\ t[0] = <<>>
    BY DEF Runs, CreatesTypes
  <2>3. QED
    BY <1>1, <2>1, <2>2 DEF TypedAs
<1>4. ASSUME NEW n \in 1..Len(p), n - 1 \in P
      PROVE  n \in P
  <2> DEFINE b == f[n - 1].builder
             i == p[n]
             u == t[n - 1]
  <2>1. n - 1 \in 0..Len(p) /\ n \in Nat
    OBVIOUS
  <2>2. b \in Sound /\ i \in Instr /\ Outcome(b, i) = "Ok" /\ u \in Seq(VarType) /\ TypedAs(b, u)
    BY <1>2, <1>4, <2>1 DEF CreatesTypes
  <2>3. f[n].builder = Appended(b, i) /\ t[n] = u \o Created(i)
    BY <1>2 DEF CreatesTypes
  <2> HIDE DEF b, i, u
  <2>4. TypedAs(Appended(b, i), u \o Created(i))
    BY <2>2, TypedAsStep
  <2>5. QED
    BY <2>1, <2>3, <2>4
<1>5. Len(p) \in Nat
  OBVIOUS
<1>6. \A n \in 0..Len(p) : n \in P
  <2> HIDE DEF P
  <2>1. QED
    BY <1>3, <1>4, <1>5, InductionUpTo
<1>7. QED
  BY <1>6

(* What remove_nops makes of a program, instruction by instruction.        *)
TypesOf(p) == Folded(LAMBDA u, i : u \o Created(i), <<>>, p)

NoNop(types) == { v \in 1..Len(types) : types[v] # "Nop" }

MovedTo(types) == [v \in 1..Len(types) |-> CountUpTo(NoNop(types), v - 1) + 1]

Counterpart(i, j, mu) ==
  /\ j \in Instr /\ j.op = i.op /\ j.arg = i.arg /\ Len(j.inputs) = Len(i.inputs)
  /\ \A k \in 1..Len(i.inputs) : j.inputs[k] = mu[i.inputs[k]]

NopsRemoved(p, r, mu) ==
  /\ r \in Seq(Instr) /\ Len(r) = CountUpTo(Real(p), Len(p))
  /\ \A n \in Real(p) : Counterpart(p[n], r[CountUpTo(Real(p), n)], mu)

(* It keeps the instructions that are no Nops, their inputs moved.         *)
LEMMA RemovesNops ==
  ASSUME NEW p \in Seq(Instr),
         \A n \in 1..Len(p) : \A k \in 1..Len(p[n].inputs) : p[n].inputs[k] \in 1..Len(TypesOf(p))
  PROVE  NopsRemoved(p, RemoveNops(p), MovedTo(TypesOf(p)))
<1> DEFINE types == TypesOf(p)
           mu == MovedTo(types)
           mapped == [ v \in Indices(types) |->
                         Cardinality({ w \in 1..(v - 1) : types[w] # "Nop" }) + 1 ]
           moved == [ k \in Indices(p) |->
                        [p[k] EXCEPT !.inputs = [ s \in Indices(@) |-> mapped[@[s]] ]] ]
           there == [ k \in 1..Len(p) |->
                        [op |-> p[k].op, arg |-> p[k].arg,
                         inputs |-> [ s \in 1..Len(p[k].inputs) |-> mu[p[k].inputs[s]] ]] ]
<1>1. Len(types) \in Nat
  <2>1. PICK t : CreatesTypes(p, t) /\ types = t[Len(p)]
    BY TypesOfVariables DEF TypesOf
  <2>2. Len(p) \in 0..Len(p)
    OBVIOUS
  <2> HIDE DEF types
  <2>3. types \in Seq(VarType)
    BY <2>1, <2>2 DEF CreatesTypes
  <2>4. QED
    BY <2>3
<1>2. RemoveNops(p) = Filtered(moved, LAMBDA i : i.op \notin NopOp)
  BY DEF RemoveNops, TypesOf
<1>3. mapped = mu
  <2> HIDE DEF types
  <2>1. ASSUME NEW v \in 1..Len(types)
        PROVE  { w \in 1..(v - 1) : types[w] # "Nop" } = { w \in 1..(v - 1) : w \in NoNop(types) }
    BY <1>1 DEF NoNop
  <2>2. QED
    BY <2>1 DEF MovedTo, CountUpTo, Indices
<1>4. \A v \in 1..Len(types) : mu[v] \in Nat
  <2>1. \A v \in 1..Len(types) : v - 1 \in Nat
    BY <1>1
  <2> HIDE DEF types
  <2>2. \A v \in 1..Len(types) : CountUpTo(NoNop(types), v - 1) \in Nat
    BY <2>1, CountedStep
  <2>3. QED
    BY <2>2 DEF MovedTo
<1> HIDE DEF types, mapped, mu
<1>5. moved = there
  <2>1. ASSUME NEW k \in 1..Len(p)
        PROVE  [p[k] EXCEPT !.inputs = [ s \in Indices(@) |-> mapped[@[s]] ]]
                 = [op |-> p[k].op, arg |-> p[k].arg,
                    inputs |-> [ s \in 1..Len(p[k].inputs) |-> mu[p[k].inputs[s]] ]]
    <3> DEFINE q == p[k]
               ins == [ s \in 1..Len(q.inputs) |-> mu[q.inputs[s]] ]
    <3>0. q \in Instr
      OBVIOUS
    <3>1. q \in [op : Op, inputs : Seq(Nat), arg : Nat]
      BY <3>0 DEF Instr
    <3>2. [ s \in Indices(q.inputs) |-> mapped[q.inputs[s]] ] = ins
      BY <1>3 DEF Indices
    <3> HIDE DEF q, ins
    <3>3. [q EXCEPT !.inputs = ins] = [op |-> q.op, arg |-> q.arg, inputs |-> ins]
      BY <3>1
    <3>4. QED
      BY <3>2, <3>3 DEF q, ins
  <2>2. QED
    BY <2>1 DEF Indices
<1> HIDE DEF moved
<1>6. ASSUME NEW k \in 1..Len(p)
      PROVE  Counterpart(p[k], there[k], mu)
  <2> DEFINE ins == [ s \in 1..Len(p[k].inputs) |-> mu[p[k].inputs[s]] ]
  <2>1. p[k] \in Instr /\ p[k].inputs \in Seq(Nat) /\ Len(p[k].inputs) \in Nat
        /\ p[k].op \in Op /\ p[k].arg \in Nat
    <3>1. p[k] \in Instr
      OBVIOUS
    <3>2. QED
      BY <3>1 DEF Instr
  <2>2. \A s \in 1..Len(p[k].inputs) : mu[p[k].inputs[s]] \in Nat
    BY <1>4 DEF types
  <2>3. ins \in Seq(Nat) /\ Len(ins) = Len(p[k].inputs)
    BY <2>1, <2>2
  <2>4. \A s \in 1..Len(p[k].inputs) : ins[s] = mu[p[k].inputs[s]]
    OBVIOUS
  <2>5. there[k] = [op |-> p[k].op, arg |-> p[k].arg, inputs |-> ins]
    OBVIOUS
  <2> HIDE DEF ins, there
  <2>6. QED
    BY <2>1, <2>3, <2>4, <2>5 DEF Counterpart, Instr
<1>7. there \in Seq(Instr) /\ Len(there) = Len(p)
  <2>1. \A k \in 1..Len(p) : there[k] \in Instr
    BY <1>6 DEF Counterpart
  <2>2. QED
    BY <2>1
<1>8. Real(there) = Real(p)
  <2>1. \A k \in 1..Len(p) : there[k].op = p[k].op
    OBVIOUS
  <2> HIDE DEF there
  <2>2. QED
    BY <1>7, <2>1 DEF Real
<1> HIDE DEF there
<1>9. PICK g : /\ Keeps(there, Real(there), g)
               /\ Filtered(there, LAMBDA i : i.op \notin NopOp) = g[Len(there)]
  BY <1>7, RetainedInstructions
<1>10. RemoveNops(p) = g[Len(p)]
  BY <1>2, <1>5, <1>7, <1>9
<1>11. \A n \in 0..Len(there) :
         /\ g[n] \in Seq(Instr) /\ Len(g[n]) = CountUpTo(Real(p), n)
         /\ \A k \in 1..n : k \in Real(p) => g[n][CountUpTo(Real(p), k)] = there[k]
  BY <1>7, <1>8, <1>9, KeptPositions
<1>12. Len(p) \in 0..Len(there)
  BY <1>7
<1>13. \A k \in Real(p) : k \in 1..Len(p)
  BY DEF Real
<1>14. NopsRemoved(p, RemoveNops(p), mu)
  BY <1>6, <1>7, <1>10, <1>11, <1>12, <1>13 DEF NopsRemoved
<1>15. QED
  BY <1>14 DEF mu, types

(* A Nop has no counterpart: its variables are in no scope.                *)
LEMMA NopStep ==
  ASSUME NEW b \in Sound, NEW c \in Sound, NEW d \in Nat, NEW mu, NEW sig,
         Mirrors(b, c, d, mu, sig),
         NEW i \in Instr, i.op \in NopOp, Outcome(b, i) = "Ok"
  PROVE  /\ Mirrors(Appended(b, i), c, d, mu, sig)
         /\ Appended(b, i).scope_counter = b.scope_counter
<1> DEFINE a == Appended(b, i)
           more == Len(Created(i))
<1>1. NextFields(b, i, a) /\ a \in Sound
  BY AcceptedIsSound, AcceptedFields
<1>2. b \in Builder /\ ScopesOK(b) /\ c \in Builder /\ more \in Nat
  BY CreatedType DEF Sound
<1>3. i.op \notin Begins /\ i.op \notin Ends
  BY IRAssumption
<1> HIDE DEF a, more
<1>4. /\ a.instructions = Append(b.instructions, i)
      /\ a.active_scopes = b.active_scopes
      /\ a.scope_counter = b.scope_counter
      /\ HasMore(a, b, Created(i), 0)
  <2>1. b.scope_counter \in Nat
    BY <1>2 DEF Builder
  <2>2. QED
    BY <1>1, <1>3, <2>1 DEF NextFields, Entered, Left
<1>5. \A k \in 1..Len(b.instructions) : a.instructions[k] = b.instructions[k]
  <2>1. b.instructions \in Seq(Instr)
    BY <1>2 DEF Builder
  <2>2. QED
    BY <1>4, <2>1
<1>6. \A k \in 1..Len(b.active_scopes) :
        k > 1 => b.active_scopes[k].begin \in 1..Len(b.instructions)
  BY <1>2 DEF ScopesOK, ScopeStack
<1>7. SameStack(a, c, d, sig)
  BY <1>4, <1>5, <1>6 DEF Mirrors, SameStack
<1>8. /\ Len(a.variables) = Len(b.variables) + more
      /\ \A v \in 1..Len(b.variables) : a.variables[v] = b.variables[v]
      /\ \A k \in 1..more : a.variables[Len(b.variables) + k].scope_id = 0
  <2>1. /\ Len(a.variables) = Len(b.variables) + more
        /\ \A v \in 1..Len(b.variables) : a.variables[v] = b.variables[v]
        /\ \A k \in 1..more : a.variables[Len(b.variables) + k]
                               = [var |-> Created(i)[k], scope_id |-> 0]
    BY <1>4 DEF HasMore, more
  <2>2. ASSUME NEW k \in 1..more
        PROVE  a.variables[Len(b.variables) + k].scope_id = 0
    <3>1. a.variables[Len(b.variables) + k] = [var |-> Created(i)[k], scope_id |-> 0]
      BY <2>1
    <3>2. QED
      BY <3>1
  <2>3. QED
    BY <2>1, <2>2
<1>9. ASSUME NEW v \in 1..Len(a.variables), v \notin 1..Len(b.variables)
      PROVE  a.variables[v].scope_id = 0
  <2>1. Len(b.variables) \in Nat
    BY <1>2 DEF Builder
  <2> DEFINE k == v - Len(b.variables)
  <2>2. k \in 1..more /\ v = Len(b.variables) + k
    BY <1>2, <1>8, <1>9, <2>1
  <2> HIDE DEF k
  <2>3. QED
    BY <1>8, <2>2
<1>10. a.scope_counter \in Nat
  BY <1>2, <1>4 DEF Builder
<1>11. SameVariables(a, c, mu, sig)
  <2>1. SUFFICES ASSUME NEW v \in 1..Len(a.variables)
                 PROVE  /\ a.variables[v].scope_id \in 0..a.scope_counter
                        /\ a.variables[v].scope_id # 0 =>
                             /\ mu[v] \in 1..Len(c.variables)
                             /\ c.variables[mu[v]].var = a.variables[v].var
                             /\ c.variables[mu[v]].scope_id = sig[a.variables[v].scope_id]
    BY DEF SameVariables
  <2>2. CASE v \in 1..Len(b.variables)
    BY <1>4, <1>8, <2>2 DEF Mirrors, SameVariables
  <2>3. CASE v \notin 1..Len(b.variables)
    BY <1>9, <1>10, <2>3
  <2>4. QED
    BY <2>2, <2>3
<1>12. QED
  BY <1>4, <1>7, <1>11 DEF Mirrors, a

(* Numbers moved by the count of those that stay.                          *)
LEMMA MovedPast ==
  ASSUME NEW types \in Seq(VarType), NEW n \in Nat, NEW m \in Nat, n + m <= Len(types)
  PROVE  /\ (\A k \in 1..m : types[n + k] # "Nop") =>
              /\ CountUpTo(NoNop(types), n + m) = CountUpTo(NoNop(types), n) + m
              /\ \A k \in 1..m : MovedTo(types)[n + k] = CountUpTo(NoNop(types), n) + k
         /\ (\A k \in 1..m : types[n + k] = "Nop") =>
              CountUpTo(NoNop(types), n + m) = CountUpTo(NoNop(types), n)
<1> DEFINE S == NoNop(types)
<1>1. Len(types) \in Nat /\ \A k \in 1..m : n + k \in 1..Len(types)
  OBVIOUS
<1>2. \A k \in 1..m : n + k \in S <=> types[n + k] # "Nop"
  BY <1>1 DEF NoNop
<1>3. /\ (\A k \in 1..m : n + k \in S) => \A k \in 0..m : CountUpTo(S, n + k) = CountUpTo(S, n) + k
      /\ (\A k \in 1..m : n + k \notin S) => \A k \in 0..m : CountUpTo(S, n + k) = CountUpTo(S, n)
  <2> HIDE DEF S
  <2>1. QED
    BY CountedRow
<1>4. ASSUME NEW k \in 1..m
      PROVE  /\ MovedTo(types)[n + k] = CountUpTo(S, n + (k - 1)) + 1
             /\ k - 1 \in 0..m
  <2>1. (n + k) - 1 = n + (k - 1)
    OBVIOUS
  <2>2. MovedTo(types)[n + k] = CountUpTo(S, (n + k) - 1) + 1
    BY <1>1 DEF MovedTo
  <2>3. QED
    BY <2>1, <2>2
<1>5. CountUpTo(S, n) \in Nat
  <2> HIDE DEF S
  <2>1. QED
    BY CountedStep
<1>6. m \in 0..m
  OBVIOUS
<1> HIDE DEF S
<1>7. ASSUME \A k \in 1..m : types[n + k] # "Nop"
      PROVE  /\ CountUpTo(S, n + m) = CountUpTo(S, n) + m
             /\ \A k \in 1..m : MovedTo(types)[n + k] = CountUpTo(S, n) + k
  <2>1. \A k \in 0..m : CountUpTo(S, n + k) = CountUpTo(S, n) + k
    BY <1>2, <1>3, <1>7
  <2>2. ASSUME NEW k \in 1..m
        PROVE  MovedTo(types)[n + k] = CountUpTo(S, n) + k
    <3>1. CountUpTo(S, n + (k - 1)) = CountUpTo(S, n) + (k - 1)
      BY <1>4, <2>1
    <3>2. QED
      BY <1>4, <1>5, <3>1
  <2>3. QED
    BY <1>6, <2>1, <2>2
<1>8. ASSUME \A k \in 1..m : types[n + k] = "Nop"
      PROVE  CountUpTo(S, n + m) = CountUpTo(S, n)
  BY <1>2, <1>3, <1>6, <1>8
<1>9. QED
  BY <1>7, <1>8 DEF S

(* A program and what remove_nops leaves of it, at the same place.         *)
Alike(b, c, types) ==
  /\ Mirrors(b, c, 0, MovedTo(types), [x \in Nat |-> x])
  /\ c.scope_counter = b.scope_counter
  /\ Len(c.variables) = CountUpTo(NoNop(types), Len(b.variables))

(* The variables of the next instruction are the next of the program.      *)
Declares(types, n, i) ==
  /\ n + Len(Created(i)) <= Len(types)
  /\ \A k \in 1..Len(Created(i)) : types[n + k] = Created(i)[k]

(* An instruction that is no Nop is appended to both.                      *)
LEMMA AlikeRealStep ==
  ASSUME NEW b \in Sound, NEW c \in Sound, NEW types \in Seq(VarType), Alike(b, c, types),
         NEW i \in Instr, NEW j \in Instr, Outcome(b, i) = "Ok", i.op \notin NopOp,
         Counterpart(i, j, MovedTo(types)), Declares(types, Len(b.variables), i)
  PROVE  /\ Outcome(c, j) = "Ok" /\ Appended(c, j) \in Sound
         /\ Alike(Appended(b, i), Appended(c, j), types)
<1> DEFINE n == Len(b.variables)
           more == Len(Created(i))
           mu == MovedTo(types)
           sig == [x \in Nat |-> x]
           a == Appended(b, i)
           e == Appended(c, j)
<1>1. n \in Nat /\ more \in Nat /\ b.scope_counter \in Nat /\ 0 \in Nat
  BY CreatedType DEF Sound, Builder
<1>2. \A k \in 1..more : types[n + k] # "Nop"
  BY NopTypes DEF Declares
<1>3. n + more <= Len(types)
  BY DEF Declares
<1> HIDE DEF n, more, mu
<1>4. /\ CountUpTo(NoNop(types), n + more) = CountUpTo(NoNop(types), n) + more
      /\ \A k \in 1..more : mu[n + k] = CountUpTo(NoNop(types), n) + k
  BY <1>1, <1>2, <1>3, MovedPast DEF mu
<1>5. Mirrors(b, c, 0, mu, sig) /\ c.scope_counter = b.scope_counter
      /\ Len(c.variables) = CountUpTo(NoNop(types), n)
  BY DEF Alike, mu, n
<1>6. sig[b.scope_counter + 1] = c.scope_counter + 1
  BY <1>1, <1>5
<1>7. \A k \in 1..more : mu[n + k] = Len(c.variables) + k
  BY <1>4, <1>5
<1>8. /\ j.op = i.op /\ j.arg = i.arg /\ Len(j.inputs) = Len(i.inputs)
      /\ \A k \in 1..Len(i.inputs) : j.inputs[k] = mu[i.inputs[k]]
  BY DEF Counterpart, mu
<1> HIDE DEF sig, a, e
<1>9. Outcome(c, j) = "Ok" /\ Mirrors(a, e, 0, mu, sig)
  BY <1>1, <1>5, <1>6, <1>7, <1>8, MirrorsStep DEF a, e, n, more
<1>10. NextFields(b, i, a) /\ NextFields(c, j, e) /\ e \in Sound
  BY <1>9, AcceptedIsSound, AcceptedFields DEF a, e
<1>11. e.scope_counter = a.scope_counter
  BY <1>5, <1>8, <1>10 DEF NextFields
<1>12. Created(j) = Created(i)
  BY <1>8 DEF Created
<1>13. Len(a.variables) = n + more /\ Len(e.variables) = Len(c.variables) + more
  BY <1>10, <1>12 DEF NextFields, HasMore, n, more
<1>14. Len(e.variables) = CountUpTo(NoNop(types), Len(a.variables))
  BY <1>4, <1>5, <1>13
<1>15. Alike(a, e, types)
  BY <1>9, <1>11, <1>14 DEF Alike, mu, sig
<1>16. QED
  BY <1>9, <1>10, <1>15 DEF a, e

(* A Nop is left out.                                                      *)
LEMMA AlikeNopStep ==
  ASSUME NEW b \in Sound, NEW c \in Sound, NEW types \in Seq(VarType), Alike(b, c, types),
         NEW i \in Instr, Outcome(b, i) = "Ok", i.op \in NopOp,
         Declares(types, Len(b.variables), i)
  PROVE  Alike(Appended(b, i), c, types)
<1> DEFINE n == Len(b.variables)
           more == Len(Created(i))
           a == Appended(b, i)
<1>1. n \in Nat /\ more \in Nat /\ 0 \in Nat
  BY CreatedType DEF Sound, Builder
<1>2. \A k \in 1..more : types[n + k] = "Nop"
  BY NopTypes DEF Declares
<1>3. n + more <= Len(types)
  BY DEF Declares
<1> HIDE DEF n, more
<1>4. CountUpTo(NoNop(types), n + more) = CountUpTo(NoNop(types), n)
  BY <1>1, <1>2, <1>3, MovedPast
<1> HIDE DEF a
<1>5. /\ Mirrors(a, c, 0, MovedTo(types), [x \in Nat |-> x])
      /\ a.scope_counter = b.scope_counter
  BY <1>1, NopStep DEF Alike, a
<1>6. NextFields(b, i, a)
  BY AcceptedFields DEF a
<1>7. Len(a.variables) = n + more
  BY <1>6 DEF NextFields, HasMore, n, more
<1>8. Len(c.variables) = CountUpTo(NoNop(types), Len(a.variables))
  BY <1>4, <1>7 DEF Alike, n
<1>9. Alike(a, c, types)
  BY <1>5, <1>8 DEF Alike
<1>10. QED
  BY <1>9 DEF a

(* A new builder is alike to itself.                                       *)
LEMMA AlikeNew ==
  ASSUME NEW types \in Seq(VarType)
  PROVE  NewBuilder \in Sound /\ Alike(NewBuilder, NewBuilder, types)
<1> DEFINE b == NewBuilder
           sig == [x \in Nat |-> x]
           mu == MovedTo(types)
<1>1. b \in Sound
  BY NewBuilderOK DEF Sound
<1>2. b.variables = <<>> /\ Len(<<>>) = 0
  BY DEF NewBuilder, EnterScope
<1>3. b \in Builder /\ Len(b.active_scopes) \in Nat
  BY <1>1 DEF Sound, Builder
<1> HIDE DEF b
<1>4. \A k \in 1..Len(b.active_scopes) : b.active_scopes[k].id \in Nat /\ k + 0 = k
  <2>1. b.active_scopes \in Seq(Scope)
    BY <1>3 DEF Builder
  <2>2. ASSUME NEW k \in 1..Len(b.active_scopes)
        PROVE  b.active_scopes[k].id \in Nat /\ k + 0 = k
    <3>1. b.active_scopes[k] \in Scope
      BY <1>3, <2>1
    <3>2. QED
      BY <3>1 DEF Scope
  <2>3. QED
    BY <2>2
<1>5. SameStack(b, b, 0, sig)
  BY <1>3, <1>4 DEF SameStack
<1>6. SameVariables(b, b, mu, sig)
  <2>1. \A v \in 1..Len(b.variables) : FALSE
    BY <1>2
  <2>2. QED
    BY <2>1 DEF SameVariables
<1>7. CountUpTo(NoNop(types), 0) = 0
  BY CountedStep
<1>8. Alike(b, b, types)
  BY <1>2, <1>5, <1>6, <1>7 DEF Alike, Mirrors
<1>9. QED
  BY <1>1, <1>8 DEF b

(* In a program that is accepted, every instruction declares the next      *)
(* variables and takes earlier ones, none of them of a Nop.                *)
AcceptedRun(b, p, f) == Runs(b, p, f) /\ f[Len(p)].result = "Ok"

RunDeclares(p, f, types) ==
  /\ types \in Seq(VarType)
  /\ \A n \in 1..Len(p) :
       /\ Declares(types, Len(f[n - 1].builder.variables), p[n])
       /\ \A k \in 1..Len(p[n].inputs) :
            /\ p[n].inputs[k] \in 1..Len(f[n - 1].builder.variables)
            /\ p[n].inputs[k] \in NoNop(types)

(* The run of a valid program declares the types that its instructions     *)
(* create, and no input is the variable of a Nop.                          *)
LEMMA AcceptedDeclares ==
  ASSUME NEW p \in Seq(Instr), NEW f, AcceptedRun(NewBuilder, p, f)
  PROVE  RunDeclares(p, f, TypesOf(p))
<1> DEFINE N == Len(p)
           types == TypesOf(p)
           x == [n \in 1..N |-> Created(p[n])]
           S == VarType
<1>1. PICK t : CreatesTypes(p, t) /\ types = t[N]
  BY TypesOfVariables DEF TypesOf
<1>2. N \in Nat /\ N \in 0..N
  OBVIOUS
<1>3. x \in [1..N -> Seq(S)] /\ t \in [0..N -> Seq(S)]
      /\ \A n \in 1..N : t[n] = t[n - 1] \o x[n]
  <2>1. \A n \in 1..N : Created(p[n]) \in Seq(S)
    BY CreatedType
  <2>2. QED
    BY <1>1, <2>1 DEF CreatesTypes
<1> HIDE DEF types, x
<1>0. Growing(S, N, t, x)
  BY <1>2, <1>3 DEF Growing
<1>4. \A n \in 0..N : \A m \in 0..n :
        /\ Len(t[m]) <= Len(t[n]) /\ Len(t[n]) \in Nat /\ Len(t[m]) \in Nat
        /\ \A v \in 1..Len(t[m]) : t[n][v] = t[m][v]
  <2> HIDE DEF N, S
  <2>1. QED
    BY <1>0, PrefixesStay
<1>5. \A m \in 0..N : /\ Len(t[m]) <= Len(types) /\ Len(types) \in Nat /\ Len(t[m]) \in Nat
                      /\ \A v \in 1..Len(t[m]) : types[v] = t[m][v]
  BY <1>1, <1>2, <1>4
<1>6. \A n \in 0..N : TypedAs(f[n].builder, t[n])
  BY <1>1, VariablesOfRun DEF AcceptedRun
<1>7. /\ \A n \in 0..N : f[n].result = "Ok" /\ f[n].builder \in Sound
      /\ \A n \in 1..N : Outcome(f[n - 1].builder, p[n]) = "Ok"
  <2>1. NewBuilder \in Sound
    BY NewBuilderOK DEF Sound
  <2>2. QED
    BY <2>1, AllAccepted DEF AcceptedRun
<1>8. ASSUME NEW n \in 1..N
      PROVE  /\ Declares(types, Len(f[n - 1].builder.variables), p[n])
             /\ \A k \in 1..Len(p[n].inputs) :
                  /\ p[n].inputs[k] \in 1..Len(f[n - 1].builder.variables)
                  /\ p[n].inputs[k] \in NoNop(types)
  <2> DEFINE b == f[n - 1].builder
             i == p[n]
             u == t[n - 1]
  <2>1. n \in 0..N /\ n - 1 \in 0..N
    BY <1>2
  <2>2. b \in Sound /\ TypedAs(b, u) /\ i \in Instr /\ Outcome(b, i) = "Ok"
        /\ u \in Seq(S)
    <3>1. i \in Instr
      OBVIOUS
    <3>2. u \in Seq(S)
      BY <1>3, <2>1
    <3>3. QED
      BY <1>6, <1>7, <2>1, <3>1, <3>2
  <2>3. t[n] = u \o Created(i)
    BY <1>1 DEF CreatesTypes
  <2>4. /\ Len(t[n]) <= Len(types) /\ \A v \in 1..Len(t[n]) : types[v] = t[n][v]
        /\ Len(u) <= Len(types) /\ \A v \in 1..Len(u) : types[v] = u[v]
        /\ Len(types) \in Nat /\ Len(u) \in Nat
    BY <1>5, <2>1
  <2> HIDE DEF b, i, u, N
  <2>5. Len(b.variables) = Len(u)
    BY <2>2 DEF TypedAs
  <2>6. Declares(types, Len(u), i)
    <3> DEFINE c == Created(i)
    <3>1. c \in Seq(S) /\ Len(c) \in Nat
      BY <2>2, CreatedType
    <3> HIDE DEF c
    <3>2. Len(u \o c) = Len(u) + Len(c) /\ \A k \in 1..Len(c) : (u \o c)[Len(u) + k] = c[k]
      BY <2>2, <3>1
    <3>3. ASSUME NEW k \in 1..Len(c)
          PROVE  types[Len(u) + k] = c[k]
      <4>1. Len(u) + k \in 1..Len(t[n])
        BY <2>3, <2>4, <3>1, <3>2 DEF c
      <4>2. types[Len(u) + k] = t[n][Len(u) + k]
        BY <2>4, <4>1
      <4>3. QED
        BY <2>3, <3>2, <4>2 DEF c
    <3>4. Len(u) + Len(c) <= Len(types)
      BY <2>3, <2>4, <3>2 DEF c
    <3>5. QED
      BY <3>3, <3>4 DEF Declares, c
  <2>7. ASSUME NEW k \in 1..Len(i.inputs)
        PROVE  i.inputs[k] \in 1..Len(b.variables) /\ i.inputs[k] \in NoNop(types)
    <3> DEFINE v == i.inputs[k]
    <3>1. InScope(b, v)
      BY <2>2, AcceptedIsSound
    <3> HIDE DEF v
    <3>2. v \in 1..Len(b.variables) /\ b.variables[v].scope_id \in b.active_scopes_set
      BY <3>1 DEF InScope
    <3>3. b.variables[v].scope_id # 0
      <4>1. PICK m \in 1..Len(b.active_scopes) : b.variables[v].scope_id = b.active_scopes[m].id
        BY <2>2, <3>2 DEF Sound, ScopesOK, ScopeStack
      <4>2. b.active_scopes[m].id \in 1..b.scope_counter
        BY <2>2 DEF Sound, ScopesOK, ScopeStack
      <4>3. QED
        BY <4>1, <4>2
    <3>4. u[v] # "Nop" /\ v \in 1..Len(u)
      BY <2>2, <3>2, <3>3 DEF TypedAs
    <3>5. v \in 1..Len(types) /\ types[v] # "Nop"
      BY <2>4, <3>4
    <3>6. QED
      BY <3>2, <3>5 DEF NoNop, v
  <2>8. QED
    BY <2>5, <2>6, <2>7 DEF b, i
<1>9. types \in Seq(VarType)
  BY <1>1, <1>2, <1>3
<1>10. QED
  BY <1>8, <1>9 DEF RunDeclares, types

(* What remove_nops leaves of an accepted program is accepted as well.     *)
AlikeAt(p, f, g, n) ==
  LET r == g[CountUpTo(Real(p), n)]
  IN  r.result = "Ok" /\ r.builder \in Sound /\ Alike(f[n].builder, r.builder, TypesOf(p))

(* The two runs are alike after every instruction of the program.          *)
LEMMA RunsAlike ==
  ASSUME NEW p \in Seq(Instr), NEW f, AcceptedRun(NewBuilder, p, f),
         NEW r, NopsRemoved(p, r, MovedTo(TypesOf(p))), NEW g, Runs(NewBuilder, r, g)
  PROVE  \A n \in 0..Len(p) : AlikeAt(p, f, g, n)
<1> DEFINE N == Len(p)
           R == Real(p)
           types == TypesOf(p)
           mu == MovedTo(types)
           P == { n \in Nat : AlikeAt(p, f, g, n) }
<1>1. N \in Nat /\ RunDeclares(p, f, types)
  BY AcceptedDeclares
<1>2. /\ \A n \in 0..N : f[n].result = "Ok" /\ f[n].builder \in Sound
      /\ \A n \in 1..N : /\ Outcome(f[n - 1].builder, p[n]) = "Ok"
                         /\ f[n].builder = Appended(f[n - 1].builder, p[n])
  <2>1. NewBuilder \in Sound
    BY NewBuilderOK DEF Sound
  <2>2. QED
    BY <2>1, AllAccepted DEF AcceptedRun
<1>3. /\ r \in Seq(Instr) /\ Len(r) = CountUpTo(R, N)
      /\ \A n \in R : Counterpart(p[n], r[CountUpTo(R, n)], mu)
  BY DEF NopsRemoved
<1>4. types \in Seq(VarType)
  BY <1>1 DEF RunDeclares
<1> HIDE DEF types, mu
<1>5. 0 \in P
  <2>1. NewBuilder \in Sound /\ Alike(NewBuilder, NewBuilder, types)
    BY <1>4, AlikeNew
  <2>2. CountUpTo(R, 0) = 0
    BY CountedStep
  <2>3. f[0].builder = NewBuilder /\ g[0].result = "Ok" /\ g[0].builder = NewBuilder
    BY DEF Runs, AcceptedRun
  <2>4. QED
    BY <2>1, <2>2, <2>3 DEF AlikeAt, types
<1>6. ASSUME NEW n \in 1..N, n - 1 \in P
      PROVE  n \in P
  <2> DEFINE b == f[n - 1].builder
             i == p[n]
             m == CountUpTo(R, n)
             c == g[CountUpTo(R, n - 1)].builder
  <2>1. b \in Sound /\ i \in Instr /\ Outcome(b, i) = "Ok" /\ f[n].builder = Appended(b, i)
    <3>1. n - 1 \in 0..N /\ i \in Instr
      OBVIOUS
    <3>2. QED
      BY <1>2, <3>1
  <2>2. Declares(types, Len(b.variables), i)
    BY <1>1 DEF RunDeclares
  <2>3. c \in Sound /\ Alike(b, c, types) /\ g[CountUpTo(R, n - 1)].result = "Ok"
    BY <1>6 DEF AlikeAt, types
  <2>4. m = CountUpTo(R, n - 1) + (IF n \in R THEN 1 ELSE 0) /\ CountUpTo(R, n - 1) \in Nat
    <3>1. n \in Nat \ {0}
      OBVIOUS
    <3> HIDE DEF R
    <3>2. QED
      BY <3>1, CountedStep
  <2>5. CASE n \in R
    <3> DEFINE j == r[m]
    <3>1. i.op \notin NopOp
      BY <2>5 DEF Real
    <3>2. m \in 1..Len(r) /\ m - 1 = CountUpTo(R, n - 1)
      <4>1. m \in 1..CountUpTo(R, N)
        <5> HIDE DEF R
        <5>1. QED
          BY <1>1, <2>5, CountedGrows
      <4>2. QED
        BY <1>3, <2>4, <2>5, <4>1
    <3>3. j \in Instr /\ Counterpart(i, j, mu)
      BY <1>3, <2>5, <3>2
    <3>4. g[m] = AfterStep(g[CountUpTo(R, n - 1)], j)
      BY <3>2 DEF Runs
    <3> HIDE DEF j, c, b, i, m, R, N
    <3>5. Outcome(c, j) = "Ok" /\ Appended(c, j) \in Sound
          /\ Alike(Appended(b, i), Appended(c, j), types)
      BY <1>4, <2>1, <2>2, <2>3, <3>1, <3>3, AlikeRealStep DEF mu
    <3>6. g[m].result = "Ok" /\ g[m].builder = Appended(c, j)
      BY <2>3, <3>4, <3>5 DEF AfterStep, AppendReturning, c
    <3>7. AlikeAt(p, f, g, n)
      BY <2>1, <3>5, <3>6 DEF AlikeAt, types, m, R
    <3>8. QED
      BY <3>7
  <2>6. CASE n \notin R
    <3>1. i.op \in NopOp
      BY <2>6 DEF Real
    <3>2. m = CountUpTo(R, n - 1)
      BY <2>4, <2>6
    <3> HIDE DEF c, b, i, m, R, N
    <3>3. Alike(Appended(b, i), c, types)
      BY <1>4, <2>1, <2>2, <2>3, <3>1, AlikeNopStep
    <3>4. AlikeAt(p, f, g, n)
      BY <2>1, <2>3, <3>2, <3>3 DEF AlikeAt, types, m, R, c
    <3>5. QED
      BY <3>4
  <2>7. QED
    BY <2>5, <2>6
<1>7. \A n \in 0..N : n \in P
  <2> HIDE DEF P, N
  <2>1. QED
    BY <1>1, <1>5, <1>6, InductionUpTo
<1>8. QED
  BY <1>7

(* remove_nops on a valid program: the result is a valid program of the    *)
(* instructions that are no Nops.                                          *)
LEMMA RemoveNopsValid ==
  ASSUME NEW p \in Seq(Instr), IsStaticallyValid(p)
  PROVE  /\ NopsRemoved(p, RemoveNops(p), MovedTo(TypesOf(p)))
         /\ IsStaticallyValid(RemoveNops(p))
<1> DEFINE N == Len(p)
           r == RemoveNops(p)
           types == TypesOf(p)
<1>1. NewBuilder \in Sound
  BY NewBuilderOK DEF Sound
<1>2. PICK f : Runs(NewBuilder, p, f) /\ AppendAll(NewBuilder, p) = f[N]
  BY <1>1, AppendAllRuns
<1>3. AcceptedRun(NewBuilder, p, f) /\ FinalizeOutcome(f[N].builder) = "Ok"
  BY <1>2 DEF AcceptedRun, IsStaticallyValid, IsComplete
<1>4. RunDeclares(p, f, types)
  BY <1>3, AcceptedDeclares
<1>5. \A n \in 1..N : \A k \in 1..Len(p[n].inputs) : p[n].inputs[k] \in 1..Len(types)
  BY <1>4 DEF RunDeclares, NoNop
<1>6. NopsRemoved(p, r, MovedTo(types))
  BY <1>5, RemovesNops
<1> HIDE DEF r
<1>7. r \in Seq(Instr) /\ Len(r) = CountUpTo(Real(p), N)
  BY <1>6 DEF NopsRemoved
<1>8. PICK g : Runs(NewBuilder, r, g) /\ AppendAll(NewBuilder, r) = g[Len(r)]
  BY <1>1, <1>7, AppendAllRuns
<1>9. AlikeAt(p, f, g, N) /\ f[N].builder \in Sound
  <2>1. N \in 0..N
    OBVIOUS
  <2>2. AlikeAt(p, f, g, N)
    BY <1>3, <1>6, <1>8, <2>1, RunsAlike
  <2>3. f[N].builder \in Sound
    BY <1>1, <1>3, <2>1, AllAccepted DEF AcceptedRun
  <2>4. QED
    BY <2>2, <2>3
<1> DEFINE b == f[N].builder
           c == g[Len(r)].builder
           mu == MovedTo(types)
           sig == [x \in Nat |-> x]
<1>10. g[Len(r)].result = "Ok" /\ c \in Sound /\ b \in Sound /\ Mirrors(b, c, 0, mu, sig)
  BY <1>7, <1>9 DEF AlikeAt, Alike
<1>11. FinalizeOutcome(c) = "Ok"
  <2>1. FinalizeOutcome(b) = "Ok"
    BY <1>3
  <2> HIDE DEF b, c, mu, sig
  <2>2. QED
    BY <1>10, <2>1, MirrorsComplete
<1>12. IsStaticallyValid(r)
  BY <1>8, <1>10, <1>11 DEF IsStaticallyValid, IsComplete
<1>13. QED
  BY <1>6, <1>12 DEF r

-----------------------------------------------------------------------------
(* The variables that stay are defined by the instructions that stay.      *)
OriginsMoved(o, q, R, types) ==
  /\ Len(q) = CountUpTo(NoNop(types), Len(o))
  /\ \A v \in 1..Len(o) : v \in NoNop(types) =>
       /\ MovedTo(types)[v] \in 1..Len(q)
       /\ o[v][1] \in R
       /\ q[MovedTo(types)[v]] = <<CountUpTo(R, o[v][1]), o[v][2]>>

(* An instruction that stays defines its variables in both programs.       *)
LEMMA OriginsRealStep ==
  ASSUME NEW o \in Seq(Nat \X Nat), NEW q \in Seq(Nat \X Nat), NEW R, NEW types \in Seq(VarType),
         OriginsMoved(o, q, R, types), NEW i \in Instr, NEW j \in Instr, j.op = i.op,
         i.op \notin NopOp, Declares(types, Len(o), i), NEW n \in Nat, n \in R
  PROVE  OriginsMoved(o \o Named(i, n), q \o Named(j, CountUpTo(R, n)), R, types)
<1> DEFINE len == Len(o)
           more == Len(Created(i))
           mu == MovedTo(types)
           m == CountUpTo(R, n)
           x == Named(i, n)
           y == Named(j, m)
           a == o \o x
           e == q \o y
           S == NoNop(types)
<1>1. len \in Nat /\ more \in Nat /\ Len(q) \in Nat
  BY CreatedType
<1>2. m \in Nat
  BY CountedStep
<1>3. Created(j) = Created(i)
  BY DEF Created
<1>4. /\ x \in Seq(Nat \X Nat) /\ Len(x) = more /\ \A k \in 1..more : x[k] = <<n, k>>
      /\ y \in Seq(Nat \X Nat) /\ Len(y) = more /\ \A k \in 1..more : y[k] = <<m, k>>
  <2> HIDE DEF m
  <2>1. QED
    BY <1>2, <1>3, NamedType
<1>5. \A k \in 1..more : types[len + k] # "Nop"
  BY NopTypes DEF Declares
<1>6. len + more <= Len(types)
  BY DEF Declares
<1>7. Len(q) = CountUpTo(S, len)
      /\ \A v \in 1..len : v \in S =>
           mu[v] \in 1..Len(q) /\ o[v][1] \in R /\ q[mu[v]] = <<CountUpTo(R, o[v][1]), o[v][2]>>
  BY DEF OriginsMoved
<1> HIDE DEF len, more, mu, m, x, y, S
<1>8. /\ CountUpTo(S, len + more) = CountUpTo(S, len) + more
      /\ \A k \in 1..more : mu[len + k] = CountUpTo(S, len) + k
  BY <1>1, <1>5, <1>6, MovedPast DEF mu, S
<1>9. /\ Len(a) = len + more /\ \A v \in 1..len : a[v] = o[v]
      /\ \A k \in 1..more : a[len + k] = x[k]
      /\ Len(e) = Len(q) + more /\ \A v \in 1..Len(q) : e[v] = q[v]
      /\ \A k \in 1..more : e[Len(q) + k] = y[k]
  <2> DEFINE T == Nat \X Nat
  <2>1. o \in Seq(T) /\ q \in Seq(T) /\ x \in Seq(T) /\ y \in Seq(T)
    BY <1>4
  <2> HIDE DEF T
  <2>2. /\ Len(a) = len + more /\ \A v \in 1..len : a[v] = o[v]
        /\ \A k \in 1..more : a[len + k] = x[k]
    <3>1. /\ Len(o \o x) = len + Len(x) /\ \A v \in 1..len : (o \o x)[v] = o[v]
          /\ \A k \in 1..Len(x) : (o \o x)[len + k] = x[k]
      BY <2>1, ConcatElements DEF len
    <3>2. QED
      BY <1>4, <3>1
  <2>3. /\ Len(e) = Len(q) + more /\ \A v \in 1..Len(q) : e[v] = q[v]
        /\ \A k \in 1..more : e[Len(q) + k] = y[k]
    <3>1. /\ Len(q \o y) = Len(q) + Len(y) /\ \A v \in 1..Len(q) : (q \o y)[v] = q[v]
          /\ \A k \in 1..Len(y) : (q \o y)[Len(q) + k] = y[k]
      BY <2>1, ConcatElements
    <3>2. QED
      BY <1>4, <3>1
  <2>4. QED
    BY <2>2, <2>3
<1> HIDE DEF a, e
<1>10. Len(e) = CountUpTo(S, Len(a))
  BY <1>7, <1>8, <1>9
<1>11. ASSUME NEW v \in 1..Len(a), v \in S
       PROVE  /\ mu[v] \in 1..Len(e) /\ a[v][1] \in R
              /\ e[mu[v]] = <<CountUpTo(R, a[v][1]), a[v][2]>>
  <2>1. CASE v <= len
    <3>1. v \in 1..len
      BY <2>1
    <3>2. mu[v] \in 1..Len(q) /\ o[v][1] \in R /\ q[mu[v]] = <<CountUpTo(R, o[v][1]), o[v][2]>>
      BY <1>7, <1>11, <3>1
    <3>3. mu[v] \in 1..Len(e)
      <4>1. mu[v] \in 1..Len(q) /\ Len(e) = Len(q) + more
        BY <1>9, <3>2
      <4>2. QED
        BY <1>1, <4>1
    <3>4. a[v] = o[v] /\ e[mu[v]] = q[mu[v]]
      BY <1>9, <3>1, <3>2
    <3>5. QED
      BY <3>2, <3>3, <3>4
  <2>2. CASE v > len
    <3> DEFINE k == v - len
    <3>1. k \in 1..more /\ v = len + k
      BY <1>1, <1>9, <2>2
    <3> HIDE DEF k
    <3>2. mu[v] = Len(q) + k
      BY <1>7, <1>8, <3>1
    <3>3. mu[v] \in 1..Len(e)
      BY <1>1, <1>9, <3>1, <3>2
    <3>4. a[v] = x[k] /\ x[k] = <<n, k>> /\ e[mu[v]] = y[k] /\ y[k] = <<m, k>>
      BY <1>4, <1>9, <3>1, <3>2
    <3>5. a[v] = <<n, k>> /\ e[mu[v]] = <<m, k>>
      BY <3>4
    <3> HIDE DEF S
    <3>6. a[v][1] = n /\ a[v][2] = k
      BY <3>5
    <3>7. QED
      BY <3>3, <3>5, <3>6 DEF m
  <2>3. QED
    BY <1>1, <2>1, <2>2
<1>12. OriginsMoved(a, e, R, types)
  BY <1>10, <1>11 DEF OriginsMoved, mu, S
<1>13. QED
  BY <1>12 DEF a, e, x, y, m

(* A Nop defines none that stays.                                          *)
LEMMA OriginsNopStep ==
  ASSUME NEW o \in Seq(Nat \X Nat), NEW q \in Seq(Nat \X Nat), NEW R, NEW types \in Seq(VarType),
         OriginsMoved(o, q, R, types), NEW i \in Instr, i.op \in NopOp,
         Declares(types, Len(o), i), NEW n \in Nat
  PROVE  OriginsMoved(o \o Named(i, n), q, R, types)
<1> DEFINE len == Len(o)
           more == Len(Created(i))
           x == Named(i, n)
           a == o \o x
           S == NoNop(types)
<1>1. len \in Nat /\ more \in Nat /\ Len(q) \in Nat
  BY CreatedType
<1>2. x \in Seq(Nat \X Nat) /\ Len(x) = more
  BY NamedType
<1>3. \A k \in 1..more : types[len + k] = "Nop"
  BY NopTypes DEF Declares
<1>4. len + more <= Len(types)
  BY DEF Declares
<1> HIDE DEF len, more, x
<1>5. CountUpTo(S, len + more) = CountUpTo(S, len)
  BY <1>1, <1>3, <1>4, MovedPast
<1>6. Len(a) = len + more /\ \A v \in 1..len : a[v] = o[v]
  BY <1>1, <1>2 DEF len
<1> HIDE DEF a
<1>7. ASSUME NEW v \in 1..Len(a), v \in S
      PROVE  v \in 1..len
  <2>1. SUFFICES ASSUME v > len
                 PROVE  FALSE
    BY <1>1
  <2> DEFINE k == v - len
  <2>2. k \in 1..more /\ v = len + k
    BY <1>1, <1>6, <2>1
  <2> HIDE DEF k
  <2>3. types[v] = "Nop"
    BY <1>3, <2>2
  <2>4. QED
    BY <1>7, <2>3 DEF NoNop
<1>8. /\ Len(q) = CountUpTo(S, len)
      /\ \A v \in 1..len : v \in S =>
           /\ MovedTo(types)[v] \in 1..Len(q) /\ o[v][1] \in R
           /\ q[MovedTo(types)[v]] = <<CountUpTo(R, o[v][1]), o[v][2]>>
  BY DEF OriginsMoved, len
<1>9. OriginsMoved(a, q, R, types)
  BY <1>5, <1>6, <1>7, <1>8 DEF OriginsMoved
<1>10. QED
  BY <1>9 DEF a, x

(* The origins of the variables after each instruction of a program.       *)
OriginsAt(p, f, o, q, n) ==
  /\ Len(o[n]) = Len(f[n].builder.variables)
  /\ OriginsMoved(o[n], q[CountUpTo(Real(p), n)], Real(p), TypesOf(p))

(* What remove_nops leaves takes what it took.                             *)
LEMMA OriginsWithoutNops ==
  ASSUME NEW p \in Seq(Instr), IsStaticallyValid(p)
  PROVE  OriginsMoved(Origins(p), Origins(RemoveNops(p)), Real(p), TypesOf(p))
<1> DEFINE N == Len(p)
           R == Real(p)
           r == RemoveNops(p)
           types == TypesOf(p)
           mu == MovedTo(types)
<1>1. NewBuilder \in Sound
  BY NewBuilderOK DEF Sound
<1>2. PICK f : Runs(NewBuilder, p, f) /\ AppendAll(NewBuilder, p) = f[N]
  BY <1>1, AppendAllRuns
<1>3. AcceptedRun(NewBuilder, p, f)
  BY <1>2 DEF AcceptedRun, IsStaticallyValid, IsComplete
<1>4. N \in Nat /\ RunDeclares(p, f, types) /\ types \in Seq(VarType)
  BY <1>3, AcceptedDeclares DEF RunDeclares
<1>5. NopsRemoved(p, r, mu)
  BY RemoveNopsValid
<1> HIDE DEF r
<1>6. /\ r \in Seq(Instr) /\ Len(r) = CountUpTo(R, N)
      /\ \A n \in R : Counterpart(p[n], r[CountUpTo(R, n)], mu)
  BY <1>5 DEF NopsRemoved
<1>7. PICK o : TracesOrigins(p, o) /\ Origins(p) = o[N]
  BY OriginsOfVariables
<1>8. PICK q : TracesOrigins(r, q) /\ Origins(r) = q[Len(r)]
  BY <1>6, OriginsOfVariables
<1>9. /\ \A n \in 0..N : f[n].result = "Ok" /\ f[n].builder \in Sound
      /\ \A n \in 1..N : /\ Outcome(f[n - 1].builder, p[n]) = "Ok"
                         /\ f[n].builder = Appended(f[n - 1].builder, p[n])
  BY <1>1, <1>3, AllAccepted DEF AcceptedRun
<1> DEFINE P == { n \in Nat : OriginsAt(p, f, o, q, n) }
<1> HIDE DEF types, mu
<1>10. 0 \in P
  <2>1. CountUpTo(R, 0) = 0 /\ CountUpTo(NoNop(types), 0) = 0
    BY CountedStep
  <2>2. o[0] = <<>> /\ q[0] = <<>> /\ f[0].builder = NewBuilder
    BY <1>2, <1>7, <1>8 DEF TracesOrigins, Runs
  <2>3. NewBuilder.variables = <<>> /\ Len(<<>>) = 0
    BY DEF NewBuilder, EnterScope
  <2>4. OriginsMoved(<<>>, <<>>, R, types)
    BY <2>1, <2>3 DEF OriginsMoved
  <2>5. QED
    BY <2>1, <2>2, <2>3, <2>4 DEF OriginsAt, types
<1>11. ASSUME NEW n \in 1..N, n - 1 \in P
       PROVE  n \in P
  <2> DEFINE b == f[n - 1].builder
             i == p[n]
             m == CountUpTo(R, n)
             u == o[n - 1]
             w == q[CountUpTo(R, n - 1)]
             T == Nat \X Nat
  <2>1. n - 1 \in 0..N /\ n \in Nat /\ n \in Nat \ {0} /\ i \in Instr
    OBVIOUS
  <2>2. b \in Sound /\ Outcome(b, i) = "Ok" /\ f[n].builder = Appended(b, i)
    BY <1>9, <2>1
  <2>3. Declares(types, Len(b.variables), i)
    BY <1>4 DEF RunDeclares
  <2>4. Len(u) = Len(b.variables) /\ OriginsMoved(u, w, R, types)
    BY <1>11 DEF OriginsAt, types
  <2>5. m = CountUpTo(R, n - 1) + (IF n \in R THEN 1 ELSE 0) /\ CountUpTo(R, n - 1) \in Nat
        /\ CountUpTo(R, n - 1) \in 0..Len(r)
    <3>1. CountUpTo(R, n - 1) <= CountUpTo(R, N)
      <4> HIDE DEF R
      <4>1. QED
        BY <1>4, <2>1, CountedGrows
    <3> HIDE DEF R
    <3>2. m = CountUpTo(R, n - 1) + (IF n \in R THEN 1 ELSE 0) /\ CountUpTo(R, n - 1) \in Nat
      BY <2>1, CountedStep
    <3>3. CountUpTo(R, N) \in Nat
      BY <1>4, CountedStep
    <3>4. QED
      BY <1>6, <3>1, <3>2, <3>3
  <2>6. u \in Seq(T) /\ w \in Seq(T) /\ o[n] = u \o Named(i, n)
    BY <1>7, <1>8, <2>1, <2>5 DEF TracesOrigins
  <2>7. Len(o[n]) = Len(f[n].builder.variables)
    <3>1. HasMore(Appended(b, i), b, Created(i),
                  IF i.op \in NopOp THEN 0 ELSE CurrentScope(Appended(b, i)).id)
      BY <2>1, <2>2, AcceptedFields DEF NextFields
    <3>2. Len(f[n].builder.variables) = Len(b.variables) + Len(Created(i))
      BY <2>2, <3>1 DEF HasMore
    <3>3. Named(i, n) \in Seq(T) /\ Len(Named(i, n)) = Len(Created(i))
      BY <2>1, NamedType
    <3> HIDE DEF u, T, b
    <3>4. Len(o[n]) = Len(u) + Len(Named(i, n))
      BY <2>6, <3>3, ConcatElements
    <3>5. QED
      BY <2>4, <3>2, <3>3, <3>4
  <2>8. CASE n \in R
    <3> DEFINE j == r[m]
    <3>1. i.op \notin NopOp
      BY <2>8 DEF Real
    <3>2. m \in 1..Len(r) /\ m - 1 = CountUpTo(R, n - 1)
      <4>1. m \in 1..CountUpTo(R, N)
        <5> HIDE DEF R
        <5>1. QED
          BY <1>4, <2>8, CountedGrows
      <4>2. QED
        BY <1>6, <2>5, <2>8, <4>1
    <3>3. j \in Instr /\ j.op = i.op
      BY <1>6, <2>8 DEF Counterpart
    <3>4. q[m] = w \o Named(j, m)
      BY <1>8, <3>2 DEF TracesOrigins
    <3> HIDE DEF i, j, R, b, u, w, T, N
    <3>5. OriginsMoved(u \o Named(i, n), w \o Named(j, CountUpTo(R, n)), R, types)
      BY <1>4, <2>1, <2>3, <2>4, <2>6, <2>8, <3>1, <3>3, OriginsRealStep DEF T
    <3>6. OriginsMoved(o[n], q[m], R, types)
      BY <2>6, <3>4, <3>5
    <3>7. OriginsAt(p, f, o, q, n)
      BY <2>7, <3>6 DEF OriginsAt, types, R
    <3>8. QED
      BY <2>1, <3>7
  <2>9. CASE n \notin R
    <3>1. i.op \in NopOp
      BY <2>9 DEF Real
    <3>2. m = CountUpTo(R, n - 1)
      BY <2>5, <2>9
    <3> HIDE DEF i, R, b, u, T, N
    <3>5. OriginsMoved(u \o Named(i, n), w, R, types)
      <4> HIDE DEF w
      <4>1. QED
        BY <1>4, <2>1, <2>3, <2>4, <2>6, <3>1, OriginsNopStep DEF T
    <3>6. OriginsMoved(o[n], q[m], R, types)
      BY <2>6, <3>2, <3>5
    <3>7. OriginsAt(p, f, o, q, n)
      BY <2>7, <3>6 DEF OriginsAt, types, R
    <3>8. QED
      BY <2>1, <3>7
  <2>10. QED
    BY <2>8, <2>9
<1>12. \A n \in 0..N : n \in P
  <2> HIDE DEF P, N
  <2>1. QED
    BY <1>4, <1>10, <1>11, InductionUpTo
<1>13. OriginsAt(p, f, o, q, N)
  BY <1>4, <1>12
<1>14. QED
  BY <1>6, <1>7, <1>8, <1>13 DEF OriginsAt, r

(* The variables of a valid program are those that its instructions        *)
(* create, and each has an origin.                                         *)
LEMMA InputsOfValid ==
  ASSUME NEW p \in Seq(Instr), IsStaticallyValid(p)
  PROVE  /\ Len(Origins(p)) = Len(TypesOf(p))
         /\ \A n \in 1..Len(p) : \A k \in 1..Len(p[n].inputs) : p[n].inputs[k] \in NoNop(TypesOf(p))
<1> DEFINE N == Len(p)
           types == TypesOf(p)
<1>1. NewBuilder \in Sound
  BY NewBuilderOK DEF Sound
<1>2. PICK f : Runs(NewBuilder, p, f) /\ AppendAll(NewBuilder, p) = f[N]
  BY <1>1, AppendAllRuns
<1>3. AcceptedRun(NewBuilder, p, f)
  BY <1>2 DEF AcceptedRun, IsStaticallyValid, IsComplete
<1>4. RunDeclares(p, f, types)
  BY <1>3, AcceptedDeclares
<1>5. PICK t : CreatesTypes(p, t) /\ types = t[N]
  BY TypesOfVariables DEF TypesOf
<1>6. PICK o : TracesOrigins(p, o) /\ Origins(p) = o[N]
  BY OriginsOfVariables
<1> DEFINE P == { n \in Nat : Len(o[n]) = Len(t[n]) }
<1>7. 0 \in P
  BY <1>5, <1>6 DEF TracesOrigins, CreatesTypes
<1>8. ASSUME NEW n \in 1..N, n - 1 \in P
      PROVE  n \in P
  <2> DEFINE T == Nat \X Nat
             i == p[n]
             a == o[n - 1]
             e == t[n - 1]
  <2>1. n - 1 \in 0..N /\ n \in Nat /\ i \in Instr
    OBVIOUS
  <2>2. a \in Seq(T) /\ e \in Seq(VarType) /\ Len(a) = Len(e)
    BY <1>5, <1>6, <1>8, <2>1 DEF TracesOrigins, CreatesTypes
  <2>3. o[n] = a \o Named(i, n) /\ t[n] = e \o Created(i)
    BY <1>5, <1>6 DEF TracesOrigins, CreatesTypes
  <2>4. Named(i, n) \in Seq(T) /\ Len(Named(i, n)) = Len(Created(i)) /\ Created(i) \in Seq(VarType)
    BY <2>1, NamedType, CreatedType
  <2> HIDE DEF T, i, a, e
  <2>5. Len(o[n]) = Len(a) + Len(Named(i, n)) /\ Len(t[n]) = Len(e) + Len(Created(i))
    <3>1. Len(a \o Named(i, n)) = Len(a) + Len(Named(i, n))
      BY <2>2, <2>4, ConcatElements
    <3>2. Len(e \o Created(i)) = Len(e) + Len(Created(i))
      BY <2>2, <2>4, ConcatElements
    <3>3. QED
      BY <2>3, <3>1, <3>2
  <2>6. QED
    BY <2>1, <2>2, <2>4, <2>5
<1>9. N \in Nat /\ N \in 0..N
  OBVIOUS
<1>10. \A n \in 0..N : n \in P
  <2> HIDE DEF P, N
  <2>1. QED
    BY <1>7, <1>8, <1>9, InductionUpTo
<1>11. QED
  BY <1>4, <1>5, <1>6, <1>9, <1>10 DEF RunDeclares

-----------------------------------------------------------------------------
(* The run over a program is the only one.                                 *)
LEMMA TheRun ==
  ASSUME NEW b \in Sound, NEW p \in Seq(Instr), NEW f, Runs(b, p, f)
  PROVE  AppendAll(b, p) = f[Len(p)]
<1> DEFINE N == Len(p)
<1>1. N \in Nat
  OBVIOUS
<1>2. PICK g : Runs(b, p, g) /\ AppendAll(b, p) = g[N]
  BY AppendAllRuns
<1> DEFINE P == { n \in Nat : g[n] = f[n] }
<1>3. 0 \in P
  BY <1>2 DEF Runs
<1>4. ASSUME NEW n \in 1..N, n - 1 \in P
      PROVE  n \in P
  <2>1. f[n] = AfterStep(f[n - 1], p[n]) /\ g[n] = AfterStep(g[n - 1], p[n])
    BY <1>2 DEF Runs
  <2>2. QED
    BY <1>4, <2>1
<1>5. \A n \in 0..N : n \in P
  <2> HIDE DEF P, N
  <2>1. QED
    BY <1>1, <1>3, <1>4, InductionUpTo
<1>6. N \in 0..N
  BY <1>1
<1>7. QED
  BY <1>2, <1>5, <1>6

(* The first instructions of a program run as they do in the program.      *)
LEMMA RunOfPrefix ==
  ASSUME NEW b \in Sound, NEW p \in Seq(Instr), NEW f, Runs(b, p, f), NEW k \in 0..Len(p)
  PROVE  /\ SubSeq(p, 1, k) \in Seq(Instr) /\ Len(SubSeq(p, 1, k)) = k
         /\ \A n \in 1..k : SubSeq(p, 1, k)[n] = p[n]
         /\ AppendAll(b, SubSeq(p, 1, k)) = f[k]
<1> DEFINE q == SubSeq(p, 1, k)
           g == [n \in 0..k |-> f[n]]
<1>1. k \in Nat /\ k <= Len(p) /\ Len(p) \in Nat /\ \A n \in 1..k : p[n] \in Instr
  OBVIOUS
<1>2. q \in Seq(Instr) /\ Len(q) = k /\ \A n \in 1..k : q[n] = p[n]
  BY <1>1, SubSeqProperties
<1> HIDE DEF q
<1>3. /\ f \in [0..Len(p) -> Run] /\ f[0] = [result |-> "Ok", builder |-> b]
      /\ \A n \in 1..Len(p) : f[n] = AfterStep(f[n - 1], p[n])
  BY DEF Runs
<1>4. \A n \in 0..k : n \in 0..Len(p) /\ g[n] = f[n]
  BY <1>1
<1>5. g \in [0..k -> Run]
  <2>1. \A n \in 0..k : f[n] \in Run
    BY <1>3, <1>4
  <2>2. QED
    BY <2>1
<1>6. \A n \in 1..k : n \in 1..Len(p) /\ n \in 0..k /\ n - 1 \in 0..k
  BY <1>1
<1>7. 0 \in 0..k /\ k \in 0..k
  BY <1>1
<1> HIDE DEF g
<1>8. Runs(b, q, g)
  BY <1>2, <1>3, <1>4, <1>5, <1>6, <1>7 DEF Runs
<1>9. AppendAll(b, q) = g[k]
  BY <1>2, <1>8, TheRun
<1>10. QED
  BY <1>2, <1>4, <1>7, <1>9 DEF q

(* A builder whose program was accepted from the start.                    *)
Replays(b) ==
  b \in Sound /\ AppendAll(NewBuilder, b.instructions) = [result |-> "Ok", builder |-> b]

(* The run over a program and one more instruction.                        *)
LEMMA RunOfAppend ==
  ASSUME NEW b \in Sound, NEW p \in Seq(Instr), NEW i \in Instr
  PROVE  AppendAll(b, Append(p, i)) = AfterStep(AppendAll(b, p), i)
<1> DEFINE q == Append(p, i)
           N == Len(p)
<1>1. q \in Seq(Instr) /\ Len(q) = N + 1 /\ N \in Nat /\ q[N + 1] = i
  OBVIOUS
<1>2. SubSeq(q, 1, N) = p
  <2>1. /\ SubSeq(q, 1, N) \in Seq(Instr) /\ Len(SubSeq(q, 1, N)) = N
        /\ \A n \in 1..N : SubSeq(q, 1, N)[n] = q[n]
    <3>1. \A n \in 1..N : q[n] \in Instr
      OBVIOUS
    <3> HIDE DEF q, N
    <3>2. QED
      BY <1>1, <3>1, SubSeqProperties
  <2>2. \A n \in 1..N : q[n] = p[n]
    OBVIOUS
  <2> HIDE DEF q
  <2>3. QED
    BY <2>1, <2>2, SeqEqual
<1> HIDE DEF q, N
<1>3. PICK f : Runs(b, q, f) /\ AppendAll(b, q) = f[N + 1]
  BY <1>1, AppendAllRuns
<1>4. AppendAll(b, p) = f[N]
  <2>1. N \in 0..Len(q)
    BY <1>1
  <2>2. AppendAll(b, SubSeq(q, 1, N)) = f[N]
    BY <1>1, <1>3, <2>1, RunOfPrefix
  <2>3. QED
    BY <1>2, <2>2
<1>5. f[N + 1] = AfterStep(f[(N + 1) - 1], q[N + 1])
  <2>1. N + 1 \in 1..Len(q)
    BY <1>1
  <2>2. QED
    BY <1>3, <2>1 DEF Runs
<1>6. (N + 1) - 1 = N
  BY <1>1
<1>7. QED
  BY <1>1, <1>3, <1>4, <1>5, <1>6 DEF q

(* A new builder has accepted nothing.                                     *)
LEMMA NewReplays == Replays(NewBuilder) /\ NewBuilder.instructions = <<>>
<1>1. NewBuilder \in Sound
  BY NewBuilderOK DEF Sound
<1>2. NewBuilder.instructions = <<>>
  BY DEF NewBuilder, EnterScope
<1>3. <<>> \in Seq(Instr) /\ Len(<<>>) = 0
  OBVIOUS
<1>4. PICK f : Runs(NewBuilder, <<>>, f) /\ AppendAll(NewBuilder, <<>>) = f[0]
  BY <1>1, <1>3, AppendAllRuns
<1>5. QED
  BY <1>1, <1>2, <1>4 DEF Replays, Runs

(* What accepts one more instruction accepts the program with it.          *)
LEMMA AcceptedReplays ==
  ASSUME NEW b, Replays(b), NEW i \in Instr, Outcome(b, i) = "Ok"
  PROVE  Replays(Appended(b, i)) /\ Appended(b, i).instructions = Append(b.instructions, i)
<1>1. b \in Sound /\ NewBuilder \in Sound /\ b.instructions \in Seq(Instr)
  BY NewReplays DEF Replays, Sound, Builder
<1>2. Appended(b, i) \in Sound
  BY <1>1, AcceptedIsSound
<1>3. Appended(b, i).instructions = Append(b.instructions, i)
  BY <1>1, AcceptedFields DEF NextFields
<1>4. AppendAll(NewBuilder, Append(b.instructions, i)) = AfterStep([result |-> "Ok", builder |-> b], i)
  BY <1>1, RunOfAppend DEF Replays
<1>5. AfterStep([result |-> "Ok", builder |-> b], i) = [result |-> "Ok", builder |-> Appended(b, i)]
  BY DEF AfterStep, AppendReturning
<1>6. QED
  BY <1>2, <1>3, <1>4, <1>5 DEF Replays

(* The instructions after an accepted run: those before it, then those of  *)
(* the run.                                                                *)
Extended(b, p, c, n) ==
  /\ Replays(c)
  /\ Len(c.instructions) = Len(b.instructions) + n
  /\ \A m \in 1..Len(b.instructions) : c.instructions[m] = b.instructions[m]
  /\ \A m \in 1..n : c.instructions[Len(b.instructions) + m] = p[m]

(* And so does what accepts a sequence of them.                            *)
LEMMA RunReplays ==
  ASSUME NEW b, Replays(b), NEW p \in Seq(Instr), NEW f, AcceptedRun(b, p, f)
  PROVE  \A n \in 0..Len(p) : Extended(b, p, f[n].builder, n)
<1> DEFINE N == Len(p)
           P == { n \in Nat : Extended(b, p, f[n].builder, n) }
<1>1. N \in Nat /\ b \in Sound /\ b.instructions \in Seq(Instr) /\ Len(b.instructions) \in Nat
  BY DEF Replays, Sound, Builder
<1>2. /\ \A n \in 0..N : f[n].result = "Ok" /\ f[n].builder \in Sound
      /\ \A n \in 1..N : /\ Outcome(f[n - 1].builder, p[n]) = "Ok"
                         /\ f[n].builder = Appended(f[n - 1].builder, p[n])
  BY <1>1, AllAccepted DEF AcceptedRun
<1>3. 0 \in P
  <2>1. f[0].builder = b
    BY DEF AcceptedRun, Runs
  <2>2. QED
    BY <1>1, <2>1 DEF Extended
<1>4. ASSUME NEW n \in 1..N, n - 1 \in P
      PROVE  n \in P
  <2> DEFINE c == f[n - 1].builder
             i == p[n]
             s == c.instructions
             L == Len(b.instructions)
  <2>1. n - 1 \in Nat /\ n \in Nat /\ n - 1 \in 0..N /\ i \in Instr
    BY <1>1
  <2>2. /\ Replays(c) /\ Len(s) = L + (n - 1)
        /\ \A m \in 1..L : s[m] = b.instructions[m]
        /\ \A m \in 1..(n - 1) : s[L + m] = p[m]
    BY <1>4 DEF Extended
  <2>3. s \in Seq(Instr)
    BY <2>2 DEF Replays, Sound, Builder
  <2>4. Outcome(c, i) = "Ok" /\ f[n].builder = Appended(c, i)
    BY <1>2
  <2> HIDE DEF c, i, s, L
  <2>5. Replays(Appended(c, i)) /\ Appended(c, i).instructions = Append(s, i)
    BY <2>1, <2>2, <2>4, AcceptedReplays DEF s
  <2>6. L \in Nat
    BY <1>1 DEF L
  <2>7. /\ Len(Append(s, i)) = L + n
        /\ \A m \in 1..L : Append(s, i)[m] = b.instructions[m]
        /\ \A m \in 1..(n - 1) : Append(s, i)[L + m] = p[m]
        /\ Append(s, i)[L + n] = i
    BY <2>1, <2>2, <2>3, <2>6
  <2>8. \A m \in 1..n : Append(s, i)[L + m] = p[m]
    <3>1. \A m \in 1..n : m \in 1..(n - 1) \/ m = n
      BY <2>1
    <3>2. QED
      BY <2>7, <3>1 DEF i
  <2>9. Extended(b, p, Appended(c, i), n)
    BY <2>5, <2>7, <2>8 DEF Extended, L
  <2>10. QED
    BY <2>1, <2>4, <2>9
<1>5. \A n \in 0..N : n \in P
  <2> HIDE DEF P, N
  <2>1. QED
    BY <1>1, <1>3, <1>4, InductionUpTo
<1>6. QED
  BY <1>5

(* The lookup of the first instructions of an accepted program sees what   *)
(* the builder saw.                                                        *)
LEMMA LookupOfPrefix ==
  ASSUME NEW p \in Seq(Instr), NEW f, AcceptedRun(NewBuilder, p, f), NEW k \in 0..Len(p)
  PROVE  Visible(Lookup(SubSeq(p, 1, k))) = Visible(f[k].builder)
<1> DEFINE N == Len(p)
           P == { n \in Nat : Defines(f[n].builder.instructions, Trace(f[n].builder)) }
<1>1. N \in Nat /\ NewBuilder \in Sound /\ Replays(NewBuilder) /\ NewBuilder.instructions = <<>>
  BY NewReplays DEF Replays
<1>2. /\ \A n \in 0..N : f[n].result = "Ok" /\ f[n].builder \in Sound
      /\ \A n \in 1..N : /\ Outcome(f[n - 1].builder, p[n]) = "Ok"
                         /\ f[n].builder = Appended(f[n - 1].builder, p[n])
  BY <1>1, AllAccepted DEF AcceptedRun
<1>3. 0 \in P
  <2>1. f[0].builder = NewBuilder
    BY DEF AcceptedRun, Runs
  <2>2. QED
    BY <1>1, <2>1, NewTrace, DefinesNothing
<1>4. ASSUME NEW n \in 1..N, n - 1 \in P
      PROVE  n \in P
  <2> DEFINE b == f[n - 1].builder
             i == p[n]
  <2>1. n \in Nat /\ n - 1 \in 0..N /\ i \in Instr
    BY <1>1
  <2>2. b \in Sound /\ Outcome(b, i) = "Ok" /\ f[n].builder = Appended(b, i)
        /\ Defines(b.instructions, Trace(b))
    BY <1>2, <1>4, <2>1
  <2> HIDE DEF b, i
  <2>3. b \in Builder /\ ScopesOK(b) /\ b.instructions \in Seq(Instr)
        /\ (i.op \in Ends => Len(b.active_scopes) > 1)
    BY <2>1, <2>2, AcceptedIsSound DEF Sound, Builder
  <2>4. LookupStep(Trace(b), i) = Trace(Appended(b, i))
    BY <2>1, <2>3, LookupStepIsAppended
  <2>5. Appended(b, i).instructions = Append(b.instructions, i)
    BY <2>1, <2>2, AcceptedFields DEF NextFields
  <2>6. Defines(Append(b.instructions, i), LookupStep(Trace(b), i))
    BY <2>1, <2>2, <2>3, DefinesStep
  <2>7. QED
    BY <2>1, <2>2, <2>4, <2>5, <2>6
<1>5. \A n \in 0..N : n \in P
  <2> HIDE DEF P, N
  <2>1. QED
    BY <1>1, <1>3, <1>4, InductionUpTo
<1>6. f[k].builder.instructions = SubSeq(p, 1, k)
  <2> DEFINE s == f[k].builder.instructions
  <2>1. Extended(NewBuilder, p, f[k].builder, k)
    BY <1>1, RunReplays
  <2>2. Len(<<>>) = 0
    OBVIOUS
  <2>3. s \in Seq(Instr)
    BY <1>2 DEF Sound, Builder
  <2>4. k \in Nat /\ Len(s) = k /\ \A m \in 1..k : s[m] = p[m]
    BY <1>1, <2>1, <2>2 DEF Extended
  <2>5. /\ SubSeq(p, 1, k) \in Seq(Instr) /\ Len(SubSeq(p, 1, k)) = k
        /\ \A m \in 1..k : SubSeq(p, 1, k)[m] = p[m]
    BY <1>1, RunOfPrefix DEF AcceptedRun
  <2> HIDE DEF s
  <2>6. QED
    BY <2>3, <2>4, <2>5, SeqEqual DEF s
<1>7. Lookup(SubSeq(p, 1, k)) = Trace(f[k].builder)
  BY <1>5, <1>6, DefinesLookup
<1> DEFINE b == f[k].builder
<1>8. Trace(b).variables = b.variables /\ Trace(b).active_scopes_set = b.active_scopes_set
  BY DEF Trace
<1>9. \A v : InScope(Trace(b), v) <=> InScope(b, v)
  BY <1>8 DEF InScope
<1>10. Visible(Trace(b)) = Visible(b)
  BY <1>8, <1>9 DEF Visible
<1>11. QED
  BY <1>7, <1>10

-----------------------------------------------------------------------------
(* The same numbers, from one place on moved to another.                   *)
MovedFrom(mu, n, m) == \A k \in Nat \ {0} : mu[n + k] = m + k

(* Two builders that go on in step: what the one still declares and opens  *)
(* has its counterpart in the other.                                       *)
InStep(b, c, d, mu, sig) ==
  /\ b \in Sound /\ c \in Sound /\ Mirrors(b, c, d, mu, sig)
  /\ MovedFrom(mu, Len(b.variables), Len(c.variables))
  /\ MovedFrom(sig, b.scope_counter, c.scope_counter)

(* An instruction and its counterpart keep them in step.                   *)
LEMMA InStepStep ==
  ASSUME NEW b, NEW c, NEW d \in Nat, NEW mu, NEW sig, InStep(b, c, d, mu, sig),
         NEW i \in Instr, NEW j, Counterpart(i, j, mu), Outcome(b, i) = "Ok"
  PROVE  Outcome(c, j) = "Ok" /\ InStep(Appended(b, i), Appended(c, j), d, mu, sig)
<1> DEFINE a == Appended(b, i)
           e == Appended(c, j)
           x == Len(Created(i))
           more == IF i.op \in Begins THEN 1 ELSE 0
<1>1. /\ b \in Sound /\ c \in Sound /\ Mirrors(b, c, d, mu, sig)
      /\ MovedFrom(mu, Len(b.variables), Len(c.variables))
      /\ MovedFrom(sig, b.scope_counter, c.scope_counter)
  BY DEF InStep
<1>2. /\ j \in Instr /\ j.op = i.op /\ j.arg = i.arg /\ Len(j.inputs) = Len(i.inputs)
      /\ \A k \in 1..Len(i.inputs) : j.inputs[k] = mu[i.inputs[k]]
  BY DEF Counterpart
<1>3. /\ sig[b.scope_counter + 1] = c.scope_counter + 1
      /\ \A k \in 1..x : mu[Len(b.variables) + k] = Len(c.variables) + k
  <2>1. 1 \in Nat \ {0} /\ \A k \in 1..x : k \in Nat \ {0}
    BY CreatedType
  <2> HIDE DEF x
  <2>2. QED
    BY <1>1, <2>1 DEF MovedFrom
<1>4. Outcome(c, j) = "Ok" /\ Mirrors(a, e, d, mu, sig)
  BY <1>1, <1>2, <1>3, MirrorsStep
<1>5. a \in Sound /\ e \in Sound /\ NextFields(b, i, a) /\ NextFields(c, j, e)
  BY <1>1, <1>2, <1>4, AcceptedIsSound, AcceptedFields
<1>6. Created(j) = Created(i)
  BY <1>2 DEF Created
<1>7. /\ x \in Nat /\ more \in Nat /\ b.scope_counter \in Nat /\ c.scope_counter \in Nat
      /\ Len(b.variables) \in Nat /\ Len(c.variables) \in Nat
  BY <1>1, CreatedType DEF Sound, Builder
<1> HIDE DEF a, e, x, more
<1>8. /\ Len(a.variables) = Len(b.variables) + x /\ Len(e.variables) = Len(c.variables) + x
      /\ a.scope_counter = b.scope_counter + more /\ e.scope_counter = c.scope_counter + more
  BY <1>2, <1>5, <1>6 DEF NextFields, HasMore, x, more
<1>9. \A n, m, y \in Nat : \A f : MovedFrom(f, n, m) => MovedFrom(f, n + y, m + y)
  <2> SUFFICES ASSUME NEW n \in Nat, NEW m \in Nat, NEW y \in Nat, NEW f, MovedFrom(f, n, m),
                      NEW k \in Nat \ {0}
               PROVE  f[(n + y) + k] = (m + y) + k
    BY DEF MovedFrom
  <2>1. y + k \in Nat \ {0} /\ (n + y) + k = n + (y + k) /\ (m + y) + k = m + (y + k)
    OBVIOUS
  <2>2. QED
    BY <2>1 DEF MovedFrom
<1>10. InStep(a, e, d, mu, sig)
  BY <1>1, <1>4, <1>5, <1>7, <1>8, <1>9 DEF InStep
<1>11. QED
  BY <1>4, <1>10 DEF a, e

(* Nor does a program of them.                                             *)
LEMMA InStepRun ==
  ASSUME NEW b, NEW c, NEW d \in Nat, NEW mu, NEW sig, InStep(b, c, d, mu, sig),
         NEW p \in Seq(Instr), NEW f, AcceptedRun(b, p, f),
         NEW q \in Seq(Instr), Len(q) = Len(p), \A n \in 1..Len(p) : Counterpart(p[n], q[n], mu),
         NEW g, Runs(c, q, g)
  PROVE  /\ AcceptedRun(c, q, g)
         /\ \A n \in 0..Len(p) : InStep(f[n].builder, g[n].builder, d, mu, sig)
<1> DEFINE N == Len(p)
           P == { n \in Nat : /\ g[n].result = "Ok"
                              /\ InStep(f[n].builder, g[n].builder, d, mu, sig) }
<1>1. N \in Nat /\ b \in Sound
  BY DEF InStep
<1>2. \A n \in 1..N : /\ Outcome(f[n - 1].builder, p[n]) = "Ok"
                      /\ f[n].builder = Appended(f[n - 1].builder, p[n])
  BY <1>1, AllAccepted DEF AcceptedRun
<1>3. 0 \in P
  BY DEF AcceptedRun, Runs
<1>4. ASSUME NEW n \in 1..N, n - 1 \in P
      PROVE  n \in P
  <2> DEFINE x == f[n - 1].builder
             y == g[n - 1].builder
  <2>1. n \in Nat /\ p[n] \in Instr
    BY <1>1
  <2>2. g[n - 1].result = "Ok" /\ InStep(x, y, d, mu, sig)
    BY <1>4
  <2>3. Outcome(x, p[n]) = "Ok" /\ f[n].builder = Appended(x, p[n])
    BY <1>2
  <2>4. g[n] = AfterStep(g[n - 1], q[n])
    BY DEF Runs
  <2> HIDE DEF x
  <2>5. Outcome(y, q[n]) = "Ok" /\ InStep(Appended(x, p[n]), Appended(y, q[n]), d, mu, sig)
    BY <2>1, <2>2, <2>3, InStepStep
  <2>6. g[n].result = "Ok" /\ g[n].builder = Appended(y, q[n])
    BY <2>2, <2>4, <2>5 DEF AfterStep, AppendReturning
  <2> HIDE DEF y
  <2>7. QED
    BY <2>1, <2>3, <2>5, <2>6
<1>5. \A n \in 0..N : n \in P
  <2> HIDE DEF P, N
  <2>1. QED
    BY <1>1, <1>3, <1>4, InductionUpTo
<1>6. N \in 0..N
  BY <1>1
<1>7. QED
  BY <1>5, <1>6 DEF AcceptedRun

-----------------------------------------------------------------------------
(* What a valid program comes from.                                        *)
LEMMA ValidRun ==
  ASSUME NEW p \in Seq(Instr), IsStaticallyValid(p)
  PROVE  \E f : /\ AcceptedRun(NewBuilder, p, f) /\ AppendAll(NewBuilder, p) = f[Len(p)]
                /\ FinalizeOutcome(f[Len(p)].builder) = "Ok"
<1>1. NewBuilder \in Sound
  BY NewReplays DEF Replays
<1>2. PICK f : Runs(NewBuilder, p, f) /\ AppendAll(NewBuilder, p) = f[Len(p)]
  BY <1>1, AppendAllRuns
<1>3. QED
  BY <1>2 DEF AcceptedRun, IsStaticallyValid, IsComplete

(* A builder that has the variables of another one, and maybe more.        *)
Grown(b, c) ==
  /\ Len(b.variables) <= Len(c.variables) /\ b.scope_counter <= c.scope_counter
  /\ \A v \in 1..Len(b.variables) : c.variables[v] = b.variables[v]
  /\ Len(b.instructions) <= Len(c.instructions)
  /\ \A k \in 1..Len(b.instructions) : c.instructions[k] = b.instructions[k]

(* Appending forgets nothing.                                              *)
LEMMA GrownStep ==
  ASSUME NEW b \in Sound, NEW i \in Instr, Outcome(b, i) = "Ok"
  PROVE  /\ Grown(b, Appended(b, i))
         /\ Len(Appended(b, i).variables) = Len(b.variables) + Len(Created(i))
<1> DEFINE a == Appended(b, i)
<1>1. NextFields(b, i, a)
  BY AcceptedFields
<1>2. /\ b.scope_counter \in Nat /\ b.instructions \in Seq(Instr)
      /\ Len(b.variables) \in Nat /\ Len(Created(i)) \in Nat
  BY CreatedType DEF Sound, Builder
<1> HIDE DEF a
<1>3. /\ a.instructions = Append(b.instructions, i)
      /\ a.scope_counter = b.scope_counter + (IF i.op \in Begins THEN 1 ELSE 0)
      /\ Len(a.variables) = Len(b.variables) + Len(Created(i))
      /\ \A v \in 1..Len(b.variables) : a.variables[v] = b.variables[v]
  BY <1>1 DEF NextFields, HasMore
<1>4. /\ Len(b.instructions) <= Len(a.instructions)
      /\ \A k \in 1..Len(b.instructions) : a.instructions[k] = b.instructions[k]
  BY <1>2, <1>3
<1>5. Len(b.variables) <= Len(a.variables) /\ b.scope_counter <= a.scope_counter
  BY <1>2, <1>3
<1>6. QED
  BY <1>3, <1>4, <1>5 DEF Grown, a

(* What has grown from what has grown has grown.                           *)
LEMMA GrownOnce ==
  ASSUME NEW b \in Sound, NEW c \in Sound, NEW e \in Sound, Grown(b, c), Grown(c, e)
  PROVE  Grown(b, e)
<1>1. \A x \in Sound : /\ Len(x.variables) \in Nat /\ x.scope_counter \in Nat
                       /\ Len(x.instructions) \in Nat
  <2>1. \A x \in Sound : /\ x.variables \in Seq(ScopedVariable) /\ x.scope_counter \in Nat
                         /\ x.instructions \in Seq(Instr)
    BY DEF Sound, Builder
  <2>2. QED
    BY <2>1
<1>2. \A v \in 1..Len(b.variables) : v \in 1..Len(c.variables)
  BY <1>1 DEF Grown
<1>3. \A k \in 1..Len(b.instructions) : k \in 1..Len(c.instructions)
  BY <1>1 DEF Grown
<1>4. Len(b.variables) <= Len(e.variables) /\ b.scope_counter <= e.scope_counter
      /\ Len(b.instructions) <= Len(e.instructions)
  BY <1>1 DEF Grown
<1>5. QED
  BY <1>2, <1>3, <1>4 DEF Grown

(* The builder of an accepted run only grows.                              *)
LEMMA RunGrows ==
  ASSUME NEW b \in Sound, NEW p \in Seq(Instr), NEW f, AcceptedRun(b, p, f)
  PROVE  /\ \A n \in 0..Len(p) : \A m \in 0..n : Grown(f[m].builder, f[n].builder)
         /\ \A n \in 1..Len(p) : Len(f[n].builder.variables)
                                   = Len(f[n - 1].builder.variables) + Len(Created(p[n]))
<1> DEFINE N == Len(p)
           P == { n \in Nat : \A m \in 0..n : Grown(f[m].builder, f[n].builder) }
<1>1. N \in Nat
  OBVIOUS
<1>2. /\ \A n \in 0..N : f[n].builder \in Sound
      /\ \A n \in 1..N : /\ Outcome(f[n - 1].builder, p[n]) = "Ok"
                         /\ f[n].builder = Appended(f[n - 1].builder, p[n])
  BY AllAccepted DEF AcceptedRun
<1>3. ASSUME NEW n \in 0..N
      PROVE  Grown(f[n].builder, f[n].builder)
  <2> DEFINE c == f[n].builder
  <2>1. c \in Sound
    BY <1>2
  <2> HIDE DEF c
  <2>2. Len(c.variables) \in Nat /\ c.scope_counter \in Nat /\ Len(c.instructions) \in Nat
    BY <2>1 DEF Sound, Builder
  <2>3. QED
    BY <2>2 DEF Grown, c
<1>4. 0 \in P
  BY <1>1, <1>3
<1>5. ASSUME NEW n \in 1..N
      PROVE  /\ Grown(f[n - 1].builder, f[n].builder)
             /\ Len(f[n].builder.variables) = Len(f[n - 1].builder.variables) + Len(Created(p[n]))
  <2>1. n - 1 \in 0..N /\ p[n] \in Instr
    BY <1>1
  <2>2. f[n - 1].builder \in Sound
    BY <1>2, <2>1
  <2>3. QED
    BY <1>2, <2>1, <2>2, GrownStep
<1>6. ASSUME NEW n \in 1..N, n - 1 \in P
      PROVE  n \in P
  <2> SUFFICES ASSUME NEW m \in 0..n
               PROVE  Grown(f[m].builder, f[n].builder)
    OBVIOUS
  <2>1. n \in Nat /\ n \in 0..N /\ n - 1 \in 0..N /\ m \in 0..N /\ (m = n \/ m \in 0..(n - 1))
    BY <1>1
  <2>2. CASE m = n
    BY <1>3, <2>1, <2>2
  <2>3. CASE m \in 0..(n - 1)
    <3>1. Grown(f[m].builder, f[n - 1].builder) /\ Grown(f[n - 1].builder, f[n].builder)
      BY <1>5, <1>6, <2>3
    <3>2. f[m].builder \in Sound /\ f[n - 1].builder \in Sound /\ f[n].builder \in Sound
      BY <1>2, <2>1
    <3>3. QED
      BY <3>1, <3>2, GrownOnce
  <2>4. QED
    BY <2>1, <2>2, <2>3
<1>7. \A n \in 0..N : n \in P
  <2> HIDE DEF N, P
  <2>1. QED
    BY <1>1, <1>4, <1>6, InductionUpTo
<1>8. QED
  BY <1>5, <1>7

(* Each variable of an accepted program is one of those that an            *)
(* instruction creates where the builder then is, and Origins says so.     *)
Variables(f, n) == Len(f[n].builder.variables)

OriginsTell(p, f) ==
  /\ \A k \in 1..Len(p) : \A m \in 1..Len(Created(p[k])) :
       Origins(p)[Variables(f, k - 1) + m] = <<k, m>>
  /\ \A n \in 0..Len(p) : \A v \in 1..Variables(f, n) :
       \E k \in 1..n : \E m \in 1..Len(Created(p[k])) : v = Variables(f, k - 1) + m

(* The origins of a program tell where its run declares the variables.     *)
LEMMA OriginsOfRun ==
  ASSUME NEW p \in Seq(Instr), NEW f, AcceptedRun(NewBuilder, p, f)
  PROVE  OriginsTell(p, f)
<1> DEFINE N == Len(p)
           V(n) == Len(f[n].builder.variables)
           C(k) == Len(Created(p[k]))
           T == Nat \X Nat
<1>1. N \in Nat /\ NewBuilder \in Sound /\ \A k \in 1..N : p[k] \in Instr
  BY NewReplays DEF Replays
<1>2. PICK o : TracesOrigins(p, o) /\ Origins(p) = o[N]
  BY OriginsOfVariables
<1>3. \A n \in 0..N : f[n].builder \in Sound
  BY <1>1, AllAccepted DEF AcceptedRun
<1>4. /\ \A n \in 0..N : V(n) \in Nat
      /\ \A n \in 0..N : \A m \in 0..n : V(m) <= V(n)
      /\ \A n \in 1..N : V(n) = V(n - 1) + C(n)
  <2>1. \A n \in 0..N : V(n) \in Nat
    <3>1. \A b \in Sound : b.variables \in Seq(ScopedVariable)
      BY DEF Sound, Builder
    <3>2. \A b \in Sound : Len(b.variables) \in Nat
      BY <3>1
    <3>3. QED
      BY <1>3, <3>2
  <2>2. /\ \A n \in 0..N : \A m \in 0..n : Grown(f[m].builder, f[n].builder)
        /\ \A n \in 1..N : V(n) = V(n - 1) + C(n)
    BY <1>1, RunGrows
  <2>3. QED
    BY <2>1, <2>2 DEF Grown
<1>5. \A k \in 1..N : C(k) \in Nat
  BY <1>1, CreatedType
<1>6. V(0) = 0
  <2>1. f[0].builder = NewBuilder /\ NewBuilder.variables = <<>>
    BY DEF AcceptedRun, Runs, NewBuilder, EnterScope
  <2>2. Len(<<>>) = 0
    OBVIOUS
  <2>3. QED
    BY <2>1, <2>2
<1>7. o[0] = <<>> /\ \A n \in 0..N : o[n] \in Seq(T)
  BY <1>2 DEF TracesOrigins
<1>8. \A n \in 1..N : o[n] = o[n - 1] \o Named(p[n], n)
  BY <1>2 DEF TracesOrigins
<1>9. \A n \in 1..N : /\ Named(p[n], n) \in Seq(T) /\ Len(Named(p[n], n)) = C(n)
                      /\ \A m \in 1..C(n) : Named(p[n], n)[m] = <<n, m>>
  BY <1>1, NamedType
<1> DEFINE Named1(n) == /\ Len(o[n]) = V(n)
                        /\ \A k \in 1..n : \A m \in 1..C(k) : o[n][V(k - 1) + m] = <<k, m>>
           Covers(n) == \A v \in 1..V(n) : \E k \in 1..n : \E m \in 1..C(k) : v = V(k - 1) + m
           P == { n \in Nat : Named1(n) /\ Covers(n) }
<1> HIDE DEF V, C, T, N
<1>10. 0 \in P
  <2>1. Len(<<>>) = 0
    OBVIOUS
  <2>2. QED
    BY <1>6, <1>7, <2>1
<1>11. ASSUME NEW n \in 1..N, n - 1 \in P
       PROVE  n \in P
  <2>1. n \in Nat /\ n - 1 \in 0..N /\ n \in 0..N /\ n - 1 \in Nat
    BY <1>1
  <2>2. Named1(n - 1) /\ Covers(n - 1)
    BY <1>11
  <2>3. V(n) = V(n - 1) + C(n) /\ V(n - 1) \in Nat /\ C(n) \in Nat
    BY <1>4, <1>5, <2>1
  <2> DEFINE u == o[n - 1]
             w == Named(p[n], n)
  <2>4. u \in Seq(T) /\ Len(u) = V(n - 1) /\ w \in Seq(T) /\ Len(w) = C(n) /\ o[n] = u \o w
    BY <1>7, <1>8, <1>9, <2>1, <2>2
  <2> HIDE DEF u, w
  <2>5. /\ Len(o[n]) = V(n)
        /\ \A x \in 1..V(n - 1) : o[n][x] = u[x]
        /\ \A x \in 1..C(n) : o[n][V(n - 1) + x] = w[x]
    <3>1. /\ Len(u \o w) = Len(u) + Len(w)
          /\ \A x \in 1..Len(u) : (u \o w)[x] = u[x]
          /\ \A x \in 1..Len(w) : (u \o w)[Len(u) + x] = w[x]
      <4> HIDE DEF T
      <4>1. u \in Seq(T) /\ w \in Seq(T)
        BY <2>4
      <4>2. QED
        BY <4>1, ConcatElements
    <3>2. QED
      BY <2>3, <2>4, <3>1
  <2>6. ASSUME NEW k \in 1..n, NEW m \in 1..C(k)
        PROVE  o[n][V(k - 1) + m] = <<k, m>>
    <3>1. CASE k = n
      BY <1>9, <2>5, <3>1 DEF w
    <3>2. CASE k # n
      <4>1. k \in 1..(n - 1) /\ k \in 1..N /\ k \in 0..(n - 1) /\ k - 1 \in 0..N
        BY <1>1, <2>1, <3>2
      <4>2. V(k) <= V(n - 1) /\ V(k) = V(k - 1) + C(k) /\ V(k - 1) \in Nat /\ C(k) \in Nat
        BY <1>4, <1>5, <2>1, <4>1
      <4>3. V(k - 1) + m \in 1..V(n - 1)
        BY <2>3, <4>2
      <4>4. u[V(k - 1) + m] = <<k, m>>
        BY <2>2, <4>1 DEF u
      <4>5. QED
        BY <2>5, <4>3, <4>4
    <3>3. QED
      BY <3>1, <3>2
  <2>7. ASSUME NEW v \in 1..V(n)
        PROVE  \E k \in 1..n : \E m \in 1..C(k) : v = V(k - 1) + m
    <3>1. CASE v \in 1..V(n - 1)
      <4>1. PICK k \in 1..(n - 1) : \E m \in 1..C(k) : v = V(k - 1) + m
        BY <2>2, <3>1
      <4>2. k \in 1..n
        BY <2>1
      <4>3. QED
        BY <4>1, <4>2
    <3>2. CASE v \notin 1..V(n - 1)
      <4>1. v - V(n - 1) \in 1..C(n) /\ v = V(n - 1) + (v - V(n - 1)) /\ n \in 1..n
        BY <2>1, <2>3, <3>2
      <4>2. QED
        BY <4>1
    <3>3. QED
      BY <3>1, <3>2
  <2>8. QED
    BY <2>1, <2>5, <2>6, <2>7
<1>12. \A n \in 0..N : n \in P
  <2> HIDE DEF P
  <2>1. QED
    BY <1>1, <1>10, <1>11, InductionUpTo
<1>13. N \in 0..N
  BY <1>1
<1>14. \A k \in 1..N : \A m \in 1..C(k) : Origins(p)[V(k - 1) + m] = <<k, m>>
  BY <1>2, <1>12, <1>13 DEF N
<1>15. \A n \in 0..N : Covers(n)
  BY <1>12
<1>16. QED
  BY <1>14, <1>15 DEF OriginsTell, Variables, V, C, N

(* An insertion point is a place in the program.                           *)
LEMMA InsertionPoint ==
  ASSUME NEW p \in Seq(Instr), NEW context, NEW k \in InsertionIndices(p, context)
  PROVE  k \in 0..Len(p)
<1>1. Len(p) \in Nat
  OBVIOUS
<1>2. k = 0 \/ k \in 0..(Len(p) - 1)
  BY DEF InsertionIndices
<1>3. QED
  BY <1>1, <1>2
=============================================================================
