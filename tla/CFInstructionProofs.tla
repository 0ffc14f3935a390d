------------------------ MODULE CFInstructionProofs ------------------------
(***************************************************************************)
(* Proofs about the numbers of ConstantFolding and the instructions of     *)
(* CFInstruction, for every width of words: what is written as bytes is    *)
(* read back, and what an instruction makes of the constants on a stack    *)
(* depends on nothing but the constants and the height of the stack.       *)
(***************************************************************************)
EXTENDS CFInstruction, EvmExecution, SequenceTheorems, WellFoundedInduction, TLAPS

-----------------------------------------------------------------------------
(***************************************************************************)
(* Recursion over numbers.  The function a recursion defines exists, and   *)
(* what it inherits from one number to the next it has everywhere.         *)
(***************************************************************************)

\* Of a set of numbers that holds one, one is the smallest.
LEMMA Smallest ==
    ASSUME NEW S \in SUBSET Nat, S # {}
    PROVE  \E n \in S : \A m \in S : n <= m
<1> DEFINE less == OpToRel(<, Nat)
<1>1. IsWellFoundedOn(less, Nat)
  BY NatLessThanWellFounded
<1>2. less = {ss \in Nat \X Nat : ss[1] < ss[2]}
  BY DEF OpToRel
<1>3. \A m, n \in Nat : m < n => <<m, n>> \in less
  BY <1>2
<1> HIDE DEF less
<1>4. PICK n \in S : \A m \in S : ~(<<m, n>> \in less)
  BY <1>1, WFMin
<1>5. \A m \in S : ~(m < n)
  BY <1>3, <1>4
<1>6. \A m \in S : n <= m
  BY <1>5
<1> QED
  BY <1>6

\* A set of numbers that holds 0 and with a number below n the next one holds all up
\* to n.
LEMMA Upwards ==
    ASSUME NEW n \in Nat, NEW S, 0 \in S, \A i \in 0 .. (n - 1) : i \in S => i + 1 \in S
    PROVE  \A i \in 0 .. n : i \in S
<1> DEFINE lacking == {i \in 0 .. n : i \notin S}
<1> SUFFICES ASSUME lacking # {} PROVE FALSE
  OBVIOUS
<1>1. lacking \in SUBSET Nat /\ \A i \in lacking : i \in 0 .. n /\ i \notin S
  OBVIOUS
<1>2. \A i \in 0 .. n : i \in lacking \/ i \in S
  OBVIOUS
<1> HIDE DEF lacking
<1>3. PICK m \in lacking : \A i \in lacking : m <= i
  BY <1>1, Smallest
<1>4. m \in 0 .. n /\ m # 0 /\ m \notin S
  BY <1>1, <1>3
<1>5. m - 1 \in 0 .. (n - 1) /\ m - 1 \in 0 .. n /\ ~(m <= m - 1) /\ m - 1 + 1 = m
  BY <1>4
<1>6. m - 1 \in S
  BY <1>2, <1>3, <1>5
<1> QED
  BY <1>4, <1>5, <1>6

\* f has the values of the recursion on dom.
IsRecursion(f, dom, S, first, step) ==
    /\ f \in [dom -> S]
    /\ \A i \in dom : f[i] = IF i = 0 THEN first ELSE step[<<i, f[i - 1]>>]

\* Up to each number there is a function with the values of a recursion.
LEMMA RunsOfRecursion ==
    ASSUME NEW S, NEW first \in S, NEW step \in [Nat \X S -> S], NEW n \in Nat
    PROVE  \E f : IsRecursion(f, 0 .. n, S, first, step)
<1> USE DEF IsRecursion
<1> DEFINE IsRun(f, m) == IsRecursion(f, 0 .. m, S, first, step)
           has == {m \in Nat : \E f : IsRun(f, m)}
<1>1. 0 \in has
  <2>1. IsRun([i \in 0 .. 0 |-> first], 0)
    OBVIOUS
  <2> QED
    BY <2>1
<1>2. ASSUME NEW m \in Nat, m \in has PROVE m + 1 \in has
  <2>1. PICK f : IsRun(f, m)
    BY <1>2
  <2> DEFINE g == [i \in 0 .. m + 1 |-> IF i = m + 1 THEN step[<<m + 1, f[m]>>] ELSE f[i]]
  <2>2. \A i \in 0 .. m + 1 : i = m + 1 \/ i \in 0 .. m
    OBVIOUS
  <2>3. step[<<m + 1, f[m]>>] \in S
    BY <2>1
  <2>4. g \in [0 .. m + 1 -> S]
    BY <2>1, <2>2, <2>3
  <2>5. ASSUME NEW i \in 0 .. m + 1
        PROVE  g[i] = IF i = 0 THEN first ELSE step[<<i, g[i - 1]>>]
    <3>1. CASE i = m + 1
      <4>1. g[i] = step[<<m + 1, f[m]>>] /\ g[i - 1] = f[m] /\ i # 0
        BY <3>1
      <4> HIDE DEF g
      <4> QED
        BY <3>1, <4>1
    <3>2. CASE i # m + 1
      <4>1. i \in 0 .. m /\ g[i] = f[i] /\ (i # 0 => g[i - 1] = f[i - 1])
        BY <2>2, <3>2
      <4> HIDE DEF g
      <4> QED
        BY <2>1, <4>1
    <3> QED
      BY <3>1, <3>2
  <2> HIDE DEF g
  <2>6. IsRun(g, m + 1)
    BY <2>4, <2>5
  <2> HIDE DEF IsRun
  <2>7. \E h : IsRun(h, m + 1)
    BY <2>6
  <2>8. m + 1 \in Nat
    OBVIOUS
  <2> QED
    BY <2>7, <2>8
<1> HIDE DEF has
<1>3. \A i \in 0 .. n : i \in has
  <2>1. \A i \in 0 .. (n - 1) : i \in has => i + 1 \in has
    BY <1>2
  <2> QED
    BY <1>1, <2>1, Upwards
<1>4. n \in has
  BY <1>3
<1> QED
  BY <1>4 DEF has

\* There is a function with the values of a recursion on all numbers.
LEMMA RecursionExists ==
    ASSUME NEW S, NEW first \in S, NEW step \in [Nat \X S -> S]
    PROVE  \E f : IsRecursion(f, Nat, S, first, step)
<1> USE DEF IsRecursion
<1> DEFINE IsRun(f, m) == IsRecursion(f, 0 .. m, S, first, step)
           run == [m \in Nat |-> CHOOSE f : IsRun(f, m)]
           all == [m \in Nat |-> run[m][m]]
<1>1. ASSUME NEW m \in Nat PROVE IsRun(run[m], m)
  <2> HIDE DEF IsRecursion
  <2>1. \E f : IsRun(f, m)
    BY RunsOfRecursion
  <2>2. IsRun(CHOOSE f : IsRun(f, m), m)
    BY <2>1
  <2>3. run[m] = CHOOSE f : IsRun(f, m)
    OBVIOUS
  <2> HIDE DEF IsRun, run
  <2> QED
    BY <2>2, <2>3
<1> HIDE DEF run
<1>2. ASSUME NEW m \in Nat PROVE run[m + 1][m] = run[m][m]
  <2> DEFINE same == {i \in Nat : run[m + 1][i] = run[m][i]}
  <2>1. 0 \in same
    <3>0. 0 \in 0 .. m /\ 0 \in 0 .. m + 1 /\ m + 1 \in Nat
      OBVIOUS
    <3>1. run[m + 1][0] = first /\ run[m][0] = first
      <4>1. IsRun(run[m], m) /\ IsRun(run[m + 1], m + 1)
        BY <1>1, <3>0
      <4> QED
        BY <3>0, <4>1
    <3> QED
      BY <3>1
  <2>2. ASSUME NEW i \in 0 .. (m - 1), i \in same PROVE i + 1 \in same
    <3>1. i + 1 \in 0 .. m /\ i + 1 \in 0 .. m + 1 /\ i + 1 # 0 /\ i + 1 - 1 = i
      OBVIOUS
    <3>2. run[m + 1][i + 1] = step[<<i + 1, run[m + 1][i]>>]
      BY <1>1, <3>1
    <3>3. run[m][i + 1] = step[<<i + 1, run[m][i]>>]
      BY <1>1, <3>1
    <3>4. run[m + 1][i] = run[m][i]
      BY <2>2
    <3> QED
      BY <3>1, <3>2, <3>3, <3>4
  <2> HIDE DEF same
  <2>3. \A i \in 0 .. m : i \in same
    BY <2>1, <2>2, Upwards
  <2>4. m \in same
    BY <2>3
  <2> QED
    BY <2>4 DEF same
<1>3. all \in [Nat -> S]
  BY <1>1
<1>4. ASSUME NEW i \in Nat PROVE all[i] = IF i = 0 THEN first ELSE step[<<i, all[i - 1]>>]
  <2>1. CASE i = 0
    <3>1. IsRun(run[0], 0)
      <4>1. 0 \in Nat
        OBVIOUS
      <4> QED
        BY <1>1, <4>1
    <3>2. run[0][0] = first
      BY <3>1
    <3> QED
      BY <2>1, <3>2
  <2>2. CASE i # 0
    <3>1. i - 1 \in Nat /\ i - 1 + 1 = i /\ i \in 0 .. i
      BY <2>2
    <3>2. run[i][i] = step[<<i, run[i][i - 1]>>]
      BY <1>1, <2>2, <3>1
    <3>3. run[i][i - 1] = run[i - 1][i - 1]
      BY <1>2, <3>1
    <3> QED
      BY <2>2, <3>1, <3>2, <3>3
  <2> QED
    BY <2>1, <2>2
<1> HIDE DEF all
<1> QED
  BY <1>3, <1>4


-----------------------------------------------------------------------------
(***************************************************************************)
(* Powers                                                                  *)
(***************************************************************************)

\* PowerOf256 satisfies its recursion.
LEMMA PowerOf256Recursion ==
    PowerOf256 = [n \in Nat |-> IF n = 0 THEN 1 ELSE 256 * PowerOf256[n - 1]]
<1> DEFINE S == Nat
           step == [p \in Nat \X S |-> 256 * p[2]]
<1>1. step \in [Nat \X S -> S] /\ \A n, m \in Nat : step[<<n, m>>] = 256 * m
  OBVIOUS
<1>2. 1 \in S
  OBVIOUS
<1> HIDE DEF step
<1>3. PICK f : IsRecursion(f, Nat, S, 1, step)
  BY <1>1, <1>2, RecursionExists
<1>4. f = [n \in Nat |-> IF n = 0 THEN 1 ELSE 256 * f[n - 1]]
  <2>1. f \in [Nat -> Nat] /\ \A n \in Nat : f[n] = IF n = 0 THEN 1 ELSE step[<<n, f[n - 1]>>]
    BY <1>3 DEF IsRecursion
  <2>2. ASSUME NEW n \in Nat PROVE f[n] = IF n = 0 THEN 1 ELSE 256 * f[n - 1]
    <3>1. n # 0 => n - 1 \in Nat /\ f[n - 1] \in Nat
      BY <2>1
    <3>2. n # 0 => step[<<n, f[n - 1]>>] = 256 * f[n - 1]
      BY <1>1, <3>1
    <3> QED
      BY <2>1, <3>2
  <2> QED
    BY <2>1, <2>2
<1> QED
  BY <1>4 DEF PowerOf256

\* PowerOf2 satisfies its recursion.
LEMMA PowerOf2Recursion ==
    PowerOf2 = [n \in Nat |-> IF n = 0 THEN 1 ELSE 2 * PowerOf2[n - 1]]
<1> DEFINE S == Nat
           step == [p \in Nat \X S |-> 2 * p[2]]
<1>1. step \in [Nat \X S -> S] /\ \A n, m \in Nat : step[<<n, m>>] = 2 * m
  OBVIOUS
<1>2. 1 \in S
  OBVIOUS
<1> HIDE DEF step
<1>3. PICK f : IsRecursion(f, Nat, S, 1, step)
  BY <1>1, <1>2, RecursionExists
<1>4. f = [n \in Nat |-> IF n = 0 THEN 1 ELSE 2 * f[n - 1]]
  <2>1. f \in [Nat -> Nat] /\ \A n \in Nat : f[n] = IF n = 0 THEN 1 ELSE step[<<n, f[n - 1]>>]
    BY <1>3 DEF IsRecursion
  <2>2. ASSUME NEW n \in Nat PROVE f[n] = IF n = 0 THEN 1 ELSE 2 * f[n - 1]
    <3>1. n # 0 => n - 1 \in Nat /\ f[n - 1] \in Nat
      BY <2>1
    <3>2. n # 0 => step[<<n, f[n - 1]>>] = 2 * f[n - 1]
      BY <1>1, <3>1
    <3> QED
      BY <2>1, <3>2
  <2> QED
    BY <2>1, <2>2
<1> QED
  BY <1>4 DEF PowerOf2

\* The powers of 256 are numbers, each 256 times the one before it.
LEMMA PowersOf256 ==
    /\ PowerOf256[0] = 1
    /\ \A n \in Nat : /\ PowerOf256[n] \in Nat \ {0}
                      /\ PowerOf256[n + 1] = 256 * PowerOf256[n]
<1>1. /\ PowerOf256[0] = 1
      /\ \A n \in Nat : n # 0 => PowerOf256[n] = 256 * PowerOf256[n - 1]
  <2> DEFINE p == PowerOf256
  <2>1. p = [n \in Nat |-> IF n = 0 THEN 1 ELSE 256 * p[n - 1]]
    BY PowerOf256Recursion
  <2> HIDE DEF p
  <2>2. p[0] = 1 /\ \A n \in Nat : n # 0 => p[n] = 256 * p[n - 1]
    BY <2>1
  <2> QED
    BY <2>2 DEF p
<1>2. ASSUME NEW n \in Nat PROVE PowerOf256[n + 1] = 256 * PowerOf256[n]
  <2>1. n + 1 \in Nat /\ n + 1 # 0 /\ n + 1 - 1 = n
    OBVIOUS
  <2> QED
    BY <1>1, <2>1
<1>3. ASSUME NEW n \in Nat PROVE PowerOf256[n] \in Nat \ {0}
  <2> DEFINE right == {i \in Nat : PowerOf256[i] \in Nat \ {0}}
  <2>1. 0 \in right
    BY <1>1
  <2>2. \A i \in 0 .. (n - 1) : i \in right => i + 1 \in right
    BY <1>2
  <2> HIDE DEF right
  <2>3. n \in right
    <3>1. \A i \in 0 .. n : i \in right
      BY <2>1, <2>2, Upwards
    <3> QED
      BY <3>1
  <2> QED
    BY <2>3 DEF right
<1> QED
  BY <1>1, <1>2, <1>3

\* The powers of 2 are numbers, each twice the one before it.
LEMMA PowersOf2 ==
    /\ PowerOf2[0] = 1
    /\ \A n \in Nat : /\ PowerOf2[n] \in Nat \ {0}
                      /\ PowerOf2[n + 1] = 2 * PowerOf2[n]
<1>1. /\ PowerOf2[0] = 1
      /\ \A n \in Nat : n # 0 => PowerOf2[n] = 2 * PowerOf2[n - 1]
  <2> DEFINE p == PowerOf2
  <2>1. p = [n \in Nat |-> IF n = 0 THEN 1 ELSE 2 * p[n - 1]]
    BY PowerOf2Recursion
  <2> HIDE DEF p
  <2>2. p[0] = 1 /\ \A n \in Nat : n # 0 => p[n] = 2 * p[n - 1]
    BY <2>1
  <2> QED
    BY <2>2 DEF p
<1>2. ASSUME NEW n \in Nat PROVE PowerOf2[n + 1] = 2 * PowerOf2[n]
  <2>1. n + 1 \in Nat /\ n + 1 # 0 /\ n + 1 - 1 = n
    OBVIOUS
  <2> QED
    BY <1>1, <2>1
<1>3. ASSUME NEW n \in Nat PROVE PowerOf2[n] \in Nat \ {0}
  <2> DEFINE right == {i \in Nat : PowerOf2[i] \in Nat \ {0}}
  <2>1. 0 \in right
    BY <1>1
  <2>2. \A i \in 0 .. (n - 1) : i \in right => i + 1 \in right
    BY <1>2
  <2> HIDE DEF right
  <2>3. n \in right
    <3>1. \A i \in 0 .. n : i \in right
      BY <2>1, <2>2, Upwards
    <3> QED
      BY <3>1
  <2> QED
    BY <2>3 DEF right
<1> QED
  BY <1>1, <1>2, <1>3

\* Powers grow.
LEMMA PowersGrow ==
    ASSUME NEW n \in Nat, NEW m \in 0 .. n
    PROVE  PowerOf256[m] <= PowerOf256[n]
<1> DEFINE above == {i \in Nat : PowerOf256[m] <= PowerOf256[m + i]}
<1>1. 0 \in above
  BY PowersOf256
<1>2. ASSUME NEW i \in Nat, i \in above PROVE i + 1 \in above
  <2>1. PowerOf256[m + (i + 1)] = 256 * PowerOf256[m + i]
    <3>1. m + i \in Nat /\ m + (i + 1) = (m + i) + 1
      OBVIOUS
    <3> QED
      BY <3>1, PowersOf256
  <2>2. PowerOf256[m] \in Nat /\ PowerOf256[m + i] \in Nat
    BY PowersOf256
  <2> QED
    BY <1>2, <2>1, <2>2
<1> HIDE DEF above
<1>3. n - m \in Nat /\ m + (n - m) = n
  OBVIOUS
<1>4. \A i \in 0 .. (n - m) : i \in above
  BY <1>1, <1>2, <1>3, Upwards
<1>5. n - m \in above
  BY <1>3, <1>4
<1> QED
  BY <1>3, <1>5 DEF above

-----------------------------------------------------------------------------
(***************************************************************************)
(* Division                                                                *)
(***************************************************************************)

\* What \div and % are.
LEMMA Division ==
    ASSUME NEW a \in Int, NEW b \in Nat \ {0}
    PROVE  /\ a \div b \in Int /\ a % b \in 0 .. (b - 1)
           /\ a = b * (a \div b) + (a % b)
  OBVIOUS

\* There is one quotient and one remainder.
LEMMA DivisionUnique ==
    ASSUME NEW b \in Nat \ {0}, NEW q \in Int, NEW r \in 0 .. (b - 1), NEW p \in Int, NEW s \in 0 .. (b - 1),
           b * q + r = b * p + s
    PROVE  q = p /\ r = s
<1>1. b * (q - p) = s - r
  OBVIOUS
<1>2. s - r < b /\ s - r > -b
  OBVIOUS
<1>3. q - p < 1
  BY <1>1, <1>2
<1>4. q - p > -1
  BY <1>1, <1>2
<1> QED
  BY <1>1, <1>3, <1>4

\* How to find out what \div and % give.
LEMMA DivisionIs ==
    ASSUME NEW a \in Int, NEW b \in Nat \ {0}, NEW q \in Int, NEW r \in 0 .. (b - 1), a = b * q + r
    PROVE  a \div b = q /\ a % b = r
  BY Division, DivisionUnique

\* Dividing twice is dividing by the product.
LEMMA DivDiv ==
    ASSUME NEW a \in Nat, NEW b \in Nat \ {0}, NEW c \in Nat \ {0}
    PROVE  a \div (c * b) = (a \div b) \div c
<1> DEFINE q == a \div b
           r == a % b
           p == q \div c
           s == q % c
<1>1. q \in Int /\ r \in 0 .. (b - 1) /\ a = b * q + r
  BY Division
<1>2. p \in Int /\ s \in 0 .. (c - 1) /\ q = c * p + s
  BY Division, <1>1
<1> HIDE DEF q, r, p, s
<1>3. a = (c * b) * p + (b * s + r)
  BY <1>1, <1>2
<1>4. c * b \in Nat \ {0}
  OBVIOUS
<1>5. b * s + r \in 0 .. (c * b - 1)
  <2>1. b * s + r >= 0
    BY <1>1, <1>2
  <2>2. b * s <= b * (c - 1)
    BY <1>2
  <2>3. b * (c - 1) = c * b - b
    OBVIOUS
  <2>4. b * s \in Int /\ b * (c - 1) \in Int /\ c * b \in Int
    BY <1>2
  <2> QED
    BY <2>1, <2>2, <2>3, <2>4, <1>1
<1>6. a \div (c * b) = p
  BY <1>2, <1>3, <1>4, <1>5, DivisionIs
<1> QED
  BY <1>6 DEF p, q
-----------------------------------------------------------------------------
(***************************************************************************)
(* The number of a string of bytes                                         *)
(***************************************************************************)

\* WordOf goes through the bytes from the highest down.
LEMMA WordRun ==
    ASSUME NEW v \in Seq(Byte)
    PROVE  \E f : /\ f \in [0 .. Len(v) -> Nat]
                  /\ f[0] = 0
                  /\ \A i \in 0 .. (Len(v) - 1) : f[i + 1] = 256 * f[i] + v[i + 1]
                  /\ WordOf(v) = f[Len(v)]
<1> DEFINE upTo[i \in 0 .. Len(v)] == IF i = 0 THEN 0 ELSE 256 * upTo[i - 1] + v[i]
           byte(i) == IF i \in 1 .. Len(v) THEN v[i] ELSE 0
           step == [p \in Nat \X Nat |-> 256 * p[2] + byte(p[1])]
<1>1. PICK n \in Nat : n = Len(v)
  OBVIOUS
<1>2. \A i \in 1 .. n : v[i] \in Nat
  <2>1. \A i \in 1 .. n : v[i] \in Byte
    BY <1>1
  <2>2. \A b \in Byte : b \in Nat
    BY DEF Byte
  <2> QED
    BY <2>1, <2>2
<1>3. /\ step \in [Nat \X Nat -> Nat]
      /\ \A i \in 1 .. n, m \in Nat : step[<<i, m>>] = 256 * m + v[i]
  BY <1>1, <1>2
<1>4. 0 \in Nat
  OBVIOUS
<1> HIDE DEF step
<1>5. PICK f : IsRecursion(f, 0 .. n, Nat, 0, step)
  BY <1>1, <1>3, <1>4, RunsOfRecursion
<1>6. /\ f \in [0 .. n -> Nat]
      /\ \A i \in 0 .. n : f[i] = IF i = 0 THEN 0 ELSE step[<<i, f[i - 1]>>]
  BY <1>5 DEF IsRecursion
<1>7. f = [i \in 0 .. n |-> IF i = 0 THEN 0 ELSE 256 * f[i - 1] + v[i]]
  <2>1. ASSUME NEW i \in 0 .. n PROVE f[i] = IF i = 0 THEN 0 ELSE 256 * f[i - 1] + v[i]
    <3>1. i # 0 => i \in 1 .. n /\ i - 1 \in 0 .. n /\ f[i - 1] \in Nat
      BY <1>6
    <3>2. i # 0 => step[<<i, f[i - 1]>>] = 256 * f[i - 1] + v[i]
      BY <1>3, <3>1
    <3> QED
      BY <1>6, <3>2
  <2> QED
    BY <1>6, <2>1
<1>8. upTo = [i \in 0 .. n |-> IF i = 0 THEN 0 ELSE 256 * upTo[i - 1] + v[i]]
  <2> DEFINE IsUpTo(g) == g = [i \in 0 .. Len(v) |-> IF i = 0 THEN 0 ELSE 256 * g[i - 1] + v[i]]
  <2>1. IsUpTo(f)
    BY <1>1, <1>7
  <2>2. upTo = CHOOSE g : IsUpTo(g)
    OBVIOUS
  <2> HIDE DEF upTo, IsUpTo
  <2>3. IsUpTo(upTo)
    BY <2>1, <2>2
  <2> QED
    BY <1>1, <2>3 DEF IsUpTo
<1>9. WordOf(v) = upTo[n]
  BY <1>1 DEF WordOf
<1> HIDE DEF upTo
<1>10. \A i \in 0 .. n : i \in {j \in 0 .. n : upTo[j] = f[j]}
  <2> DEFINE same == {j \in 0 .. n : upTo[j] = f[j]}
  <2>1. 0 \in same
    <3>1. 0 \in 0 .. n
      OBVIOUS
    <3>2. upTo[0] = 0 /\ f[0] = 0
      BY <1>6, <1>8, <3>1
    <3> QED
      BY <3>1, <3>2
  <2>2. ASSUME NEW i \in 0 .. (n - 1), i \in same PROVE i + 1 \in same
    <3>1. i + 1 \in 0 .. n /\ i + 1 # 0 /\ i + 1 - 1 = i
      OBVIOUS
    <3>2. upTo[i + 1] = 256 * upTo[i] + v[i + 1] /\ f[i + 1] = 256 * f[i] + v[i + 1]
      <4>1. \A k \in 0 .. n : upTo[k] = IF k = 0 THEN 0 ELSE 256 * upTo[k - 1] + v[k]
        BY <1>8
      <4>2. \A k \in 0 .. n : f[k] = IF k = 0 THEN 0 ELSE 256 * f[k - 1] + v[k]
        BY <1>7
      <4> QED
        BY <3>1, <4>1, <4>2
    <3> QED
      BY <2>2, <3>1, <3>2
  <2> HIDE DEF same
  <2>3. \A i \in 0 .. n : i \in same
    BY <2>1, <2>2, Upwards
  <2> QED
    BY <2>3 DEF same
<1>11. WordOf(v) = f[n]
  BY <1>9, <1>10
<1>12. \A i \in 0 .. (n - 1) : f[i + 1] = 256 * f[i] + v[i + 1]
  <2> SUFFICES ASSUME NEW i \in 0 .. (n - 1) PROVE f[i + 1] = 256 * f[i] + v[i + 1]
    OBVIOUS
  <2>1. i + 1 \in 0 .. n /\ i + 1 # 0 /\ i + 1 - 1 = i
    OBVIOUS
  <2>2. \A k \in 0 .. n : f[k] = IF k = 0 THEN 0 ELSE 256 * f[k - 1] + v[k]
    BY <1>7
  <2> QED
    BY <2>1, <2>2
<1>13. f[0] = 0
  <2>1. 0 \in 0 .. n
    OBVIOUS
  <2> QED
    BY <1>6, <2>1
<1>14. /\ f \in [0 .. Len(v) -> Nat]
       /\ f[0] = 0
       /\ \A i \in 0 .. (Len(v) - 1) : f[i + 1] = 256 * f[i] + v[i + 1]
       /\ WordOf(v) = f[Len(v)]
  BY <1>1, <1>6, <1>11, <1>12, <1>13
<1> QED
  BY <1>14, Zenon

\* A string of bytes stands for a number below the power of its length.
LEMMA WordBounded ==
    ASSUME NEW v \in Seq(Byte)
    PROVE  WordOf(v) \in Nat /\ WordOf(v) < PowerOf256[Len(v)]
<1>1. PICK n \in Nat : n = Len(v)
  OBVIOUS
<1>2. PICK f : /\ f \in [0 .. Len(v) -> Nat]
               /\ f[0] = 0
               /\ \A i \in 0 .. (Len(v) - 1) : f[i + 1] = 256 * f[i] + v[i + 1]
               /\ WordOf(v) = f[Len(v)]
  BY WordRun
<1> DEFINE below == {i \in 0 .. n : f[i] < PowerOf256[i]}
<1>3. 0 \in below
  BY <1>2, PowersOf256
<1>4. ASSUME NEW i \in 0 .. (n - 1), i \in below PROVE i + 1 \in below
  <2>1. i + 1 \in 0 .. n /\ i + 1 \in 1 .. Len(v) /\ i \in 0 .. n /\ i \in Nat
    BY <1>1
  <2>2. v[i + 1] \in 0 .. 255
    <3>1. v[i + 1] \in Byte
      BY <2>1
    <3> QED
      BY <3>1 DEF Byte
  <2>3. f[i + 1] = 256 * f[i] + v[i + 1] /\ f[i] \in Nat
    BY <1>1, <1>2, <2>1
  <2>4. PowerOf256[i + 1] = 256 * PowerOf256[i] /\ PowerOf256[i] \in Nat
    BY <2>1, PowersOf256
  <2>5. f[i] < PowerOf256[i]
    BY <1>4
  <2>6. f[i + 1] < PowerOf256[i + 1]
    <3>1. PICK b \in 0 .. 255, w \in Nat, p \in Nat : b = v[i + 1] /\ w = f[i] /\ p = PowerOf256[i]
      BY <2>2, <2>3, <2>4
    <3>2. 256 * w + b < 256 * p
      <4>1. w < p
        BY <2>5, <3>1
      <4>2. \A x, y \in Nat, c \in 0 .. 255 : x < y => 256 * x + c < 256 * y
        OBVIOUS
      <4> QED
        BY <4>1, <4>2
    <3> QED
      BY <2>3, <2>4, <3>1, <3>2
  <2> QED
    BY <2>1, <2>6
<1> HIDE DEF below
<1>5. \A i \in 0 .. n : i \in below
  BY <1>3, <1>4, Upwards
<1>6. n \in 0 .. n /\ n \in below
  BY <1>5
<1>7. f[n] < PowerOf256[n] /\ f[n] \in Nat
  BY <1>1, <1>2, <1>6 DEF below
<1> QED
  BY <1>1, <1>2, <1>7

\* getVecFromInt64 shifts out as few bytes as the number has, one for zero.
LEMMA LowBytesLength ==
    ASSUME NEW u \in Nat, u < Modulus
    PROVE  \E n \in 1 .. WordBytes :
              /\ u < PowerOf256[n]
              /\ \A j \in 1 .. (n - 1) : u >= PowerOf256[j]
              /\ LowBytes(u) = [i \in 1 .. n |-> (u \div PowerOf256[n - i]) % 256]
<1> DEFINE enough == {k \in 1 .. WordBytes : u < PowerOf256[k]}
           IsLength(k) == u < PowerOf256[k] /\ \A j \in 1 .. (k - 1) : u >= PowerOf256[j]
           n == CHOOSE k \in 1 .. WordBytes : IsLength(k)
<1>1. enough \in SUBSET Nat /\ enough # {}
  BY WidthAssumption DEF Modulus
<1>2. \A k \in enough : k \in 1 .. WordBytes /\ u < PowerOf256[k]
  OBVIOUS
<1>3. \A k \in 1 .. WordBytes : k \notin enough => u >= PowerOf256[k]
  <2>1. \A k \in 1 .. WordBytes : PowerOf256[k] \in Nat
    BY PowersOf256, WidthAssumption
  <2> QED
    BY <2>1
<1> HIDE DEF enough
<1>4. PICK k \in enough : \A j \in enough : k <= j
  BY <1>1, Smallest
<1>5. k \in 1 .. WordBytes /\ IsLength(k)
  <2>1. k \in 1 .. WordBytes /\ u < PowerOf256[k]
    BY <1>2
  <2>2. ASSUME NEW j \in 1 .. (k - 1) PROVE u >= PowerOf256[j]
    <3>1. j \in 1 .. WordBytes /\ ~(k <= j)
      BY <2>1, WidthAssumption
    <3>2. j \notin enough
      BY <1>4, <3>1
    <3> QED
      BY <1>3, <3>1, <3>2
  <2> QED
    BY <2>1, <2>2
<1>6. n \in 1 .. WordBytes /\ IsLength(n)
  <2> HIDE DEF IsLength
  <2> QED
    BY <1>5
<1>7. LowBytes(u) = [i \in 1 .. n |-> (u \div PowerOf256[n - i]) % 256]
  BY DEF LowBytes
<1> HIDE DEF n
<1> QED
  BY <1>6, <1>7

\* The bytes of a number stand for it.
LEMMA WordOfLowBytes ==
    ASSUME NEW u \in Nat, u < Modulus
    PROVE  /\ LowBytes(u) \in Seq(Byte)
           /\ Len(LowBytes(u)) \in 1 .. WordBytes
           /\ u < PowerOf256[Len(LowBytes(u))]
           /\ \A j \in 1 .. (Len(LowBytes(u)) - 1) : u >= PowerOf256[j]
           /\ WordOf(LowBytes(u)) = u
<1>1. PICK n \in 1 .. WordBytes :
              /\ u < PowerOf256[n]
              /\ \A j \in 1 .. (n - 1) : u >= PowerOf256[j]
              /\ LowBytes(u) = [i \in 1 .. n |-> (u \div PowerOf256[n - i]) % 256]
  BY LowBytesLength
<1>2. PICK v : v = LowBytes(u)
  OBVIOUS
<1>3. n \in Nat
  BY WidthAssumption
<1>4. ASSUME NEW i \in 1 .. n
      PROVE  /\ n - i \in Nat /\ u \div PowerOf256[n - i] \in Int
             /\ (u \div PowerOf256[n - i]) % 256 \in 0 .. 255
  <2>1. n - i \in Nat
    BY <1>3
  <2>2. PowerOf256[n - i] \in Nat \ {0}
    BY <2>1, PowersOf256
  <2>3. u \div PowerOf256[n - i] \in Int
    <3>1. \A p \in Nat \ {0} : u \div p \in Int
      OBVIOUS
    <3> QED
      BY <2>2, <3>1
  <2> HIDE DEF PowerOf256
  <2>4. \A a \in Int : a % 256 \in 0 .. 255
    OBVIOUS
  <2> QED
    BY <2>1, <2>3, <2>4
<1>5. v \in [1 .. n -> Byte] /\ \A i \in 1 .. n : v[i] = (u \div PowerOf256[n - i]) % 256
  BY <1>1, <1>2, <1>4 DEF Byte
<1>6. v \in Seq(Byte) /\ Len(v) = n
  <2>1. v \in Seq(Byte)
    BY <1>3, <1>5
  <2>2. Len(v) \in Nat /\ 1 .. Len(v) = 1 .. n
    BY <1>5, <2>1, LenProperties
  <2> QED
    BY <1>3, <2>1, <2>2
<1>7. PICK f : /\ f \in [0 .. Len(v) -> Nat]
               /\ f[0] = 0
               /\ \A i \in 0 .. (Len(v) - 1) : f[i + 1] = 256 * f[i] + v[i + 1]
               /\ WordOf(v) = f[Len(v)]
  BY <1>6, WordRun
<1> DEFINE right == {i \in 0 .. n : f[i] = u \div PowerOf256[n - i]}
<1>8. 0 \in right
  <2>1. PowerOf256[n] \in Nat \ {0} /\ n - 0 = n
    BY <1>3, PowersOf256
  <2>2. u \div PowerOf256[n] = 0
    <3>1. u = PowerOf256[n] * 0 + u /\ u \in 0 .. (PowerOf256[n] - 1)
      BY <1>1, <2>1
    <3> QED
      BY <2>1, <3>1, DivisionIs
  <2> QED
    BY <1>3, <1>7, <2>1, <2>2
<1>9. ASSUME NEW i \in 0 .. (n - 1), i \in right PROVE i + 1 \in right
  <2>1. i + 1 \in 1 .. n /\ i + 1 \in 0 .. n /\ n - (i + 1) \in Nat /\ n - i = n - (i + 1) + 1
    BY <1>3
  <2>2. PICK p \in Nat \ {0} : p = PowerOf256[n - (i + 1)]
    BY <2>1, PowersOf256
  <2>3. PowerOf256[n - i] = 256 * p
    BY <2>1, <2>2, PowersOf256
  <2>4. f[i] = u \div (256 * p)
    BY <1>9, <2>3
  <2>5. f[i + 1] = 256 * f[i] + v[i + 1] /\ v[i + 1] = (u \div p) % 256
    BY <1>5, <1>6, <1>7, <2>1, <2>2
  <2>6. PICK q \in Int : q = u \div p
    <3>1. u \div p \in Int
      OBVIOUS
    <3> QED
      BY <3>1
  <2>7. u \div (256 * p) = q \div 256
    <3>1. 256 \in Nat \ {0}
      OBVIOUS
    <3> QED
      BY <2>2, <2>6, <3>1, DivDiv
  <2>8. f[i + 1] = q
    <3>1. q = 256 * (q \div 256) + (q % 256)
      OBVIOUS
    <3> QED
      BY <2>4, <2>5, <2>6, <2>7, <3>1
  <2> QED
    BY <2>1, <2>2, <2>6, <2>8
<1> HIDE DEF right
<1>10. \A i \in 0 .. n : i \in right
  BY <1>3, <1>8, <1>9, Upwards
<1>11. n \in 0 .. n /\ n \in right
  BY <1>3, <1>10
<1>12. f[n] = u
  <2>1. f[n] = u \div PowerOf256[n - n] /\ n - n = 0
    BY <1>3, <1>11 DEF right
  <2>2. u \div 1 = u
    OBVIOUS
  <2> QED
    BY <2>1, <2>2, PowersOf256
<1> QED
  BY <1>1, <1>2, <1>6, <1>7, <1>12

-----------------------------------------------------------------------------
(***************************************************************************)
(* An int64_t and the bytes written of it                                  *)
(***************************************************************************)

\* Modulus is a positive number that 256 divides.
LEMMA ModulusFacts ==
    /\ WordBytes - 1 \in Nat /\ PowerOf256[WordBytes - 1] \in Nat \ {0}
    /\ Modulus \in Nat \ {0} /\ Modulus = 256 * PowerOf256[WordBytes - 1]
<1>1. WordBytes - 1 \in Nat /\ WordBytes - 1 + 1 = WordBytes
  BY WidthAssumption
<1>2. /\ PowerOf256[WordBytes - 1] \in Nat \ {0}
      /\ PowerOf256[WordBytes - 1 + 1] = 256 * PowerOf256[WordBytes - 1]
  BY <1>1, PowersOf256
<1>3. PowerOf256[WordBytes] \in Nat \ {0}
  BY WidthAssumption, PowersOf256
<1> QED
  BY <1>1, <1>2, <1>3 DEF Modulus

\* An int64_t has the bits of the unsigned number it is cut to.
LEMMA SignedFacts ==
    ASSUME NEW u \in Nat, u < Modulus
    PROVE  /\ Signed(u) \in Int
           /\ Signed(u) % Modulus = u
           /\ Signed(u) >= 0 <=> 2 * u < Modulus
           /\ Signed(u) >= 0 => Signed(u) = u
<1>1. PICK m \in Nat \ {0} : m = Modulus
  BY ModulusFacts
<1>2. CASE 2 * u < m
  <2>1. Signed(u) = u
    BY <1>1, <1>2 DEF Signed
  <2>2. u % m = u
    <3>1. u = m * 0 + u /\ u \in 0 .. (m - 1) /\ u \in Int /\ 0 \in Int
      BY <1>1
    <3> QED
      BY <3>1, DivisionIs
  <2> QED
    BY <1>1, <1>2, <2>1, <2>2
<1>3. CASE ~(2 * u < m)
  <2>1. Signed(u) = u - m
    BY <1>1, <1>3 DEF Signed
  <2>2. PICK x \in Int : x = u - m
    BY <1>1
  <2>3. x % m = u
    <3>1. x = m * (-1) + u /\ u \in 0 .. (m - 1) /\ -1 \in Int
      BY <1>1, <2>2
    <3> QED
      BY <3>1, DivisionIs
  <2> QED
    BY <1>1, <1>3, <2>1, <2>2, <2>3
<1> QED
  BY <1>2, <1>3

\* Numbers have one int64_t each.
LEMMA SignedInjective ==
    ASSUME NEW u \in Nat, u < Modulus, NEW w \in Nat, w < Modulus, Signed(u) = Signed(w)
    PROVE  u = w
  BY SignedFacts

\* A value cut to a word is below Modulus.
LEMMA RemainderBelow ==
    ASSUME NEW s \in Int
    PROVE  s % Modulus \in Nat /\ s % Modulus < Modulus
<1>1. PICK m \in Nat \ {0} : m = Modulus
  BY ModulusFacts
<1>2. s % m \in 0 .. (m - 1)
  OBVIOUS
<1> QED
  BY <1>1, <1>2

\* What getVecFromInt64 writes of an int64_t that is not negative is read back; of a
\* negative one it writes more bytes than are ever read.
LEMMA WrittenIsReadBack ==
    ASSUME NEW u \in Nat, u < Modulus
    PROVE  LET x   == Signed(u)
               out == GetVecFromInt64(x)
           IN  /\ out \in Seq(Byte) /\ out # <<>>
               /\ IsReadable(out) <=> x >= 0
               /\ x >= 0 => WordOf(out) = u /\ GetInt64FromVec(out) = x
<1> DEFINE x == Signed(u)
           out == GetVecFromInt64(x)
           low == LowBytes(u)
           sign == [k \in 1 .. (EvmBytes - WordBytes) |-> 255]
<1>1. x \in Int /\ x % Modulus = u /\ (x >= 0 <=> 2 * u < Modulus) /\ (x >= 0 => x = u)
  BY SignedFacts
<1> HIDE DEF x
<1>2. /\ low \in Seq(Byte) /\ Len(low) \in 1 .. WordBytes /\ u < PowerOf256[Len(low)]
      /\ WordOf(low) = u
  BY WordOfLowBytes
<1>3. out = low \o (IF x < 0 THEN sign ELSE <<>>)
  BY <1>1 DEF GetVecFromInt64
<1>4. CASE x >= 0
  <2>1. out = low
    <3> HIDE DEF out, low, sign
    <3>1. out = low \o <<>>
      <4>1. ~(x < 0)
        BY <1>1, <1>4
      <4> QED
        BY <1>3, <4>1
    <3> QED
      BY <1>2, <3>1, ConcatEmptySeq
  <2> HIDE DEF out, low
  <2>2. IsReadable(out)
    BY <1>2, <2>1, WidthAssumption DEF IsReadable
  <2>3. GetInt64FromVec(out) = x
    BY <1>2, <2>1 DEF GetInt64FromVec, x
  <2>4. out \in Seq(Byte) /\ out # <<>>
    <3>1. Len(low) \in Nat /\ Len(low) # 0
      BY <1>2, WidthAssumption
    <3> QED
      BY <1>2, <2>1, <3>1
  <2> QED
    BY <1>2, <1>4, <2>1, <2>2, <2>3, <2>4 DEF out, x
<1>5. CASE x < 0
  <2>1. PICK n \in Nat \ {0} : n = EvmBytes - WordBytes
    BY WidthAssumption
  <2>2. sign \in Seq(Byte) /\ Len(sign) = n
    <3>1. sign \in [1 .. n -> Byte]
      BY <2>1 DEF Byte
    <3> HIDE DEF sign
    <3>2. sign \in Seq(Byte)
      BY <2>1, <3>1
    <3>3. Len(sign) \in Nat /\ 1 .. Len(sign) = 1 .. n
      BY <3>1, <3>2, LenProperties
    <3> QED
      BY <2>1, <3>2, <3>3
  <2>3. out = low \o sign
    BY <1>1, <1>3, <1>5
  <2>4. Len(low) = WordBytes
    <3>1. PICK p \in Nat \ {0} : p = PowerOf256[WordBytes - 1] /\ Modulus = 256 * p
      BY ModulusFacts
    <3>2. p <= u
      BY <1>1, <1>5, <3>1
    <3>3. ASSUME Len(low) # WordBytes PROVE FALSE
      <4>1. Len(low) \in 0 .. (WordBytes - 1)
        <5> HIDE DEF low
        <5> QED
          BY <1>2, <3>3, WidthAssumption
      <4>2. PowerOf256[Len(low)] <= PowerOf256[WordBytes - 1]
        BY <4>1, ModulusFacts, PowersGrow
      <4>3. Len(low) \in Nat /\ PowerOf256[Len(low)] \in Nat
        <5>1. Len(low) \in Nat
          <6> HIDE DEF low
          <6> QED
            BY <4>1
        <5> QED
          BY <5>1, PowersOf256
      <4> QED
        BY <1>2, <3>1, <3>2, <4>2, <4>3
    <3> QED
      BY <3>3
  <2> HIDE DEF out, low, sign
  <2>5. out \in Seq(Byte) /\ Len(out) = EvmBytes
    <3>1. out \in Seq(Byte) /\ Len(out) = Len(low) + Len(sign)
      BY <1>2, <2>2, <2>3, ConcatProperties
    <3> QED
      BY <2>1, <2>2, <2>4, <3>1, WidthAssumption
  <2>6. ~IsReadable(out)
    BY <2>5, WidthAssumption DEF IsReadable
  <2>7. ~(x >= 0)
    BY <1>1, <1>5
  <2>8. out # <<>>
    BY <2>5, WidthAssumption
  <2> QED
    BY <2>5, <2>6, <2>7, <2>8 DEF out, x
<1>6. x >= 0 \/ x < 0
  BY <1>1
<1> QED
  BY <1>4, <1>5, <1>6

-----------------------------------------------------------------------------
(***************************************************************************)
(* Sums of bits                                                            *)
(***************************************************************************)

\* g[i] is the sum of the first i weights.
IsSum(g, n, weights) ==
    g = [i \in 0 .. n |-> IF i = 0 THEN 0 ELSE g[i - 1] + weights[i - 1]]

\* Every sum can be formed.
LEMMA SumExists ==
    ASSUME NEW n \in Nat, NEW weights \in [0 .. (n - 1) -> Nat]
    PROVE  \E g : IsSum(g, n, weights)
<1> DEFINE weight == [i \in Nat |-> IF i - 1 \in 0 .. (n - 1) THEN weights[i - 1] ELSE 0]
           step == [p \in Nat \X Nat |-> p[2] + weight[p[1]]]
<1>1. weight \in [Nat -> Nat]
  OBVIOUS
<1>2. \A i \in 0 .. n : i # 0 => weight[i] = weights[i - 1]
  OBVIOUS
<1> HIDE DEF weight
<1>3. step \in [Nat \X Nat -> Nat] /\ \A i, m \in Nat : step[<<i, m>>] = m + weight[i]
  <2>1. ASSUME NEW p \in Nat \X Nat PROVE p[2] + weight[p[1]] \in Nat
    <3>1. p[1] \in Nat /\ p[2] \in Nat
      OBVIOUS
    <3>2. weight[p[1]] \in Nat
      BY <1>1, <3>1
    <3> QED
      BY <3>1, <3>2
  <2>2. step \in [Nat \X Nat -> Nat]
    BY <2>1
  <2>3. ASSUME NEW i \in Nat, NEW m \in Nat PROVE step[<<i, m>>] = m + weight[i]
    OBVIOUS
  <2> QED
    BY <2>2, <2>3
<1> HIDE DEF step
<1>4. PICK f : IsRecursion(f, 0 .. n, Nat, 0, step)
  <2>1. 0 \in Nat
    OBVIOUS
  <2> QED
    BY <1>3, <2>1, RunsOfRecursion
<1>5. /\ f \in [0 .. n -> Nat]
      /\ \A i \in 0 .. n : f[i] = IF i = 0 THEN 0 ELSE step[<<i, f[i - 1]>>]
  BY <1>4 DEF IsRecursion
<1>6. ASSUME NEW i \in 0 .. n PROVE f[i] = IF i = 0 THEN 0 ELSE f[i - 1] + weights[i - 1]
  <2>1. i # 0 => i \in Nat /\ i - 1 \in 0 .. n /\ f[i - 1] \in Nat
    BY <1>5
  <2>2. i # 0 => step[<<i, f[i - 1]>>] = f[i - 1] + weight[i]
    BY <1>3, <2>1
  <2> QED
    BY <1>2, <1>5, <2>2
<1>7. f = [i \in 0 .. n |-> IF i = 0 THEN 0 ELSE f[i - 1] + weights[i - 1]]
  BY <1>5, <1>6
<1> QED
  BY <1>7 DEF IsSum

\* A sum has one value, which is a number.
LEMMA SumsAgree ==
    ASSUME NEW n \in Nat, NEW weights \in [0 .. (n - 1) -> Nat],
           NEW g, IsSum(g, n, weights), NEW h, IsSum(h, n, weights)
    PROVE  g[n] = h[n] /\ g[n] \in Nat
<1> DEFINE same == {i \in 0 .. n : g[i] = h[i] /\ g[i] \in Nat}
<1>1. /\ \A i \in 0 .. n : g[i] = IF i = 0 THEN 0 ELSE g[i - 1] + weights[i - 1]
      /\ \A i \in 0 .. n : h[i] = IF i = 0 THEN 0 ELSE h[i - 1] + weights[i - 1]
  BY DEF IsSum
<1>2. 0 \in same
  <2>1. 0 \in 0 .. n
    OBVIOUS
  <2> QED
    BY <1>1, <2>1
<1>3. ASSUME NEW i \in 0 .. (n - 1), i \in same PROVE i + 1 \in same
  <2>1. i + 1 \in 0 .. n /\ i + 1 # 0 /\ i + 1 - 1 = i
    OBVIOUS
  <2>2. g[i + 1] = g[i] + weights[i] /\ h[i + 1] = h[i] + weights[i] /\ weights[i] \in Nat
    BY <1>1, <2>1
  <2> QED
    BY <1>3, <2>1, <2>2
<1> HIDE DEF same
<1>4. \A i \in 0 .. n : i \in same
  BY <1>2, <1>3, Upwards
<1>5. n \in 0 .. n /\ n \in same
  BY <1>4
<1> QED
  BY <1>5 DEF same

Keeps(a, b, bits) ==
    [i \in 0 .. (8 * WordBytes - 1) |->
        PowerOf2[i] * bits[<<(a \div PowerOf2[i]) % 2, (b \div PowerOf2[i]) % 2>>]]

\* A bit of a number is 0 or 1.
LEMMA BitOf ==
    ASSUME NEW a \in Nat, NEW i \in Nat
    PROVE  (a \div PowerOf2[i]) % 2 \in 0 .. 1
<1>1. PICK p \in Nat \ {0} : p = PowerOf2[i]
  BY PowersOf2
<1>2. a \div p \in Int
  OBVIOUS
<1>3. \A q \in Int : q % 2 \in 0 .. 1
  OBVIOUS
<1> QED
  BY <1>1, <1>2, <1>3

\* Each bit that is kept weighs a number.
LEMMA KeepsType ==
    ASSUME NEW a \in Nat, NEW b \in Nat, NEW bits \in [(0 .. 1) \X (0 .. 1) -> 0 .. 1]
    PROVE  Keeps(a, b, bits) \in [0 .. (8 * WordBytes - 1) -> Nat]
<1>1. ASSUME NEW i \in 0 .. (8 * WordBytes - 1)
      PROVE  PowerOf2[i] * bits[<<(a \div PowerOf2[i]) % 2, (b \div PowerOf2[i]) % 2>>] \in Nat
  <2>1. i \in Nat
    BY WidthAssumption
  <2>2. PICK x \in 0 .. 1, y \in 0 .. 1 :
            x = (a \div PowerOf2[i]) % 2 /\ y = (b \div PowerOf2[i]) % 2
    BY <2>1, BitOf
  <2>3. PICK p \in Nat : p = PowerOf2[i]
    BY <2>1, PowersOf2
  <2>4. PICK k \in 0 .. 1 : k = bits[<<x, y>>]
    BY <2>2
  <2>5. p * k \in Nat
    OBVIOUS
  <2> QED
    BY <2>2, <2>3, <2>4, <2>5
<1> QED
  BY <1>1 DEF Keeps

\* BitwiseSum adds up the weights of the bits that are kept.
LEMMA BitwiseSumIs ==
    ASSUME NEW a \in Nat, NEW b \in Nat, NEW bits \in [(0 .. 1) \X (0 .. 1) -> 0 .. 1],
           NEW g, IsSum(g, 8 * WordBytes, Keeps(a, b, bits))
    PROVE  /\ Bits!BitwiseSum(a, b, bits) = g[8 * WordBytes]
           /\ Bits!BitwiseSum(a, b, bits) \in Nat
<1> DEFINE n == 8 * WordBytes
           weights == Keeps(a, b, bits)
           below[i \in 0 .. n] ==
               IF i = 0 THEN 0
               ELSE LET w == Bits!PowerOf2[i - 1]
                    IN  below[i - 1] + w * bits[<<(a \div w) % 2, (b \div w) % 2>>]
           IsBelow(h) ==
               h = [i \in 0 .. n |->
                       IF i = 0 THEN 0
                       ELSE LET w == Bits!PowerOf2[i - 1]
                            IN  h[i - 1] + w * bits[<<(a \div w) % 2, (b \div w) % 2>>]]
<1>1. n \in Nat
  BY WidthAssumption
<1>2. weights \in [0 .. (n - 1) -> Nat]
  BY KeepsType
<1>3. Bits!BitwiseSum(a, b, bits) = below[n]
  BY DEF Bits!BitwiseSum
<1>4. below = CHOOSE h : IsBelow(h)
  OBVIOUS
<1>5. Bits!PowerOf2 = PowerOf2
  BY DEF Bits!PowerOf2, PowerOf2
<1>6. ASSUME NEW h PROVE IsBelow(h) <=> IsSum(h, n, weights)
  <2>1. \A i \in 0 .. n : i # 0 => weights[i - 1] =
            LET w == Bits!PowerOf2[i - 1] IN w * bits[<<(a \div w) % 2, (b \div w) % 2>>]
    <3>1. \A i \in 0 .. n : i # 0 => i - 1 \in 0 .. (n - 1)
      BY <1>1
    <3> QED
      BY <1>5, <3>1 DEF Keeps
  <2> DEFINE one == [i \in 0 .. n |->
                       IF i = 0 THEN 0
                       ELSE LET w == Bits!PowerOf2[i - 1]
                            IN  h[i - 1] + w * bits[<<(a \div w) % 2, (b \div w) % 2>>]]
             two == [i \in 0 .. n |-> IF i = 0 THEN 0 ELSE h[i - 1] + weights[i - 1]]
  <2>2. one = two
    <3> HIDE DEF weights, n
    <3> QED
      BY <2>1
  <2>3. IsBelow(h) <=> h = one
    OBVIOUS
  <2>4. IsSum(h, n, weights) <=> h = two
    BY DEF IsSum
  <2> HIDE DEF one, two, IsBelow, weights, n
  <2> QED
    BY <2>2, <2>3, <2>4
<1> HIDE DEF below, IsBelow
<1>7. IsSum(below, n, weights)
  <2>1. IsBelow(g)
    BY <1>6
  <2>2. IsBelow(below)
    BY <1>4, <2>1
  <2> QED
    BY <1>6, <2>2
<1>8. below[n] = g[n] /\ below[n] \in Nat
  <2> HIDE DEF n, weights
  <2>1. IsSum(g, n, weights)
    BY DEF n, weights
  <2> QED
    BY <1>1, <1>2, <1>7, <2>1, SumsAgree
<1> QED
  BY <1>3, <1>8

\* BitwiseSum gives a number.
LEMMA BitwiseSumType ==
    ASSUME NEW a \in Nat, NEW b \in Nat, NEW bits \in [(0 .. 1) \X (0 .. 1) -> 0 .. 1]
    PROVE  Bits!BitwiseSum(a, b, bits) \in Nat
<1>1. 8 * WordBytes \in Nat
  BY WidthAssumption
<1>2. PICK g : IsSum(g, 8 * WordBytes, Keeps(a, b, bits))
  BY <1>1, KeepsType, SumExists
<1> QED
  BY <1>2, BitwiseSumIs

-----------------------------------------------------------------------------
(***************************************************************************)
(* What Solve computes                                                     *)
(***************************************************************************)

\* Quotient gives an integer where the divisor is not 0.
LEMMA QuotientType ==
    ASSUME NEW a \in Int, NEW b \in Int, b # 0
    PROVE  Quotient(a, b) \in Int
<1>1. PICK m \in Nat : m = IF a < 0 THEN -a ELSE a
  OBVIOUS
<1>2. PICK n \in Nat \ {0} : n = IF b < 0 THEN -b ELSE b
  OBVIOUS
<1>3. PICK q \in Int : q = m \div n
  <2>1. m \div n \in Int
    OBVIOUS
  <2> QED
    BY <2>1
<1>4. Quotient(a, b) = IF (a < 0 <=> b < 0) THEN q ELSE -q
  BY <1>1, <1>2, <1>3 DEF Quotient
<1> QED
  BY <1>4

\* The operands an opcode reads are numbers.
IsInput(op, in) == in[1] \in Int /\ (op \notin {OP_ISZERO, OP_NOT} => in[2] \in Int)

\* AND keeps the bits that both have, XOR those that one has.
LEMMA BitOperators ==
    /\ Bits!AndBits \in [(0 .. 1) \X (0 .. 1) -> 0 .. 1]
    /\ Bits!XorBits \in [(0 .. 1) \X (0 .. 1) -> 0 .. 1]
    /\ \A x, y \in 0 .. 1 : /\ Bits!AndBits[<<x, y>>] = x * y
                            /\ Bits!XorBits[<<x, y>>] = (x + y) % 2
<1>1. \A p \in (0 .. 1) \X (0 .. 1) : p[1] \in 0 .. 1 /\ p[2] \in 0 .. 1
  OBVIOUS
<1>2. \A x, y \in 0 .. 1 : x * y \in 0 .. 1 /\ (x + y) % 2 \in 0 .. 1
  OBVIOUS
<1>3. /\ \A p \in (0 .. 1) \X (0 .. 1) : p[1] * p[2] \in 0 .. 1
      /\ \A p \in (0 .. 1) \X (0 .. 1) : (p[1] + p[2]) % 2 \in 0 .. 1
  BY <1>1, <1>2
<1>4. /\ Bits!AndBits \in [(0 .. 1) \X (0 .. 1) -> 0 .. 1]
      /\ Bits!XorBits \in [(0 .. 1) \X (0 .. 1) -> 0 .. 1]
  BY <1>3 DEF Bits!AndBits, Bits!XorBits
<1>5. \A x, y \in 0 .. 1 : /\ Bits!AndBits[<<x, y>>] = x * y
                           /\ Bits!XorBits[<<x, y>>] = (x + y) % 2
  BY DEF Bits!AndBits, Bits!XorBits
<1> QED
  BY <1>4, <1>5

\* Which arm of Solve an opcode takes.
LEMMA SolveArms ==
    ASSUME NEW op, NEW in
    PROVE  /\ op = OP_ADD => Solve(op, in) = in[1] + in[2]
           /\ op = OP_MUL => Solve(op, in) = in[1] * in[2]
           /\ op = OP_SUB => Solve(op, in) = in[1] - in[2]
           /\ op \in {OP_DIV, OP_SDIV} =>
                 Solve(op, in) = IF in[2] = 0 THEN 0 ELSE Quotient(in[1], in[2])
           /\ op = OP_MOD => Solve(op, in) = in[1] - in[2] * Quotient(in[1], in[2])
           /\ op \in {OP_GT, OP_LT} => Solve(op, in) = Truth(in[1] > in[2])
           /\ op = OP_EQ => Solve(op, in) = Truth(in[1] = in[2])
           /\ op = OP_ISZERO => Solve(op, in) = Truth(in[1] = 0)
           /\ op = OP_AND => Solve(op, in) =
                 Bits!BitwiseSum(in[1] % Modulus, in[2] % Modulus, Bits!AndBits)
           /\ op = OP_XOR => Solve(op, in) =
                 Bits!BitwiseSum(in[1] % Modulus, in[2] % Modulus, Bits!XorBits)
           /\ op = OP_NOT => Solve(op, in) = -in[1] - 1
<1> DEFINE add == in[1] + in[2]
           mul == in[1] * in[2]
           sub == in[1] - in[2]
           div == IF in[2] = 0 THEN 0 ELSE Quotient(in[1], in[2])
           mod == in[1] - in[2] * Quotient(in[1], in[2])
           gt  == Truth(in[1] > in[2])
           eq  == Truth(in[1] = in[2])
           zero == Truth(in[1] = 0)
           and == Bits!BitwiseSum(in[1] % Modulus, in[2] % Modulus, Bits!AndBits)
           xor == Bits!BitwiseSum(in[1] % Modulus, in[2] % Modulus, Bits!XorBits)
           not == -in[1] - 1
<1>1. Solve(op, in) = CASE op = OP_ADD                -> add
                        [] op = OP_MUL                -> mul
                        [] op = OP_SUB                -> sub
                        [] op \in {OP_DIV, OP_SDIV}   -> div
                        [] op = OP_MOD                -> mod
                        [] op \in {OP_GT, OP_LT}      -> gt
                        [] op = OP_EQ                 -> eq
                        [] op = OP_ISZERO             -> zero
                        [] op = OP_AND                -> and
                        [] op = OP_XOR                -> xor
                        [] op = OP_NOT                -> not
  BY Zenon DEF Solve
<1> HIDE DEF add, mul, sub, div, mod, gt, eq, zero, and, xor, not
<1>2. /\ op = OP_ADD => Solve(op, in) = add
      /\ op = OP_MUL => Solve(op, in) = mul
      /\ op = OP_SUB => Solve(op, in) = sub
      /\ op \in {OP_DIV, OP_SDIV} => Solve(op, in) = div
      /\ op = OP_MOD => Solve(op, in) = mod
      /\ op \in {OP_GT, OP_LT} => Solve(op, in) = gt
      /\ op = OP_EQ => Solve(op, in) = eq
      /\ op = OP_ISZERO => Solve(op, in) = zero
      /\ op = OP_AND => Solve(op, in) = and
      /\ op = OP_XOR => Solve(op, in) = xor
      /\ op = OP_NOT => Solve(op, in) = not
  BY <1>1, SMT DEF OP_ADD, OP_MUL, OP_SUB, OP_DIV, OP_SDIV, OP_MOD, OP_LT, OP_GT, OP_EQ,
              OP_ISZERO, OP_AND, OP_XOR, OP_NOT
<1> QED
  BY <1>2, Zenon DEF add, mul, sub, div, mod, gt, eq, zero, and, xor, not

\* Where it does not trap, Solve gives an integer.
LEMMA SolveType ==
    ASSUME NEW op \in HasLogic, NEW in, IsInput(op, in), ~Traps(op, in)
    PROVE  Solve(op, in) \in Int
<1>1. PICK a \in Int : a = in[1]
  BY DEF IsInput
<1>2. CASE op \in {OP_ISZERO, OP_NOT}
  <2>1. Solve(op, in) \in {Truth(a = 0), -a - 1}
    BY <1>1, <1>2, SolveArms
  <2>2. Truth(a = 0) \in Int
    BY DEF Truth
  <2> QED
    BY <2>1, <2>2
<1>3. CASE op \notin {OP_ISZERO, OP_NOT}
  <2>1. PICK b \in Int : b = in[2]
    BY <1>3 DEF IsInput
  <2>2. CASE op \in {OP_ADD, OP_MUL, OP_SUB}
    <3>1. Solve(op, in) \in {a + b, a * b, a - b}
      BY <1>1, <2>1, <2>2, SolveArms
    <3>2. a * b \in Int /\ a + b \in Int /\ a - b \in Int
      OBVIOUS
    <3> QED
      BY <3>1, <3>2
  <2>3. CASE op \in {OP_DIV, OP_SDIV}
    <3>1. Solve(op, in) = IF b = 0 THEN 0 ELSE Quotient(a, b)
      BY <1>1, <2>1, <2>3, SolveArms
    <3>2. b # 0 => Quotient(a, b) \in Int
      BY QuotientType
    <3> QED
      BY <3>1, <3>2
  <2>4. CASE op = OP_MOD
    <3>1. b # 0
      BY <2>1, <2>4 DEF Traps
    <3>2. Solve(op, in) = a - b * Quotient(a, b)
      BY <1>1, <2>1, <2>4, SolveArms
    <3>3. PICK q \in Int : q = Quotient(a, b)
      BY <3>1, QuotientType
    <3>4. a - b * q \in Int
      OBVIOUS
    <3> QED
      BY <3>2, <3>3, <3>4
  <2>5. CASE op \in {OP_GT, OP_LT, OP_EQ}
    <3>1. Solve(op, in) \in {Truth(a = b), Truth(a > b)}
      BY <1>1, <2>1, <2>5, SolveArms
    <3>2. Truth(a = b) \in Int /\ Truth(a > b) \in Int
      BY DEF Truth
    <3> QED
      BY <3>1, <3>2
  <2>6. CASE op \in {OP_AND, OP_XOR}
    <3>1. PICK m \in Nat, n \in Nat : m = a % Modulus /\ n = b % Modulus
      BY RemainderBelow
    <3>2. Solve(op, in) \in {Bits!BitwiseSum(m, n, Bits!AndBits),
                             Bits!BitwiseSum(m, n, Bits!XorBits)}
      BY <1>1, <2>1, <2>6, <3>1, SolveArms
    <3>3. /\ Bits!BitwiseSum(m, n, Bits!AndBits) \in Nat
          /\ Bits!BitwiseSum(m, n, Bits!XorBits) \in Nat
      BY BitOperators, BitwiseSumType
    <3> QED
      BY <3>2, <3>3
  <2> QED
    BY <1>3, <2>2, <2>3, <2>4, <2>5, <2>6 DEF HasLogic
<1> QED
  BY <1>2, <1>3

\* What a folding leaves: the int64_t of what Solve computes, in as many bytes as are
\* read again unless it is negative.
LEMMA ResultFacts ==
    ASSUME NEW op \in HasLogic, NEW in, IsInput(op, in), ~Traps(op, in)
    PROVE  LET u   == Solve(op, in) % Modulus
               out == Result(op, in)
           IN  /\ out \in Seq(Byte) /\ out # <<>>
               /\ u \in Nat /\ u < Modulus
               /\ IsReadable(out) <=> Signed(u) >= 0
               /\ Signed(u) >= 0 => WordOf(out) = u /\ GetInt64FromVec(out) = Signed(u)
<1>1. PICK s \in Int : s = Solve(op, in)
  BY SolveType
<1>2. PICK u \in Nat : u = s % Modulus /\ u < Modulus
  BY RemainderBelow
<1>3. Result(op, in) = GetVecFromInt64(Signed(u))
  BY <1>1, <1>2 DEF Result
<1> QED
  BY <1>1, <1>2, <1>3, WrittenIsReadBack

\* A set of numbers below a bound has a last one.
LEMMA Last ==
    ASSUME NEW n \in Nat, NEW S \in SUBSET (0 .. n), S # {}
    PROVE  \E m \in S : \A k \in S : k <= m
<1> DEFINE above == {k \in Nat : \A x \in S : x <= k}
<1>1. above \in SUBSET Nat /\ n \in above
  OBVIOUS
<1>2. PICK k \in above : \A j \in above : k <= j
  <2> HIDE DEF above
  <2> QED
    BY <1>1, Smallest
<1>3. k \in S
  <2> SUFFICES ASSUME k \notin S PROVE FALSE
    OBVIOUS
  <2>1. PICK x \in S : TRUE
    OBVIOUS
  <2>2. k - 1 \in Nat /\ \A y \in S : y <= k - 1
    BY <2>1
  <2> QED
    BY <1>2, <2>2
<1> QED
  BY <1>2, <1>3

\* A constant that can be read is a number of so many bits.
LEMMA ReadableWord ==
    ASSUME NEW v \in Seq(Byte), IsReadable(v)
    PROVE  WordOf(v) \in Nat /\ WordOf(v) < Modulus
<1>1. WordOf(v) \in Nat /\ WordOf(v) < PowerOf256[Len(v)]
  BY WordBounded
<1>2. PowerOf256[Len(v)] <= Modulus
  <2>1. Len(v) \in Nat /\ Len(v) <= WordBytes /\ WordBytes \in Nat
    BY WidthAssumption DEF IsReadable
  <2> QED
    BY <2>1, PowersGrow DEF Modulus
<1>3. PowerOf256[Len(v)] \in Nat /\ Modulus \in Nat
  <2>1. PICK n \in Nat : n = Len(v)
    OBVIOUS
  <2> QED
    BY <2>1, PowersOf256, ModulusFacts
<1> QED
  BY <1>1, <1>2, <1>3

-----------------------------------------------------------------------------
(***************************************************************************)
(* How many values an opcode takes and leaves, and how long it is.         *)
(***************************************************************************)

\* How many values an opcode takes is a number.
LEMMA StackRemovedType == ASSUME NEW op PROVE StackRemoved(op) \in Nat
<1>1. IsDup(op) => op - OP_DUP1 + 1 \in Nat
  BY DEF IsDup, OP_DUP1, OP_DUP16
<1>2. IsSwap(op) => op - OP_SWAP1 + 2 \in Nat
  BY DEF IsSwap, OP_SWAP1, OP_SWAP16
<1> QED
  BY <1>1, <1>2 DEF StackRemoved

\* How many values an opcode leaves is a number.
LEMMA StackAddedType == ASSUME NEW op PROVE StackAdded(op) \in Nat
<1>1. IsDup(op) => op - OP_DUP1 + 2 \in Nat
  BY DEF IsDup, OP_DUP1, OP_DUP16
<1>2. IsSwap(op) => op - OP_SWAP1 + 2 \in Nat
  BY DEF IsSwap, OP_SWAP1, OP_SWAP16
<1> QED
  BY <1>1, <1>2 DEF StackAdded

\* How long an instruction is is a number.
LEMMA LengthType == ASSUME NEW op PROVE Length(op) \in Nat
  BY DEF Length, IsPush, OP_PUSH1, OP_PUSH32

LEMMA StackCounts == \A op : StackRemoved(op) \in Nat /\ StackAdded(op) \in Nat
  BY StackRemovedType, StackAddedType

-----------------------------------------------------------------------------
(***************************************************************************)
(* What an instruction makes of the constants on the stack depends on the  *)
(* constants and the height of the stack only.                             *)
(***************************************************************************)

\* What a stack shows of a value that is no constant.
Unvalued == <<>>

\* A constant has bytes.
Valued == {e \in [kind : {"constant", "argument", "symbol"}, idx : Int, value : Seq(Byte)] :
               e.kind = "constant" => e.value # <<>>}

Stacks == Seq(Valued)

View(e) == IF e.kind = "constant" THEN e.value ELSE Unvalued

Alike(s, t) == Len(s) = Len(t) /\ \A i \in 1 .. Len(s) : View(s[i]) = View(t[i])

LEMMA ViewFacts ==
    ASSUME NEW e \in Valued, NEW f \in Valued, View(e) = View(f)
    PROVE  /\ e.kind = "constant" <=> f.kind = "constant"
           /\ e.kind = "constant" => e.value = f.value
  BY DEF Valued, View, Unvalued

LEMMA StackFacts ==
    ASSUME NEW s \in Stacks
    PROVE  /\ Len(s) \in Nat /\ DOMAIN s = 1 .. Len(s)
           /\ \A i \in 1 .. Len(s) : s[i] \in Valued
  BY LenProperties, ElementOfSeq DEF Stacks

\* A sequence given by its elements.
LEMMA LengthOfRow ==
    ASSUME NEW S, NEW n \in Nat, NEW f \in [1 .. n -> S]
    PROVE  f \in Seq(S) /\ Len(f) = n
<1>1. f \in Seq(S)
  OBVIOUS
<1>2. PICK m \in Nat : m = Len(f)
  BY <1>1, LenProperties
<1>3. DOMAIN f = 1 .. m /\ DOMAIN f = 1 .. n
  BY <1>1, <1>2, LenProperties
<1> QED
  BY <1>1, <1>2, <1>3

LEMMA StackOf ==
    ASSUME NEW n \in Nat, NEW f \in [1 .. n -> Valued]
    PROVE  f \in Stacks /\ Len(f) = n
  BY LengthOfRow DEF Stacks

LEMMA AlikeIsEquivalence ==
    /\ \A s : Alike(s, s)
    /\ \A s, t : Alike(s, t) => Alike(t, s)
    /\ \A s, t, u : Alike(s, t) /\ Alike(t, u) => Alike(s, u)
  BY DEF Alike

LEMMA ConcatAlike ==
    ASSUME NEW s \in Stacks, NEW t \in Stacks
    PROVE  /\ s \o t \in Stacks
           /\ \A u, v \in Stacks : Alike(s, u) /\ Alike(t, v) => Alike(s \o t, u \o v)
<1> DEFINE Cat(x, y) == x \o y
<1>1. \A x, y \in Stacks :
         /\ Cat(x, y) \in Stacks /\ Len(x) \in Nat /\ Len(y) \in Nat
         /\ Len(Cat(x, y)) = Len(x) + Len(y)
         /\ \A i \in 1 .. Len(x) + Len(y) :
               Cat(x, y)[i] = IF i <= Len(x) THEN x[i] ELSE y[i - Len(x)]
  BY ConcatProperties, LenProperties DEF Stacks
<1> HIDE DEF Cat
<1>2. ASSUME NEW u \in Stacks, NEW v \in Stacks, Alike(s, u), Alike(t, v)
      PROVE  Alike(Cat(s, t), Cat(u, v))
  <2>1. PICK m \in Nat, n \in Nat : m = Len(s) /\ m = Len(u) /\ n = Len(t) /\ n = Len(v)
    BY <1>1, <1>2 DEF Alike
  <2>2. /\ \A i \in 1 .. m + n : Cat(s, t)[i] = IF i <= m THEN s[i] ELSE t[i - m]
        /\ \A i \in 1 .. m + n : Cat(u, v)[i] = IF i <= m THEN u[i] ELSE v[i - m]
    <3>1. \A i \in 1 .. Len(s) + Len(t) : Cat(s, t)[i] = IF i <= Len(s) THEN s[i] ELSE t[i - Len(s)]
      BY <1>1, Zenon
    <3>2. \A i \in 1 .. Len(u) + Len(v) : Cat(u, v)[i] = IF i <= Len(u) THEN u[i] ELSE v[i - Len(u)]
      BY <1>1, Zenon
    <3> QED
      BY <2>1, <3>1, <3>2, Zenon
  <2>3. ASSUME NEW i \in 1 .. m + n
        PROVE  View(Cat(s, t)[i]) = View(Cat(u, v)[i])
    <3>1. /\ Cat(s, t)[i] = IF i <= m THEN s[i] ELSE t[i - m]
          /\ Cat(u, v)[i] = IF i <= m THEN u[i] ELSE v[i - m]
      BY <2>2
    <3>2. CASE i <= m
      BY <1>2, <2>1, <3>1, <3>2 DEF Alike
    <3>3. CASE ~(i <= m)
      <4>1. i - m \in 1 .. n
        BY <2>1, <3>3
      <4> QED
        BY <1>2, <2>1, <3>1, <3>3, <4>1 DEF Alike
    <3> QED
      BY <3>2, <3>3
  <2>4. Len(Cat(s, t)) = m + n /\ Len(Cat(u, v)) = m + n
    <3>1. Len(Cat(s, t)) = Len(s) + Len(t)
      BY <1>1, Zenon
    <3>2. Len(Cat(u, v)) = Len(u) + Len(v)
      BY <1>1, Zenon
    <3> QED
      BY <2>1, <3>1, <3>2, Zenon
  <2> QED
    BY <2>3, <2>4 DEF Alike
<1> QED
  BY <1>1, <1>2 DEF Cat

LEMMA RestAlike ==
    ASSUME NEW op, NEW s \in Stacks
    PROVE  /\ Rest(op, s) \in Stacks
           /\ \A t \in Stacks : Alike(s, t) => Alike(Rest(op, s), Rest(op, t))
<1>1. PICK n \in Int : n = StackRemoved(op) /\ n >= 0
  BY StackCounts
<1>2. \A x \in Stacks :
         /\ Rest(op, x) \in Stacks /\ Len(x) \in Nat
         /\ Len(Rest(op, x)) = IF n <= Len(x) THEN Len(x) - n ELSE 0
         /\ \A i \in 1 .. Len(Rest(op, x)) : i \in 1 .. Len(x) /\ Rest(op, x)[i] = x[i]
  <2> TAKE x \in Stacks
  <2>1. Len(x) \in Nat /\ x \in Seq(Valued)
    BY StackFacts DEF Stacks
  <2>2. PICK m \in Int : m = Len(x) - n /\ m <= Len(x)
    BY <1>1, <2>1
  <2>3. Rest(op, x) = SubSeq(x, 1, m)
    BY <1>1, <2>2 DEF Rest
  <2>4. /\ SubSeq(x, 1, m) \in Seq(Valued)
        /\ Len(SubSeq(x, 1, m)) = IF 1 <= m THEN m ELSE 0
        /\ \A i \in 1 .. Len(SubSeq(x, 1, m)) : i \in 1 .. Len(x) /\ SubSeq(x, 1, m)[i] = x[i]
    BY <2>1, <2>2
  <2> QED
    BY <1>1, <2>1, <2>2, <2>3, <2>4 DEF Stacks
<1>3. ASSUME NEW t \in Stacks, Alike(s, t) PROVE Alike(Rest(op, s), Rest(op, t))
  <2>1. Len(Rest(op, s)) = Len(Rest(op, t))
    BY <1>2, <1>3 DEF Alike
  <2>2. \A i \in 1 .. Len(Rest(op, s)) : View(Rest(op, s)[i]) = View(Rest(op, t)[i])
    BY <1>2, <1>3, <2>1 DEF Alike
  <2> QED
    BY <2>1, <2>2 DEF Alike
<1> QED
  BY <1>2, <1>3

LEMMA PushedAlike ==
    ASSUME NEW s \in Stacks, NEW t \in Stacks
    PROVE  /\ Pushed(s, t) \in Stacks
           /\ \A u, v \in Stacks : Alike(s, u) /\ Alike(t, v) => Alike(Pushed(s, t), Pushed(u, v))
<1> DEFINE Top(x) == [i \in 1 .. Len(x) |-> x[Len(x) - i + 1]]
<1>1. \A x \in Stacks : Top(x) \in Stacks /\ Len(Top(x)) = Len(x)
  <2> TAKE x \in Stacks
  <2>1. PICK n \in Nat : n = Len(x)
    BY StackFacts
  <2>2. \A i \in 1 .. n : n - i + 1 \in 1 .. n
    BY <2>1
  <2>3. Top(x) \in [1 .. n -> Valued]
    BY <2>1, <2>2, StackFacts
  <2> HIDE DEF Top
  <2> QED
    BY <2>1, <2>3, StackOf
<1>2. \A x, y \in Stacks : Alike(x, y) => Alike(Top(x), Top(y))
  <2> SUFFICES ASSUME NEW x \in Stacks, NEW y \in Stacks, Alike(x, y)
               PROVE  Alike(Top(x), Top(y))
    OBVIOUS
  <2>1. PICK n \in Nat : n = Len(x) /\ n = Len(y)
    BY StackFacts DEF Alike
  <2>2. \A i \in 1 .. n : n - i + 1 \in 1 .. n
    BY <2>1
  <2>3. \A i \in 1 .. n : View(Top(x)[i]) = View(Top(y)[i])
    BY <2>1, <2>2 DEF Alike
  <2> QED
    BY <1>1, <2>1, <2>3 DEF Alike
<1>3. \A x, y : Pushed(x, y) = x \o Top(y)
  BY DEF Pushed
<1> HIDE DEF Top
<1>4. Pushed(s, t) \in Stacks
  BY <1>1, <1>3, ConcatAlike
<1>5. ASSUME NEW u \in Stacks, NEW v \in Stacks, Alike(s, u), Alike(t, v)
      PROVE  Alike(Pushed(s, t), Pushed(u, v))
  BY <1>1, <1>2, <1>3, <1>5, ConcatAlike
<1> QED
  BY <1>4, <1>5

LEMMA OperandsAlike ==
    ASSUME NEW op, NEW s \in Stacks, NEW args \in [1 .. Missing(op, s) -> Int]
    PROVE  /\ Operands(op, s, args) \in Stacks
           /\ Len(Operands(op, s, args)) = StackRemoved(op)
           /\ \A t \in Stacks : \A others \in [1 .. Missing(op, t) -> Int] :
                 Alike(s, t) => Alike(Operands(op, s, args), Operands(op, t, others))
<1>1. PICK n \in Nat : n = StackRemoved(op)
  BY StackCounts
<1> DEFINE Below(x, a) == Operands(op, x, a)
<1>2. ASSUME NEW x \in Stacks, NEW a \in [1 .. Missing(op, x) -> Int]
      PROVE  /\ Below(x, a) \in [1 .. n -> Valued]
             /\ \A i \in 1 .. n : View(Below(x, a)[i])
                   = IF i <= Len(x) THEN View(x[Len(x) - i + 1]) ELSE Unvalued
  <2>1. PICK m \in Nat : m = Len(x)
    BY StackFacts
  <2>2. Below(x, a) = [i \in 1 .. n |-> IF i <= m THEN x[m - i + 1] ELSE Argument(a[i - m])]
    BY <1>1, <2>1 DEF Operands
  <2>3. ASSUME NEW i \in 1 .. n, i <= m PROVE x[m - i + 1] \in Valued
    <3>1. m - i + 1 \in 1 .. m
      BY <2>1, <2>3
    <3> QED
      BY <2>1, <3>1, StackFacts
  <2>4. ASSUME NEW i \in 1 .. n, ~(i <= m)
        PROVE  Argument(a[i - m]) \in Valued /\ View(Argument(a[i - m])) = Unvalued
    <3>1. i - m \in 1 .. Missing(op, x)
      BY <1>1, <2>1, <2>4 DEF Missing
    <3>2. PICK j \in Int : j = a[i - m]
      BY <3>1
    <3> QED
      BY <3>2 DEF Argument, Valued, View
  <2> HIDE DEF Below
  <2> QED
    BY <2>1, <2>2, <2>3, <2>4
<1> HIDE DEF Below
<1>3. \A x \in Stacks : \A a \in [1 .. Missing(op, x) -> Int] :
         Below(x, a) \in Stacks /\ Len(Below(x, a)) = n
  BY <1>2, StackOf
<1>4. ASSUME NEW t \in Stacks, NEW others \in [1 .. Missing(op, t) -> Int], Alike(s, t)
      PROVE  Alike(Below(s, args), Below(t, others))
  <2>1. PICK m \in Nat : m = Len(s) /\ m = Len(t)
    BY <1>4, StackFacts DEF Alike
  <2>2. ASSUME NEW i \in 1 .. n PROVE View(Below(s, args)[i]) = View(Below(t, others)[i])
    <3>1. /\ View(Below(s, args)[i]) = IF i <= m THEN View(s[m - i + 1]) ELSE Unvalued
          /\ View(Below(t, others)[i]) = IF i <= m THEN View(t[m - i + 1]) ELSE Unvalued
      BY <1>2, <2>1
    <3>2. CASE i <= m
      <4>1. m - i + 1 \in 1 .. m
        BY <2>1, <3>2
      <4> QED
        BY <1>4, <2>1, <3>1, <3>2, <4>1 DEF Alike
    <3>3. CASE ~(i <= m)
      BY <3>1, <3>3
    <3> QED
      BY <3>2, <3>3
  <2>3. Len(Below(s, args)) = n /\ Len(Below(t, others)) = n
    BY <1>3
  <2> QED
    BY <2>2, <2>3 DEF Alike
<1> QED
  BY <1>1, <1>3, <1>4 DEF Below

\* Alike operands are read alike.
LEMMA ReadAlike ==
    ASSUME NEW s \in Stacks, NEW t \in Stacks, Alike(s, t)
    PROVE  /\ AllReadable(s) <=> AllReadable(t)
           /\ AllReadable(s) => Values(s) = Values(t)
<1>1. PICK n \in Nat : n = Len(s) /\ n = Len(t)
  BY StackFacts DEF Alike
<1>2. \A i \in 1 .. n : /\ s[i].kind = "constant" <=> t[i].kind = "constant"
                        /\ s[i].kind = "constant" => s[i].value = t[i].value
  <2> TAKE i \in 1 .. n
  <2>1. s[i] \in Valued /\ t[i] \in Valued /\ View(s[i]) = View(t[i])
    BY <1>1, StackFacts DEF Alike
  <2> QED
    BY <2>1, ViewFacts
<1> QED
  BY <1>1, <1>2 DEF AllReadable, Values

LEMMA LogicTakes ==
    ASSUME NEW op \in HasLogic
    PROVE  StackRemoved(op) = IF op \in {OP_ISZERO, OP_NOT} THEN 1 ELSE 2
<1>1. op \in {1, 2, 3, 4, 5, 6, 16, 17, 20, 21, 22, 24, 25}
  BY DEF HasLogic, OP_ADD, OP_MUL, OP_SUB, OP_DIV, OP_SDIV, OP_MOD, OP_LT, OP_GT, OP_EQ,
         OP_ISZERO, OP_AND, OP_XOR, OP_NOT
<1>2. ~IsDup(op) /\ ~IsSwap(op)
  BY <1>1 DEF IsDup, IsSwap, OP_DUP1, OP_DUP16, OP_SWAP1, OP_SWAP16
<1> QED
  BY <1>1, <1>2, SMT DEF StackRemoved, OP_ISZERO, OP_NOT

\* What a folding leaves has bytes.
LEMMA ResultHasBytes ==
    ASSUME NEW op \in HasLogic, NEW s \in Stacks, Len(s) = StackRemoved(op), AllReadable(s),
           ~Traps(op, Values(s))
    PROVE  Result(op, Values(s)) \in Seq(Byte) \ {<<>>}
<1>1. \A i \in 1 .. Len(s) : Values(s)[i] \in Int
  <2> TAKE i \in 1 .. Len(s)
  <2>1. PICK v \in Seq(Byte) : v = s[i].value /\ IsReadable(v)
    BY StackFacts DEF AllReadable, Valued
  <2>2. Signed(WordOf(v)) \in Int
    BY <2>1, ReadableWord, SignedFacts
  <2> QED
    BY <2>1, <2>2 DEF Values, GetInt64FromVec
<1>2. IsInput(op, Values(s))
  BY <1>1, LogicTakes DEF IsInput
<1> QED
  BY <1>2, ResultFacts

LEMMA ManipulatorsTake ==
    ASSUME NEW op
    PROVE  /\ IsDup(op) => StackRemoved(op) >= 1
           /\ IsSwap(op) => ~IsDup(op) /\ StackRemoved(op) >= 2
           /\ IsBranch(op) => StackRemoved(op) >= 1
<1>1. ASSUME IsDup(op) PROVE StackRemoved(op) >= 1
  <2>1. op \in 128 .. 143
    BY <1>1 DEF IsDup, OP_DUP1, OP_DUP16
  <2>2. ~IsSwap(op)
    BY <2>1 DEF IsSwap, OP_SWAP1, OP_SWAP16
  <2>3. StackRemoved(op) = op - OP_DUP1 + 1
    BY <1>1, <2>1, <2>2, SMT DEF StackRemoved
  <2> QED
    BY <2>1, <2>3 DEF OP_DUP1
<1>2. ASSUME IsSwap(op) PROVE ~IsDup(op) /\ StackRemoved(op) >= 2
  <2>1. op \in 144 .. 159 /\ ~IsDup(op)
    BY <1>2 DEF IsSwap, IsDup, OP_SWAP1, OP_SWAP16, OP_DUP1, OP_DUP16
  <2>2. StackRemoved(op) = op - OP_SWAP1 + 2
    BY <1>2, <2>1, SMT DEF StackRemoved
  <2> QED
    BY <2>1, <2>2 DEF OP_SWAP1
<1>3. ASSUME IsBranch(op) PROVE StackRemoved(op) >= 1
  <2>1. op \in {86, 87} /\ ~IsDup(op) /\ ~IsSwap(op)
    BY <1>3 DEF IsBranch, OP_JUMP, OP_JUMPI, IsSwap, IsDup, OP_SWAP1, OP_SWAP16, OP_DUP1, OP_DUP16
  <2> QED
    BY <2>1, SMT DEF StackRemoved
<1> QED
  BY <1>1, <1>2, <1>3

\* A sequence made of elements of another one.
LEMMA DupAlike ==
    ASSUME NEW s \in Stacks, Len(s) >= 1
    PROVE  /\ DupOutputs(s) \in Stacks
           /\ \A t \in Stacks : Alike(s, t) => Alike(DupOutputs(s), DupOutputs(t))
<1>1. \A x \in Stacks : Len(x) >= 1 =>
         /\ <<x[Len(x)]>> \in Stacks /\ Len(<<x[Len(x)]>>) = 1 /\ <<x[Len(x)]>>[1] = x[Len(x)]
         /\ DupOutputs(x) = <<x[Len(x)]>> \o x
  <2> SUFFICES ASSUME NEW x \in Stacks, Len(x) >= 1
               PROVE  /\ <<x[Len(x)]>> \in Stacks /\ Len(<<x[Len(x)]>>) = 1
                      /\ <<x[Len(x)]>>[1] = x[Len(x)] /\ DupOutputs(x) = <<x[Len(x)]>> \o x
    OBVIOUS
  <2>1. PICK e \in Valued : e = x[Len(x)]
    BY StackFacts
  <2> QED
    BY <2>1 DEF Stacks, DupOutputs
<1>2. ASSUME NEW t \in Stacks, Alike(s, t) PROVE Alike(DupOutputs(s), DupOutputs(t))
  <2>1. Len(t) >= 1 /\ View(s[Len(s)]) = View(t[Len(t)])
    BY <1>2, StackFacts DEF Alike
  <2>2. PICK a \in Stacks, b \in Stacks :
           /\ Len(a) = 1 /\ a[1] = s[Len(s)] /\ DupOutputs(s) = a \o s
           /\ Len(b) = 1 /\ b[1] = t[Len(t)] /\ DupOutputs(t) = b \o t
    BY <1>1, <2>1
  <2>3. Alike(a, b)
    BY <2>1, <2>2 DEF Alike
  <2> QED
    BY <1>2, <2>2, <2>3, ConcatAlike
<1> QED
  BY <1>1, <1>2, ConcatAlike

LEMMA SwapAlike ==
    ASSUME NEW s \in Stacks, Len(s) >= 2
    PROVE  /\ SwapOutputs(s) \in Stacks
           /\ \A t \in Stacks : Alike(s, t) => Alike(SwapOutputs(s), SwapOutputs(t))
<1>1. PICK n \in Nat : n = Len(s) /\ n >= 2
  BY StackFacts
<1> DEFINE At(i) == IF i = 1 THEN n ELSE IF i = n THEN 1 ELSE i
<1>2. \A i \in 1 .. n : At(i) \in 1 .. n
  BY <1>1
<1>3. \A x \in Stacks : Len(x) = n => SwapOutputs(x) = [i \in 1 .. n |-> x[At(i)]]
  BY DEF SwapOutputs
<1> HIDE DEF At
<1>4. \A x \in Stacks : Len(x) = n => SwapOutputs(x) \in Stacks /\ Len(SwapOutputs(x)) = n
  <2> SUFFICES ASSUME NEW x \in Stacks, Len(x) = n
               PROVE  SwapOutputs(x) \in Stacks /\ Len(SwapOutputs(x)) = n
    OBVIOUS
  <2>1. \A i \in 1 .. n : x[i] \in Valued
    BY StackFacts
  <2>2. \A i \in 1 .. n : x[At(i)] \in Valued
    BY <1>2, <2>1
  <2>3. SwapOutputs(x) \in [1 .. n -> Valued]
    BY <1>3, <2>2
  <2> QED
    BY <2>3, StackOf
<1>5. ASSUME NEW t \in Stacks, Alike(s, t) PROVE Alike(SwapOutputs(s), SwapOutputs(t))
  <2>1. Len(t) = n
    BY <1>1, <1>5 DEF Alike
  <2>2. \A i \in 1 .. n : View(SwapOutputs(s)[i]) = View(SwapOutputs(t)[i])
    <3> TAKE i \in 1 .. n
    <3>1. PICK j \in 1 .. n : j = At(i)
      BY <1>2
    <3>2. SwapOutputs(s)[i] = s[j] /\ SwapOutputs(t)[i] = t[j]
      BY <1>1, <1>3, <2>1, <3>1
    <3> QED
      BY <1>1, <1>5, <3>2 DEF Alike
  <2> QED
    BY <1>1, <1>4, <2>1, <2>2 DEF Alike
<1> QED
  BY <1>1, <1>4, <1>5

LEMMA FreshAlike ==
    ASSUME NEW op, NEW value, IsPush(op) => value \in Seq(Byte) \ {<<>>}, NEW first \in Int
    PROVE  /\ FreshOutputs(op, value, first) \in Stacks
           /\ \A other \in Int :
                 Alike(FreshOutputs(op, value, first), FreshOutputs(op, value, other))
<1>1. PICK n \in Nat : n = StackAdded(op)
  BY StackCounts
<1>2. \A j \in Int :
         /\ FreshOutputs(op, value, j) \in [1 .. n -> Valued]
         /\ \A i \in 1 .. n : View(FreshOutputs(op, value, j)[i])
                                = IF IsPush(op) THEN value ELSE Unvalued
  <2> TAKE j \in Int
  <2>1. FreshOutputs(op, value, j) = [i \in 1 .. n |-> IF IsPush(op) THEN Constant(j + i - 1, value)
                                                     ELSE Symbol(j + i - 1)]
    BY <1>1 DEF FreshOutputs
  <2>2. ASSUME NEW i \in Int, IsPush(op)
        PROVE  Constant(i, value) \in Valued /\ View(Constant(i, value)) = value
    BY <2>2 DEF Constant, Valued, View
  <2>3. ASSUME NEW i \in Int
        PROVE  Symbol(i) \in Valued /\ View(Symbol(i)) = Unvalued
    BY DEF Symbol, Valued, View
  <2>4. \A i \in 1 .. n : j + i - 1 \in Int
    OBVIOUS
  <2> QED
    BY <2>1, <2>2, <2>3, <2>4
<1>3. \A j \in Int : FreshOutputs(op, value, j) \in Stacks /\ Len(FreshOutputs(op, value, j)) = n
  BY <1>2, StackOf
<1> QED
  BY <1>2, <1>3 DEF Alike

LEMMA SimplifiedAlike ==
    ASSUME NEW op, NEW s \in Stacks, Len(s) = StackRemoved(op),
           NEW value, IsPush(op) => value \in Seq(Byte) \ {<<>>}, NEW first \in Int,
           Folds(op, s) => ~Traps(op, Values(s))
    PROVE  /\ Simplified(op, s, FreshOutputs(op, value, first)) \in Stacks
           /\ \A t \in Stacks, other \in Int : Alike(s, t) =>
                 Alike(Simplified(op, s, FreshOutputs(op, value, first)),
                       Simplified(op, t, FreshOutputs(op, value, other)))
<1> DEFINE Gives(x, i) == Simplified(op, x, FreshOutputs(op, value, i))
<1>1. \A t \in Stacks : Alike(s, t) => Len(t) = Len(s)
  BY DEF Alike
<1>2. CASE IsDup(op)
  <2>1. \A x, i : Gives(x, i) = DupOutputs(x)
    BY <1>2 DEF Simplified
  <2> QED
    BY <1>2, <2>1, DupAlike, ManipulatorsTake
<1>3. CASE IsSwap(op)
  <2>1. \A x, i : Gives(x, i) = SwapOutputs(x)
    BY <1>3, ManipulatorsTake DEF Simplified
  <2> QED
    BY <1>3, <2>1, SwapAlike, ManipulatorsTake
<1>4. CASE ~IsDup(op) /\ ~IsSwap(op) /\ Folds(op, s)
  <2>1. op \in HasLogic /\ IsArithmetic(op) /\ AllReadable(s)
    BY <1>4 DEF Folds
  <2>2. PICK v \in Seq(Byte) \ {<<>>} : v = Result(op, Values(s))
    BY <1>4, <2>1, ResultHasBytes
  <2>3. \A t \in Stacks : Alike(s, t) => Folds(op, t) /\ Values(t) = Values(s)
    BY <2>1, ReadAlike DEF Folds
  <2>4. \A x, i : Folds(op, x) /\ Values(x) = Values(s)
                    => Gives(x, i) = <<Constant(FreshOutputs(op, value, i)[1].idx, v)>>
    BY <1>4, <2>2 DEF Simplified
  <2>5. \A i \in Int : <<Constant(i, v)>> \in Stacks /\ Len(<<Constant(i, v)>>) = 1
                       /\ View(<<Constant(i, v)>>[1]) = v
    <3> TAKE i \in Int
    <3>1. Constant(i, v) \in Valued /\ View(Constant(i, v)) = v
      BY DEF Constant, Valued, View
    <3>2. PICK e \in Valued : e = Constant(i, v)
      BY <3>1
    <3> QED
      BY <3>1, <3>2 DEF Stacks
  <2>6. \A i \in Int : FreshOutputs(op, value, i)[1].idx \in Int
    <3> TAKE i \in Int
    <3>1. 1 \in 1 .. StackAdded(op)
      <4>1. op \in {1, 2, 3, 4, 5, 6, 16, 17, 20, 21, 22, 24, 25}
        BY <2>1 DEF HasLogic, OP_ADD, OP_MUL, OP_SUB, OP_DIV, OP_SDIV, OP_MOD, OP_LT, OP_GT,
           OP_EQ, OP_ISZERO, OP_AND, OP_XOR, OP_NOT
      <4>2. ~IsPush(op)
        BY <4>1 DEF IsPush, OP_PUSH1, OP_PUSH32
      <4>3. StackAdded(op) = 1
        BY <1>4, <4>1, <4>2, SMT DEF StackAdded
      <4> QED
        BY <4>3
    <3>2. FreshOutputs(op, value, i)[1] = Constant(i + 1 - 1, value)
             \/ FreshOutputs(op, value, i)[1] = Symbol(i + 1 - 1)
      BY <3>1 DEF FreshOutputs
    <3> QED
      BY <3>2 DEF Constant, Symbol
  <2> HIDE DEF Gives
  <2>7. Gives(s, first) \in Stacks
    BY <1>4, <2>4, <2>5, <2>6
  <2>8. ASSUME NEW t \in Stacks, NEW other \in Int, Alike(s, t) PROVE Alike(Gives(s, first), Gives(t, other))
    <3>1. PICK i \in Int, j \in Int : Gives(s, first) = <<Constant(i, v)>> /\ Gives(t, other) = <<Constant(j, v)>>
      BY <1>4, <2>3, <2>4, <2>6, <2>8
    <3> QED
      BY <2>5, <3>1 DEF Alike
  <2> QED
    BY <2>7, <2>8 DEF Gives
<1>5. CASE ~IsDup(op) /\ ~IsSwap(op) /\ ~Folds(op, s)
  <2>1. \A t \in Stacks : Alike(s, t) => ~Folds(op, t)
    BY <1>5, ReadAlike DEF Folds
  <2>2. \A x, i : ~Folds(op, x) => Gives(x, i) = FreshOutputs(op, value, i)
    BY <1>5 DEF Simplified
  <2> QED
    BY <1>5, <2>1, <2>2, FreshAlike
<1> QED
  BY <1>2, <1>3, <1>4, <1>5

-----------------------------------------------------------------------------
(***************************************************************************)
(* Solve and the EVM, on words below half of the modulus                   *)
(***************************************************************************)

\* Which arm of EVMResult an opcode takes.
LEMMA EVMArms ==
    ASSUME NEW op, NEW in
    PROVE  /\ op = OP_ADD => EVMResult(op, in) = in[1] + in[2]
           /\ op = OP_MUL => EVMResult(op, in) = in[1] * in[2]
           /\ op = OP_SUB => EVMResult(op, in) = (in[1] - in[2]) % EvmModulus
           /\ op \in {OP_DIV, OP_SDIV} => EVMResult(op, in) =
                 IF in[2] = 0 THEN 0
                 ELSE CHOOSE q \in 0 .. in[1] : q * in[2] <= in[1] /\ in[1] - q * in[2] < in[2]
           /\ op = OP_MOD => EVMResult(op, in) =
                 IF in[2] = 0 THEN 0
                 ELSE CHOOSE r \in 0 .. (in[2] - 1) : \E q \in 0 .. in[1] : q * in[2] + r = in[1]
           /\ op = OP_GT => EVMResult(op, in) = Truth(in[2] < in[1])
           /\ op = OP_EQ => EVMResult(op, in) = Truth(~(in[1] < in[2] \/ in[2] < in[1]))
           /\ op = OP_ISZERO => EVMResult(op, in) = Truth(in[1] = 0)
           /\ op = OP_AND => EVMResult(op, in) = WithBits(BitsOf(in[1]) \cap BitsOf(in[2]))
           /\ op = OP_XOR => EVMResult(op, in) =
                 WithBits((BitsOf(in[1]) \cup BitsOf(in[2])) \ (BitsOf(in[1]) \cap BitsOf(in[2])))
           /\ op = OP_NOT => EVMResult(op, in) = EvmModulus - 1 - in[1]
<1> DEFINE add == in[1] + in[2]
           mul == in[1] * in[2]
           sub == (in[1] - in[2]) % EvmModulus
           div == IF in[2] = 0 THEN 0
                  ELSE CHOOSE q \in 0 .. in[1] : q * in[2] <= in[1] /\ in[1] - q * in[2] < in[2]
           mod == IF in[2] = 0 THEN 0
                  ELSE CHOOSE r \in 0 .. (in[2] - 1) : \E q \in 0 .. in[1] : q * in[2] + r = in[1]
           lt  == Truth(in[1] < in[2])
           gt  == Truth(in[2] < in[1])
           eq  == Truth(~(in[1] < in[2] \/ in[2] < in[1]))
           zero == Truth(in[1] = 0)
           and == WithBits(BitsOf(in[1]) \cap BitsOf(in[2]))
           xor == WithBits((BitsOf(in[1]) \cup BitsOf(in[2])) \ (BitsOf(in[1]) \cap BitsOf(in[2])))
           not == EvmModulus - 1 - in[1]
<1>1. EVMResult(op, in) = CASE op = OP_ADD                -> add
                            [] op = OP_MUL                -> mul
                            [] op = OP_SUB                -> sub
                            [] op \in {OP_DIV, OP_SDIV}   -> div
                            [] op = OP_MOD                -> mod
                            [] op = OP_LT                 -> lt
                            [] op = OP_GT                 -> gt
                            [] op = OP_EQ                 -> eq
                            [] op = OP_ISZERO             -> zero
                            [] op = OP_AND                -> and
                            [] op = OP_XOR                -> xor
                            [] op = OP_NOT                -> not
  BY Zenon DEF EVMResult
<1> HIDE DEF add, mul, sub, div, mod, lt, gt, eq, zero, and, xor, not
<1>2. /\ op = OP_ADD => EVMResult(op, in) = add
      /\ op = OP_MUL => EVMResult(op, in) = mul
      /\ op = OP_SUB => EVMResult(op, in) = sub
      /\ op \in {OP_DIV, OP_SDIV} => EVMResult(op, in) = div
      /\ op = OP_MOD => EVMResult(op, in) = mod
      /\ op = OP_GT => EVMResult(op, in) = gt
      /\ op = OP_EQ => EVMResult(op, in) = eq
      /\ op = OP_ISZERO => EVMResult(op, in) = zero
      /\ op = OP_AND => EVMResult(op, in) = and
      /\ op = OP_XOR => EVMResult(op, in) = xor
      /\ op = OP_NOT => EVMResult(op, in) = not
  BY <1>1, SMT DEF OP_ADD, OP_MUL, OP_SUB, OP_DIV, OP_SDIV, OP_MOD, OP_LT, OP_GT, OP_EQ,
              OP_ISZERO, OP_AND, OP_XOR, OP_NOT
<1> QED
  BY <1>2, Zenon DEF add, mul, sub, div, mod, gt, eq, zero, and, xor, not

Weights(bits) == [i \in 0 .. (8 * WordBytes - 1) |-> IF i \in bits THEN PowerOf2[i] ELSE 0]

\* WithBits adds up the weights of the bits of a set.
LEMMA WithBitsIs ==
    ASSUME NEW bits, NEW g, IsSum(g, 8 * WordBytes, Weights(bits))
    PROVE  WithBits(bits) = g[8 * WordBytes]
<1> DEFINE n == 8 * WordBytes
           weights == Weights(bits)
           sum[i \in 0 .. n] ==
               IF i = 0 THEN 0
               ELSE sum[i - 1] + (IF i - 1 \in bits THEN PowerOf2[i - 1] ELSE 0)
           IsThis(h) ==
               h = [i \in 0 .. n |->
                       IF i = 0 THEN 0
                       ELSE h[i - 1] + (IF i - 1 \in bits THEN PowerOf2[i - 1] ELSE 0)]
<1>1. n \in Nat
  BY WidthAssumption
<1>2. weights \in [0 .. (n - 1) -> Nat]
  <2>1. \A i \in 0 .. (n - 1) : PowerOf2[i] \in Nat
    BY PowersOf2
  <2> QED
    BY <2>1 DEF Weights
<1>3. WithBits(bits) = sum[n]
  BY DEF WithBits
<1>4. sum = CHOOSE h : IsThis(h)
  OBVIOUS
<1>5. ASSUME NEW h PROVE IsThis(h) <=> IsSum(h, n, weights)
  <2>1. \A i \in 0 .. n : i # 0 =>
            weights[i - 1] = IF i - 1 \in bits THEN PowerOf2[i - 1] ELSE 0
    <3>1. \A i \in 0 .. n : i # 0 => i - 1 \in 0 .. (n - 1)
      BY <1>1
    <3> QED
      BY <3>1 DEF Weights
  <2> DEFINE one == [i \in 0 .. n |->
                       IF i = 0 THEN 0
                       ELSE h[i - 1] + (IF i - 1 \in bits THEN PowerOf2[i - 1] ELSE 0)]
             two == [i \in 0 .. n |-> IF i = 0 THEN 0 ELSE h[i - 1] + weights[i - 1]]
  <2>2. one = two
    <3> HIDE DEF weights, n
    <3> QED
      BY <2>1
  <2>3. IsThis(h) <=> h = one
    OBVIOUS
  <2>4. IsSum(h, n, weights) <=> h = two
    BY DEF IsSum
  <2> HIDE DEF one, two, IsThis, weights, n
  <2> QED
    BY <2>2, <2>3, <2>4
<1> HIDE DEF sum, IsThis
<1>6. IsSum(sum, n, weights)
  <2>1. IsThis(g)
    BY <1>5
  <2>2. IsThis(sum)
    BY <1>4, <2>1
  <2> QED
    BY <1>5, <2>2
<1>7. sum[n] = g[n]
  <2> HIDE DEF n, weights
  <2>1. IsSum(g, n, weights)
    BY DEF n, weights
  <2> QED
    BY <1>1, <1>2, <1>6, <2>1, SumsAgree
<1> QED
  BY <1>3, <1>7

\* AND and XOR keep the bits the EVM keeps.
LEMMA BitwiseAsEVM ==
    ASSUME NEW a \in Nat, NEW b \in Nat
    PROVE  /\ Bits!BitwiseSum(a, b, Bits!AndBits) = WithBits(BitsOf(a) \cap BitsOf(b))
           /\ Bits!BitwiseSum(a, b, Bits!XorBits) =
                 WithBits((BitsOf(a) \cup BitsOf(b)) \ (BitsOf(a) \cap BitsOf(b)))
<1> DEFINE n == 8 * WordBytes
           both == BitsOf(a) \cap BitsOf(b)
           one == (BitsOf(a) \cup BitsOf(b)) \ both
<1>1. n \in Nat
  BY WidthAssumption
<1>2. ASSUME NEW i \in 0 .. (n - 1)
      PROVE  /\ PowerOf2[i] * Bits!AndBits[<<(a \div PowerOf2[i]) % 2, (b \div PowerOf2[i]) % 2>>]
                   = IF i \in both THEN PowerOf2[i] ELSE 0
             /\ PowerOf2[i] * Bits!XorBits[<<(a \div PowerOf2[i]) % 2, (b \div PowerOf2[i]) % 2>>]
                   = IF i \in one THEN PowerOf2[i] ELSE 0
  <2>1. i \in Nat
    BY <1>1
  <2>2. PICK x \in 0 .. 1, y \in 0 .. 1 :
            x = (a \div PowerOf2[i]) % 2 /\ y = (b \div PowerOf2[i]) % 2
    BY <2>1, BitOf
  <2>3. (i \in BitsOf(a) <=> x = 1) /\ (i \in BitsOf(b) <=> y = 1)
    BY <2>2 DEF BitsOf
  <2>4. PICK p \in Nat : p = PowerOf2[i]
    BY <2>1, PowersOf2
  <2>5. Bits!AndBits[<<x, y>>] = x * y /\ Bits!XorBits[<<x, y>>] = (x + y) % 2
    BY BitOperators
  <2>6. p * (x * y) = IF x = 1 /\ y = 1 THEN p ELSE 0
    <3>1. x = 0 \/ x = 1
      OBVIOUS
    <3>2. y = 0 \/ y = 1
      OBVIOUS
    <3> QED
      BY <3>1, <3>2
  <2>7. p * ((x + y) % 2) = IF (x = 1 \/ y = 1) /\ ~(x = 1 /\ y = 1) THEN p ELSE 0
    <3>1. x = 0 \/ x = 1
      OBVIOUS
    <3>2. y = 0 \/ y = 1
      OBVIOUS
    <3> QED
      BY <3>1, <3>2
  <2> HIDE DEF n
  <2> QED
    BY <2>2, <2>3, <2>4, <2>5, <2>6, <2>7
<1>3. Keeps(a, b, Bits!AndBits) = Weights(both) /\ Keeps(a, b, Bits!XorBits) = Weights(one)
  <2> HIDE DEF both, one
  <2> QED
    BY <1>2 DEF Keeps, Weights
<1> HIDE DEF both, one, n
<1>4. Bits!BitwiseSum(a, b, Bits!AndBits) = WithBits(both)
  <2>1. PICK g : IsSum(g, n, Keeps(a, b, Bits!AndBits))
    BY <1>1, KeepsType, BitOperators, SumExists DEF n
  <2>2. IsSum(g, n, Weights(both))
    BY <1>3, <2>1
  <2> QED
    BY <2>1, <2>2, BitwiseSumIs, WithBitsIs, BitOperators DEF n
<1>5. Bits!BitwiseSum(a, b, Bits!XorBits) = WithBits(one)
  <2>1. PICK g : IsSum(g, n, Keeps(a, b, Bits!XorBits))
    BY <1>1, KeepsType, BitOperators, SumExists DEF n
  <2>2. IsSum(g, n, Weights(one))
    BY <1>3, <2>1
  <2> QED
    BY <2>1, <2>2, BitwiseSumIs, WithBitsIs, BitOperators DEF n
<1> QED
  BY <1>4, <1>5 DEF both, one

\* A word of the EVM has room for at least a byte more than an int64_t.
LEMMA EvmModulusFacts == EvmModulus \in Nat /\ EvmModulus >= 256 * Modulus
<1>1. /\ WordBytes \in Nat /\ WordBytes + 1 \in Nat /\ EvmBytes \in Nat
      /\ WordBytes + 1 \in 0 .. EvmBytes
  BY WidthAssumption
<1>2. PowerOf256[WordBytes + 1] = 256 * Modulus /\ Modulus \in Nat
  BY <1>1, PowersOf256 DEF Modulus
<1>3. PowerOf256[WordBytes + 1] <= PowerOf256[EvmBytes] /\ PowerOf256[EvmBytes] \in Nat
  BY <1>1, PowersGrow, PowersOf256
<1> QED
  BY <1>2, <1>3 DEF EvmModulus

\* A quotient and a remainder, as the EVM defines them.
LEMMA DivisionAsEVM ==
    ASSUME NEW a \in Nat, NEW b \in Nat \ {0}
    PROVE  /\ Quotient(a, b) \in Nat
           /\ (CHOOSE q \in 0 .. a : q * b <= a /\ a - q * b < b) = Quotient(a, b)
           /\ a - b * Quotient(a, b) \in Nat
           /\ (CHOOSE r \in 0 .. (b - 1) : \E q \in 0 .. a : q * b + r = a)
                 = a - b * Quotient(a, b)
<1>1. PICK d \in Int, m \in 0 .. (b - 1) : d = a \div b /\ m = a % b
  <2>1. a \div b \in Int /\ a % b \in 0 .. (b - 1)
    OBVIOUS
  <2> QED
    BY <2>1
<1>2. a = b * d + m
  BY <1>1, Division
<1>3. Quotient(a, b) = d
  BY <1>1 DEF Quotient
<1>4. d \in 0 .. a
  <2>1. d >= 0
    <3>1. ASSUME d <= -1 PROVE FALSE
      <4>1. b * d <= -b
        BY <3>1
      <4>2. b * d \in Int
        OBVIOUS
      <4> QED
        BY <1>2, <4>1, <4>2
    <3> QED
      BY <3>1
  <2>2. d <= b * d
    BY <2>1
  <2>3. b * d <= a
    BY <1>2
  <2> QED
    BY <2>1, <2>2, <2>3
<1>5. ASSUME NEW q \in 0 .. a, q * b <= a, a - q * b < b PROVE q = d
  <2>1. PICK r \in 0 .. (b - 1) : r = a - q * b
    BY <1>5
  <2>2. a = b * q + r
    BY <2>1
  <2> QED
    BY <1>2, <2>2, DivisionUnique
<1>6. d * b <= a /\ a - d * b < b
  BY <1>2
<1>7. (CHOOSE q \in 0 .. a : q * b <= a /\ a - q * b < b) = d
  BY <1>4, <1>5, <1>6
<1>8. ASSUME NEW r \in 0 .. (b - 1), NEW q \in 0 .. a, q * b + r = a PROVE r = m
  <2>1. b * d + m = b * q + r
    BY <1>2, <1>8
  <2>2. q \in Int
    OBVIOUS
  <2> QED
    BY <2>1, <2>2, DivisionUnique
<1>9. \E q \in 0 .. a : q * b + m = a
  BY <1>2, <1>4
<1>10. (CHOOSE r \in 0 .. (b - 1) : \E q \in 0 .. a : q * b + r = a) = m
  <2> DEFINE Is(r) == \E q \in 0 .. a : q * b + r = a
  <2>1. Is(m) /\ \A r \in 0 .. (b - 1) : Is(r) => r = m
    BY <1>8, <1>9
  <2> HIDE DEF Is
  <2>2. (CHOOSE r \in 0 .. (b - 1) : Is(r)) = m
    BY <2>1
  <2> QED
    BY <2>2 DEF Is
<1>11. m = a - b * d
  BY <1>2
<1> QED
  BY <1>3, <1>4, <1>7, <1>10, <1>11

\* Solve computes what the EVM computes, as long as the operands and the result are below
\* half of the modulus.
LEMMA SolveIsEVM ==
    ASSUME NEW op \in HasLogic \ {OP_LT}, NEW in, ~Traps(op, in),
           in[1] \in Nat, 2 * in[1] < Modulus,
           op \notin {OP_ISZERO, OP_NOT} => in[2] \in Nat /\ 2 * in[2] < Modulus,
           2 * EVMResult(op, in) < Modulus
    PROVE  EVMResult(op, in) \in Nat /\ Solve(op, in) = EVMResult(op, in)
<1> DEFINE a == in[1]
           b == in[2]
<1>1. PICK m \in Nat \ {0} : m = Modulus
  BY ModulusFacts
<1>2. PICK large \in Nat : large = EvmModulus /\ large >= 256 * m
  BY <1>1, EvmModulusFacts
<1>3. a \in Nat /\ 2 * a < m
  BY <1>1
<1>4. op \notin {OP_ISZERO, OP_NOT} => b \in Nat /\ 2 * b < m
  BY <1>1
<1>5. 2 * EVMResult(op, in) < m
  BY <1>1
<1>6. CASE op = OP_ISZERO
  <2>1. Solve(op, in) = Truth(a = 0) /\ EVMResult(op, in) = Truth(a = 0)
    <3>1. Solve(op, in) = Truth(a = 0)
      BY <1>6, SolveArms, Zenon
    <3>2. EVMResult(op, in) = Truth(a = 0)
      BY <1>6, EVMArms, Zenon
    <3> QED
      BY <3>1, <3>2, Zenon
  <2>2. Truth(a = 0) \in Nat
    BY DEF Truth
  <2> QED
    BY <2>1, <2>2
<1>7. CASE op = OP_NOT
  <2>1. EVMResult(op, in) = EvmModulus - 1 - a
    BY <1>7, EVMArms, Zenon
  <2> HIDE DEF a
  <2> QED
    BY <1>1, <1>2, <1>3, <1>5, <2>1
<1>8. CASE op = OP_ADD
  <2>1. Solve(op, in) = a + b /\ EVMResult(op, in) = a + b
    <3>1. Solve(op, in) = a + b
      BY <1>8, SolveArms, Zenon
    <3>2. EVMResult(op, in) = a + b
      BY <1>8, EVMArms, Zenon
    <3> QED
      BY <3>1, <3>2, Zenon
  <2>2. b \in Nat
    BY <1>4, <1>8 DEF OP_ADD, OP_ISZERO, OP_NOT
  <2> HIDE DEF a, b
  <2> QED
    BY <1>3, <2>1, <2>2
<1>9. CASE op = OP_MUL
  <2>1. Solve(op, in) = a * b /\ EVMResult(op, in) = a * b
    <3>1. Solve(op, in) = a * b
      BY <1>9, SolveArms, Zenon
    <3>2. EVMResult(op, in) = a * b
      BY <1>9, EVMArms, Zenon
    <3> QED
      BY <3>1, <3>2, Zenon
  <2>2. b \in Nat
    BY <1>4, <1>9 DEF OP_MUL, OP_ISZERO, OP_NOT
  <2> HIDE DEF a, b
  <2>3. a * b \in Nat
    BY <1>3, <2>2
  <2> QED
    BY <2>1, <2>3
<1>10. CASE op = OP_SUB
  <2>1. Solve(op, in) = a - b /\ EVMResult(op, in) = (a - b) % EvmModulus
    <3>1. Solve(op, in) = a - b
      BY <1>10, SolveArms, Zenon
    <3>2. EVMResult(op, in) = (a - b) % EvmModulus
      BY <1>10, EVMArms, Zenon
    <3> QED
      BY <3>1, <3>2, Zenon
  <2>2. b \in Nat /\ 2 * b < m
    BY <1>4, <1>10 DEF OP_SUB, OP_ISZERO, OP_NOT
  <2> HIDE DEF a, b
  <2>3. PICK c \in Int : c = a - b
    BY <1>3, <2>2
  <2>4. large \in Nat \ {0}
    BY <1>2
  <2>5. CASE c >= 0
    <3>1. c = large * 0 + c /\ c \in 0 .. (large - 1) /\ 0 \in Int
      BY <1>2, <1>3, <2>2, <2>3, <2>5
    <3>2. c % large = c
      BY <2>4, <3>1, DivisionIs
    <3> QED
      BY <1>2, <2>1, <2>3, <2>5, <3>2
  <2>6. CASE c < 0
    <3>1. PICK d \in 0 .. (large - 1) : d = c + large
      BY <1>2, <1>3, <2>2, <2>3, <2>6
    <3>2. c = large * (-1) + d /\ -1 \in Int
      BY <3>1
    <3>3. c % large = d
      BY <2>4, <3>1, <3>2, DivisionIs
    <3>4. 2 * d < m
      BY <1>2, <1>5, <2>1, <2>3, <3>3
    <3> QED
      BY <1>2, <1>3, <2>2, <2>3, <3>1, <3>4
  <2> QED
    BY <2>5, <2>6
<1>11. CASE op \in {OP_DIV, OP_SDIV}
  <2>1. /\ Solve(op, in) = IF b = 0 THEN 0 ELSE Quotient(a, b)
        /\ EVMResult(op, in) = IF b = 0 THEN 0 ELSE CHOOSE q \in 0 .. a : q * b <= a /\ a - q * b < b
    <3>1. Solve(op, in) = IF b = 0 THEN 0 ELSE Quotient(a, b)
      BY <1>11, SolveArms, Zenon
    <3>2. EVMResult(op, in) = IF b = 0 THEN 0 ELSE CHOOSE q \in 0 .. a : q * b <= a /\ a - q * b < b
      BY <1>11, EVMArms, Zenon
    <3> QED
      BY <3>1, <3>2, Zenon
  <2>2. b \in Nat
    BY <1>4, <1>11 DEF OP_DIV, OP_SDIV, OP_ISZERO, OP_NOT
  <2>3. CASE b = 0
    BY <2>1, <2>3
  <2>4. CASE b # 0
    <3>1. /\ Quotient(a, b) \in Nat
          /\ (CHOOSE q \in 0 .. a : q * b <= a /\ a - q * b < b) = Quotient(a, b)
      <4> HIDE DEF a, b
      <4> QED
        BY <1>3, <2>2, <2>4, DivisionAsEVM
    <3>2. Solve(op, in) = Quotient(a, b) /\ EVMResult(op, in) = Quotient(a, b)
      BY <2>1, <2>4, <3>1, Zenon
    <3> QED
      BY <3>1, <3>2
  <2> QED
    BY <2>3, <2>4
<1>12. CASE op = OP_MOD
  <2>1. b # 0
    BY <1>12 DEF Traps
  <2>2. /\ Solve(op, in) = a - b * Quotient(a, b)
        /\ EVMResult(op, in) = IF b = 0 THEN 0 ELSE CHOOSE r \in 0 .. (b - 1) : \E q \in 0 .. a : q * b + r = a
    <3>1. Solve(op, in) = a - b * Quotient(a, b)
      BY <1>12, SolveArms, Zenon
    <3>2. EVMResult(op, in) = IF b = 0 THEN 0 ELSE CHOOSE r \in 0 .. (b - 1) : \E q \in 0 .. a : q * b + r = a
      BY <1>12, EVMArms, Zenon
    <3> QED
      BY <3>1, <3>2, Zenon
  <2>3. b \in Nat
    BY <1>4, <1>12 DEF OP_MOD, OP_ISZERO, OP_NOT
  <2>4. /\ a - b * Quotient(a, b) \in Nat
        /\ (CHOOSE r \in 0 .. (b - 1) : \E q \in 0 .. a : q * b + r = a) = a - b * Quotient(a, b)
    <3> HIDE DEF a, b
    <3> QED
      BY <1>3, <2>1, <2>3, DivisionAsEVM
  <2>5. Solve(op, in) \in Nat
    BY <2>2, <2>4, Zenon
  <2>6. EVMResult(op, in) = Solve(op, in)
    BY <2>1, <2>2, <2>4, Zenon
  <2> QED
    BY <2>5, <2>6
<1>13. CASE op = OP_GT
  <2>1. Solve(op, in) = Truth(a > b) /\ EVMResult(op, in) = Truth(b < a)
    <3>1. Solve(op, in) = Truth(a > b)
      BY <1>13, SolveArms, Zenon
    <3>2. EVMResult(op, in) = Truth(b < a)
      BY <1>13, EVMArms, Zenon
    <3> QED
      BY <3>1, <3>2, Zenon
  <2>2. b \in Nat
    BY <1>4, <1>13 DEF OP_GT, OP_ISZERO, OP_NOT
  <2> HIDE DEF a, b
  <2> QED
    BY <1>3, <2>1, <2>2 DEF Truth
<1>14. CASE op = OP_EQ
  <2>1. Solve(op, in) = Truth(a = b) /\ EVMResult(op, in) = Truth(~(a < b \/ b < a))
    <3>1. Solve(op, in) = Truth(a = b)
      BY <1>14, SolveArms, Zenon
    <3>2. EVMResult(op, in) = Truth(~(a < b \/ b < a))
      BY <1>14, EVMArms, Zenon
    <3> QED
      BY <3>1, <3>2, Zenon
  <2>2. b \in Nat
    BY <1>4, <1>14 DEF OP_EQ, OP_ISZERO, OP_NOT
  <2> HIDE DEF a, b
  <2> QED
    BY <1>3, <2>1, <2>2 DEF Truth
<1>15. CASE op \in {OP_AND, OP_XOR}
  <2>1. b \in Nat /\ 2 * b < m
    BY <1>4, <1>15 DEF OP_AND, OP_XOR, OP_ISZERO, OP_NOT
  <2>2. a % Modulus = a /\ b % Modulus = b
    <3> HIDE DEF a, b
    <3>1. a = m * 0 + a /\ a \in 0 .. (m - 1) /\ b = m * 0 + b /\ b \in 0 .. (m - 1)
      BY <1>3, <2>1
    <3>2. a \in Int /\ b \in Int /\ 0 \in Int
      BY <1>3, <2>1
    <3>3. a % m = a
      BY <3>1, <3>2, DivisionIs
    <3>4. b % m = b
      BY <3>1, <3>2, DivisionIs
    <3> QED
      BY <1>1, <3>3, <3>4
  <2>3. /\ Bits!BitwiseSum(a, b, Bits!AndBits) \in Nat
        /\ Bits!BitwiseSum(a, b, Bits!XorBits) \in Nat
    BY <1>3, <2>1, BitOperators, BitwiseSumType
  <2>4. CASE op = OP_AND
    <3>1. Solve(op, in) = Bits!BitwiseSum(a % Modulus, b % Modulus, Bits!AndBits)
      BY <2>4, SolveArms, Zenon
    <3>2. EVMResult(op, in) = WithBits(BitsOf(a) \cap BitsOf(b))
      BY <2>4, EVMArms, Zenon
    <3> HIDE DEF a, b
    <3>3. Bits!BitwiseSum(a, b, Bits!AndBits) = EVMResult(op, in)
      BY <1>3, <2>1, <3>2, BitwiseAsEVM, Zenon
    <3>4. Solve(op, in) = Bits!BitwiseSum(a, b, Bits!AndBits)
      BY <2>2, <3>1, Zenon
    <3> QED
      BY <2>3, <3>3, <3>4, Zenon
  <2>5. CASE op = OP_XOR
    <3>1. Solve(op, in) = Bits!BitwiseSum(a % Modulus, b % Modulus, Bits!XorBits)
      BY <2>5, SolveArms, Zenon
    <3>2. EVMResult(op, in) =
              WithBits((BitsOf(a) \cup BitsOf(b)) \ (BitsOf(a) \cap BitsOf(b)))
      BY <2>5, EVMArms, Zenon
    <3> HIDE DEF a, b
    <3>3. Bits!BitwiseSum(a, b, Bits!XorBits) = EVMResult(op, in)
      BY <1>3, <2>1, <3>2, BitwiseAsEVM, Zenon
    <3>4. Solve(op, in) = Bits!BitwiseSum(a, b, Bits!XorBits)
      BY <2>2, <3>1, Zenon
    <3> QED
      BY <2>3, <3>3, <3>4, Zenon
  <2> QED
    BY <1>15, <2>4, <2>5
<1> HIDE DEF a, b
<1> QED
  BY <1>6, <1>7, <1>8, <1>9, <1>10, <1>11, <1>12, <1>13, <1>14, <1>15 DEF HasLogic

-----------------------------------------------------------------------------
(***************************************************************************)
(* What the symbolic stack tells of that of the EVM.                       *)
(***************************************************************************)

\* A word the code tells is a constant that is read as this word.
IsTold(e, w) ==
    /\ e.kind = "constant"
    /\ IsReadable(e.value)
    /\ WordOf(e.value) = w
    /\ w \in Nat /\ 2 * w < Modulus

Tells(words, s) ==
    /\ words \in Seq(Int)
    /\ s \in Stacks
    /\ Len(words) = Len(s)
    /\ \A i \in 1 .. Len(s) : words[i] # AnyWord => IsTold(s[i], words[i])

\* outs, the first on top, lie on d values.
LiesOn(d, outs, k, after) == \A i \in 1 .. k : after[d + i] = outs[k - i + 1]

ToldOn(d, outs, k, behind) ==
    \A i \in 1 .. k : behind[d + i] # AnyWord => IsTold(outs[k - i + 1], behind[d + i])

\* The elements of the stack behind an instruction that finds what it takes.
LEMMA PushedIs ==
    ASSUME NEW op, NEW s \in Stacks, NEW outs \in Stacks,
           NEW d \in Nat, Len(s) = d + StackRemoved(op), NEW k \in Nat, Len(outs) = k
    PROVE  /\ Pushed(Rest(op, s), outs) \in Stacks /\ Len(Pushed(Rest(op, s), outs)) = d + k
           /\ \A i \in 1 .. d : Pushed(Rest(op, s), outs)[i] = s[i]
           /\ LiesOn(d, outs, k, Pushed(Rest(op, s), outs))
<1> DEFINE top == [i \in 1 .. k |-> outs[k - i + 1]]
           rest == SubSeq(s, 1, d)
<1>1. \A i \in 1 .. k : outs[k - i + 1] \in Valued
  BY StackFacts
<1>2. top \in Stacks /\ Len(top) = k
  <2>1. top \in [1 .. k -> Valued]
    BY <1>1
  <2> HIDE DEF top
  <2> QED
    BY <2>1, StackOf
<1>3. rest \in Stacks /\ Len(rest) = d /\ \A i \in 1 .. d : rest[i] = s[i]
  <2>1. s \in Seq(Valued) /\ Len(s) \in Nat /\ d <= Len(s)
    BY StackFacts, StackCounts DEF Stacks
  <2> QED
    BY <2>1 DEF Stacks
<1>4. Pushed(Rest(op, s), outs) = rest \o top
  <2>1. Len(s) - StackRemoved(op) = d
    BY StackCounts
  <2> QED
    BY <2>1 DEF Pushed, Rest
<1>5. \A i \in 1 .. k : top[i] = outs[k - i + 1]
  OBVIOUS
<1> HIDE DEF top, rest
<1>6. /\ rest \o top \in Stacks /\ Len(rest \o top) = d + k
      /\ \A i \in 1 .. d + k : (rest \o top)[i] = IF i <= d THEN rest[i] ELSE top[i - d]
  BY <1>2, <1>3, ConcatProperties DEF Stacks
<1>7. ASSUME NEW i \in 1 .. k PROVE (rest \o top)[d + i] = outs[k - i + 1]
  <2>1. d + i \in 1 .. d + k /\ ~(d + i <= d) /\ d + i - d = i
    OBVIOUS
  <2> QED
    BY <1>5, <1>6, <2>1
<1>8. \A i \in 1 .. d : (rest \o top)[i] = s[i]
  <2> TAKE i \in 1 .. d
  <2>1. i \in 1 .. d + k /\ i <= d
    OBVIOUS
  <2> QED
    BY <1>3, <1>6, <2>1
<1> QED
  BY <1>4, <1>6, <1>7, <1>8, Zenon DEF LiesOn

\* The operands of such an instruction, the top of the stack first.
LEMMA OperandsAre ==
    ASSUME NEW op, NEW s \in Stacks, StackRemoved(op) <= Len(s), NEW args
    PROVE  LET operands == Operands(op, s, args)
           IN  /\ operands \in Stacks /\ Len(operands) = StackRemoved(op)
               /\ \A i \in 1 .. StackRemoved(op) : operands[i] = s[Len(s) - i + 1]
<1>1. PICK n \in Nat, m \in Nat : n = StackRemoved(op) /\ m = Len(s) /\ n <= m
  BY StackFacts, StackCounts
<1>2. \A i \in 1 .. n : s[m - i + 1] \in Valued
  BY <1>1, StackFacts
<1>3. Operands(op, s, args) = [i \in 1 .. n |-> s[m - i + 1]]
  BY <1>1 DEF Operands
<1>4. Operands(op, s, args) \in [1 .. n -> Valued]
  BY <1>2, <1>3
<1>5. Operands(op, s, args) \in Stacks /\ Len(Operands(op, s, args)) = n
  BY <1>4, StackOf
<1> QED
  BY <1>1, <1>3, <1>5

\* Operands that are told are those of the EVM.
LEMMA OperandsTold ==
    ASSUME NEW op, NEW words, NEW s, Tells(words, s), StackRemoved(op) <= Len(words), NEW args
    PROVE  \A i \in 1 .. StackRemoved(op) :
              /\ FromTop(words, i) \in Int
              /\ FromTop(words, i) # AnyWord => IsTold(Operands(op, s, args)[i], FromTop(words, i))
<1>1. PICK n \in Nat, m \in Nat : n = StackRemoved(op) /\ m = Len(s) /\ m = Len(words) /\ n <= m
  BY StackFacts, StackCounts DEF Tells
<1>2. s \in Stacks /\ words \in Seq(Int)
  BY DEF Tells
<1>3. \A i \in 1 .. n : Operands(op, s, args)[i] = s[m - i + 1]
  <2>1. StackRemoved(op) <= Len(s)
    BY <1>1
  <2>2. \A i \in 1 .. StackRemoved(op) : Operands(op, s, args)[i] = s[Len(s) - i + 1]
    BY <1>2, <2>1, OperandsAre
  <2> QED
    BY <1>1, <2>2
<1> SUFFICES ASSUME NEW i \in 1 .. n
             PROVE  /\ FromTop(words, i) \in Int
                    /\ FromTop(words, i) # AnyWord =>
                          IsTold(Operands(op, s, args)[i], FromTop(words, i))
  BY <1>1
<1>4. PICK j \in 1 .. m : j = m - i + 1
  <2>1. i \in Nat /\ 1 <= i /\ i <= n /\ n <= m
    BY <1>1
  <2>2. m - i + 1 \in 1 .. m
    BY <2>1
  <2> QED
    BY <2>2
<1>5. FromTop(words, i) = words[j] /\ words[j] \in Int
  BY <1>1, <1>2, <1>4 DEF FromTop
<1>6. words[j] # AnyWord => IsTold(s[j], words[j])
  BY <1>1 DEF Tells
<1> QED
  BY <1>1, <1>3, <1>4, <1>5, <1>6

\* A value that is told is what the code reads of it.
LEMMA ToldIsRead ==
    ASSUME NEW e \in Valued, NEW w, IsTold(e, w)
    PROVE  GetInt64FromVec(e.value) = w
<1>1. e.value \in Seq(Byte) /\ WordOf(e.value) = w /\ w \in Nat /\ 2 * w < Modulus
  BY DEF IsTold, Valued
<1>2. w < Modulus
  BY <1>1, ModulusFacts
<1>3. Signed(w) = w
  BY <1>1, <1>2, SignedFacts
<1> QED
  BY <1>1, <1>3 DEF GetInt64FromVec

\* The same from the bottom up: below the operands there are d values.
LEMMA OperandsToldUpwards ==
    ASSUME NEW op, NEW words, NEW s, Tells(words, s), NEW args,
           NEW n \in Nat, StackRemoved(op) = n, NEW d \in Nat, Len(words) = d + n
    PROVE  /\ Operands(op, s, args) \in Stacks /\ Len(Operands(op, s, args)) = n
           /\ \A i \in 1 .. n :
                 /\ words[d + i] \in Int
                 /\ FromTop(words, n - i + 1) = words[d + i]
                 /\ words[d + i] # AnyWord =>
                       IsTold(Operands(op, s, args)[n - i + 1], words[d + i])
<1>1. s \in Stacks /\ Len(words) = Len(s) /\ StackRemoved(op) <= Len(words)
  BY DEF Tells
<1>2. Operands(op, s, args) \in Stacks /\ Len(Operands(op, s, args)) = n
  BY <1>1, OperandsAre
<1>3. ASSUME NEW i \in 1 .. n
      PROVE  /\ words[d + i] \in Int
             /\ FromTop(words, n - i + 1) = words[d + i]
             /\ words[d + i] # AnyWord =>
                   IsTold(Operands(op, s, args)[n - i + 1], words[d + i])
  <2>1. PICK j \in 1 .. n : j = n - i + 1
    OBVIOUS
  <2>2. d + n - j + 1 = d + i
    <3>1. \A a, b, x \in Int : a + b - (b - x + 1) + 1 = a + x
      OBVIOUS
    <3> QED
      BY <2>1, <3>1
  <2>3. FromTop(words, j) = words[d + i]
    BY <2>2 DEF FromTop
  <2>4. /\ FromTop(words, j) \in Int
        /\ FromTop(words, j) # AnyWord => IsTold(Operands(op, s, args)[j], FromTop(words, j))
    BY <1>1, OperandsTold
  <2> QED
    BY <2>1, <2>3, <2>4
<1> QED
  BY <1>2, <1>3

\* A stack behind an instruction is told if what the instruction puts there is.
LEMMA PushedTold ==
    ASSUME NEW op, NEW words, NEW s, Tells(words, s), NEW outs \in Stacks, NEW behind \in Seq(Int),
           NEW d \in Nat, Len(words) = d + StackRemoved(op), NEW k \in Nat, Len(outs) = k,
           Len(behind) = d + k,
           \A i \in 1 .. d : behind[i] = words[i],
           ToldOn(d, outs, k, behind)
    PROVE  Tells(behind, Pushed(Rest(op, s), outs))
<1>1. d <= Len(s)
  BY StackCounts DEF Tells
<1>2. s \in Stacks /\ Len(s) = d + StackRemoved(op) /\ Len(s) \in Nat
  BY StackFacts DEF Tells
<1>3. PICK after : after = Pushed(Rest(op, s), outs)
  OBVIOUS
<1>4. /\ after \in Stacks /\ Len(after) = d + k
      /\ \A i \in 1 .. d : after[i] = s[i]
      /\ LiesOn(d, outs, k, after)
  BY <1>2, <1>3, PushedIs
<1>5. ASSUME NEW i \in 1 .. d + k, behind[i] # AnyWord PROVE IsTold(after[i], behind[i])
  <2>1. CASE i <= d
    <3>1. i \in 1 .. d /\ i \in 1 .. Len(s)
      BY <1>1, <1>2, <2>1
    <3>2. behind[i] = words[i]
      BY <3>1
    <3> QED
      BY <1>4, <1>5, <3>1, <3>2 DEF Tells
  <2>2. CASE ~(i <= d)
    <3>1. PICK j \in 1 .. k : i = d + j
      <4>1. i - d \in 1 .. k /\ i = d + (i - d)
        BY <2>2
      <4> QED
        BY <4>1
    <3>2. IsTold(outs[k - j + 1], behind[d + j])
      BY <1>5, <3>1 DEF ToldOn
    <3>3. after[d + j] = outs[k - j + 1]
      BY <1>4 DEF LiesOn
    <3> QED
      BY <3>1, <3>2, <3>3
  <2> QED
    BY <2>1, <2>2
<1> QED
  BY <1>3, <1>4, <1>5 DEF Tells

\* A computed word is what the folding of its operands leaves.
LEMMA ComputedTold ==
    ASSUME NEW op, NEW s \in Stacks, Len(s) = StackRemoved(op), NEW in,
           \A i \in 1 .. StackRemoved(op) : in[i] # AnyWord => IsTold(s[i], in[i]),
           in = [i \in 1 .. StackRemoved(op) |-> in[i]],
           Folds(op, s) => ~Traps(op, Values(s)),
           ComputedWord(op, in) # AnyWord
    PROVE  /\ Folds(op, s)
           /\ \A j : IsTold(Constant(j, Result(op, Values(s))), ComputedWord(op, in))
<1>1. PICK n \in Nat : n = StackRemoved(op)
  BY StackCounts
<1>2. DOMAIN in = 1 .. n
  BY <1>1
<1>3. /\ IsArithmetic(op) /\ op \in HasLogic \ {OP_LT}
      /\ \A i \in 1 .. n : in[i] # AnyWord
      /\ ComputedWord(op, in) = Told(EVMResult(op, in))
  BY <1>2, Zenon DEF ComputedWord
<1>4. ComputedWord(op, in) = EVMResult(op, in) /\ 2 * EVMResult(op, in) < Modulus
  BY <1>3 DEF Told
<1>5. ASSUME NEW i \in 1 .. n
      PROVE  /\ IsTold(s[i], in[i]) /\ s[i] \in Valued /\ Values(s)[i] = in[i]
  <2>1. IsTold(s[i], in[i]) /\ s[i] \in Valued
    BY <1>1, <1>3, StackFacts
  <2>2. Values(s)[i] = GetInt64FromVec(s[i].value)
    BY <1>1 DEF Values
  <2> QED
    BY <2>1, <2>2, ToldIsRead
<1>6. Values(s) = in
  <2>1. Values(s) = [i \in 1 .. n |-> Values(s)[i]]
    BY <1>1 DEF Values
  <2>2. in = [i \in 1 .. n |-> in[i]]
    BY <1>1
  <2>3. [i \in 1 .. n |-> Values(s)[i]] = [i \in 1 .. n |-> in[i]]
    BY <1>5
  <2> QED
    BY <2>1, <2>2, <2>3, Zenon
<1>7. Folds(op, s)
  <2>1. AllReadable(s)
    BY <1>1, <1>5 DEF AllReadable, IsTold
  <2> QED
    BY <1>3, <2>1 DEF Folds
<1>8. /\ in[1] \in Nat /\ 2 * in[1] < Modulus
      /\ op \notin {OP_ISZERO, OP_NOT} => in[2] \in Nat /\ 2 * in[2] < Modulus
  <2>1. 1 \in 1 .. n /\ (op \notin {OP_ISZERO, OP_NOT} => 2 \in 1 .. n)
    BY <1>1, <1>3, LogicTakes
  <2> QED
    BY <1>5, <2>1 DEF IsTold
<1>9. ~Traps(op, in)
  BY <1>6, <1>7
<1>10. EVMResult(op, in) \in Nat /\ Solve(op, in) = EVMResult(op, in)
  BY <1>3, <1>4, <1>8, <1>9, SolveIsEVM
<1>11. PICK w \in Nat : w = EVMResult(op, in) /\ 2 * w < Modulus
  BY <1>4, <1>10
<1>12. PICK m \in Nat \ {0} : m = Modulus
  BY ModulusFacts
<1>13. w % Modulus = w
  <2>1. w = m * 0 + w /\ w \in 0 .. (m - 1) /\ w \in Int /\ 0 \in Int
    BY <1>11, <1>12
  <2>2. w % m = w
    BY <1>12, <2>1, DivisionIs
  <2> QED
    BY <1>12, <2>2
<1>14. Signed(w) = w /\ Signed(w) >= 0
  BY <1>11 DEF Signed
<1>15. IsInput(op, in)
  BY <1>8 DEF IsInput
<1>16. IsReadable(Result(op, in)) /\ WordOf(Result(op, in)) = w
  BY <1>3, <1>9, <1>10, <1>11, <1>13, <1>14, <1>15, ResultFacts
<1> QED
  BY <1>4, <1>6, <1>7, <1>11, <1>16 DEF IsTold, Constant

\* How many values an instruction leaves that is no PUSH, DUP or SWAP, and that folds.
LEMMA AddedCounts ==
    ASSUME NEW op
    PROVE  /\ IsPush(op) => StackRemoved(op) = 0 /\ StackAdded(op) = 1 /\ ~IsDup(op) /\ ~IsSwap(op)
           /\ IsPush(op) => ~IsArithmetic(op)
           /\ IsDup(op) => ~IsPush(op)
           /\ IsSwap(op) => ~IsPush(op)
           /\ op \in HasLogic => StackAdded(op) = 1
<1>1. ASSUME IsPush(op)
      PROVE  /\ StackRemoved(op) = 0 /\ StackAdded(op) = 1 /\ ~IsDup(op) /\ ~IsSwap(op)
             /\ ~IsArithmetic(op)
  <2>1. op \in 96 .. 127
    BY <1>1 DEF IsPush, OP_PUSH1, OP_PUSH32
  <2>2. ~IsDup(op) /\ ~IsSwap(op)
    BY <2>1 DEF IsDup, IsSwap, OP_DUP1, OP_DUP16, OP_SWAP1, OP_SWAP16
  <2>3. StackRemoved(op) = 0
    BY <2>1, <2>2, SMT DEF StackRemoved
  <2>4. StackAdded(op) = 1
    BY <1>1, <2>2, SMT DEF StackAdded
  <2>5. ~IsArithmetic(op)
    BY <2>1 DEF IsArithmetic, OP_BYTE
  <2> QED
    BY <2>2, <2>3, <2>4, <2>5
<1>2. (IsDup(op) \/ IsSwap(op)) => ~IsPush(op)
  BY DEF IsDup, IsSwap, IsPush, OP_DUP1, OP_DUP16, OP_SWAP1, OP_SWAP16, OP_PUSH1, OP_PUSH32
<1>3. ASSUME op \in HasLogic PROVE StackAdded(op) = 1
  <2>1. op \in {1, 2, 3, 4, 5, 6, 16, 17, 20, 21, 22, 24, 25}
    BY <1>3 DEF HasLogic, OP_ADD, OP_MUL, OP_SUB, OP_DIV, OP_SDIV, OP_MOD, OP_LT, OP_GT, OP_EQ,
           OP_ISZERO, OP_AND, OP_XOR, OP_NOT
  <2>2. ~IsDup(op) /\ ~IsSwap(op)
    BY <2>1 DEF IsDup, IsSwap, OP_DUP1, OP_DUP16, OP_SWAP1, OP_SWAP16
  <2> QED
    BY <2>1, <2>2, SMT DEF StackAdded
<1> QED
  BY <1>1, <1>2, <1>3

\* DUP copies words the code tells as it copies what tells them.
LEMMA DupTold ==
    ASSUME NEW op, IsDup(op), NEW words, NEW s, Tells(words, s), StackRemoved(op) <= Len(words),
           NEW args
    PROVE  Tells(Append(words, FromTop(words, StackRemoved(op))),
                 Pushed(Rest(op, s), DupOutputs(Operands(op, s, args))))
<1>1. PICK n \in Nat : n = StackRemoved(op) /\ 1 <= n
  BY StackCounts, ManipulatorsTake
<1>2. PICK d \in Nat : Len(words) = d + n
  <2>1. Len(words) \in Nat /\ n <= Len(words)
    BY <1>1, StackFacts DEF Tells
  <2>2. Len(words) - n \in Nat /\ Len(words) = Len(words) - n + n
    BY <2>1
  <2> QED
    BY <2>2
<1>3. PICK ops : ops = Operands(op, s, args)
  OBVIOUS
<1>4. /\ ops \in Stacks /\ Len(ops) = n
      /\ \A i \in 1 .. n : /\ words[d + i] \in Int
                           /\ FromTop(words, n - i + 1) = words[d + i]
                           /\ words[d + i] # AnyWord => IsTold(ops[n - i + 1], words[d + i])
  <2>1. StackRemoved(op) = n
    BY <1>1
  <2>2. ops \in Stacks /\ Len(ops) = n
    BY <1>2, <1>3, <2>1, OperandsToldUpwards
  <2>3. ASSUME NEW i \in 1 .. n
        PROVE  /\ words[d + i] \in Int
               /\ FromTop(words, n - i + 1) = words[d + i]
               /\ words[d + i] # AnyWord => IsTold(ops[n - i + 1], words[d + i])
    BY <1>2, <1>3, <2>1, OperandsToldUpwards
  <2> QED
    BY <2>2, <2>3, Zenon
<1>5. PICK e \in Valued, w \in Int :
         /\ e = ops[n] /\ w = FromTop(words, n)
         /\ w # AnyWord => IsTold(e, w)
  <2>1. 1 \in 1 .. n /\ n - 1 + 1 = n /\ n \in 1 .. n
    BY <1>1
  <2>2. ops[n] \in Valued
    BY <1>4, <2>1, StackFacts
  <2> QED
    BY <1>4, <2>1, <2>2
<1>6. PICK behind : behind = Append(words, w)
  OBVIOUS
<1>7. /\ behind \in Seq(Int) /\ Len(behind) = d + (n + 1) /\ behind[d + (n + 1)] = w
      /\ \A i \in 1 .. d + n : behind[i] = words[i]
  <2>1. words \in Seq(Int)
    BY DEF Tells
  <2>2. d + n + 1 = d + (n + 1)
    OBVIOUS
  <2> QED
    BY <1>2, <1>6, <2>1, <2>2
<1>8. PICK outs : outs = DupOutputs(ops)
  OBVIOUS
<1>9. outs \in Stacks /\ Len(outs) = n + 1 /\ outs[1] = e /\ \A i \in 1 .. n : outs[i + 1] = ops[i]
  <2>1. outs = <<e>> \o ops
    BY <1>4, <1>5, <1>8 DEF DupOutputs
  <2>2. <<e>> \in Stacks /\ Len(<<e>>) = 1 /\ <<e>>[1] = e
    BY DEF Stacks
  <2>3. /\ outs \in Stacks /\ Len(outs) = 1 + n
        /\ \A i \in 1 .. 1 + n : outs[i] = IF i <= 1 THEN <<e>>[i] ELSE ops[i - 1]
    BY <1>4, <2>1, <2>2, ConcatProperties DEF Stacks
  <2>4. \A i \in 1 .. n : outs[i + 1] = ops[i]
    <3> TAKE i \in 1 .. n
    <3>1. i + 1 \in 1 .. 1 + n /\ ~(i + 1 <= 1) /\ i + 1 - 1 = i
      OBVIOUS
    <3> QED
      BY <2>3, <3>1
  <2> QED
    BY <1>1, <2>2, <2>3, <2>4
<1>10. ASSUME NEW i \in 1 .. n + 1, behind[d + i] # AnyWord
       PROVE  IsTold(outs[n + 1 - i + 1], behind[d + i])
  <2>1. CASE i = n + 1
    <3>1. n + 1 - i + 1 = 1
      BY <2>1
    <3> QED
      BY <1>5, <1>7, <1>9, <1>10, <2>1, <3>1
  <2>2. CASE i # n + 1
    <3>1. i \in 1 .. n /\ n - i + 1 \in 1 .. n /\ d + i \in 1 .. d + n /\ n + 1 - i + 1 = n - i + 1 + 1
      BY <2>2
    <3>2. outs[n - i + 1 + 1] = ops[n - i + 1] /\ behind[d + i] = words[d + i]
      BY <1>7, <1>9, <3>1, Zenon
    <3> QED
      BY <1>4, <1>10, <3>1, <3>2, Zenon
  <2> QED
    BY <2>1, <2>2
<1>11. Tells(behind, Pushed(Rest(op, s), outs))
  <2>1. \A i \in 1 .. d : behind[i] = words[i]
    BY <1>7
  <2>2. PICK k \in Nat : k = n + 1
    OBVIOUS
  <2>3. Len(words) = d + StackRemoved(op)
    BY <1>1, <1>2
  <2>4. ToldOn(d, outs, k, behind)
    <3>1. ASSUME NEW i \in 1 .. k, behind[d + i] # AnyWord
          PROVE  IsTold(outs[k - i + 1], behind[d + i])
      BY <1>10, <2>2, <3>1
    <3> QED
      BY <3>1, Zenon DEF ToldOn
  <2>5. behind \in Seq(Int) /\ Len(behind) = d + k /\ outs \in Stacks /\ Len(outs) = k
    BY <1>7, <1>9, <2>2
  <2> QED
    BY <2>1, <2>3, <2>4, <2>5, PushedTold
<1> QED
  BY <1>1, <1>3, <1>5, <1>6, <1>8, <1>11

\* SWAP exchanges words the code tells as it exchanges what tells them.
LEMMA SwapTold ==
    ASSUME NEW op, IsSwap(op), NEW words, NEW s, Tells(words, s), StackRemoved(op) <= Len(words),
           NEW args, NEW n \in Nat, StackRemoved(op) = n, NEW d \in Nat, Len(words) = d + n
    PROVE  Tells([words EXCEPT ![d + n] = words[d + 1], ![d + 1] = words[d + n]],
                 Pushed(Rest(op, s), SwapOutputs(Operands(op, s, args))))
<1>1. n >= 2
  BY ManipulatorsTake
<1>2. PICK ops : ops = Operands(op, s, args)
  OBVIOUS
<1>3. ops \in Stacks /\ Len(ops) = n
  BY <1>2, OperandsToldUpwards
<1>4. ASSUME NEW i \in 1 .. n
      PROVE  /\ words[d + i] \in Int
             /\ words[d + i] # AnyWord => IsTold(ops[n - i + 1], words[d + i])
  BY <1>2, OperandsToldUpwards
<1>5. PICK behind : behind = [words EXCEPT ![d + n] = words[d + 1], ![d + 1] = words[d + n]]
  OBVIOUS
<1>6. words \in Seq(Int) /\ DOMAIN words = 1 .. d + n
  BY LenProperties DEF Tells
<1>7. /\ behind \in Seq(Int) /\ Len(behind) = d + n
      /\ \A i \in 1 .. d + n : behind[i] = IF i = d + 1 THEN words[d + n]
                                           ELSE IF i = d + n THEN words[d + 1] ELSE words[i]
  <2>1. \A i \in 1 .. d + n : words[i] \in Int
    BY <1>6, ElementOfSeq
  <2>2. d + 1 \in 1 .. d + n /\ d + n \in 1 .. d + n
    BY <1>1
  <2>3. /\ \A i \in 1 .. d + n : behind[i] = IF i = d + 1 THEN words[d + n]
                                           ELSE IF i = d + n THEN words[d + 1] ELSE words[i]
        /\ behind = [i \in 1 .. d + n |-> behind[i]]
    BY <1>5, <1>6, <2>2
  <2>4. behind \in [1 .. d + n -> Int]
    BY <2>1, <2>2, <2>3
  <2> QED
    BY <2>3, <2>4, LengthOfRow
<1>8. PICK outs : outs = SwapOutputs(ops)
  OBVIOUS
<1>9. /\ outs \in Stacks /\ Len(outs) = n
      /\ \A i \in 1 .. n : outs[i] = ops[IF i = 1 THEN n ELSE IF i = n THEN 1 ELSE i]
  <2>1. outs = [i \in 1 .. n |-> ops[IF i = 1 THEN n ELSE IF i = n THEN 1 ELSE i]]
    BY <1>3, <1>8 DEF SwapOutputs
  <2>2. \A i \in 1 .. n : outs[i] = ops[IF i = 1 THEN n ELSE IF i = n THEN 1 ELSE i]
    BY <2>1
  <2>3. outs \in Stacks
    BY <1>1, <1>3, <1>8, SwapAlike
  <2>4. Len(outs) = n
    <3>1. DOMAIN outs = 1 .. Len(outs) /\ Len(outs) \in Nat
      BY <2>3, StackFacts
    <3>2. DOMAIN outs = 1 .. n
      BY <2>1
    <3>3. PICK m \in Nat : m = Len(outs)
      BY <3>1
    <3>4. n \in 1 .. m /\ m \in 1 .. n
      <4>1. 1 .. m = 1 .. n
        BY <3>1, <3>2, <3>3
      <4>2. n \in 1 .. n
        BY <1>1
      <4> QED
        BY <4>1, <4>2
    <3> QED
      BY <3>3, <3>4
  <2> QED
    BY <2>2, <2>3, <2>4
<1>10. ASSUME NEW i \in 1 .. n, behind[d + i] # AnyWord
       PROVE  IsTold(outs[n - i + 1], behind[d + i])
  <2>1. d + i \in 1 .. d + n /\ n - i + 1 \in 1 .. n
    OBVIOUS
  <2>2. CASE i = 1
    <3>1. behind[d + i] = words[d + n] /\ outs[n - i + 1] = ops[1]
      <4>1. n - i + 1 = n /\ n # 1 /\ d + i = d + 1
        BY <1>1, <2>2
      <4> QED
        BY <1>7, <1>9, <2>1, <4>1
    <3>2. n \in 1 .. n /\ n - n + 1 = 1
      BY <1>1
    <3> QED
      BY <1>4, <1>10, <3>1, <3>2
  <2>3. CASE i = n
    <3>1. behind[d + i] = words[d + 1] /\ outs[n - i + 1] = ops[n]
      <4>1. n - i + 1 = 1 /\ n # 1 /\ d + i = d + n /\ d + i # d + 1
        BY <1>1, <2>3
      <4> QED
        BY <1>7, <1>9, <2>1, <4>1
    <3>2. 1 \in 1 .. n /\ n - 1 + 1 = n
      BY <1>1
    <3> QED
      BY <1>4, <1>10, <3>1, <3>2
  <2>4. CASE i # 1 /\ i # n
    <3>1. d + i # d + 1 /\ d + i # d + n /\ n - i + 1 # 1 /\ n - i + 1 # n
      BY <2>4
    <3>2. behind[d + i] = words[d + i]
      BY <1>7, <2>1, <3>1
    <3>3. outs[n - i + 1] = ops[n - i + 1]
      BY <1>9, <2>1, <3>1
    <3> QED
      BY <1>4, <1>10, <3>2, <3>3
  <2> QED
    BY <2>2, <2>3, <2>4
<1>11. Tells(behind, Pushed(Rest(op, s), outs))
  <2>1. \A i \in 1 .. d : behind[i] = words[i]
    BY <1>1, <1>7
  <2>2. Len(words) = d + StackRemoved(op)
    OBVIOUS
  <2>3. ToldOn(d, outs, n, behind)
    BY <1>10, Zenon DEF ToldOn
  <2> QED
    BY <1>7, <1>9, <2>1, <2>2, <2>3, PushedTold
<1> QED
  BY <1>2, <1>5, <1>8, <1>11

\* PUSH leaves its data.
LEMMA PushTold ==
    ASSUME NEW op, IsPush(op), NEW words, NEW s, Tells(words, s), NEW args,
           NEW data \in Seq(Byte) \ {<<>>}, NEW first \in Int,
           NEW w, w = IF IsReadable(data) THEN Told(WordOf(data)) ELSE AnyWord
    PROVE  Tells(Append(words, w),
                 Pushed(Rest(op, s), Simplified(op, Operands(op, s, args),
                                                FreshOutputs(op, data, first))))
<1>1. /\ StackRemoved(op) = 0 /\ StackAdded(op) = 1 /\ ~IsDup(op) /\ ~IsSwap(op)
      /\ ~IsArithmetic(op)
  BY AddedCounts
<1>2. PICK outs : outs = FreshOutputs(op, data, first)
  OBVIOUS
<1>3. outs \in Stacks /\ Len(outs) = 1 /\ outs[1] = Constant(first, data)
  <2>1. outs = [i \in 1 .. 1 |-> Constant(first + i - 1, data)]
    BY <1>1, <1>2 DEF FreshOutputs
  <2>2. outs[1] = Constant(first, data)
    <3>1. outs[1] = Constant(first + 1 - 1, data) /\ first + 1 - 1 = first
      BY <2>1
    <3> QED
      BY <3>1, Zenon
  <2>3. outs \in Stacks
    BY <1>2, FreshAlike
  <2>4. DOMAIN outs = 1 .. Len(outs) /\ Len(outs) \in Nat
    BY <2>3, StackFacts
  <2>5. Len(outs) = 1
    <3>1. DOMAIN outs = 1 .. 1
      BY <2>1
    <3>2. PICK m \in Nat : m = Len(outs)
      BY <2>4
    <3>3. 1 .. m = 1 .. 1
      BY <2>4, <3>1, <3>2
    <3>4. 1 \in 1 .. m /\ \A j \in 1 .. m : j \in 1 .. 1
      BY <3>3
    <3> QED
      BY <3>2, <3>4
  <2> QED
    BY <2>2, <2>3, <2>5
<1>4. Simplified(op, Operands(op, s, args), outs) = outs
  BY <1>1 DEF Simplified, Folds
<1>5. w \in Int /\ (w # AnyWord => IsTold(Constant(first, data), w))
  <2>1. CASE IsReadable(data)
    <3>1. WordOf(data) \in Nat
      BY <2>1, ReadableWord
    <3> QED
      BY <2>1, <3>1 DEF Told, AnyWord, IsTold, Constant
  <2>2. CASE ~IsReadable(data)
    BY <2>2 DEF AnyWord
  <2> QED
    BY <2>1, <2>2
<1>6. PICK d \in Nat : d = Len(words) /\ words \in Seq(Int)
  BY StackFacts DEF Tells
<1>7. PICK behind : behind = Append(words, w)
  OBVIOUS
<1>8. /\ behind \in Seq(Int) /\ Len(behind) = d + 1 /\ behind[d + 1] = w
      /\ \A i \in 1 .. d : behind[i] = words[i]
  BY <1>5, <1>6, <1>7
<1>9. ToldOn(d, outs, 1, behind)
  <2>1. ASSUME NEW i \in 1 .. 1, behind[d + i] # AnyWord
        PROVE  IsTold(outs[1 - i + 1], behind[d + i])
    <3>1. i = 1 /\ 1 - i + 1 = 1
      OBVIOUS
    <3> QED
      BY <1>3, <1>5, <1>8, <2>1, <3>1
  <2> QED
    BY <2>1, Zenon DEF ToldOn
<1>10. Len(words) = d + StackRemoved(op)
  BY <1>1, <1>6
<1>11. Tells(behind, Pushed(Rest(op, s), outs))
  BY <1>3, <1>8, <1>9, <1>10, PushedTold
<1> QED
  BY <1>2, <1>4, <1>7, <1>11

\* Every other instruction leaves a word that is computed, or any.
LEMMA OtherTold ==
    ASSUME NEW op, ~IsPush(op), ~IsDup(op), ~IsSwap(op), NEW words, NEW s, Tells(words, s),
           NEW n \in Nat, StackRemoved(op) = n, NEW d \in Nat, Len(words) = d + n,
           NEW k \in Nat, StackAdded(op) = k, NEW args, NEW value, NEW first \in Int,
           Folds(op, Operands(op, s, args)) => ~Traps(op, Values(Operands(op, s, args))),
           NEW in, in = [i \in 1 .. n |-> FromTop(words, i)]
    PROVE  Tells([i \in 1 .. (d + k) |-> IF i <= d THEN words[i] ELSE ComputedWord(op, in)],
                 Pushed(Rest(op, s), Simplified(op, Operands(op, s, args),
                                                FreshOutputs(op, value, first))))
<1>1. PICK ops : ops = Operands(op, s, args)
  OBVIOUS
<1>2. ops \in Stacks /\ Len(ops) = n
  <2>1. s \in Stacks /\ StackRemoved(op) <= Len(s)
    BY DEF Tells
  <2>2. Len(ops) = StackRemoved(op) /\ ops \in Stacks
    BY <1>1, <2>1, OperandsAre
  <2> QED
    BY <2>2
<1>3. ASSUME NEW i \in 1 .. n PROVE in[i] # AnyWord => IsTold(ops[i], in[i])
  <2>1. StackRemoved(op) <= Len(words)
    OBVIOUS
  <2>2. \A j \in 1 .. StackRemoved(op) :
            FromTop(words, j) # AnyWord => IsTold(Operands(op, s, args)[j], FromTop(words, j))
    BY <2>1, OperandsTold
  <2> QED
    BY <1>1, <2>2
<1>4. PICK outs : outs = Simplified(op, ops, FreshOutputs(op, value, first))
  OBVIOUS
<1>5. outs \in Stacks
  BY <1>1, <1>2, <1>4, SimplifiedAlike
<1>6. Len(outs) = k
  <2>1. CASE Folds(op, ops)
    <3>1. outs = <<Constant(FreshOutputs(op, value, first)[1].idx, Result(op, Values(ops)))>>
      BY <1>4, <2>1 DEF Simplified
    <3>2. k = 1
      BY <2>1, AddedCounts DEF Folds
    <3> QED
      BY <3>1, <3>2
  <2>2. CASE ~Folds(op, ops)
    <3>1. outs = [i \in 1 .. k |-> Symbol(first + i - 1)]
      BY <1>4, <2>2 DEF Simplified, FreshOutputs
    <3>2. PICK m \in Nat : m = Len(outs) /\ 1 .. m = 1 .. k
      BY <1>5, <3>1, StackFacts
    <3>3. (m > 0 => m \in 1 .. k) /\ (k > 0 => k \in 1 .. m)
      <4>1. (m > 0 => m \in 1 .. m) /\ (k > 0 => k \in 1 .. k)
        OBVIOUS
      <4> QED
        BY <3>2, <4>1
    <3> QED
      BY <3>2, <3>3
  <2> QED
    BY <2>1, <2>2
<1>7. ComputedWord(op, in) \in Int
  <2>1. ASSUME ComputedWord(op, in) # AnyWord
        PROVE  \A j : IsTold(Constant(j, Result(op, Values(ops))), ComputedWord(op, in))
    <3>1. Len(ops) = StackRemoved(op) /\ in = [i \in 1 .. StackRemoved(op) |-> in[i]]
      BY <1>2
    <3>2. \A i \in 1 .. StackRemoved(op) : in[i] # AnyWord => IsTold(ops[i], in[i])
      BY <1>3
    <3>3. Folds(op, ops) => ~Traps(op, Values(ops))
      BY <1>1
    <3> QED
      BY <1>2, <2>1, <3>1, <3>2, <3>3, ComputedTold
  <2>2. ComputedWord(op, in) # AnyWord => ComputedWord(op, in) \in Nat
    BY <2>1, Zenon DEF IsTold
  <2> QED
    BY <2>2 DEF AnyWord
<1>8. PICK w \in Int : w = ComputedWord(op, in)
  BY <1>7
<1>9. ASSUME w # AnyWord PROVE k = 1 /\ IsTold(outs[1], w)
  <2>1. /\ Folds(op, ops)
        /\ \A j : IsTold(Constant(j, Result(op, Values(ops))), w)
    <3>1. Len(ops) = StackRemoved(op) /\ in = [i \in 1 .. StackRemoved(op) |-> in[i]]
      BY <1>2
    <3>2. \A i \in 1 .. StackRemoved(op) : in[i] # AnyWord => IsTold(ops[i], in[i])
      BY <1>3
    <3>3. Folds(op, ops) => ~Traps(op, Values(ops))
      BY <1>1
    <3>4. ComputedWord(op, in) # AnyWord
      BY <1>8, <1>9
    <3>5. /\ Folds(op, ops)
          /\ \A j : IsTold(Constant(j, Result(op, Values(ops))), ComputedWord(op, in))
      BY <1>2, <3>1, <3>2, <3>3, <3>4, ComputedTold
    <3> QED
      BY <1>8, <3>5, Zenon
  <2>2. outs = <<Constant(FreshOutputs(op, value, first)[1].idx, Result(op, Values(ops)))>>
    BY <1>4, <2>1 DEF Simplified
  <2>3. k = 1
    BY <2>1, AddedCounts DEF Folds
  <2>4. outs[1] = Constant(FreshOutputs(op, value, first)[1].idx, Result(op, Values(ops)))
    BY <2>2
  <2> QED
    BY <2>1, <2>3, <2>4, Zenon
<1>10. PICK behind :
          behind = [i \in 1 .. (d + k) |-> IF i <= d THEN words[i] ELSE ComputedWord(op, in)]
  OBVIOUS
<1>11. \A i \in 1 .. d : words[i] \in Int
  <2>1. words \in Seq(Int) /\ DOMAIN words = 1 .. d + n
    BY LenProperties DEF Tells
  <2> QED
    BY <2>1, ElementOfSeq
<1>12. /\ behind \in Seq(Int) /\ Len(behind) = d + k
       /\ \A i \in 1 .. d + k : behind[i] = IF i <= d THEN words[i] ELSE w
  <2>1. /\ \A i \in 1 .. d + k : behind[i] = IF i <= d THEN words[i] ELSE w
        /\ behind = [i \in 1 .. d + k |-> behind[i]]
    BY <1>8, <1>10
  <2>2. behind \in [1 .. d + k -> Int]
    BY <1>11, <2>1
  <2> QED
    BY <2>1, <2>2, LengthOfRow
<1>13. ToldOn(d, outs, k, behind)
  <2>1. ASSUME NEW i \in 1 .. k, behind[d + i] # AnyWord
        PROVE  IsTold(outs[k - i + 1], behind[d + i])
    <3>1. behind[d + i] = w
      <4>1. d + i \in 1 .. d + k /\ ~(d + i <= d)
        OBVIOUS
      <4> QED
        BY <1>12, <4>1
    <3>2. k = 1 /\ IsTold(outs[1], w)
      BY <1>9, <2>1, <3>1
    <3>3. k - i + 1 = 1
      BY <3>2
    <3> QED
      BY <3>1, <3>2, <3>3
  <2> QED
    BY <2>1, Zenon DEF ToldOn
<1>14. /\ \A i \in 1 .. d : behind[i] = words[i]
       /\ Len(words) = d + StackRemoved(op)
  BY <1>12
<1>15. Tells(behind, Pushed(Rest(op, s), outs))
  BY <1>5, <1>6, <1>12, <1>13, <1>14, PushedTold
<1> QED
  BY <1>1, <1>4, <1>10, <1>15

\* The stack behind an instruction, by its kind.
LEMMA StackBehindIs ==
    ASSUME NEW code, NEW o, NEW words, NEW op, op = code[o], NEW n, n = Len(words),
           NEW deep, deep = n - StackRemoved(op)
    PROVE  /\ IsPush(op) => StackBehind(code, o, words) = Append(words, PushedWord(code, o))
           /\ IsDup(op) =>
                 StackBehind(code, o, words) = Append(words, FromTop(words, StackRemoved(op)))
           /\ IsSwap(op) =>
                 StackBehind(code, o, words)
                    = [words EXCEPT ![n] = words[deep + 1], ![deep + 1] = words[n]]
           /\ ~IsPush(op) /\ ~IsDup(op) /\ ~IsSwap(op) =>
                 StackBehind(code, o, words)
                    = [i \in 1 .. (deep + StackAdded(op)) |->
                          IF i <= deep THEN words[i]
                          ELSE ComputedWord(op, [j \in 1 .. StackRemoved(op) |->
                                                    FromTop(words, j)])]
<1>1. /\ IsPush(op) => ~IsDup(op) /\ ~IsSwap(op)
      /\ IsDup(op) => ~IsPush(op) /\ ~IsSwap(op)
      /\ IsSwap(op) => ~IsPush(op) /\ ~IsDup(op)
  BY AddedCounts, ManipulatorsTake
<1>2. StackBehind(code, o, words)
         = CASE IsPush(op) -> Append(words, PushedWord(code, o))
             [] IsDup(op)  -> Append(words, FromTop(words, StackRemoved(op)))
             [] IsSwap(op) -> [words EXCEPT ![n] = words[deep + 1], ![deep + 1] = words[n]]
             [] OTHER      -> [i \in 1 .. (deep + StackAdded(op)) |->
                                  IF i <= deep THEN words[i]
                                  ELSE ComputedWord(op, [j \in 1 .. StackRemoved(op) |->
                                                            FromTop(words, j)])]
  BY Zenon DEF StackBehind
<1> QED
  BY <1>1, <1>2, Zenon

\* The immediate data of a PUSH.
IsDataAt(code, o, value) ==
    value \in Seq(Byte) \ {<<>>} /\ value = [i \in 1 .. Length(code[o]) |-> code[o + i]]

LEMMA BehindSwapAt ==
    ASSUME NEW code, NEW o, NEW words, NEW op, op = code[o], IsSwap(op),
           NEW m \in Nat, m = Len(words), NEW d \in Nat, d = m - StackRemoved(op)
    PROVE  StackBehind(code, o, words) = [words EXCEPT ![m] = words[d + 1], ![d + 1] = words[m]]
  BY StackBehindIs

LEMMA BehindSwap ==
    ASSUME NEW code, NEW o, NEW words, NEW op, op = code[o], IsSwap(op),
           NEW n \in Nat, n = StackRemoved(op), NEW d \in Nat, Len(words) = d + n
    PROVE  StackBehind(code, o, words)
              = [words EXCEPT ![d + n] = words[d + 1], ![d + 1] = words[d + n]]
<1>1. PICK m \in Nat : m = Len(words) /\ m = d + n /\ d = m - StackRemoved(op)
  OBVIOUS
<1>2. StackBehind(code, o, words) = [words EXCEPT ![m] = words[d + 1], ![d + 1] = words[m]]
  BY <1>1, BehindSwapAt
<1> QED
  BY <1>1, <1>2

LEMMA BehindOther ==
    ASSUME NEW code, NEW o, NEW words, NEW op, op = code[o],
           ~IsPush(op), ~IsDup(op), ~IsSwap(op),
           NEW n \in Nat, n = StackRemoved(op), NEW d \in Nat, Len(words) = d + n,
           NEW k \in Nat, StackAdded(op) = k
    PROVE  StackBehind(code, o, words)
              = [i \in 1 .. (d + k) |->
                    IF i <= d THEN words[i]
                    ELSE ComputedWord(op, [j \in 1 .. n |-> FromTop(words, j)])]
<1>1. PICK m \in Nat : m = Len(words) /\ d = m - StackRemoved(op)
  OBVIOUS
<1>2. StackBehind(code, o, words)
        = [i \in 1 .. (d + StackAdded(op)) |->
              IF i <= d THEN words[i]
              ELSE ComputedWord(op, [j \in 1 .. StackRemoved(op) |-> FromTop(words, j)])]
  BY <1>1, StackBehindIs
<1> QED
  BY <1>2

\* The stack of a simulated instruction tells of that of the EVM behind it, and the
\* target of a jump that is told is the one that is read.
THEOREM StepIsTold ==
    ASSUME NEW code, NEW o \in Int, NEW op, op = code[o], NEW words, NEW s, Tells(words, s),
           StackRemoved(op) <= Len(words),
           NEW args, NEW value, NEW first \in Int,
           IsPush(op) => IsDataAt(code, o, value),
           Folds(op, Operands(op, s, args)) => ~Traps(op, Values(Operands(op, s, args)))
    PROVE  /\ Tells(StackBehind(code, o, words),
                    Pushed(Rest(op, s), Simplified(op, Operands(op, s, args),
                                                   FreshOutputs(op, value, first))))
           /\ IsBranch(op) /\ FromTop(words, 1) # AnyWord =>
                 /\ AllReadable(<<Operands(op, s, args)[1]>>)
                 /\ Values(Operands(op, s, args))[1] = FromTop(words, 1)
<1>1. PICK n \in Nat : n = StackRemoved(op)
  BY StackCounts
<1>2. PICK d \in Nat : Len(words) = d + n
  <2>1. Len(words) \in Nat /\ n <= Len(words)
    BY <1>1, StackFacts DEF Tells
  <2>2. Len(words) - n \in Nat /\ Len(words) = Len(words) - n + n
    BY <2>1
  <2> QED
    BY <2>2
<1>3. PICK behind : behind = Pushed(Rest(op, s), Simplified(op, Operands(op, s, args),
                                                           FreshOutputs(op, value, first)))
  OBVIOUS
<1>4. Tells(StackBehind(code, o, words), behind)
  <2>1. CASE IsPush(op)
    <3>1. StackBehind(code, o, words) = Append(words, PushedWord(code, o))
      BY <2>1, StackBehindIs
    <3>2. PushedWord(code, o) = IF IsReadable(value) THEN Told(WordOf(value)) ELSE AnyWord
      <4>1. value = [i \in 1 .. Length(code[o]) |-> code[o + i]]
        BY <2>1 DEF IsDataAt
      <4> QED
        BY <4>1, Zenon DEF PushedWord
    <3>3. value \in Seq(Byte) \ {<<>>}
      BY <2>1 DEF IsDataAt
    <3> QED
      BY <1>3, <2>1, <3>1, <3>2, <3>3, PushTold
  <2>2. CASE IsDup(op)
    <3>1. ~IsPush(op)
      BY <2>2, AddedCounts
    <3>2. StackBehind(code, o, words) = Append(words, FromTop(words, StackRemoved(op)))
      BY <2>2, StackBehindIs
    <3>3. Simplified(op, Operands(op, s, args), FreshOutputs(op, value, first))
            = DupOutputs(Operands(op, s, args))
      BY <2>2 DEF Simplified
    <3> QED
      BY <1>3, <2>2, <3>2, <3>3, DupTold
  <2>3. CASE IsSwap(op)
    <3>1. ~IsPush(op) /\ ~IsDup(op)
      BY <2>3, AddedCounts, ManipulatorsTake
    <3>3. StackBehind(code, o, words)
            = [words EXCEPT ![d + n] = words[d + 1], ![d + 1] = words[d + n]]
      BY <1>1, <1>2, <2>3, BehindSwap
    <3>4. Simplified(op, Operands(op, s, args), FreshOutputs(op, value, first))
            = SwapOutputs(Operands(op, s, args))
      BY <2>3, <3>1 DEF Simplified
    <3>5. StackRemoved(op) = n
      BY <1>1
    <3> QED
      <4>1. Tells([words EXCEPT ![d + n] = words[d + 1], ![d + 1] = words[d + n]],
                  Pushed(Rest(op, s), SwapOutputs(Operands(op, s, args))))
        BY <1>2, <2>3, <3>5, SwapTold
      <4> QED
        BY <1>3, <3>3, <3>4, <4>1
  <2>4. CASE ~IsPush(op) /\ ~IsDup(op) /\ ~IsSwap(op)
    <3>1. PICK k \in Nat : StackAdded(op) = k
      BY StackCounts
    <3>2. PICK in : in = [i \in 1 .. n |-> FromTop(words, i)]
      OBVIOUS
    <3>3. StackBehind(code, o, words)
            = [i \in 1 .. (d + k) |-> IF i <= d THEN words[i] ELSE ComputedWord(op, in)]
      <4> DEFINE Row(x) ==
             [i \in 1 .. (d + k) |-> IF i <= d THEN words[i] ELSE ComputedWord(op, x)]
      <4>1. StackBehind(code, o, words) = Row([j \in 1 .. n |-> FromTop(words, j)])
        BY <1>1, <1>2, <2>4, <3>1, BehindOther
      <4>2. StackBehind(code, o, words) = Row(in)
        <5> HIDE DEF Row
        <5> QED
          BY <3>2, <4>1
      <4> QED
        BY <4>2
    <3>4. StackRemoved(op) = n
      BY <1>1
    <3> QED
      BY <1>2, <1>3, <2>4, <3>1, <3>2, <3>3, <3>4, OtherTold
  <2> QED
    BY <2>1, <2>2, <2>3, <2>4
<1>5. ASSUME IsBranch(op), FromTop(words, 1) # AnyWord
      PROVE  /\ AllReadable(<<Operands(op, s, args)[1]>>)
             /\ Values(Operands(op, s, args))[1] = FromTop(words, 1)
  <2>1. PICK ops : ops = Operands(op, s, args)
    OBVIOUS
  <2>2. 1 \in 1 .. StackRemoved(op)
    BY <1>1, <1>5, ManipulatorsTake
  <2>3. ops \in Stacks /\ Len(ops) = StackRemoved(op)
    <3>1. StackRemoved(op) <= Len(s) /\ s \in Stacks
      BY DEF Tells
    <3> QED
      BY <2>1, <3>1, OperandsAre
  <2>4. IsTold(ops[1], FromTop(words, 1))
    BY <1>5, <2>1, <2>2, OperandsTold
  <2>5. ops[1] \in Valued
    BY <2>2, <2>3, StackFacts
  <2>6. GetInt64FromVec(ops[1].value) = FromTop(words, 1)
    BY <2>4, <2>5, ToldIsRead
  <2>7. Values(ops)[1] = GetInt64FromVec(ops[1].value)
    BY <2>2, <2>3 DEF Values
  <2>8. AllReadable(<<ops[1]>>)
    <3>1. ops[1].kind = "constant" /\ IsReadable(ops[1].value)
      BY <2>4 DEF IsTold
    <3>2. Len(<<ops[1]>>) = 1 /\ \A i \in 1 .. 1 : <<ops[1]>>[i] = ops[1]
      OBVIOUS
    <3> QED
      BY <3>1, <3>2 DEF AllReadable
  <2> QED
    BY <2>1, <2>6, <2>7, <2>8
<1> QED
  BY <1>3, <1>4, <1>5

=============================================================================
