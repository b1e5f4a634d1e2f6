------------------------- MODULE TopologyLabelProofs -------------------------
(***************************************************************************)
(* Proofs about TopologyLabel, for every configuration of templates.       *)
(*                                                                         *)
(* CompileSet's search is over sets of automaton states, and its languages *)
(* are infinite.  The argument has two halves.  Nothing is missed: a key   *)
(* that two templates share leads both automata along a path (Place), so   *)
(* a search that has settled every pair it met has met one where both      *)
(* accept, unless there is no such key (SettledDisjoint).  Nothing is made *)
(* up: each state in the queue is explained by the text that leads to it   *)
(* (Explained), and the accepting state by a whole key.  LabelInv carries  *)
(* both through the search; MatchTier and Render are tied to keys by       *)
(* lemmas on Decimal and Value, by induction over sets of naturals.        *)
(***************************************************************************)
EXTENDS TopologyLabel, FiniteSetTheorems, SequenceTheorems, TLAPS

USE ZenonT(40)

-----------------------------------------------------------------------------
(* Induction over the naturals, for sets.                                  *)
LEMMA Least == \A T \in SUBSET Nat : T # {} => \E x \in T : \A y \in T : x <= y
<1> SUFFICES ASSUME NEW T \in SUBSET Nat, T # {} PROVE \E x \in T : \A y \in T : x <= y
  OBVIOUS
<1> DEFINE R == OpToRel(<, Nat)
<1>1. IsWellFoundedOn(R, Nat)
  BY NatLessThanWellFounded
<1>2. \A p : p \in R <=> p \in Nat \X Nat /\ p[1] < p[2]
  BY DEF OpToRel
<1> HIDE DEF R
<1>3. PICK x \in T : \A y \in T : ~(<<y, x>> \in R)
  BY <1>1, WFMin
<1>4. ASSUME NEW y \in T PROVE ~(y < x)
  <2>1. <<y, x>> \in Nat \X Nat /\ <<y, x>>[1] = y /\ <<y, x>>[2] = x
    OBVIOUS
  <2>2. <<y, x>> \notin R
    BY <1>3
  <2> QED
    BY <1>2, <2>1, <2>2
<1> QED
  BY <1>3, <1>4, SMT

LEMMA Induct == \A S : 0 \in S /\ (\A n \in Nat : n \in S => n + 1 \in S) => Nat \subseteq S
<1> SUFFICES ASSUME NEW S, 0 \in S, \A n \in Nat : n \in S => n + 1 \in S, Nat \ S # {} PROVE FALSE
  OBVIOUS
<1>1. PICK x \in Nat \ S : \A y \in Nat \ S : x <= y
  <2>1. Nat \ S \in SUBSET Nat
    OBVIOUS
  <2> QED
    BY <2>1, Least
<1>2. x # 0 /\ x - 1 \in Nat
  BY <1>1, SMT
<1>3. x - 1 \notin S
  BY <1>1, <1>2, SMT
<1> QED
  BY <1>1, <1>2, <1>3, SMT

-----------------------------------------------------------------------------
(* Decimal exists: it is put together from its finite parts.               *)
DecimalUpTo(f, n) ==
  f = [k \in 0 .. n |-> IF k < 10 THEN <<48 + k>> ELSE Append(f[k \div 10], 48 + (k % 10))]

LEMMA TenthIsLess == \A k \in Nat : k >= 10 => k \div 10 \in Nat /\ k \div 10 < k /\ k \div 10 >= 1
  BY SMT

LEMMA DecimalPart == \A n \in Nat : \E f : DecimalUpTo(f, n)
<1> DEFINE S == {n \in Nat : \E f : DecimalUpTo(f, n)}
           single == [k \in 0 .. 0 |-> <<48 + k>>]
<1>1. 0 \in S
  <2>1. DecimalUpTo(single, 0)
    BY SMT DEF DecimalUpTo
  <2> QED
    BY <2>1, SMT
<1>2. ASSUME NEW n \in Nat, n \in S PROVE n + 1 \in S
  <2>1. PICK f : DecimalUpTo(f, n)
    BY <1>2
  <2> DEFINE last == IF n + 1 < 10 THEN <<48 + (n + 1)>> ELSE Append(f[(n + 1) \div 10], 48 + ((n + 1) % 10))
             g == [k \in 0 .. n + 1 |-> IF k = n + 1 THEN last ELSE f[k]]
  <2>2. \A k \in 0 .. n : g[k] = f[k]
    BY SMT
  <2>3. \A k \in 0 .. n : f[k] = IF k < 10 THEN <<48 + k>> ELSE Append(f[k \div 10], 48 + (k % 10))
    BY <2>1 DEF DecimalUpTo
  <2>4. \A k \in 0 .. n + 1 : k >= 10 => k \div 10 \in 0 .. n
    BY TenthIsLess, SMT
  <2>5. g[n + 1] = last
    BY SMT
  <2>6. DOMAIN g = 0 .. n + 1
    OBVIOUS
  <2> DEFINE h(k) == IF k < 10 THEN <<48 + k>> ELSE Append(g[k \div 10], 48 + (k % 10))
  <2>7. ASSUME NEW k \in 0 .. n + 1 PROVE g[k] = h(k)
    <3>1. CASE k = n + 1
      <4>1. k < 10 \/ g[k \div 10] = f[k \div 10]
        BY <2>2, <2>4, SMT
      <4> HIDE DEF g
      <4> QED
        BY <2>5, <3>1, <4>1
    <3>2. CASE k \in 0 .. n
      <4>1. k < 10 \/ g[k \div 10] = f[k \div 10]
        BY <2>2, <2>4, SMT
      <4>2. g[k] = f[k]
        BY <2>2, <3>2
      <4> HIDE DEF g
      <4> QED
        BY <2>3, <3>2, <4>1, <4>2
    <3> QED
      BY <3>1, <3>2, SMT
  <2>8. g = [k \in 0 .. n + 1 |-> g[k]]
    OBVIOUS
  <2> HIDE DEF g
  <2>9. DecimalUpTo(g, n + 1)
    BY <2>7, <2>8 DEF DecimalUpTo
  <2> QED
    BY <2>9, SMT
<1> HIDE DEF S
<1>3. Nat \subseteq S
  BY <1>1, <1>2, Induct
<1> QED
  BY <1>3 DEF S

(* Two parts agree where both are defined.                                 *)
LEMMA DecimalAgree ==
  ASSUME NEW f, NEW g, NEW n \in Nat, NEW m \in Nat, DecimalUpTo(f, n), DecimalUpTo(g, m), n <= m
  PROVE  \A k \in 0 .. n : f[k] = g[k]
<1> DEFINE S == {j \in Nat : \A k \in 0 .. n : k <= j => f[k] = g[k]}
<1>0. /\ \A k \in 0 .. n : f[k] = IF k < 10 THEN <<48 + k>> ELSE Append(f[k \div 10], 48 + (k % 10))
      /\ \A k \in 0 .. m : g[k] = IF k < 10 THEN <<48 + k>> ELSE Append(g[k \div 10], 48 + (k % 10))
  BY DEF DecimalUpTo
<1>1. 0 \in S
  <2>1. 0 \in 0 .. n /\ 0 \in 0 .. m /\ 0 < 10 /\ \A k \in 0 .. n : k <= 0 => k = 0
    BY SMT
  <2>2. f[0] = <<48 + 0>> /\ g[0] = <<48 + 0>>
    BY <1>0, <2>1
  <2> QED
    BY <2>1, <2>2
<1>2. ASSUME NEW j \in Nat, j \in S PROVE j + 1 \in S
  <2> SUFFICES ASSUME j + 1 \in 0 .. n PROVE f[j + 1] = g[j + 1]
    BY <1>2, SMT
  <2>1. j + 1 \in 0 .. m
    BY SMT
  <2>2. CASE j + 1 < 10
    <3>1. f[j + 1] = <<48 + (j + 1)>>
      BY <1>0, <2>2
    <3>2. g[j + 1] = <<48 + (j + 1)>>
      BY <1>0, <2>1, <2>2
    <3> QED
      BY <3>1, <3>2
  <2>3. CASE ~(j + 1 < 10)
    <3>1. (j + 1) \div 10 \in 0 .. n /\ (j + 1) \div 10 <= j
      BY <2>3, TenthIsLess, SMT
    <3>2. f[(j + 1) \div 10] = g[(j + 1) \div 10]
      BY <1>2, <3>1
    <3> QED
      BY <1>0, <2>1, <2>3, <3>2
  <2> QED
    BY <2>2, <2>3
<1> HIDE DEF S
<1>3. Nat \subseteq S
  BY <1>1, <1>2, Induct
<1> QED
  BY <1>3, SMT DEF S

LEMMA DecimalDef ==
  \A n \in Nat : Decimal[n] = IF n < 10 THEN <<48 + n>> ELSE Append(Decimal[n \div 10], 48 + (n % 10))
<1> DEFINE part(n) == CHOOSE f : DecimalUpTo(f, n)
           d == [n \in Nat |-> part(n)[n]]
<1>1. \A n \in Nat : DecimalUpTo(part(n), n)
  BY DecimalPart
<1> HIDE DEF part
<1>2. ASSUME NEW n \in Nat PROVE d[n] = IF n < 10 THEN <<48 + n>> ELSE Append(d[n \div 10], 48 + (n % 10))
  <2>1. part(n)[n] = IF n < 10 THEN <<48 + n>> ELSE Append(part(n)[n \div 10], 48 + (n % 10))
    <3>1. n \in 0 .. n
      BY SMT
    <3> QED
      BY <1>1, <3>1 DEF DecimalUpTo
  <2>2. CASE ~(n < 10)
    <3>1. n \div 10 \in Nat /\ n \div 10 <= n /\ n \div 10 \in 0 .. n \div 10
      BY <2>2, TenthIsLess, SMT
    <3>2. part(n \div 10)[n \div 10] = part(n)[n \div 10]
      BY <1>1, <3>1, DecimalAgree
    <3> QED
      BY <2>1, <2>2, <3>1, <3>2
  <2> QED
    BY <2>1, <2>2
<1>3. d = [n \in Nat |-> IF n < 10 THEN <<48 + n>> ELSE Append(d[n \div 10], 48 + (n % 10))]
  <2>1. d = [n \in Nat |-> d[n]]
    OBVIOUS
  <2> HIDE DEF d
  <2> QED
    BY <1>2, <2>1
<1> HIDE DEF d
<1>4. Decimal = [n \in Nat |-> IF n < 10 THEN <<48 + n>> ELSE Append(Decimal[n \div 10], 48 + (n % 10))]
  BY <1>3 DEF Decimal
<1> QED
  BY <1>4


-----------------------------------------------------------------------------
(* Value exists, digit by digit.                                           *)
SumsUpTo(d, u, n) == u = [i \in 0 .. n |-> IF i = 0 THEN 0 ELSE 10 * u[i - 1] + d[i] - 48]

LEMMA SumsOf ==
  ASSUME NEW d, NEW u, NEW n \in Nat, SumsUpTo(d, u, n)
  PROVE  u[0] = 0 /\ \A i \in 0 .. n : i # 0 => u[i] = 10 * u[i - 1] + d[i] - 48
<1>1. 0 \in 0 .. n
  BY SMT
<1> QED
  BY <1>1 DEF SumsUpTo

LEMMA SumsExist ==
  ASSUME NEW d \in Seq(Int)
  PROVE  \A n \in Nat : n <= Len(d) => \E u : SumsUpTo(d, u, n) /\ u \in [0 .. n -> Int]
<1> DEFINE S == {n \in Nat : n <= Len(d) => \E u : SumsUpTo(d, u, n) /\ u \in [0 .. n -> Int]}
<1>1. 0 \in S
  <2> DEFINE u == [i \in 0 .. 0 |-> 0]
  <2>1. SumsUpTo(d, u, 0) /\ u \in [0 .. 0 -> Int]
    BY SMT DEF SumsUpTo
  <2> QED
    BY <2>1, SMT
<1>2. ASSUME NEW n \in Nat, n \in S PROVE n + 1 \in S
  <2> SUFFICES ASSUME n + 1 <= Len(d) PROVE \E g : SumsUpTo(d, g, n + 1) /\ g \in [0 .. n + 1 -> Int]
    BY SMT
  <2>1. PICK u : SumsUpTo(d, u, n) /\ u \in [0 .. n -> Int]
    BY <1>2, SMT
  <2>2. d[n + 1] \in Int /\ u[n] \in Int
    BY <2>1, SMT
  <2> DEFINE g == [i \in 0 .. n + 1 |-> IF i = n + 1 THEN 10 * u[n] + d[n + 1] - 48 ELSE u[i]]
  <2>3. g \in [0 .. n + 1 -> Int]
    BY <2>1, <2>2, SMT
  <2>4. (\A i \in 0 .. n : g[i] = u[i]) /\ g[n + 1] = 10 * u[n] + d[n + 1] - 48
    BY SMT
  <2>5. g = [i \in 0 .. n + 1 |-> g[i]]
    OBVIOUS
  <2> HIDE DEF g
  <2>6. u[0] = 0 /\ \A i \in 0 .. n : i # 0 => u[i] = 10 * u[i - 1] + d[i] - 48
    BY <2>1, SumsOf
  <2>7. ASSUME NEW i \in 0 .. n + 1 PROVE g[i] = IF i = 0 THEN 0 ELSE 10 * g[i - 1] + d[i] - 48
    <3>1. CASE i = 0
      BY <2>4, <2>6, <3>1, SMT
    <3>2. CASE i = n + 1
      <4>1. i # 0 /\ i - 1 = n /\ n \in 0 .. n
        BY <3>2, SMT
      <4> QED
        BY <2>4, <3>2, <4>1
    <3>3. CASE i \in 1 .. n
      <4>1. i # 0 /\ i \in 0 .. n /\ i - 1 \in 0 .. n
        BY <3>3, SMT
      <4> QED
        BY <2>4, <2>6, <4>1
    <3> QED
      BY <3>1, <3>2, <3>3, SMT
  <2>8. SumsUpTo(d, g, n + 1)
    BY <2>5, <2>7 DEF SumsUpTo
  <2> QED
    BY <2>3, <2>8
<1> HIDE DEF S
<1>3. Nat \subseteq S
  BY <1>1, <1>2, Induct
<1> QED
  BY <1>3 DEF S

SameDigits(d, e, n) == \A i \in 1 .. n : d[i] = e[i]

LEMMA SumsAgree ==
  ASSUME NEW d, NEW e, NEW u, NEW v, NEW n \in Nat, NEW m \in Nat, n <= m, SumsUpTo(d, u, n), SumsUpTo(e, v, m),
         SameDigits(d, e, n)
  PROVE  u[n] = v[n]
<1> DEFINE S == {i \in Nat : i <= n => u[i] = v[i]}
<1>0. /\ u[0] = 0 /\ (\A i \in 0 .. n : i # 0 => u[i] = 10 * u[i - 1] + d[i] - 48)
      /\ v[0] = 0 /\ (\A i \in 0 .. m : i # 0 => v[i] = 10 * v[i - 1] + e[i] - 48)
  BY SumsOf
<1>1. 0 \in S
  BY <1>0, SMT
<1>2. ASSUME NEW i \in Nat, i \in S PROVE i + 1 \in S
  <2> SUFFICES ASSUME i + 1 <= n PROVE u[i + 1] = v[i + 1]
    BY SMT
  <2>1. i + 1 \in 0 .. n /\ i + 1 \in 0 .. m /\ i + 1 \in 1 .. n /\ i + 1 # 0 /\ (i + 1) - 1 = i /\ i <= n
    BY SMT
  <2> QED
    BY <1>0, <1>2, <2>1 DEF SameDigits
<1> HIDE DEF S
<1>3. Nat \subseteq S
  BY <1>1, <1>2, Induct
<1>4. n \in S /\ n <= n
  BY <1>3, SMT
<1> QED
  BY <1>4 DEF S

LEMMA ValueSum == ASSUME NEW d \in Seq(Int) PROVE \E u : SumsUpTo(d, u, Len(d)) /\ u \in [0 .. Len(d) -> Int] /\ Value(d) = u[Len(d)]
<1> DEFINE w == CHOOSE u : u = [i \in 0 .. Len(d) |-> IF i = 0 THEN 0 ELSE 10 * u[i - 1] + d[i] - 48]
<1>1. Len(d) \in Nat /\ Len(d) <= Len(d)
  BY SMT
<1>2. PICK u : SumsUpTo(d, u, Len(d)) /\ u \in [0 .. Len(d) -> Int]
  BY <1>1, SumsExist
<1>3. SumsUpTo(d, w, Len(d))
  BY <1>2 DEF SumsUpTo
<1>4. Value(d) = w[Len(d)]
  BY DEF Value
<1> HIDE DEF w
<1>5. w[Len(d)] = u[Len(d)]
  <2>1. SameDigits(d, d, Len(d))
    BY DEF SameDigits
  <2> QED
    BY <1>1, <1>2, <1>3, <2>1, SumsAgree, SMT
<1> QED
  BY <1>2, <1>4, <1>5

LEMMA ValueAppend ==
  ASSUME NEW d \in Seq(Int), NEW c \in Int
  PROVE  Value(d) \in Int /\ Value(Append(d, c)) = 10 * Value(d) + c - 48
<1>1. /\ Append(d, c) \in Seq(Int) /\ Len(Append(d, c)) = Len(d) + 1 /\ Append(d, c)[Len(d) + 1] = c
      /\ Len(d) \in Nat /\ \A i \in 1 .. Len(d) : d[i] = Append(d, c)[i]
  BY SMT
<1>2. PICK u : SumsUpTo(d, u, Len(d)) /\ u \in [0 .. Len(d) -> Int] /\ Value(d) = u[Len(d)]
  BY ValueSum
<1>3. PICK v : SumsUpTo(Append(d, c), v, Len(d) + 1) /\ Value(Append(d, c)) = v[Len(d) + 1]
  BY <1>1, ValueSum
<1>4. Len(d) + 1 \in Nat /\ Len(d) <= Len(d) + 1 /\ Len(d) + 1 \in 0 .. Len(d) + 1 /\ Len(d) + 1 # 0
      /\ (Len(d) + 1) - 1 = Len(d) /\ Len(d) \in 0 .. Len(d)
  BY <1>1, SMT
<1>5. u[Len(d)] = v[Len(d)]
  <2> DEFINE e == Append(d, c)
             n == Len(d)
             k == Len(d) + 1
  <2>1. /\ n \in Nat /\ k \in Nat /\ n <= k /\ SumsUpTo(d, u, n) /\ SumsUpTo(e, v, k)
        /\ SameDigits(d, e, n)
    BY <1>1, <1>2, <1>3, <1>4 DEF SameDigits
  <2> HIDE DEF e, n, k
  <2>2. u[n] = v[n]
    BY <2>1, SumsAgree, SMT
  <2> QED
    BY <2>2 DEF n
<1>6. v[Len(d) + 1] = 10 * v[(Len(d) + 1) - 1] + Append(d, c)[Len(d) + 1] - 48
  BY <1>3, <1>4, SumsOf
<1> QED
  BY <1>1, <1>2, <1>3, <1>4, <1>5, <1>6

\* Digits of a tier, as MatchTier wants them.
TierDigits(d) == d \in Seq(Nat) /\ Len(d) >= 1 /\ d[1] # 48 /\ \A i \in 1 .. Len(d) : d[i] \in Digits

LEMMA ValueOfTier == ASSUME NEW d, TierDigits(d) PROVE Value(d) \in Nat \ {0}
<1>0. d \in Seq(Int) /\ Len(d) \in Nat
  BY SMT DEF TierDigits
<1>1. PICK u : SumsUpTo(d, u, Len(d)) /\ u \in [0 .. Len(d) -> Int] /\ Value(d) = u[Len(d)]
  BY <1>0, ValueSum
<1>2. u[0] = 0 /\ \A i \in 0 .. Len(d) : i # 0 => u[i] = 10 * u[i - 1] + d[i] - 48
  BY <1>0, <1>1, SumsOf
<1> DEFINE S == {i \in Nat : i + 1 <= Len(d) => u[i + 1] \in Nat /\ u[i + 1] >= 1}
<1>3. 0 \in S
  <2>1. 1 \in 0 .. Len(d) /\ d[1] \in Digits /\ d[1] # 48
    BY SMT DEF TierDigits
  <2>2. u[1] = 10 * u[1 - 1] + d[1] - 48
    BY <1>2, <2>1, SMT
  <2> QED
    BY <1>2, <2>1, <2>2, SMT DEF Digits
<1>4. ASSUME NEW i \in Nat, i \in S PROVE i + 1 \in S
  <2> SUFFICES ASSUME i + 1 + 1 <= Len(d) PROVE u[i + 1 + 1] \in Nat /\ u[i + 1 + 1] >= 1
    BY SMT
  <2>1. u[i + 1] \in Nat /\ u[i + 1] >= 1 /\ i + 1 + 1 \in 0 .. Len(d) /\ i + 1 + 1 # 0 /\ (i + 1 + 1) - 1 = i + 1
    BY <1>0, <1>4, SMT
  <2>2. d[i + 1 + 1] \in Digits
    BY <2>1, SMT DEF TierDigits
  <2>3. u[i + 1 + 1] = 10 * u[i + 1] + d[i + 1 + 1] - 48
    BY <1>2, <2>1
  <2>4. d[i + 1 + 1] \in Nat /\ d[i + 1 + 1] >= 48
    BY <2>2, SMT DEF Digits
  <2> QED
    BY <2>1, <2>3, <2>4, SMT
<1> HIDE DEF S
<1>5. Nat \subseteq S
  BY <1>3, <1>4, Induct
<1>6. Len(d) - 1 \in Nat /\ (Len(d) - 1) + 1 = Len(d) /\ Len(d) <= Len(d)
  BY <1>0, SMT DEF TierDigits
<1>7. Len(d) - 1 \in S
  BY <1>5, <1>6
<1>8. u[Len(d)] \in Nat /\ u[Len(d)] >= 1
  BY <1>6, <1>7 DEF S
<1> QED
  BY <1>1, <1>8, SMT

(* Atoi after Itoa.                                                        *)
LEMMA DecimalOfTier == \A n \in Nat \ {0} : TierDigits(Decimal[n]) /\ Value(Decimal[n]) = n
<1> DEFINE Good(n) == TierDigits(Decimal[n]) /\ Value(Decimal[n]) = n
           S == {k \in Nat : \A n \in 1 .. k : Good(n)}
<1>1. 0 \in S
  BY SMT
<1>2. ASSUME NEW k \in Nat, k \in S PROVE k + 1 \in S
  <2> DEFINE n == k + 1
  <2>0. n \in Nat /\ n >= 1 /\ \A j \in 1 .. n : j \in 1 .. k \/ j = n
    BY SMT
  <2> SUFFICES Good(n)
    BY <1>2, <2>0
  <2>1. CASE n < 10
    <3>1. Decimal[n] = <<48 + n>>
      BY <2>0, <2>1, DecimalDef
    <3>2. <<48 + n>> = Append(<< >>, 48 + n) /\ << >> \in Seq(Int) /\ 48 + n \in Int
      BY <2>0, SMT
    <3>3. Value(<< >>) = 0
      <4>1. PICK u : SumsUpTo(<< >>, u, Len(<< >>)) /\ Value(<< >>) = u[Len(<< >>)]
        BY <3>2, ValueSum
      <4>2. Len(<< >>) = 0 /\ 0 \in Nat
        BY SMT
      <4> QED
        BY <4>1, <4>2, SumsOf
    <3>4. Value(<<48 + n>>) = 10 * 0 + (48 + n) - 48
      BY <3>2, <3>3, ValueAppend
    <3>5. TierDigits(<<48 + n>>)
      BY <2>0, <2>1, SMT DEF TierDigits, Digits
    <3> QED
      BY <2>0, <3>1, <3>4, <3>5, SMT
  <2>2. CASE ~(n < 10)
    <3> DEFINE q == n \div 10
               r == n % 10
               d == Decimal[q]
    <3>1. q \in 1 .. k /\ r \in 0 .. 9 /\ n = 10 * q + r
      BY <2>0, <2>2, SMT
    <3>2. TierDigits(d) /\ Value(d) = q
      BY <1>2, <3>1
    <3>3. Decimal[n] = Append(d, 48 + r)
      BY <2>0, <2>2, DecimalDef
    <3> HIDE DEF d, q, r
    <3>4. d \in Seq(Int) /\ 48 + r \in Int
      BY <3>1, <3>2, SMT DEF TierDigits
    <3>5. Value(Decimal[n]) = 10 * q + (48 + r) - 48
      BY <3>2, <3>3, <3>4, ValueAppend
    <3>6. TierDigits(Append(d, 48 + r))
      BY <3>1, <3>2, SMT DEF TierDigits, Digits
    <3> QED
      BY <2>0, <3>1, <3>3, <3>5, <3>6, SMT
  <2> QED
    BY <2>1, <2>2
<1> HIDE DEF S, Good
<1>3. Nat \subseteq S
  BY <1>1, <1>2, Induct
<1>4. \A n \in Nat \ {0} : n \in 1 .. n
  BY SMT
<1> QED
  BY <1>3, <1>4 DEF S, Good


-----------------------------------------------------------------------------
(* Keys, character by character.                                           *)
Template == [prefix : Seq(Nat), suffix : Seq(Nat)]

\* text is the prefix, m digits of a tier, and the first s characters of the suffix.
Partial(t, text, m, s) ==
  /\ text \in Seq(Nat) /\ m \in Nat \ {0} /\ s \in 0 .. Len(t.suffix)
  /\ Len(text) = Len(t.prefix) + m + s
  /\ \A i \in 1 .. Len(t.prefix) : text[i] = t.prefix[i]
  /\ text[Len(t.prefix) + 1] # 48
  /\ \A i \in 1 .. m : text[Len(t.prefix) + i] \in Digits
  /\ \A i \in 1 .. s : text[Len(t.prefix) + m + i] = t.suffix[i]

IsKey(t, key) == \E m : Partial(t, key, m, Len(t.suffix))

\* What MatchTier takes for the tier.
DigitsOf(t, key) == SubSeq(key, Len(t.prefix) + 1, Len(key) - Len(t.suffix))

LEMMA Joined2 ==
  ASSUME NEW S, NEW a \in Seq(S), NEW b \in Seq(S)
  PROVE  /\ a \o b \in Seq(S) /\ Len(a \o b) = Len(a) + Len(b)
         /\ \A i \in 1 .. Len(a) : (a \o b)[i] = a[i]
         /\ \A i \in 1 .. Len(b) : (a \o b)[Len(a) + i] = b[i]
<1> DEFINE v == a \o b
<1>1. Len(a) \in Nat /\ Len(b) \in Nat
  BY LenProperties
<1>2. /\ v \in Seq(S) /\ Len(v) = Len(a) + Len(b)
      /\ \A i \in 1 .. Len(a) + Len(b) : v[i] = IF i <= Len(a) THEN a[i] ELSE b[i - Len(a)]
  BY ConcatProperties
<1> HIDE DEF v
<1>3. \A i \in 1 .. Len(a) : i \in 1 .. Len(a) + Len(b) /\ i <= Len(a)
  BY <1>1, SMT
<1>4. \A i \in 1 .. Len(b) : Len(a) + i \in 1 .. Len(a) + Len(b) /\ ~(Len(a) + i <= Len(a)) /\ (Len(a) + i) - Len(a) = i
  BY <1>1, SMT
<1>5. \A i \in 1 .. Len(a) : v[i] = a[i]
  BY <1>2, <1>3
<1>6. \A i \in 1 .. Len(b) : v[Len(a) + i] = b[i]
  BY <1>2, <1>4
<1> QED
  BY <1>2, <1>5, <1>6 DEF v

LEMMA Joined3 ==
  ASSUME NEW a \in Seq(Nat), NEW b \in Seq(Nat), NEW c \in Seq(Nat)
  PROVE  LET w == a \o b \o c
         IN /\ w \in Seq(Nat) /\ Len(w) = Len(a) + Len(b) + Len(c)
            /\ \A i \in 1 .. Len(a) : w[i] = a[i]
            /\ \A i \in 1 .. Len(b) : w[Len(a) + i] = b[i]
            /\ \A i \in 1 .. Len(c) : w[Len(a) + Len(b) + i] = c[i]
<1> DEFINE v == a \o b
           w == v \o c
<1>1. /\ v \in Seq(Nat) /\ Len(v) = Len(a) + Len(b) /\ (\A i \in 1 .. Len(a) : v[i] = a[i])
      /\ \A i \in 1 .. Len(b) : v[Len(a) + i] = b[i]
  BY Joined2, SMT
<1> HIDE DEF v
<1>2. /\ w \in Seq(Nat) /\ Len(w) = Len(v) + Len(c) /\ (\A i \in 1 .. Len(v) : w[i] = v[i])
      /\ \A i \in 1 .. Len(c) : w[Len(v) + i] = c[i]
  <2>1. v \in Seq(Nat)
    BY <1>1
  <2> QED
    BY <2>1, Joined2, SMT
<1> HIDE DEF w
<1>0. /\ \A i \in 1 .. Len(a) : i \in 1 .. Len(v)
      /\ \A i \in 1 .. Len(b) : Len(a) + i \in 1 .. Len(v)
  <2>1. Len(a) \in Nat /\ Len(b) \in Nat
    BY LenProperties
  <2> QED
    BY <1>1, <2>1, SMT
<1>3. \A i \in 1 .. Len(a) : w[i] = a[i]
  BY <1>0, <1>1, <1>2
<1>4. \A i \in 1 .. Len(b) : w[Len(a) + i] = b[i]
  BY <1>0, <1>1, <1>2
<1>5. w \in Seq(Nat) /\ Len(w) = Len(a) + Len(b) + Len(c) /\ \A i \in 1 .. Len(c) : w[Len(a) + Len(b) + i] = c[i]
  BY <1>1, <1>2
<1> QED
  BY <1>3, <1>4, <1>5 DEF v, w

LEMMA JoinedIsPartial ==
  ASSUME NEW t \in Template, NEW d, TierDigits(d)
  PROVE  Partial(t, t.prefix \o d \o t.suffix, Len(d), Len(t.suffix))
<1> DEFINE p == t.prefix
           s == t.suffix
           w == p \o d \o s
<1>1. p \in Seq(Nat) /\ s \in Seq(Nat) /\ d \in Seq(Nat)
  BY SMT DEF Template, TierDigits
<1> HIDE DEF p, s
<1>2. /\ w \in Seq(Nat) /\ Len(w) = Len(p) + Len(d) + Len(s)
      /\ \A i \in 1 .. Len(p) : w[i] = p[i]
      /\ \A i \in 1 .. Len(d) : w[Len(p) + i] = d[i]
      /\ \A i \in 1 .. Len(s) : w[Len(p) + Len(d) + i] = s[i]
  BY <1>1, Joined3
<1> HIDE DEF w
<1>3. Len(d) \in Nat \ {0} /\ Len(s) \in 0 .. Len(s) /\ 1 \in 1 .. Len(d) /\ d[1] # 48
  BY <1>1, SMT DEF TierDigits
<1>4. w[Len(p) + 1] # 48 /\ \A i \in 1 .. Len(d) : w[Len(p) + i] \in Digits
  BY <1>2, <1>3 DEF TierDigits
<1>5. Partial(t, w, Len(d), Len(t.suffix))
  BY <1>2, <1>3, <1>4 DEF Partial, p, s
<1> QED
  BY <1>5 DEF w, p, s

LEMMA PartialDigits ==
  ASSUME NEW t \in Template, NEW key, NEW m, Partial(t, key, m, Len(t.suffix))
  PROVE  /\ TierDigits(DigitsOf(t, key)) /\ key = t.prefix \o DigitsOf(t, key) \o t.suffix
         /\ MatchTier(t, key) = Value(DigitsOf(t, key))
<1> DEFINE p == t.prefix
           s == t.suffix
           d == DigitsOf(t, key)
           w == p \o d \o s
<1>1. /\ p \in Seq(Nat) /\ s \in Seq(Nat) /\ key \in Seq(Nat) /\ m \in Nat \ {0} /\ Len(key) = Len(p) + m + Len(s)
      /\ Len(p) \in Nat /\ Len(s) \in Nat
  BY SMT DEF Template, Partial
<1>2. /\ \A i \in 1 .. Len(p) : key[i] = p[i]
      /\ key[Len(p) + 1] # 48
      /\ \A i \in 1 .. m : key[Len(p) + i] \in Digits
      /\ \A i \in 1 .. Len(s) : key[Len(p) + m + i] = s[i]
  BY DEF Partial
<1>0. d = SubSeq(key, Len(p) + 1, Len(key) - Len(s))
  BY DEF DigitsOf
<1> HIDE DEF p, s, d
<1>3. Len(key) - Len(s) = Len(p) + m
  BY <1>1, SMT
<1>4. d \in Seq(Nat) /\ Len(d) = m /\ \A i \in 1 .. m : d[i] = key[Len(p) + i]
  <2> DEFINE a == Len(p) + 1
             b == Len(p) + m
  <2>1. /\ a \in Int /\ b \in Int /\ a <= b /\ b - a + 1 = m /\ (\A i \in a .. b : i \in 1 .. Len(key))
        /\ \A i \in 1 .. m : a + i - 1 = Len(p) + i
    BY <1>1, SMT
  <2>2. \A i \in a .. b : key[i] \in Nat
    BY <1>1, <2>1, ElementOfSeq
  <2>3. d = SubSeq(key, a, b)
    BY <1>0, <1>3
  <2> HIDE DEF a, b
  <2>4. /\ d \in Seq(Nat) /\ Len(d) = (IF a <= b THEN b - a + 1 ELSE 0)
        /\ \A i \in 1 .. b - a + 1 : d[i] = key[a + i - 1]
    BY <2>1, <2>2, <2>3, SubSeqProperties, SMT
  <2> QED
    BY <2>1, <2>4
<1>5. TierDigits(d)
  <2>1. m >= 1 /\ 1 \in 1 .. m
    BY <1>1, SMT
  <2> QED
    BY <1>2, <1>4, <2>1 DEF TierDigits
<1>6. /\ w \in Seq(Nat) /\ Len(w) = Len(p) + Len(d) + Len(s)
      /\ \A i \in 1 .. Len(p) : w[i] = p[i]
      /\ \A i \in 1 .. Len(d) : w[Len(p) + i] = d[i]
      /\ \A i \in 1 .. Len(s) : w[Len(p) + Len(d) + i] = s[i]
  BY <1>1, <1>4, Joined3
<1> HIDE DEF w
<1>7. ASSUME NEW i \in 1 .. Len(key) PROVE w[i] = key[i]
  <2>1. CASE i \in 1 .. Len(p)
    BY <1>2, <1>6, <2>1
  <2>2. CASE i - Len(p) \in 1 .. m
    <3>1. i = Len(p) + (i - Len(p))
      BY <1>1, SMT
    <3> QED
      BY <1>4, <1>6, <2>2, <3>1
  <2>3. CASE i - Len(p) - m \in 1 .. Len(s)
    <3> DEFINE k == i - Len(p) - m
    <3>1. i = Len(p) + m + k
      BY <1>1, SMT
    <3>2. k \in 1 .. Len(s)
      BY <2>3
    <3> HIDE DEF k
    <3>3. key[Len(p) + m + k] = s[k]
      BY <1>2, <3>2
    <3>4. w[Len(p) + m + k] = s[k]
      BY <1>4, <1>6, <3>2
    <3> QED
      BY <3>1, <3>3, <3>4
  <2> QED
    BY <1>1, <2>1, <2>2, <2>3, SMT
<1>8. w = key
  <2>1. Len(w) = Len(key)
    BY <1>1, <1>4, <1>6
  <2> QED
    BY <1>1, <1>6, <1>7, <2>1, SeqEqual
<1>9. d # << >> /\ d[1] # 48 /\ \A i \in DOMAIN d : d[i] \in Digits
  BY <1>5, SMT DEF TierDigits
<1>10. MatchTier(t, key) = Value(d)
  BY <1>0, <1>8, <1>9 DEF MatchTier, w, p, s
<1> QED
  BY <1>5, <1>8, <1>10 DEF w, p, s, d

(* MatchTier accepts the keys, and nothing else.                           *)
LEMMA KeyMatches == ASSUME NEW t \in Template, NEW key, IsKey(t, key) PROVE MatchTier(t, key) \in Nat \ {0}
<1>1. PICK m : Partial(t, key, m, Len(t.suffix))
  BY DEF IsKey
<1>2. TierDigits(DigitsOf(t, key)) /\ MatchTier(t, key) = Value(DigitsOf(t, key))
  BY <1>1, PartialDigits
<1> QED
  BY <1>2, ValueOfTier

LEMMA MatchIsKey ==
  ASSUME NEW t \in Template, NEW key \in Seq(Nat), MatchTier(t, key) # 0 PROVE IsKey(t, key)
<1> DEFINE d == DigitsOf(t, key)
<1>1. /\ d # << >> /\ d[1] # 48 /\ (\A i \in DOMAIN d : d[i] \in Digits)
      /\ key = t.prefix \o d \o t.suffix
  BY DEF MatchTier, DigitsOf
<1>2. Len(t.prefix) \in Nat /\ Len(t.suffix) \in Nat
  BY SMT DEF Template
<1>3. d \in Seq(Nat)
  BY <1>2, SMT DEF DigitsOf
<1> HIDE DEF d
<1>4. TierDigits(d)
  BY <1>1, <1>3, SMT DEF TierDigits
<1>5. Partial(t, key, Len(d), Len(t.suffix))
  BY <1>1, <1>4, JoinedIsPartial
<1> QED
  BY <1>5 DEF IsKey

LEMMA RenderReadBack ==
  ASSUME NEW t \in Template, NEW n \in Nat \ {0}
  PROVE  IsKey(t, Render(t, n)) /\ MatchTier(t, Render(t, n)) = n
<1> DEFINE key == Render(t, n)
<1>0. key = t.prefix \o Decimal[n] \o t.suffix
  BY DEF Render
<1>1. TierDigits(Decimal[n]) /\ Value(Decimal[n]) = n
  BY DecimalOfTier
<1>2. Partial(t, key, Len(Decimal[n]), Len(t.suffix))
  BY <1>0, <1>1, JoinedIsPartial
<1> HIDE DEF key
<1>3. MatchTier(t, key) = Value(DigitsOf(t, key))
  BY <1>2, PartialDigits
<1>4. DigitsOf(t, key) = Decimal[n]
  <2> DEFINE d == Decimal[n]
             e == DigitsOf(t, key)
  <2>1. d \in Seq(Nat) /\ t.prefix \in Seq(Nat) /\ t.suffix \in Seq(Nat)
    BY <1>1, SMT DEF TierDigits, Template
  <2>2. TierDigits(e) /\ key = t.prefix \o e \o t.suffix
    BY <1>2, PartialDigits
  <2> HIDE DEF d, e
  <2>3. e \in Seq(Nat)
    BY <2>2 DEF TierDigits
  <2> DEFINE p == t.prefix
             f == t.suffix
  <2>0. p \in Seq(Nat) /\ f \in Seq(Nat) /\ key = p \o d \o f /\ key = p \o e \o f
    BY <1>0, <2>1, <2>2 DEF d
  <2> HIDE DEF p, f
  <2>4. /\ Len(key) = Len(p) + Len(d) + Len(f)
        /\ \A i \in 1 .. Len(d) : key[Len(p) + i] = d[i]
    <3>1. d \in Seq(Nat) /\ p \in Seq(Nat) /\ f \in Seq(Nat) /\ key = p \o d \o f
      BY <2>0, <2>1
    <3> QED
      BY <3>1, Joined3, SMT
  <2>5. /\ Len(key) = Len(p) + Len(e) + Len(f)
        /\ \A i \in 1 .. Len(e) : key[Len(p) + i] = e[i]
    BY <2>0, <2>3, Joined3, SMT
  <2>6. Len(d) = Len(e)
    <3>1. Len(d) \in Nat /\ Len(e) \in Nat /\ Len(p) \in Nat /\ Len(f) \in Nat
      BY <2>0, <2>1, <2>3, LenProperties
    <3>2. Len(p) + Len(d) + Len(f) = Len(p) + Len(e) + Len(f)
      BY <2>4, <2>5
    <3> QED
      BY <3>1, <3>2, SMT
  <2>7. d = e
    BY <2>1, <2>3, <2>4, <2>5, <2>6, SeqEqual
  <2> QED
    BY <2>7 DEF d, e
<1> QED
  BY <1>1, <1>2, <1>3, <1>4 DEF IsKey, key


-----------------------------------------------------------------------------
(* InOrder lists a finite set of pairs whose last characters differ.       *)
LEMMA InOrderLists ==
  ASSUME NEW pairs, IsFiniteSet(pairs), \A p \in pairs : LastChar(p) \in Nat,
         \A p, q \in pairs : LastChar(p) = LastChar(q) => p = q
  PROVE  /\ InOrder(pairs) \in Seq(pairs)
         /\ \A p \in pairs : \E i \in 1 .. Len(InOrder(pairs)) : InOrder(pairs)[i] = p
<1> DEFINE n == Cardinality(pairs)
           rank == [p \in pairs |-> Cardinality(Earlier(pairs, p))]
<1>1. n \in Nat
  BY FS_CardinalityType
<1>2. ASSUME NEW p \in pairs PROVE Cardinality(Earlier(pairs, p)) \in 0 .. n - 1
  <2>1. Earlier(pairs, p) \in SUBSET pairs
    BY DEF Earlier
  <2>2. p \notin Earlier(pairs, p)
    BY SMT DEF Earlier
  <2>3. Cardinality(Earlier(pairs, p)) \in Nat /\ Cardinality(Earlier(pairs, p)) <= n /\ Cardinality(Earlier(pairs, p)) # n
    BY <2>1, <2>2, FS_Subset, FS_CardinalityType
  <2> HIDE DEF n
  <2> QED
    BY <1>1, <2>3, SMT
<1>3. ASSUME NEW p \in pairs, NEW q \in pairs, LastChar(p) < LastChar(q)
      PROVE  Cardinality(Earlier(pairs, p)) # Cardinality(Earlier(pairs, q))
  <2>1. Earlier(pairs, q) \in SUBSET pairs /\ p \in Earlier(pairs, q)
    BY <1>3 DEF Earlier
  <2>2. p \notin Earlier(pairs, p)
    BY SMT DEF Earlier
  <2>3. Earlier(pairs, p) \in SUBSET Earlier(pairs, q)
    BY <1>3, SMT DEF Earlier
  <2>4. IsFiniteSet(Earlier(pairs, q))
    BY <2>1, FS_Subset
  <2> QED
    BY <2>1, <2>2, <2>3, <2>4, FS_Subset
<1>4. \A p, q \in pairs : LastChar(p) = LastChar(q) \/ LastChar(p) < LastChar(q) \/ LastChar(q) < LastChar(p)
  BY SMT
<1>5. rank \in [pairs -> 0 .. n - 1]
  BY <1>2
<1>6. \A p, q \in pairs : Cardinality(Earlier(pairs, p)) = Cardinality(Earlier(pairs, q)) => p = q
  BY <1>3, <1>4
<1>7. rank \in Injection(pairs, 0 .. n - 1)
  BY <1>5, <1>6 DEF Injection, IsInjective
<1>8. IsFiniteSet(0 .. n - 1) /\ Cardinality(0 .. n - 1) = n
  <2> HIDE DEF n
  <2>1. 0 \in Int /\ n - 1 \in Int
    BY <1>1, SMT
  <2>2. IsFiniteSet(0 .. n - 1) /\ Cardinality(0 .. n - 1) = IF 0 > n - 1 THEN 0 ELSE (n - 1) - 0 + 1
    BY <2>1, FS_Interval
  <2>3. (IF 0 > n - 1 THEN 0 ELSE (n - 1) - 0 + 1) = n
    BY <1>1, SMT
  <2> QED
    BY <2>2, <2>3, SMT
<1>9. rank \in Surjection(pairs, 0 .. n - 1)
  <2> HIDE DEF rank
  <2> QED
    BY <1>7, <1>8, FS_Injection
<1>10. \A k \in 0 .. n - 1 : \E p \in pairs : Cardinality(Earlier(pairs, p)) = k
  BY <1>9 DEF Surjection
<1> DEFINE list == InOrder(pairs)
<1>11. list = [i \in 1 .. n |-> CHOOSE p \in pairs : Cardinality(Earlier(pairs, p)) = i - 1]
  BY DEF InOrder
<1> HIDE DEF list, n, rank
<1>12. ASSUME NEW i \in 1 .. n PROVE list[i] \in pairs /\ Cardinality(Earlier(pairs, list[i])) = i - 1
  <2>1. i - 1 \in 0 .. n - 1
    BY <1>1, SMT
  <2>2. list[i] = CHOOSE p \in pairs : Cardinality(Earlier(pairs, p)) = i - 1
    BY <1>11
  <2> QED
    BY <1>10, <2>1, <2>2
<1>13. list \in [1 .. n -> pairs]
  BY <1>11, <1>12
<1>14. list \in Seq(pairs) /\ Len(list) = n
  BY <1>1, <1>13, SMT
<1>15. ASSUME NEW p \in pairs PROVE \E i \in 1 .. n : list[i] = p
  <2> DEFINE i == Cardinality(Earlier(pairs, p)) + 1
  <2>1. i \in 1 .. n /\ i - 1 = Cardinality(Earlier(pairs, p))
    BY <1>1, <1>2, SMT
  <2> HIDE DEF i
  <2>2. list[i] \in pairs /\ Cardinality(Earlier(pairs, list[i])) = Cardinality(Earlier(pairs, p))
    BY <1>12, <2>1
  <2> QED
    BY <1>6, <2>1, <2>2
<1> QED
  BY <1>14, <1>15 DEF list

-----------------------------------------------------------------------------
(* The successors of a pair.                                               *)
Pair == [left : SUBSET Nat, right : SUBSET Nat, example : Seq(Nat)]

LEMMA RangeFinite == ASSUME NEW s \in Seq(Nat) PROVE IsFiniteSet(Range(s)) /\ Range(s) \subseteq Nat
<1>1. DOMAIN s = 1 .. Len(s) /\ Len(s) \in Nat /\ \A i \in 1 .. Len(s) : s[i] \in Nat
  BY SMT
<1>2. Range(s) = {s[i] : i \in 1 .. Len(s)}
  BY <1>1 DEF Range
<1>3. s = [i \in 1 .. Len(s) |-> s[i]]
  BY SMT
<1>4. s \in [1 .. Len(s) -> Range(s)]
  BY <1>2, <1>3
<1>5. s \in Surjection(1 .. Len(s), Range(s))
  BY <1>2, <1>4 DEF Surjection
<1>6. IsFiniteSet(1 .. Len(s))
  <2>1. 1 \in Int /\ Len(s) \in Int
    BY <1>1, SMT
  <2> QED
    BY <2>1, FS_Interval
<1> QED
  BY <1>1, <1>2, <1>5, <1>6, FS_Surjection

LEMMA AlphabetFinite ==
  ASSUME NEW l \in Template, NEW r \in Template
  PROVE  IsFiniteSet(LanguageAlphabet(l, r)) /\ LanguageAlphabet(l, r) \subseteq Nat
<1>1. l.prefix \in Seq(Nat) /\ l.suffix \in Seq(Nat) /\ r.prefix \in Seq(Nat) /\ r.suffix \in Seq(Nat)
  BY DEF Template
<1>2. /\ IsFiniteSet(Range(l.prefix)) /\ Range(l.prefix) \subseteq Nat
      /\ IsFiniteSet(Range(l.suffix)) /\ Range(l.suffix) \subseteq Nat
      /\ IsFiniteSet(Range(r.prefix)) /\ Range(r.prefix) \subseteq Nat
      /\ IsFiniteSet(Range(r.suffix)) /\ Range(r.suffix) \subseteq Nat
  BY <1>1, RangeFinite
<1>3. 48 \in Int /\ 57 \in Int /\ Digits \subseteq Nat
  BY SMT DEF Digits
<1>4. IsFiniteSet(Digits)
  BY <1>3, FS_Interval DEF Digits
<1>5. IsFiniteSet(Digits \cup Range(l.prefix))
  BY <1>2, <1>4, FS_Union
<1>6. IsFiniteSet(Digits \cup Range(l.prefix) \cup Range(l.suffix))
  BY <1>2, <1>5, FS_Union
<1>7. IsFiniteSet(Digits \cup Range(l.prefix) \cup Range(l.suffix) \cup Range(r.prefix))
  BY <1>2, <1>6, FS_Union
<1>8. IsFiniteSet(LanguageAlphabet(l, r))
  BY <1>2, <1>7, FS_Union DEF LanguageAlphabet
<1> QED
  BY <1>2, <1>3, <1>8 DEF LanguageAlphabet

LEMMA TransitionType ==
  ASSUME NEW t \in Template, NEW states \in SUBSET Nat, NEW c PROVE Transition(t, states, c) \in SUBSET Nat
<1>1. Len(t.prefix) \in Nat /\ Len(t.suffix) \in Nat
  BY SMT DEF Template
<1>2. DigitState(t) \in Nat /\ SuffixStart(t) \in Nat
  BY <1>1, SMT DEF DigitState, SuffixStart
<1>3. ASSUME NEW state \in states PROVE StepOf(t, state, c) \subseteq Nat
  <2>1. state + 1 \in Nat
    BY SMT
  <2> QED
    BY <1>2, <2>1 DEF StepOf
<1>4. UNION {StepOf(t, state, c) : state \in states} \subseteq Nat
  BY <1>3
<1> QED
  BY <1>2, <1>4 DEF Transition, Closure

LEMMA SuccessorFacts ==
  ASSUME NEW l \in Template, NEW r \in Template, NEW current \in Pair
  PROVE  /\ IsFiniteSet(Successors(l, r, current)) /\ Successors(l, r, current) \subseteq Pair
         /\ \A p \in Successors(l, r, current) : LastChar(p) \in Nat
         /\ \A p, q \in Successors(l, r, current) : LastChar(p) = LastChar(q) => p = q
<1> DEFINE chars == LanguageAlphabet(l, r)
           next == Successors(l, r, current)
           after == [c \in chars |-> After(l, r, current, c)]
<1>1. IsFiniteSet(chars) /\ chars \subseteq Nat
  BY AlphabetFinite
<1>2. next = {After(l, r, current, c) : c \in chars}
  BY DEF Successors
<1>3. current.left \in SUBSET Nat /\ current.right \in SUBSET Nat /\ current.example \in Seq(Nat)
  BY DEF Pair
<1> HIDE DEF chars, next
<1>4. after \in Surjection(chars, next)
  BY <1>2 DEF Surjection
<1>5. IsFiniteSet(next)
  <2> HIDE DEF after
  <2> QED
    BY <1>1, <1>4, FS_Surjection
<1>6. ASSUME NEW c \in chars PROVE After(l, r, current, c) \in Pair /\ LastChar(After(l, r, current, c)) = c
  <2>1. c \in Nat
    BY <1>1
  <2>2. Transition(l, current.left, c) \in SUBSET Nat /\ Transition(r, current.right, c) \in SUBSET Nat
    BY <1>3, TransitionType
  <2>3. Append(current.example, c) \in Seq(Nat) /\ Append(current.example, c)[Len(Append(current.example, c))] = c
    BY <1>3, <2>1, SMT
  <2>4. After(l, r, current, c).example = Append(current.example, c)
    BY DEF After
  <2> QED
    BY <2>2, <2>3, <2>4 DEF After, Pair, LastChar
<1>7. \A p \in next : p \in Pair /\ LastChar(p) \in Nat
  BY <1>1, <1>2, <1>6
<1>8. ASSUME NEW p \in next, NEW q \in next, LastChar(p) = LastChar(q) PROVE p = q
  <2>1. PICK c \in chars : p = After(l, r, current, c)
    BY <1>2
  <2>2. PICK d \in chars : q = After(l, r, current, d)
    BY <1>2
  <2>3. c = d
    BY <1>6, <1>8, <2>1, <2>2
  <2> QED
    BY <2>1, <2>2, <2>3
<1> QED
  BY <1>5, <1>7, <1>8 DEF next

\* The pairs that an iteration adds.
Fresh(next) == {p \in next : /\ p.left # {} /\ p.right # {} /\ Key(p) \notin reached
                             /\ \A q \in Earlier(next, p) : Key(q) # Key(p)}

(* The loop adds each new key once, and leaves none out.                   *)
LEMMA DiscoveredLists ==
  ASSUME NEW l \in Template, NEW r \in Template, NEW current \in Pair
  PROVE  LET next == Successors(l, r, current)
             found == Discovered(next)
         IN /\ found \in Seq(next)
            /\ \A p \in next : p.left # {} /\ p.right # {} =>
                 Key(p) \in reached \/ \E i \in 1 .. Len(found) : Key(found[i]) = Key(p)
<1> DEFINE next == Successors(l, r, current)
           fresh == Fresh(next)
           found == Discovered(next)
<1>1. /\ IsFiniteSet(next) /\ (\A p \in next : LastChar(p) \in Nat)
      /\ \A p, q \in next : LastChar(p) = LastChar(q) => p = q
  BY SuccessorFacts
<1>2. found = InOrder(fresh)
  BY DEF Discovered, Fresh
<1> HIDE DEF next
<1>3. fresh \in SUBSET next
  BY DEF Fresh
<1>4. \A p \in fresh : p \in next
  BY <1>3
<1> HIDE DEF fresh, found
<1>5. IsFiniteSet(fresh)
  BY <1>1, <1>3, FS_Subset
<1>6. found \in Seq(fresh) /\ \A p \in fresh : \E i \in 1 .. Len(found) : found[i] = p
  BY <1>1, <1>2, <1>4, <1>5, InOrderLists
<1>7. found \in Seq(next)
  BY <1>3, <1>6, SMT
<1>8. ASSUME NEW p \in next, p.left # {}, p.right # {}, Key(p) \notin reached
      PROVE  \E i \in 1 .. Len(found) : Key(found[i]) = Key(p)
  <2> DEFINE same == {q \in next : Key(q) = Key(p)}
             last == {LastChar(q) : q \in same}
  <2>0. p \in same /\ \A q \in same : LastChar(q) \in Nat
    BY <1>1
  <2> HIDE DEF same
  <2>1. last \in SUBSET Nat /\ last # {}
    BY <2>0
  <2>2. PICK x \in last : \A y \in last : x <= y
    BY <2>1, Least
  <2>3. PICK q \in same : LastChar(q) = x
    BY <2>2
  <2>4. \A s \in same : LastChar(q) <= LastChar(s)
    BY <2>2, <2>3
  <2>5. ASSUME NEW s \in Earlier(next, q) PROVE Key(s) # Key(q)
    <3>1. s \in next /\ LastChar(s) < LastChar(q) /\ LastChar(s) \in Nat /\ LastChar(q) \in Nat
      BY <1>1, <2>3 DEF Earlier, same
    <3>2. ~(LastChar(q) <= LastChar(s))
      BY <3>1, SMT
    <3> QED
      BY <2>3, <2>4, <3>1, <3>2 DEF same
  <2>6. q.left = p.left /\ q.right = p.right /\ Key(q) = Key(p)
    BY <2>3 DEF Key, same
  <2>7. q \in fresh
    BY <1>8, <2>3, <2>5, <2>6 DEF fresh, Fresh, same
  <2> QED
    BY <1>6, <2>6, <2>7
<1> QED
  BY <1>7, <1>8 DEF found, next


-----------------------------------------------------------------------------
(* The automata accept every key: where a key with m digits is after k     *)
(* characters.                                                             *)
Place(t, m, k) ==
  IF k <= Len(t.prefix) THEN k
  ELSE IF k < Len(t.prefix) + m THEN DigitState(t)
  ELSE k - (Len(t.prefix) + m) + SuffixStart(t)

LEMMA States ==
  ASSUME NEW t \in Template
  PROVE  /\ Len(t.prefix) \in Nat /\ Len(t.suffix) \in Nat
         /\ DigitState(t) = Len(t.prefix) + 1 /\ SuffixStart(t) = Len(t.prefix) + 2
         /\ AcceptState(t) = Len(t.prefix) + 2 + Len(t.suffix)
<1>1. Len(t.prefix) \in Nat /\ Len(t.suffix) \in Nat
  BY SMT DEF Template
<1> QED
  BY <1>1, SMT DEF DigitState, SuffixStart, AcceptState

LEMMA TransitionHas ==
  ASSUME NEW t, NEW states, NEW c, NEW state \in states, NEW q \in StepOf(t, state, c)
  PROVE  q \in Transition(t, states, c) /\ (q = DigitState(t) => SuffixStart(t) \in Transition(t, states, c))
<1>1. q \in UNION {StepOf(t, s, c) : s \in states}
  OBVIOUS
<1> QED
  BY <1>1 DEF Transition, Closure

LEMMA PlaceCases ==
  ASSUME NEW t \in Template, NEW m, NEW k
  PROVE  LET P == Len(t.prefix)
         IN /\ k <= P => Place(t, m, k) = k
            /\ ~(k <= P) /\ k < P + m => Place(t, m, k) = P + 1
            /\ ~(k <= P) /\ ~(k < P + m) => Place(t, m, k) = k - (P + m) + (P + 2)
<1>1. DigitState(t) = Len(t.prefix) + 1 /\ SuffixStart(t) = Len(t.prefix) + 2
  BY States
<1> QED
  BY <1>1 DEF Place

LEMMA PlaceStep ==
  ASSUME NEW t \in Template, NEW key, NEW m, Partial(t, key, m, Len(t.suffix)),
         NEW k \in Nat, k < Len(key), NEW states, Place(t, m, k) \in states
  PROVE  Place(t, m, k + 1) \in Transition(t, states, key[k + 1])
<1> DEFINE P == Len(t.prefix)
           S == Len(t.suffix)
           c == key[k + 1]
           new == Transition(t, states, c)
<1>1. P \in Nat /\ S \in Nat /\ DigitState(t) = P + 1 /\ SuffixStart(t) = P + 2 /\ AcceptState(t) = P + 2 + S
  BY States
<1>2. /\ m \in Nat \ {0} /\ Len(key) = P + m + S
      /\ \A i \in 1 .. P : key[i] = t.prefix[i]
      /\ key[P + 1] # 48
      /\ \A i \in 1 .. m : key[P + i] \in Digits
      /\ \A i \in 1 .. S : key[P + m + i] = t.suffix[i]
  BY DEF Partial
<1>3. /\ k <= P => Place(t, m, k) = k
      /\ ~(k <= P) /\ k < P + m => Place(t, m, k) = P + 1
      /\ ~(k <= P) /\ ~(k < P + m) => Place(t, m, k) = k - (P + m) + (P + 2)
  BY PlaceCases, SMT
<1>4. /\ k + 1 <= P => Place(t, m, k + 1) = k + 1
      /\ ~(k + 1 <= P) /\ k + 1 < P + m => Place(t, m, k + 1) = P + 1
      /\ ~(k + 1 <= P) /\ ~(k + 1 < P + m) => Place(t, m, k + 1) = (k + 1) - (P + m) + (P + 2)
  <2>1. k + 1 <= P => Place(t, m, k + 1) = k + 1
    BY DEF Place
  <2>2. ~(k + 1 <= P) /\ k + 1 < P + m => Place(t, m, k + 1) = P + 1
    BY <1>1 DEF Place
  <2>3. ~(k + 1 <= P) /\ ~(k + 1 < P + m) => Place(t, m, k + 1) = (k + 1) - (P + m) + (P + 2)
    BY <1>1 DEF Place
  <2> QED
    BY <2>1, <2>2, <2>3
<1>5. \A state \in states : \A q \in StepOf(t, state, c) : q \in new /\ (q = P + 1 => P + 2 \in new)
  BY <1>1, TransitionHas
<1>6. \A state :
        /\ state < P /\ t.prefix[state + 1] = c => state + 1 \in StepOf(t, state, c)
        /\ ~(state < P) /\ state = P /\ c \in Digits \ {48} => P + 1 \in StepOf(t, state, c)
        /\ ~(state < P) /\ state # P /\ state = P + 1 /\ c \in Digits => P + 1 \in StepOf(t, state, c)
        /\ ~(state < P) /\ state # P /\ state # P + 1 /\ state < P + 2 + S /\ t.suffix[state - (P + 2) + 1] = c =>
             state + 1 \in StepOf(t, state, c)
  BY <1>1 DEF StepOf
<1>0. P \in Nat /\ S \in Nat /\ m \in Nat \ {0} /\ k < P + m + S
  BY <1>1, <1>2
<1> HIDE DEF P, S, new
<1>7. CASE k < P
  <2>1. k <= P /\ k + 1 \in 1 .. P /\ k + 1 <= P
    BY <1>1, <1>7, SMT
  <2>2. t.prefix[k + 1] = c
    BY <1>2, <2>1
  <2>3. k + 1 \in StepOf(t, k, c) /\ k \in states
    BY <1>3, <1>6, <1>7, <2>1, <2>2
  <2>4. k + 1 \in new
    BY <1>5, <2>3
  <2> QED
    BY <1>4, <2>1, <2>4 DEF new
<1>8. CASE k = P
  <2>1. k <= P /\ ~(k < P) /\ ~(k + 1 <= P) /\ 1 \in 1 .. m /\ P + 1 = k + 1
        /\ (~(k + 1 < P + m) => (k + 1) - (P + m) + (P + 2) = P + 2)
    BY <1>0, <1>8, SMT
  <2>2. c \in Digits \ {48}
    BY <1>2, <2>1
  <2>3. P + 1 \in StepOf(t, k, c) /\ k \in states
    BY <1>3, <1>6, <1>8, <2>1, <2>2
  <2>4. P + 1 \in new /\ P + 2 \in new
    BY <1>5, <2>3
  <2> QED
    BY <1>4, <2>1, <2>4 DEF new
<1>9. CASE k > P /\ k < P + m
  <2>1. /\ ~(k <= P) /\ ~(P + 1 < P) /\ P + 1 # P /\ ~(k + 1 <= P) /\ k + 1 - P \in 1 .. m /\ P + (k + 1 - P) = k + 1
        /\ (~(k + 1 < P + m) => (k + 1) - (P + m) + (P + 2) = P + 2)
    BY <1>0, <1>9, SMT
  <2>2. c \in Digits
    BY <1>2, <2>1
  <2>3. P + 1 \in StepOf(t, P + 1, c) /\ P + 1 \in states
    BY <1>3, <1>6, <1>9, <2>1, <2>2
  <2>4. P + 1 \in new /\ P + 2 \in new
    BY <1>5, <2>3
  <2> QED
    BY <1>4, <2>1, <2>4 DEF new
<1>10. CASE k > P /\ ~(k < P + m)
  <2> DEFINE q == k - (P + m) + (P + 2)
  <2>1. /\ ~(k <= P) /\ ~(q < P) /\ q # P /\ q # P + 1 /\ ~(k + 1 <= P) /\ ~(k + 1 < P + m)
        /\ k - (P + m) + 1 \in 1 .. S /\ P + m + (k - (P + m) + 1) = k + 1 /\ q < P + 2 + S
        /\ q - (P + 2) + 1 = k - (P + m) + 1 /\ q + 1 = (k + 1) - (P + m) + (P + 2)
    BY <1>0, <1>10, SMT
  <2>0. q \in states
    BY <1>3, <1>10, <2>1
  <2> HIDE DEF q
  <2>2. t.suffix[q - (P + 2) + 1] = c
    BY <1>2, <2>1
  <2>3. q + 1 \in StepOf(t, q, c)
    BY <1>6, <2>1, <2>2
  <2>4. q + 1 \in new
    BY <1>5, <2>0, <2>3
  <2> QED
    BY <1>4, <2>1, <2>4 DEF new
<1> QED
  BY <1>1, <1>7, <1>8, <1>9, <1>10, SMT

LEMMA KeyChars ==
  ASSUME NEW t \in Template, NEW key, NEW m, Partial(t, key, m, Len(t.suffix)), NEW i \in 1 .. Len(key)
  PROVE  key[i] \in Digits \cup Range(t.prefix) \cup Range(t.suffix)
<1> DEFINE P == Len(t.prefix)
           S == Len(t.suffix)
<1>1. P \in Nat /\ S \in Nat /\ DOMAIN t.prefix = 1 .. P /\ DOMAIN t.suffix = 1 .. S
  BY SMT DEF Template
<1>2. /\ m \in Nat \ {0} /\ Len(key) = P + m + S
      /\ \A j \in 1 .. P : key[j] = t.prefix[j]
      /\ \A j \in 1 .. m : key[P + j] \in Digits
      /\ \A j \in 1 .. S : key[P + m + j] = t.suffix[j]
  BY DEF Partial
<1>3. /\ \A j \in 1 .. P : t.prefix[j] \in Range(t.prefix)
      /\ \A j \in 1 .. S : t.suffix[j] \in Range(t.suffix)
  BY <1>1 DEF Range
<1> HIDE DEF P, S
<1>4. CASE i \in 1 .. P
  BY <1>2, <1>3, <1>4
<1>5. CASE i - P \in 1 .. m
  <2>1. P + (i - P) = i
    BY <1>1, SMT
  <2> QED
    BY <1>2, <1>5, <2>1
<1>6. CASE i - P - m \in 1 .. S
  <2>1. P + m + (i - P - m) = i
    BY <1>1, <1>2, SMT
  <2> QED
    BY <1>2, <1>3, <1>6, <2>1
<1> QED
  BY <1>1, <1>2, <1>4, <1>5, <1>6, SMT

\* A key of the search is settled: it is no overlap, and what follows is seen.
Settled(l, r, states, seen) ==
  /\ ~(AcceptState(l) \in states[1] /\ AcceptState(r) \in states[2])
  /\ \A c \in LanguageAlphabet(l, r) :
       Transition(l, states[1], c) # {} /\ Transition(r, states[2], c) # {} =>
         <<Transition(l, states[1], c), Transition(r, states[2], c)>> \in seen

Disjoint(l, r) == \A key : ~(IsKey(l, key) /\ IsKey(r, key))

(* A search with nothing left to look at has seen every key: the two       *)
(* templates share none.                                                   *)
LEMMA SettledDisjoint ==
  ASSUME NEW l \in Template, NEW r \in Template, NEW seen, <<{0}, {0}>> \in seen,
         \A states \in seen : Settled(l, r, states, seen)
  PROVE  Disjoint(l, r)
<1> SUFFICES ASSUME NEW key, IsKey(l, key), IsKey(r, key) PROVE FALSE
  BY DEF Disjoint
<1>1. PICK m : Partial(l, key, m, Len(l.suffix))
  BY DEF IsKey
<1>2. PICK n : Partial(r, key, n, Len(r.suffix))
  BY DEF IsKey
<1> DEFINE S == {k \in Nat : k <= Len(key) => \E states \in seen : Place(l, m, k) \in states[1] /\ Place(r, n, k) \in states[2]}
<1>3. 0 \in S
  <2>1. 0 <= Len(l.prefix) /\ 0 <= Len(r.prefix)
    BY States, SMT
  <2>2. Place(l, m, 0) = 0 /\ Place(r, n, 0) = 0
    BY <2>1 DEF Place
  <2>3. <<{0}, {0}>>[1] = {0} /\ <<{0}, {0}>>[2] = {0}
    OBVIOUS
  <2> QED
    BY <2>2, <2>3, SMT
<1>4. ASSUME NEW k \in Nat, k \in S PROVE k + 1 \in S
  <2> SUFFICES ASSUME k + 1 <= Len(key)
               PROVE  \E states \in seen : Place(l, m, k + 1) \in states[1] /\ Place(r, n, k + 1) \in states[2]
    BY SMT
  <2>0. Len(key) \in Nat
    BY <1>1, LenProperties DEF Partial
  <2>1. k <= Len(key) /\ k < Len(key) /\ k + 1 \in 1 .. Len(key)
    BY <2>0, SMT
  <2>2. PICK states \in seen : Place(l, m, k) \in states[1] /\ Place(r, n, k) \in states[2]
    BY <1>4, <2>1
  <2> DEFINE c == key[k + 1]
             a == Transition(l, states[1], c)
             b == Transition(r, states[2], c)
  <2>3. Place(l, m, k + 1) \in a
    BY <1>1, <2>1, <2>2, PlaceStep
  <2>4. Place(r, n, k + 1) \in b
    BY <1>2, <2>1, <2>2, PlaceStep
  <2>5. c \in LanguageAlphabet(l, r)
    BY <1>1, <2>1, KeyChars DEF LanguageAlphabet
  <2>6. a # {} /\ b # {} => <<a, b>> \in seen
    BY <2>2, <2>5 DEF Settled
  <2>7. <<a, b>>[1] = a /\ <<a, b>>[2] = b
    OBVIOUS
  <2> QED
    BY <2>3, <2>4, <2>6, <2>7
<1> HIDE DEF S
<1>5. Nat \subseteq S
  BY <1>3, <1>4, Induct
<1>6. Len(key) \in Nat /\ Len(key) <= Len(key)
  <2>1. Len(key) \in Nat
    BY <1>1, LenProperties DEF Partial
  <2> QED
    BY <2>1, SMT
<1>7. PICK states \in seen : Place(l, m, Len(key)) \in states[1] /\ Place(r, n, Len(key)) \in states[2]
  BY <1>5, <1>6 DEF S
<1>8. ASSUME NEW t \in Template, NEW j, Partial(t, key, j, Len(t.suffix)) PROVE Place(t, j, Len(key)) = AcceptState(t)
  <2>1. /\ Len(t.prefix) \in Nat /\ Len(t.suffix) \in Nat /\ SuffixStart(t) = Len(t.prefix) + 2
        /\ AcceptState(t) = Len(t.prefix) + 2 + Len(t.suffix)
    BY States
  <2>2. j \in Nat \ {0} /\ Len(key) = Len(t.prefix) + j + Len(t.suffix)
    BY <1>8 DEF Partial
  <2>3. /\ ~(Len(key) <= Len(t.prefix)) /\ ~(Len(key) < Len(t.prefix) + j)
        /\ Len(key) - (Len(t.prefix) + j) + (Len(t.prefix) + 2) = Len(t.prefix) + 2 + Len(t.suffix)
    <3> DEFINE a == Len(t.prefix)
               c == Len(t.suffix)
               k == Len(key)
    <3>1. a \in Nat /\ c \in Nat /\ j \in Nat \ {0} /\ k = a + j + c
      BY <2>1, <2>2
    <3> HIDE DEF a, c, k
    <3>2. ~(k <= a) /\ ~(k < a + j) /\ k - (a + j) + (a + 2) = a + 2 + c
      BY <3>1, SMT
    <3> QED
      BY <3>2 DEF a, c, k
  <2>4. Place(t, j, Len(key)) = Len(key) - (Len(t.prefix) + j) + SuffixStart(t)
    BY <2>3 DEF Place
  <2> QED
    BY <2>1, <2>3, <2>4
<1>9. AcceptState(l) \in states[1] /\ AcceptState(r) \in states[2]
  BY <1>1, <1>2, <1>7, <1>8
<1> QED
  BY <1>7, <1>9 DEF Settled

-----------------------------------------------------------------------------
(* The automata accept nothing else: what a state says about the text.     *)
Explained(t, q, text) ==
  /\ q \in Nat /\ text \in Seq(Nat)
  /\ q <= Len(t.prefix) => Len(text) = q /\ \A i \in 1 .. q : text[i] = t.prefix[i]
  /\ q = Len(t.prefix) + 1 => \E m : Partial(t, text, m, 0)
  /\ q >= Len(t.prefix) + 2 => \E m : Partial(t, text, m, q - (Len(t.prefix) + 2))

LEMMA Appended ==
  ASSUME NEW text \in Seq(Nat), NEW c \in Nat
  PROVE  /\ Append(text, c) \in Seq(Nat) /\ Len(Append(text, c)) = Len(text) + 1 /\ Append(text, c)[Len(text) + 1] = c
         /\ \A i \in 1 .. Len(text) : Append(text, c)[i] = text[i]
  BY SMT

LEMMA FirstDigit ==
  ASSUME NEW t \in Template, NEW text, Explained(t, Len(t.prefix), text), NEW c \in Nat, c \in Digits \ {48}
  PROVE  Partial(t, Append(text, c), 1, 0)
<1> DEFINE P == Len(t.prefix)
           w == Append(text, c)
<1>1. P \in Nat /\ Len(t.suffix) \in Nat
  BY States
<1>2. P <= P
  BY <1>1, SMT
<1>3. text \in Seq(Nat) /\ Len(text) = P /\ \A i \in 1 .. P : text[i] = t.prefix[i]
  BY <1>2 DEF Explained
<1>4. /\ w \in Seq(Nat) /\ Len(w) = P + 1 /\ w[P + 1] = c /\ \A i \in 1 .. P : w[i] = text[i]
  BY <1>3, Appended, SMT
<1> HIDE DEF P, w
<1>5. /\ 1 \in Nat \ {0} /\ 0 \in 0 .. Len(t.suffix) /\ P + 1 = P + 1 + 0 /\ (\A i \in 1 .. 1 : P + i = P + 1)
      /\ \A i : i \notin 1 .. 0
  BY <1>1, SMT
<1>6. \A i \in 1 .. 1 : w[P + i] \in Digits
  BY <1>4, <1>5
<1>7. Len(w) = P + 1 + 0 /\ w[P + 1] # 48 /\ \A i \in 1 .. P : w[i] = t.prefix[i]
  BY <1>3, <1>4, <1>5
<1>8. Partial(t, w, 1, 0)
  BY <1>4, <1>5, <1>6, <1>7 DEF Partial, P
<1> QED
  BY <1>8 DEF w

LEMMA NextDigit ==
  ASSUME NEW t \in Template, NEW text, NEW m, Partial(t, text, m, 0), NEW c \in Nat, c \in Digits
  PROVE  Partial(t, Append(text, c), m + 1, 0)
<1> DEFINE P == Len(t.prefix)
           w == Append(text, c)
<1>1. P \in Nat /\ Len(t.suffix) \in Nat
  BY States
<1>2. /\ text \in Seq(Nat) /\ m \in Nat \ {0} /\ 0 \in 0 .. Len(t.suffix) /\ Len(text) = P + m + 0
      /\ \A i \in 1 .. P : text[i] = t.prefix[i]
      /\ text[P + 1] # 48
      /\ \A i \in 1 .. m : text[P + i] \in Digits
  BY DEF Partial
<1>3. /\ w \in Seq(Nat) /\ Len(w) = Len(text) + 1 /\ w[Len(text) + 1] = c
      /\ \A i \in 1 .. Len(text) : w[i] = text[i]
  BY <1>2, Appended
<1> HIDE DEF P, w
<1>4. /\ m + 1 \in Nat \ {0} /\ Len(w) = P + (m + 1) + 0 /\ Len(text) + 1 = P + (m + 1) /\ P + 1 \in 1 .. Len(text)
      /\ (\A i \in 1 .. P : i \in 1 .. Len(text)) /\ (\A i \in 1 .. m : P + i \in 1 .. Len(text))
      /\ (\A i \in 1 .. m + 1 : i \in 1 .. m \/ i = m + 1) /\ \A i : i \notin 1 .. 0
  BY <1>1, <1>2, <1>3, SMT
<1>5. \A i \in 1 .. m + 1 : w[P + i] \in Digits
  BY <1>2, <1>3, <1>4
<1>6. w[P + 1] # 48 /\ \A i \in 1 .. P : w[i] = t.prefix[i]
  BY <1>2, <1>3, <1>4
<1>7. Partial(t, w, m + 1, 0)
  BY <1>2, <1>3, <1>4, <1>5, <1>6 DEF Partial, P
<1> QED
  BY <1>7 DEF w

LEMMA NextOfSuffix ==
  ASSUME NEW t \in Template, NEW text, NEW m, NEW s, Partial(t, text, m, s), s < Len(t.suffix),
         NEW c \in Nat, t.suffix[s + 1] = c
  PROVE  Partial(t, Append(text, c), m, s + 1)
<1> DEFINE P == Len(t.prefix)
           w == Append(text, c)
<1>1. P \in Nat /\ Len(t.suffix) \in Nat
  BY States
<1>2. /\ text \in Seq(Nat) /\ m \in Nat \ {0} /\ s \in 0 .. Len(t.suffix) /\ Len(text) = P + m + s
      /\ \A i \in 1 .. P : text[i] = t.prefix[i]
      /\ text[P + 1] # 48
      /\ \A i \in 1 .. m : text[P + i] \in Digits
      /\ \A i \in 1 .. s : text[P + m + i] = t.suffix[i]
  BY DEF Partial
<1>3. /\ w \in Seq(Nat) /\ Len(w) = Len(text) + 1 /\ w[Len(text) + 1] = c
      /\ \A i \in 1 .. Len(text) : w[i] = text[i]
  BY <1>2, Appended
<1> HIDE DEF P, w
<1>4. /\ s + 1 \in 0 .. Len(t.suffix) /\ Len(w) = P + m + (s + 1) /\ Len(text) + 1 = P + m + (s + 1) /\ P + 1 \in 1 .. Len(text)
      /\ (\A i \in 1 .. P : i \in 1 .. Len(text)) /\ (\A i \in 1 .. m : P + i \in 1 .. Len(text))
      /\ (\A i \in 1 .. s : P + m + i \in 1 .. Len(text)) /\ (\A i \in 1 .. s + 1 : i \in 1 .. s \/ i = s + 1)
  <2> DEFINE a == Len(text)
             b == Len(w)
             S == Len(t.suffix)
  <2>1. P \in Nat /\ S \in Nat /\ m \in Nat \ {0} /\ s \in 0 .. S /\ s < S /\ a = P + m + s /\ b = a + 1
    BY <1>1, <1>2, <1>3
  <2> HIDE DEF a, b, S
  <2>2. /\ s + 1 \in 0 .. S /\ b = P + m + (s + 1) /\ a + 1 = P + m + (s + 1) /\ P + 1 \in 1 .. a
        /\ (\A i \in 1 .. P : i \in 1 .. a) /\ (\A i \in 1 .. m : P + i \in 1 .. a)
        /\ (\A i \in 1 .. s : P + m + i \in 1 .. a) /\ (\A i \in 1 .. s + 1 : i \in 1 .. s \/ i = s + 1)
    BY <2>1, SMT
  <2> QED
    BY <2>2 DEF a, b, S
<1>5. \A i \in 1 .. s + 1 : w[P + m + i] = t.suffix[i]
  BY <1>2, <1>3, <1>4
<1>6. w[P + 1] # 48 /\ (\A i \in 1 .. P : w[i] = t.prefix[i]) /\ \A i \in 1 .. m : w[P + i] \in Digits
  BY <1>2, <1>3, <1>4
<1>7. Partial(t, w, m, s + 1)
  BY <1>2, <1>3, <1>4, <1>5, <1>6 DEF Partial, P
<1> QED
  BY <1>7 DEF w

LEMMA StepExplained ==
  ASSUME NEW t \in Template, NEW text, NEW q, Explained(t, q, text), NEW c \in Nat, NEW p \in StepOf(t, q, c)
  PROVE  Explained(t, p, Append(text, c))
<1> DEFINE P == Len(t.prefix)
           S == Len(t.suffix)
           w == Append(text, c)
<1>1. P \in Nat /\ S \in Nat /\ DigitState(t) = P + 1 /\ SuffixStart(t) = P + 2 /\ AcceptState(t) = P + 2 + S
  BY States
<1>2. /\ q \in Nat /\ text \in Seq(Nat)
      /\ q <= P => Len(text) = q /\ \A i \in 1 .. q : text[i] = t.prefix[i]
      /\ q = P + 1 => \E m : Partial(t, text, m, 0)
      /\ q >= P + 2 => \E m : Partial(t, text, m, q - (P + 2))
  BY DEF Explained
<1>3. \/ q < P /\ t.prefix[q + 1] = c /\ p = q + 1
      \/ q = P /\ c \in Digits \ {48} /\ p = P + 1
      \/ q = P + 1 /\ c \in Digits /\ p = P + 1
      \/ ~(q < P) /\ q # P /\ q # P + 1 /\ q < P + 2 + S /\ t.suffix[q - (P + 2) + 1] = c /\ p = q + 1
  BY <1>1 DEF StepOf
<1>4. /\ w \in Seq(Nat) /\ Len(w) = Len(text) + 1 /\ w[Len(text) + 1] = c
      /\ \A i \in 1 .. Len(text) : w[i] = text[i]
  BY <1>2, Appended
<1>5. (q = P /\ c \in Digits \ {48} => Partial(t, w, 1, 0))
  BY FirstDigit
<1>6. q = P + 1 /\ c \in Digits => \E m : Partial(t, w, m, 0)
  BY <1>2, NextDigit
<1>7. ASSUME q >= P + 2, q < P + 2 + S, t.suffix[q - (P + 2) + 1] = c PROVE \E m : Partial(t, w, m, q - (P + 2) + 1)
  <2>1. PICK m : Partial(t, text, m, q - (P + 2))
    BY <1>2, <1>7
  <2>0. P \in Nat /\ S \in Nat /\ q \in Nat
    BY <1>1, <1>2
  <2>2. q - (P + 2) < S
    <3> HIDE DEF P, S
    <3> QED
      BY <1>7, <2>0, SMT
  <2> QED
    BY <1>7, <2>1, <2>2, NextOfSuffix
<1>8. /\ p \in Nat /\ w \in Seq(Nat)
      /\ p <= P => Len(w) = p /\ \A i \in 1 .. p : w[i] = t.prefix[i]
      /\ p = P + 1 => \E m : Partial(t, w, m, 0)
      /\ p >= P + 2 => \E m : Partial(t, w, m, p - (P + 2))
  <2> HIDE DEF P, S, w
  <2>1. CASE q < P /\ t.prefix[q + 1] = c /\ p = q + 1
    <3>1. /\ p \in Nat /\ q <= P /\ ~(p = P + 1) /\ ~(p >= P + 2) /\ \A i \in 1 .. p : i \in 1 .. q \/ i = q + 1
      BY <1>1, <1>2, <2>1, SMT
    <3> QED
      BY <1>2, <1>4, <2>1, <3>1
  <2>2. CASE (q = P /\ c \in Digits \ {48} /\ p = P + 1) \/ (q = P + 1 /\ c \in Digits /\ p = P + 1)
    <3>1. p \in Nat /\ ~(p <= P) /\ ~(p >= P + 2)
      BY <1>1, <2>2, SMT
    <3> QED
      BY <1>4, <1>5, <1>6, <2>2, <3>1
  <2>3. CASE ~(q < P) /\ q # P /\ q # P + 1 /\ q < P + 2 + S /\ t.suffix[q - (P + 2) + 1] = c /\ p = q + 1
    <3>1. p \in Nat /\ q >= P + 2 /\ ~(p <= P) /\ ~(p = P + 1) /\ p - (P + 2) = q - (P + 2) + 1
      BY <1>1, <1>2, <2>3, SMT
    <3> QED
      BY <1>4, <1>7, <2>3, <3>1
  <2> QED
    BY <1>3, <2>1, <2>2, <2>3
<1> QED
  BY <1>8 DEF Explained

LEMMA TransitionExplained ==
  ASSUME NEW t \in Template, NEW text, NEW states, \A q \in states : Explained(t, q, text), NEW c \in Nat
  PROVE  \A p \in Transition(t, states, c) : Explained(t, p, Append(text, c))
<1> DEFINE new == UNION {StepOf(t, q, c) : q \in states}
           w == Append(text, c)
<1>1. ASSUME NEW p \in new PROVE Explained(t, p, w)
  BY StepExplained
<1>2. ASSUME DigitState(t) \in new PROVE Explained(t, SuffixStart(t), w)
  <2> DEFINE P == Len(t.prefix)
  <2>1. P \in Nat /\ DigitState(t) = P + 1 /\ SuffixStart(t) = P + 2
    BY States
  <2>2. Explained(t, P + 1, w)
    BY <1>1, <1>2, <2>1
  <2>3. w \in Seq(Nat) /\ \E m : Partial(t, w, m, 0)
    BY <2>2 DEF Explained
  <2>4. P + 2 \in Nat /\ ~(P + 2 <= P) /\ P + 2 # P + 1 /\ (P + 2) - (P + 2) = 0
    BY <2>1, SMT
  <2>5. \E m : Partial(t, w, m, (P + 2) - (P + 2))
    BY <2>3, <2>4
  <2> HIDE DEF w, P
  <2>6. ASSUME NEW q, q = P + 2 PROVE Explained(t, q, w)
    <3>1. q \in Nat /\ ~(q <= P) /\ q # P + 1 /\ q - (P + 2) = 0
      BY <2>4, <2>6
    <3> QED
      BY <2>3, <3>1 DEF Explained, P
  <2> QED
    BY <2>1, <2>6
<1>3. Transition(t, states, c) \subseteq new \cup (IF DigitState(t) \in new THEN {SuffixStart(t)} ELSE {})
  BY DEF Transition, Closure
<1> HIDE DEF new, w
<1> QED
  BY <1>1, <1>2, <1>3 DEF w

LEMMA AcceptedIsKey == ASSUME NEW t \in Template, NEW text, Explained(t, AcceptState(t), text) PROVE IsKey(t, text)
<1>1. /\ AcceptState(t) = Len(t.prefix) + 2 + Len(t.suffix) /\ Len(t.prefix) \in Nat /\ Len(t.suffix) \in Nat
  BY States
<1>2. AcceptState(t) >= Len(t.prefix) + 2 /\ AcceptState(t) - (Len(t.prefix) + 2) = Len(t.suffix)
  <2> DEFINE a == Len(t.prefix)
             c == Len(t.suffix)
             n == AcceptState(t)
  <2>1. a \in Nat /\ c \in Nat /\ n = a + 2 + c
    BY <1>1
  <2> HIDE DEF a, c, n
  <2>2. n >= a + 2 /\ n - (a + 2) = c
    BY <2>1, SMT
  <2> QED
    BY <2>2 DEF a, c, n
<1> QED
  BY <1>2 DEF Explained, IsKey


-----------------------------------------------------------------------------
(* The inductive invariant.                                                *)
Comparisons == {<<1, 2>>, <<1, 3>>, <<2, 3>>}

LabelTypes ==
  /\ setting \in Configurations
  /\ compiled \in Seq(Template) /\ Len(compiled) <= 3
  /\ comparing = << >> \/ (comparing \in Comparisons /\ Len(compiled) = 3)
  /\ frontier \in Seq(Pair)
  /\ comparing = << >> => frontier = << >> /\ outcome.status \in {"pending", "invalid"}

\* Every pair of state sets the search has met is in the queue or settled,
\* and every pair in the queue is explained by its example.
SearchInv(l, r) ==
  /\ <<{0}, {0}>> \in reached
  /\ \A states \in reached :
       Settled(l, r, states, reached) \/ \E i \in 1 .. Len(frontier) : Key(frontier[i]) = states
  /\ \A i \in 1 .. Len(frontier) :
       /\ \A q \in frontier[i].left : Explained(l, q, frontier[i].example)
       /\ \A q \in frontier[i].right : Explained(r, q, frontier[i].example)

\* The comparisons that came to their end found nothing.
ComparedInv ==
  /\ comparing = <<1, 3>> \/ comparing = <<2, 3>> => Disjoint(compiled[1], compiled[2])
  /\ comparing = <<2, 3>> => Disjoint(compiled[1], compiled[3])

OutcomeInv ==
  /\ outcome.status = "invalid" => Len(compiled) < 3
  /\ outcome.status = "overlap" =>
       \A i \in 1 .. 2 : IsKey(compiled[comparing[i]], outcome.example) /\ outcome.example \in Seq(Nat)
  /\ outcome.status = "ok" =>
       /\ Len(compiled) = 3 /\ Disjoint(compiled[1], compiled[2]) /\ Disjoint(compiled[1], compiled[3])
       /\ Disjoint(compiled[2], compiled[3])

LabelInv ==
  /\ LabelTypes
  /\ comparing \in Comparisons => SearchInv(compiled[comparing[1]], compiled[comparing[2]])
  /\ ComparedInv
  /\ OutcomeInv

LEMMA Statuses ==
  /\ Pending.status = "pending" /\ [status |-> "invalid"].status = "invalid" /\ [status |-> "ok"].status = "ok"
  /\ \A e : /\ [status |-> "overlap", example |-> e].status = "overlap"
            /\ [status |-> "overlap", example |-> e].example = e
  /\ "pending" # "invalid" /\ "pending" # "ok" /\ "pending" # "overlap" /\ "invalid" # "ok"
  /\ "invalid" # "overlap" /\ "ok" # "overlap"
  BY DEF Pending

LEMMA Numbers ==
  /\ << >> \notin Comparisons /\ <<1, 2>> # <<1, 3>> /\ <<1, 2>> # <<2, 3>> /\ <<1, 3>> # <<2, 3>>
  /\ <<1, 2>>[1] = 1 /\ <<1, 2>>[2] = 2 /\ <<1, 3>>[1] = 1 /\ <<1, 3>>[2] = 3 /\ <<2, 3>>[1] = 2 /\ <<2, 3>>[2] = 3
  BY SMT DEF Comparisons

LEMMA ThreeTemplates ==
  ASSUME NEW s \in Seq(Template), Len(s) = 3 PROVE s[1] \in Template /\ s[2] \in Template /\ s[3] \in Template
  BY SMT

LEMMA ComparedTemplates ==
  ASSUME LabelTypes, comparing \in Comparisons
  PROVE  compiled[comparing[1]] \in Template /\ compiled[comparing[2]] \in Template
<1>1. Len(compiled) = 3
  BY Numbers DEF LabelTypes
<1>2. compiled[1] \in Template /\ compiled[2] \in Template /\ compiled[3] \in Template
  BY <1>1, ThreeTemplates DEF LabelTypes
<1> QED
  BY <1>2, Numbers DEF Comparisons

LEMMA CompileType == ASSUME NEW raw \in Seq(Nat) PROVE Compile(raw) \in Template
<1> DEFINE actions == {i \in DOMAIN raw : raw[i] \in {Tier, Other}}
           at == CHOOSE i \in actions : TRUE
           t == [prefix |-> SubSeq(raw, 1, at - 1), suffix |-> SubSeq(raw, at + 1, Len(raw))]
<1>1. Invalid \in Template
  <2>1. <<Other>> \in Seq(Nat) /\ << >> \in Seq(Nat)
    BY SMT DEF Other
  <2> QED
    BY <2>1 DEF Invalid, Template
<1>2. CASE Cardinality(actions) # 1 \/ \E i \in actions : raw[i] = Other
  <2>1. Compile(raw) = Invalid
    BY <1>2 DEF Compile
  <2> QED
    BY <1>1, <2>1
<1>3. CASE ~(Cardinality(actions) # 1 \/ \E i \in actions : raw[i] = Other)
  <2>1. Compile(raw) \in {t, Invalid}
    BY <1>3 DEF Compile
  <2>2. Cardinality({}) = 0 /\ 0 # 1
    BY FS_EmptySet, SMT
  <2>3. actions # {}
    BY <1>3, <2>2
  <2>4. at \in DOMAIN raw
    BY <2>3
  <2> HIDE DEF at
  <2>5. SubSeq(raw, 1, at - 1) \in Seq(Nat) /\ SubSeq(raw, at + 1, Len(raw)) \in Seq(Nat)
    BY <2>4, SMT
  <2>6. t \in Template
    BY <2>5 DEF Template
  <2> QED
    BY <1>1, <2>1, <2>6
<1> QED
  BY <1>2, <1>3

-----------------------------------------------------------------------------
LEMMA LabelInitInv == LabelInit => LabelInv
<1> SUFFICES ASSUME LabelInit PROVE LabelInv
  OBVIOUS
<1>1. /\ setting \in Configurations /\ compiled = << >> /\ comparing = << >> /\ frontier = << >> /\ outcome = Pending
  BY DEF LabelInit
<1>2. << >> \in Seq(Template) /\ Len(<< >>) <= 3 /\ << >> \in Seq(Pair)
  BY SMT
<1>3. outcome.status = "pending"
  BY <1>1, Statuses
<1>4. LabelTypes
  BY <1>1, <1>2, <1>3 DEF LabelTypes
<1>5. comparing \notin Comparisons /\ comparing # <<1, 3>> /\ comparing # <<2, 3>>
  BY <1>1, Numbers DEF Comparisons
<1>6. ComparedInv /\ OutcomeInv
  BY <1>3, <1>5, Statuses DEF ComparedInv, OutcomeInv
<1> QED
  BY <1>4, <1>5, <1>6 DEF LabelInv

LEMMA CompileNextInv == ASSUME LabelInv, CompileNext PROVE LabelInv'
<1> DEFINE t == Compile(setting[Len(compiled) + 1])
<1>1. /\ setting \in Configurations /\ compiled \in Seq(Template) /\ frontier \in Seq(Pair)
      /\ comparing = << >> => frontier = << >>
      /\ comparing = << >> \/ (comparing \in Comparisons /\ Len(compiled) = 3)
  BY DEF LabelInv, LabelTypes
<1>2. /\ outcome = Pending /\ Len(compiled) < 3 /\ setting' = setting /\ comparing' = comparing /\ frontier' = frontier
      /\ reached' = reached
  BY DEF CompileNext
<1>3. \/ outcome' = [status |-> "invalid"] /\ compiled' = compiled
      \/ compiled' = Append(compiled, t) /\ outcome' = outcome
  BY DEF CompileNext
<1>4. Len(compiled) + 1 \in 1 .. 3 /\ Len(compiled) # 3
  <2>1. Len(compiled) \in Nat
    BY <1>1, LenProperties
  <2> QED
    BY <1>2, <2>1, SMT
<1>5. t \in Template
  BY <1>1, <1>4, CompileType, TemplateAssumptions
<1> HIDE DEF t
<1>6. comparing' = << >> /\ comparing' \notin Comparisons /\ comparing' # <<1, 3>> /\ comparing' # <<2, 3>>
  BY <1>1, <1>2, <1>4, Numbers DEF Comparisons
<1>7. compiled' \in Seq(Template) /\ Len(compiled') <= 3 /\ (compiled' = compiled => Len(compiled') < 3)
  BY <1>1, <1>2, <1>3, <1>5, SMT
<1>8. \/ outcome'.status = "invalid" /\ compiled' = compiled
      \/ outcome'.status = "pending"
  BY <1>2, <1>3, Statuses
<1>9. LabelTypes'
  BY <1>1, <1>2, <1>6, <1>7, <1>8 DEF LabelTypes
<1>10. OutcomeInv'
  BY <1>7, <1>8, Statuses DEF OutcomeInv
<1>11. ComparedInv'
  BY <1>6 DEF ComparedInv
<1> QED
  BY <1>6, <1>9, <1>10, <1>11 DEF LabelInv

(* A comparison that begins.                                               *)
LEMMA CompareInv ==
  ASSUME LabelTypes, Len(compiled) = 3, NEW l \in 1 .. 3, NEW r \in 1 .. 3, <<l, r>> \in Comparisons,
         Compare(l, r), UNCHANGED <<setting, compiled>>, outcome' = outcome
  PROVE  /\ LabelTypes' /\ comparing' = <<l, r>>
         /\ SearchInv(compiled[comparing[1]], compiled[comparing[2]])'
<1> DEFINE a == compiled[l]
           b == compiled[r]
           start == [left |-> Closure(a, {0}), right |-> Closure(b, {0}), example |-> << >>]
<1>1. comparing' = <<l, r>> /\ frontier' = <<start>> /\ reached' = {Key(start)}
  BY DEF Compare
<1>2. compiled \in Seq(Template) /\ a \in Template /\ b \in Template
  <2>1. compiled \in Seq(Template)
    BY DEF LabelTypes
  <2> QED
    BY <2>1, ElementOfSeq
<1>3. \A t \in Template : Closure(t, {0}) = {0}
  <2>1. ASSUME NEW t \in Template PROVE DigitState(t) # 0
    <3>1. Len(t.prefix) \in Nat /\ DigitState(t) = Len(t.prefix) + 1
      BY States
    <3> QED
      BY <3>1, SMT
  <2> QED
    BY <2>1 DEF Closure
<1>4. start.left = {0} /\ start.right = {0} /\ start.example = << >> /\ Key(start) = <<{0}, {0}>>
  BY <1>2, <1>3 DEF Key
<1>5. start \in Pair
  <2>1. {0} \in SUBSET Nat /\ << >> \in Seq(Nat)
    BY SMT
  <2> QED
    BY <1>2, <1>3, <2>1 DEF Pair
<1>6. ASSUME NEW t \in Template PROVE Explained(t, 0, << >>)
  <2>1. /\ Len(t.prefix) \in Nat
    BY States
  <2>2. /\ 0 \in Nat /\ << >> \in Seq(Nat) /\ Len(<< >>) = 0 /\ (\A i : i \notin 1 .. 0)
        /\ ~(0 = Len(t.prefix) + 1) /\ ~(0 >= Len(t.prefix) + 2)
    BY <2>1, SMT
  <2> QED
    BY <2>2 DEF Explained
<1> HIDE DEF start, a, b
<1>7. <<start>> \in Seq(Pair) /\ Len(<<start>>) = 1 /\ (\A i \in 1 .. 1 : <<start>>[i] = start) /\ 1 \in 1 .. 1
  BY <1>5, SMT
<1>8. compiled' = compiled /\ setting' = setting /\ comparing'[1] = l /\ comparing'[2] = r
  BY <1>1
<1>9. LabelTypes'
  <2>1. comparing' # << >> /\ comparing' \in Comparisons
    BY <1>1, Numbers
  <2> QED
    BY <1>1, <1>7, <1>8, <2>1 DEF LabelTypes
<1>10. compiled[comparing[1]]' = a /\ compiled[comparing[2]]' = b
  BY <1>8 DEF a, b
<1>11. /\ <<{0}, {0}>> \in reached'
       /\ \A states \in reached' : \E i \in 1 .. Len(frontier') : Key(frontier'[i]) = states
       /\ \A i \in 1 .. Len(frontier') : frontier'[i] = start
  BY <1>1, <1>4, <1>7
<1>12. /\ \A i \in 1 .. Len(frontier') :
            /\ \A q \in frontier'[i].left : Explained(a, q, frontier'[i].example)
            /\ \A q \in frontier'[i].right : Explained(b, q, frontier'[i].example)
  BY <1>2, <1>4, <1>6, <1>11
<1>13. SearchInv(compiled[comparing[1]], compiled[comparing[2]])'
  BY <1>10, <1>11, <1>12 DEF SearchInv
<1> QED
  BY <1>1, <1>9, <1>13

LEMMA CompareFirstInv == ASSUME LabelInv, CompareFirst PROVE LabelInv'
<1>1. /\ Len(compiled) = 3 /\ comparing = << >> /\ Compare(1, 2) /\ UNCHANGED <<setting, compiled>> /\ outcome' = outcome
  BY DEF CompareFirst
<1>2. LabelTypes /\ OutcomeInv
  BY DEF LabelInv
<1>3. 1 \in 1 .. 3 /\ 2 \in 1 .. 3 /\ ~(3 < 3) /\ <<1, 2>> \in Comparisons
  BY SMT DEF Comparisons
<1>4. LabelTypes' /\ comparing' = <<1, 2>> /\ SearchInv(compiled[comparing[1]], compiled[comparing[2]])'
  BY <1>1, <1>2, <1>3, CompareInv
<1>5. outcome.status = "pending"
  BY <1>1, <1>2, <1>3 DEF LabelTypes, OutcomeInv
<1>6. OutcomeInv'
  BY <1>1, <1>5, Statuses DEF OutcomeInv
<1>7. ComparedInv'
  BY <1>4, Numbers DEF ComparedInv
<1> QED
  BY <1>4, <1>6, <1>7 DEF LabelInv

LEMMA SettledMore ==
  ASSUME NEW l, NEW r, NEW states, NEW seen, NEW more, seen \subseteq more, Settled(l, r, states, seen)
  PROVE  Settled(l, r, states, more)
  BY DEF Settled

(* An iteration of the search.                                             *)
LEMMA AdvanceInv ==
  ASSUME NEW l \in Template, NEW r \in Template, frontier \in Seq(Pair), frontier # << >>, SearchInv(l, r),
         ~(AcceptState(l) \in Head(frontier).left /\ AcceptState(r) \in Head(frontier).right),
         Advance(Discovered(Successors(l, r, Head(frontier))))
  PROVE  /\ frontier' \in Seq(Pair)
         /\ <<{0}, {0}>> \in reached'
         /\ \A states \in reached' :
              Settled(l, r, states, reached') \/ \E i \in 1 .. Len(frontier') : Key(frontier'[i]) = states
         /\ \A i \in 1 .. Len(frontier') :
              /\ \A q \in frontier'[i].left : Explained(l, q, frontier'[i].example)
              /\ \A q \in frontier'[i].right : Explained(r, q, frontier'[i].example)
<1> DEFINE current == Head(frontier)
           next == Successors(l, r, current)
           found == Discovered(next)
           rest == Tail(frontier)
<1>1. /\ current \in Pair /\ rest \in Seq(Pair) /\ current = frontier[1] /\ 1 \in 1 .. Len(frontier)
      /\ Len(rest) = Len(frontier) - 1 /\ Len(rest) \in Nat /\ \A i \in 1 .. Len(rest) : rest[i] = frontier[i + 1] /\ i + 1 \in 1 .. Len(frontier)
  BY SMT
<1>2. /\ found \in Seq(next)
      /\ \A p \in next : p.left # {} /\ p.right # {} =>
           Key(p) \in reached \/ \E i \in 1 .. Len(found) : Key(found[i]) = Key(p)
  BY <1>1, DiscoveredLists
<1>3. next \subseteq Pair
  BY <1>1, SuccessorFacts
<1>4. frontier' = rest \o found /\ reached' = reached \cup {Key(found[i]) : i \in DOMAIN found}
  BY DEF Advance
<1>5. \A p \in next : \E c \in LanguageAlphabet(l, r) : p = After(l, r, current, c)
  BY DEF Successors
<1>6. \A c \in LanguageAlphabet(l, r) : After(l, r, current, c) \in next
  BY DEF Successors
<1>7. LanguageAlphabet(l, r) \subseteq Nat
  BY AlphabetFinite
<1> HIDE DEF current, next, found, rest
<1>8. found \in Seq(Pair) /\ Len(found) \in Nat /\ DOMAIN found = 1 .. Len(found)
  BY <1>2, <1>3, SMT
<1>9. /\ frontier' \in Seq(Pair) /\ Len(frontier') = Len(rest) + Len(found)
      /\ \A i \in 1 .. Len(rest) : frontier'[i] = rest[i] /\ i \in 1 .. Len(frontier')
      /\ \A i \in 1 .. Len(found) : frontier'[Len(rest) + i] = found[i] /\ Len(rest) + i \in 1 .. Len(frontier')
      /\ \A i \in 1 .. Len(frontier') : i \in 1 .. Len(rest) \/ (i - Len(rest) \in 1 .. Len(found) /\ i = Len(rest) + (i - Len(rest)))
  <2>1. rest \in Seq(Pair) /\ found \in Seq(Pair)
    BY <1>1, <1>8
  <2> DEFINE all == rest \o found
  <2>2. /\ all \in Seq(Pair) /\ Len(all) = Len(rest) + Len(found)
        /\ \A i \in 1 .. Len(rest) : all[i] = rest[i]
        /\ \A i \in 1 .. Len(found) : all[Len(rest) + i] = found[i]
    BY <2>1, Joined2, SMT
  <2>3. frontier' = all
    BY <1>4
  <2> HIDE DEF all
  <2>4. Len(rest) \in Nat /\ Len(found) \in Nat
    BY <1>1, <1>8
  <2>5. /\ \A i \in 1 .. Len(rest) : i \in 1 .. Len(all)
        /\ \A i \in 1 .. Len(found) : Len(rest) + i \in 1 .. Len(all)
        /\ \A i \in 1 .. Len(all) : i \in 1 .. Len(rest) \/ (i - Len(rest) \in 1 .. Len(found) /\ i = Len(rest) + (i - Len(rest)))
    <3>1. Len(all) = Len(rest) + Len(found)
      BY <2>2
    <3> QED
      BY <2>4, <3>1, SMT
  <2> QED
    BY <2>2, <2>3, <2>5
<1>10. \A i \in 1 .. Len(found) : found[i] \in next
  BY <1>2, SMT
<1>11. ASSUME NEW c \in LanguageAlphabet(l, r)
       PROVE  LET p == After(l, r, current, c)
              IN /\ p.left = Transition(l, current.left, c) /\ p.right = Transition(r, current.right, c)
                 /\ p.example = Append(current.example, c)
                 /\ Key(p) = <<Transition(l, current.left, c), Transition(r, current.right, c)>>
  BY DEF After, Key
<1>12. Settled(l, r, Key(current), reached')
  <2>1. Key(current)[1] = current.left /\ Key(current)[2] = current.right
    BY DEF Key
  <2>2. ~(AcceptState(l) \in current.left /\ AcceptState(r) \in current.right)
    BY DEF current
  <2>3. ASSUME NEW c \in LanguageAlphabet(l, r), Transition(l, current.left, c) # {}, Transition(r, current.right, c) # {}
        PROVE  <<Transition(l, current.left, c), Transition(r, current.right, c)>> \in reached'
    <3> DEFINE p == After(l, r, current, c)
    <3>1. p \in next /\ p.left # {} /\ p.right # {} /\ Key(p) = <<Transition(l, current.left, c), Transition(r, current.right, c)>>
      BY <1>6, <1>11, <2>3
    <3> HIDE DEF p
    <3>2. Key(p) \in reached \/ \E i \in 1 .. Len(found) : Key(found[i]) = Key(p)
      BY <1>2, <3>1
    <3> QED
      BY <1>4, <1>8, <3>1, <3>2
  <2> QED
    BY <2>1, <2>2, <2>3 DEF Settled
<1>13. ASSUME NEW states \in reached'
       PROVE  Settled(l, r, states, reached') \/ \E i \in 1 .. Len(frontier') : Key(frontier'[i]) = states
  <2>1. CASE states \in reached
    <3>1. Settled(l, r, states, reached) \/ \E i \in 1 .. Len(frontier) : Key(frontier[i]) = states
      BY <2>1 DEF SearchInv
    <3>2. CASE Settled(l, r, states, reached)
      <4>1. reached \subseteq reached'
        BY <1>4
      <4> QED
        BY <3>2, <4>1, SettledMore
    <3>3. ASSUME NEW i \in 1 .. Len(frontier), Key(frontier[i]) = states
          PROVE  Settled(l, r, states, reached') \/ \E j \in 1 .. Len(frontier') : Key(frontier'[j]) = states
      <4>1. CASE i = 1
        BY <1>1, <1>12, <3>3, <4>1
      <4>2. CASE i # 1
        <5>1. i - 1 \in 1 .. Len(rest) /\ (i - 1) + 1 = i
          BY <1>1, <4>2, SMT
        <5> QED
          BY <1>1, <1>9, <3>3, <5>1
      <4> QED
        BY <4>1, <4>2
    <3> QED
      BY <3>1, <3>2, <3>3
  <2>2. CASE \E i \in 1 .. Len(found) : states = Key(found[i])
    BY <1>9, <2>2
  <2> QED
    BY <1>4, <1>8, <2>1, <2>2
<1>14. /\ \A q \in current.left : Explained(l, q, current.example)
       /\ \A q \in current.right : Explained(r, q, current.example)
  BY <1>1 DEF SearchInv
<1>15. ASSUME NEW p \in next
       PROVE  /\ \A q \in p.left : Explained(l, q, p.example)
              /\ \A q \in p.right : Explained(r, q, p.example)
  <2>1. PICK c \in LanguageAlphabet(l, r) : p = After(l, r, current, c)
    BY <1>5
  <2>2. c \in Nat
    BY <1>7
  <2>3. /\ p.left = Transition(l, current.left, c) /\ p.right = Transition(r, current.right, c)
        /\ p.example = Append(current.example, c)
    BY <1>11, <2>1
  <2>4. \A q \in Transition(l, current.left, c) : Explained(l, q, Append(current.example, c))
    BY <1>14, <2>2, TransitionExplained
  <2>5. \A q \in Transition(r, current.right, c) : Explained(r, q, Append(current.example, c))
    BY <1>14, <2>2, TransitionExplained
  <2> QED
    BY <2>3, <2>4, <2>5
<1>16. \A i \in 1 .. Len(rest) : /\ \A q \in rest[i].left : Explained(l, q, rest[i].example)
                                 /\ \A q \in rest[i].right : Explained(r, q, rest[i].example)
  BY <1>1 DEF SearchInv
<1>17. \A i \in 1 .. Len(frontier') :
         /\ \A q \in frontier'[i].left : Explained(l, q, frontier'[i].example)
         /\ \A q \in frontier'[i].right : Explained(r, q, frontier'[i].example)
  BY <1>9, <1>10, <1>15, <1>16
<1>18. <<{0}, {0}>> \in reached'
  BY <1>4 DEF SearchInv
<1> QED
  BY <1>9, <1>13, <1>17, <1>18

LEMMA SearchStepInv == ASSUME LabelInv, Search PROVE LabelInv'
<1> DEFINE l == compiled[comparing[1]]
           r == compiled[comparing[2]]
           current == Head(frontier)
<1>1. /\ outcome = Pending /\ frontier # << >> /\ setting' = setting /\ compiled' = compiled /\ comparing' = comparing
  BY DEF Search
<1>2. \/ /\ AcceptState(l) \in current.left /\ AcceptState(r) \in current.right
         /\ outcome' = [status |-> "overlap", example |-> current.example] /\ frontier' = frontier /\ reached' = reached
      \/ /\ ~(AcceptState(l) \in current.left /\ AcceptState(r) \in current.right)
         /\ Advance(Discovered(Successors(l, r, current))) /\ outcome' = outcome
  BY DEF Search
<1>3. /\ LabelTypes /\ ComparedInv /\ OutcomeInv
      /\ comparing \in Comparisons => SearchInv(l, r)
  BY DEF LabelInv
<1>4. comparing \in Comparisons /\ frontier \in Seq(Pair)
  BY <1>1, <1>3 DEF LabelTypes
<1>5. l \in Template /\ r \in Template
  BY <1>3, <1>4, ComparedTemplates
<1>6. l' = l /\ r' = r /\ comparing' \in Comparisons
  BY <1>1, <1>4
<1>7. ComparedInv'
  BY <1>1, <1>3 DEF ComparedInv
<1>8. comparing # << >>
  BY <1>4, Numbers
<1>9. CASE /\ AcceptState(l) \in current.left /\ AcceptState(r) \in current.right
           /\ outcome' = [status |-> "overlap", example |-> current.example] /\ frontier' = frontier /\ reached' = reached
  <2>1. current \in Pair /\ current = frontier[1] /\ 1 \in 1 .. Len(frontier)
    BY <1>1, <1>4, SMT
  <2> HIDE DEF current
  <2>2. Explained(l, AcceptState(l), current.example) /\ Explained(r, AcceptState(r), current.example)
    BY <1>3, <1>4, <1>9, <2>1 DEF SearchInv
  <2>3. IsKey(l, current.example) /\ IsKey(r, current.example) /\ current.example \in Seq(Nat)
    BY <1>5, <2>1, <2>2, AcceptedIsKey DEF Pair
  <2>4. outcome'.status = "overlap" /\ outcome'.example = current.example
    BY <1>9, Statuses
  <2>5. \A i \in 1 .. 2 : i = 1 \/ i = 2
    BY SMT
  <2>6. OutcomeInv'
    BY <1>1, <2>3, <2>4, <2>5, Statuses DEF OutcomeInv
  <2>7. LabelTypes'
    BY <1>1, <1>3, <1>8, <1>9 DEF LabelTypes
  <2>8. SearchInv(l, r)'
    BY <1>1, <1>3, <1>4, <1>9 DEF SearchInv
  <2> QED
    BY <1>7, <2>6, <2>7, <2>8 DEF LabelInv
<1>10. CASE /\ ~(AcceptState(l) \in current.left /\ AcceptState(r) \in current.right)
            /\ Advance(Discovered(Successors(l, r, current))) /\ outcome' = outcome
  <2>1. SearchInv(l, r)
    BY <1>3, <1>4
  <2> HIDE DEF l, r
  <2>2. /\ frontier' \in Seq(Pair)
        /\ <<{0}, {0}>> \in reached'
        /\ \A states \in reached' :
             Settled(l, r, states, reached') \/ \E i \in 1 .. Len(frontier') : Key(frontier'[i]) = states
        /\ \A i \in 1 .. Len(frontier') :
             /\ \A q \in frontier'[i].left : Explained(l, q, frontier'[i].example)
             /\ \A q \in frontier'[i].right : Explained(r, q, frontier'[i].example)
    BY <1>1, <1>4, <1>5, <1>10, <2>1, AdvanceInv
  <2>3. SearchInv(l, r)'
    BY <1>6, <2>2 DEF SearchInv
  <2>4. LabelTypes'
    BY <1>1, <1>3, <1>8, <2>2 DEF LabelTypes
  <2>5. OutcomeInv'
    BY <1>1, <1>3, <1>10 DEF OutcomeInv
  <2> QED
    BY <1>7, <2>3, <2>4, <2>5 DEF LabelInv, l, r
<1> QED
  BY <1>2, <1>9, <1>10

(* A search that came to its end.                                          *)
LEMMA SearchedDisjoint ==
  ASSUME LabelInv, comparing \in Comparisons, frontier = << >>
  PROVE  Disjoint(compiled[comparing[1]], compiled[comparing[2]])
<1> DEFINE l == compiled[comparing[1]]
           r == compiled[comparing[2]]
<1>1. l \in Template /\ r \in Template
  BY ComparedTemplates DEF LabelInv
<1>2. SearchInv(l, r)
  BY DEF LabelInv
<1> HIDE DEF l, r
<1>3. \A i : i \notin 1 .. Len(frontier)
  BY SMT
<1>4. <<{0}, {0}>> \in reached /\ \A states \in reached : Settled(l, r, states, reached)
  BY <1>2, <1>3 DEF SearchInv
<1> QED
  BY <1>1, <1>4, SettledDisjoint DEF l, r

LEMMA CompareNextInv == ASSUME LabelInv, CompareNext PROVE LabelInv'
<1>1. outcome = Pending /\ comparing # << >> /\ frontier = << >> /\ UNCHANGED <<setting, compiled>>
  BY DEF CompareNext
<1>2. LabelTypes /\ ComparedInv
  BY DEF LabelInv
<1>3. comparing \in Comparisons /\ Len(compiled) = 3
  BY <1>1, <1>2 DEF LabelTypes
<1>4. Disjoint(compiled[comparing[1]], compiled[comparing[2]])
  BY <1>1, <1>3, SearchedDisjoint
<1>5. /\ comparing = <<1, 2>> => Compare(1, 3) /\ outcome' = outcome
      /\ comparing = <<1, 3>> => Compare(2, 3) /\ outcome' = outcome
      /\ comparing = <<2, 3>> =>
           outcome' = [status |-> "ok"] /\ comparing' = comparing /\ frontier' = frontier /\ reached' = reached
  BY Numbers DEF CompareNext
<1>6. 1 \in 1 .. 3 /\ 2 \in 1 .. 3 /\ 3 \in 1 .. 3 /\ <<1, 3>> \in Comparisons /\ <<2, 3>> \in Comparisons
  BY SMT DEF Comparisons
<1>7. outcome.status = "pending"
  BY <1>1, Statuses
<1>8. CASE comparing = <<1, 2>>
  <2>1. LabelTypes' /\ comparing' = <<1, 3>> /\ SearchInv(compiled[comparing[1]], compiled[comparing[2]])'
    BY <1>1, <1>2, <1>3, <1>5, <1>6, <1>8, CompareInv
  <2>2. Disjoint(compiled[1], compiled[2])
    BY <1>4, <1>8, Numbers
  <2>3. ComparedInv'
    BY <1>1, <2>1, <2>2, Numbers DEF ComparedInv
  <2>4. OutcomeInv'
    BY <1>5, <1>7, <1>8, Statuses DEF OutcomeInv
  <2> QED
    BY <2>1, <2>3, <2>4 DEF LabelInv
<1>9. CASE comparing = <<1, 3>>
  <2>1. LabelTypes' /\ comparing' = <<2, 3>> /\ SearchInv(compiled[comparing[1]], compiled[comparing[2]])'
    BY <1>1, <1>2, <1>3, <1>5, <1>6, <1>9, CompareInv
  <2>2. Disjoint(compiled[1], compiled[3]) /\ Disjoint(compiled[1], compiled[2])
    BY <1>2, <1>4, <1>9, Numbers DEF ComparedInv
  <2>3. ComparedInv'
    BY <1>1, <2>1, <2>2 DEF ComparedInv
  <2>4. OutcomeInv'
    BY <1>5, <1>7, <1>9, Statuses DEF OutcomeInv
  <2> QED
    BY <2>1, <2>3, <2>4 DEF LabelInv
<1>10. CASE comparing = <<2, 3>>
  <2>1. outcome' = [status |-> "ok"] /\ comparing' = comparing /\ frontier' = frontier /\ reached' = reached
        /\ compiled' = compiled /\ setting' = setting
    BY <1>1, <1>5, <1>10
  <2>2. Disjoint(compiled[1], compiled[3]) /\ Disjoint(compiled[1], compiled[2]) /\ Disjoint(compiled[2], compiled[3])
    BY <1>2, <1>4, <1>10, Numbers DEF ComparedInv
  <2>3. outcome'.status = "ok"
    BY <2>1, Statuses
  <2>4. OutcomeInv'
    BY <1>3, <2>1, <2>2, <2>3, Statuses DEF OutcomeInv
  <2>5. LabelTypes' /\ ComparedInv'
    BY <1>1, <1>2, <2>1 DEF LabelTypes, ComparedInv
  <2>6. SearchInv(compiled[comparing[1]], compiled[comparing[2]])
    BY <1>3 DEF LabelInv
  <2>7. SearchInv(compiled[comparing[1]], compiled[comparing[2]])'
    BY <2>1, <2>6 DEF SearchInv
  <2> QED
    BY <2>4, <2>5, <2>7 DEF LabelInv
<1> QED
  BY <1>3, <1>8, <1>9, <1>10 DEF Comparisons

LEMMA LabelStutterInv == ASSUME LabelInv, UNCHANGED labelVars PROVE LabelInv'
<1>1. /\ setting' = setting /\ compiled' = compiled /\ comparing' = comparing /\ frontier' = frontier
      /\ reached' = reached /\ outcome' = outcome
  BY DEF labelVars
<1> QED
  BY <1>1 DEF LabelInv, LabelTypes, SearchInv, ComparedInv, OutcomeInv

LEMMA LabelInvariant == LabelSpec => []LabelInv
<1>1. LabelInit => LabelInv
  BY LabelInitInv
<1>2. LabelInv /\ [LabelNext]_labelVars => LabelInv'
  BY CompileNextInv, CompareFirstInv, SearchStepInv, CompareNextInv, LabelStutterInv DEF LabelNext
<1> QED
  BY <1>1, <1>2, PTL DEF LabelSpec

-----------------------------------------------------------------------------
\* Whatever the templates: when CompileSet accepts them, every key that one of
\* them renders is read back as its tier by that template (Itoa, then Atoi),
\* and is a key of no other.
THEOREM AcceptedKeysReadBack == LabelSpec => []KeysReadBack
<1>1. LabelInv => KeysReadBack
  <2> SUFFICES ASSUME LabelInv, outcome.status = "ok", NEW i \in 1 .. 3, NEW j \in 1 .. 3, NEW n \in SampleTiers
               PROVE  MatchTier(compiled[j], Render(compiled[i], n)) = IF i = j THEN n ELSE 0
    BY DEF KeysReadBack
  <2>1. /\ compiled \in Seq(Template) /\ Len(compiled) = 3
        /\ Disjoint(compiled[1], compiled[2]) /\ Disjoint(compiled[1], compiled[3]) /\ Disjoint(compiled[2], compiled[3])
    BY DEF LabelInv, LabelTypes, OutcomeInv
  <2>2. compiled[i] \in Template /\ compiled[j] \in Template
    BY <2>1, SMT
  <2> DEFINE key == Render(compiled[i], n)
  <2>3. IsKey(compiled[i], key) /\ MatchTier(compiled[i], key) = n
    BY <2>2, RenderReadBack, TemplateAssumptions
  <2> HIDE DEF key
  <2>4. ASSUME i # j PROVE MatchTier(compiled[j], key) = 0
    <3>1. \A s, t : Disjoint(s, t) => Disjoint(t, s)
      BY DEF Disjoint
    <3>2. <<i, j>> \in {<<1, 2>>, <<1, 3>>, <<2, 3>>, <<2, 1>>, <<3, 1>>, <<3, 2>>}
      BY <2>4, SMT
    <3>3. Disjoint(compiled[i], compiled[j])
      BY <2>1, <3>1, <3>2
    <3>4. ~IsKey(compiled[j], key)
      BY <2>3, <3>3 DEF Disjoint
    <3>5. key \in Seq(Nat)
      BY <2>3 DEF IsKey, Partial
    <3> QED
      BY <2>2, <3>4, <3>5, MatchIsKey
  <2> QED
    BY <2>3, <2>4 DEF key
<1> QED
  BY <1>1, LabelInvariant, PTL

\* Whatever the templates: the example that intersectionExample returns is a
\* key that both templates read, so CompileSet refuses none without a reason.
THEOREM OverlapsAreReal == LabelSpec => []OverlapIsReal
<1>1. LabelInv => OverlapIsReal
  <2> SUFFICES ASSUME LabelInv, outcome.status = "overlap", NEW i \in 1 .. 2
               PROVE  MatchTier(compiled[comparing[i]], outcome.example) # 0
    BY DEF OverlapIsReal
  <2>1. IsKey(compiled[comparing[i]], outcome.example)
    BY DEF LabelInv, OutcomeInv
  <2>2. comparing \in Comparisons
    BY Statuses DEF LabelInv, LabelTypes
  <2>3. i = 1 \/ i = 2
    BY SMT
  <2>4. compiled[comparing[i]] \in Template
    BY <2>2, <2>3, ComparedTemplates DEF LabelInv
  <2> QED
    BY <2>1, <2>4, KeyMatches
<1> QED
  BY <1>1, LabelInvariant, PTL
=============================================================================
