----------------------------- MODULE Induction -----------------------------
(***************************************************************************)
(* Facts about numbers, sequences and sums that the proofs of this         *)
(* development share.  Induction is stated for a set instead of a          *)
(* predicate, so that every prover can use it.                             *)
(***************************************************************************)
EXTENDS Integers, Sequences, Functions, FiniteSetsExt, FiniteSetTheorems, WellFoundedInduction, TLAPS

\* A set with 0 and the successor of each of its natural numbers has them all.
\* If it had not, the numbers up to a missing one would make an infinite
\* descending sequence of finite sets.
LEMMA NatInSet ==
  ASSUME NEW S, 0 \in S, \A n \in Nat : n \in S => n + 1 \in S
  PROVE  Nat \subseteq S
<1> DEFINE T == {1 .. n : n \in Nat \ S}
<1>1. SUFFICES ASSUME T # {} PROVE FALSE
  OBVIOUS
<1>2. T \subseteq FiniteSubsetsOf(Nat)
  <2>1. ASSUME NEW n \in Nat PROVE 1 .. n \subseteq Nat /\ IsFiniteSet(1 .. n)
    BY FS_Interval
  <2> QED BY <2>1 DEF FiniteSubsetsOf
<1>3. PICK m \in T : \A y \in T : ~(<<y, m>> \in StrictSubsetOrdering(Nat))
  <2> HIDE DEF T
  <2> QED BY <1>1, <1>2, FS_StrictSubsetOrderingWellFounded, WFMin
<1>4. PICK x \in Nat \ S : m = 1 .. x
  BY <1>3
<1>5. x # 0 /\ x - 1 \in Nat /\ x - 1 \notin S
  BY <1>4
<1>6. 1 .. (x - 1) \in T
  BY <1>5
<1>7. <<1 .. (x - 1), m>> \in StrictSubsetOrdering(Nat)
  BY <1>4, <1>5 DEF StrictSubsetOrdering
<1> QED BY <1>3, <1>6, <1>7

\* A set of natural numbers has a least one.
LEMMA SmallestNat ==
    ASSUME NEW T, T \subseteq Nat, T # {}
    PROVE  \E x \in T : \A y \in T : x <= y
<1>1. PICK x \in T : \A y \in T : ~(<<y, x>> \in OpToRel(<, Nat))
  BY NatLessThanWellFounded, WFMin
<1>2. \A y \in T : ~(y < x)
  BY <1>1 DEF OpToRel
<1> QED BY <1>2

\* A sequence given element by element, and the same with one more element.
LEMMA SeqOfEntries ==
    ASSUME NEW k \in Nat, NEW f, NEW s, s = [i \in 1..k |-> f[i]]
    PROVE  /\ Len(s) = k /\ DOMAIN s = 1..k
           /\ \A i \in 1..k : s[i] = f[i]
           /\ s = <<>> <=> k = 0
           /\ Append(s, f[k + 1]) = [i \in 1..(k + 1) |-> f[i]]
<1>1. Len(s) = k /\ DOMAIN s = 1..k /\ \A i \in 1..k : s[i] = f[i]
  OBVIOUS
<1>2. s = <<>> <=> k = 0
  BY <1>1
<1>3. s \in Seq({f[i] : i \in 1..k})
  OBVIOUS
<1>4. Append(s, f[k + 1]) = [i \in 1..(k + 1) |-> f[i]]
  BY <1>1, <1>3
<1> QED BY <1>1, <1>2, <1>4

\* A set of subsets that has each one without an element also has it, has all.
LEMMA SubsetsInSet ==
    ASSUME NEW S, IsFiniteSet(S), NEW F,
           \A T \in SUBSET S : (\A x \in T : T \ {x} \in F) => T \in F
    PROVE  SUBSET S \subseteq F
<1> DEFINE N == {n \in Nat : \A T \in SUBSET S : Cardinality(T) <= n => T \in F}
<1>1. \A T \in SUBSET S : IsFiniteSet(T) /\ Cardinality(T) \in Nat
  BY FS_Subset, FS_CardinalityType
<1>2. 0 \in N
  <2>1. ASSUME NEW T \in SUBSET S, Cardinality(T) <= 0 PROVE T \in F
    <3>1. T = {}
      BY <1>1, <2>1, FS_EmptySet
    <3> QED BY <3>1
  <2> QED BY <2>1
<1>3. ASSUME NEW n \in Nat, n \in N PROVE n + 1 \in N
  <2>1. ASSUME NEW T \in SUBSET S, Cardinality(T) <= n + 1 PROVE T \in F
    <3>1. ASSUME NEW x \in T PROVE T \ {x} \in F
      <4>1. Cardinality(T \ {x}) = Cardinality(T) - 1
        BY <1>1, FS_RemoveElement
      <4>2. Cardinality(T \ {x}) <= n
        BY <1>1, <2>1, <4>1
      <4> QED BY <1>3, <4>2
    <3> QED BY <3>1
  <2> QED BY <2>1
<1>4. Nat \subseteq N
  <2> HIDE DEF N
  <2> QED BY <1>2, <1>3, NatInSet
<1>5. ASSUME NEW T \in SUBSET S PROVE T \in F
  <2>1. Cardinality(T) \in N
    BY <1>1, <1>4
  <2> QED BY <1>1, <2>1
<1> QED BY <1>5

\* What a function makes of a finite set is finite.
LEMMA FiniteImage ==
    ASSUME NEW S, IsFiniteSet(S), NEW f
    PROVE  IsFiniteSet({f[x] : x \in S})
<1> DEFINE F == {T \in SUBSET S : IsFiniteSet({f[x] : x \in T})}
<1>1. ASSUME NEW T \in SUBSET S, \A x \in T : T \ {x} \in F PROVE T \in F
  <2>1. CASE T = {}
    <3>1. {f[x] : x \in T} = {}
      BY <2>1
    <3> QED BY <3>1, FS_EmptySet
  <2>2. CASE T # {}
    <3>1. PICK x \in T : TRUE
      BY <2>2
    <3>2. PICK U : U = {f[y] : y \in T \ {x}}
      OBVIOUS
    <3>3. IsFiniteSet(U)
      BY <1>1, <3>1, <3>2
    <3>4. IsFiniteSet(U \cup {f[x]})
      BY <3>3, FS_AddElement
    <3>5. {f[y] : y \in T} = U \cup {f[x]}
      BY <3>1, <3>2
    <3> QED BY <3>4, <3>5
  <2> QED BY <2>1, <2>2
<1>2. SUBSET S \subseteq F
  <2> HIDE DEF F
  <2> QED BY <1>1, SubsetsInSet
<1> QED BY <1>2

\* A finite set of integers has a greatest and a least one.
LEMMA MaxMin ==
    ASSUME NEW S, IsFiniteSet(S), S \subseteq Int, S # {}
    PROVE  /\ Max(S) \in S /\ \A y \in S : y <= Max(S)
           /\ Min(S) \in S /\ \A y \in S : Min(S) <= y
<1> DEFINE F == {T \in SUBSET S : T # {} => /\ \E x \in T : \A y \in T : x >= y
                                            /\ \E x \in T : \A y \in T : x =< y}
<1>1. ASSUME NEW T \in SUBSET S, \A x \in T : T \ {x} \in F, T # {} PROVE T \in F
  <2>1. PICK z \in T : TRUE
    BY <1>1
  <2>2. T \subseteq Int
    OBVIOUS
  <2>3. CASE T \ {z} = {}
    <3>1. \A y \in T : y = z
      BY <2>3
    <3> QED BY <2>1, <2>2, <3>1
  <2>4. CASE T \ {z} # {}
    <3>1. PICK x \in T \ {z} : \A y \in T \ {z} : x >= y
      BY <1>1, <2>1, <2>4
    <3>2. PICK w \in T \ {z} : \A y \in T \ {z} : w =< y
      BY <1>1, <2>1, <2>4
    <3>3. \E v \in T : \A y \in T : v >= y
      <4>1. CASE x >= z
        BY <2>1, <2>2, <3>1, <4>1
      <4>2. CASE z >= x
        <5>1. \A y \in T : z >= y
          BY <2>1, <2>2, <3>1, <4>2
        <5> QED BY <2>1, <5>1
      <4> QED BY <2>1, <2>2, <3>1, <4>1, <4>2
    <3>4. \E v \in T : \A y \in T : v =< y
      <4>1. CASE w =< z
        BY <2>1, <2>2, <3>2, <4>1
      <4>2. CASE z =< w
        <5>1. \A y \in T : z =< y
          BY <2>1, <2>2, <3>2, <4>2
        <5> QED BY <2>1, <5>1
      <4> QED BY <2>1, <2>2, <3>2, <4>1, <4>2
    <3> QED BY <3>3, <3>4
  <2> QED BY <2>3, <2>4
<1>2. \A T \in SUBSET S : (\A x \in T : T \ {x} \in F) => T \in F
  BY <1>1
<1>3. SUBSET S \subseteq F
  <2> HIDE DEF F
  <2> QED BY <1>2, SubsetsInSet
<1>4. \E x \in S : \A y \in S : x >= y
  BY <1>3
<1>5. \E x \in S : \A y \in S : x =< y
  BY <1>3
<1>6. Max(S) \in S /\ \A y \in S : Max(S) >= y
  BY <1>4 DEF Max
<1>7. Min(S) \in S /\ \A y \in S : Min(S) =< y
  BY <1>5 DEF Min
<1> QED BY <1>6, <1>7

-----------------------------------------------------------------------------
(* Sums.  SumFunctionOnSet adds the values of a function in an order of its
   own: an element of the set, then those of what remains. *)

First(T) == CHOOSE x \in T : TRUE
Summing(f, S, g) == g = [T \in SUBSET S |-> IF T = {} THEN 0 ELSE f[First(T)] + g[T \ {First(T)}]]

\* The sum is one of the functions that add so.
LEMMA SumIsOne ==
    ASSUME NEW f, NEW S
    PROVE  SumFunctionOnSet(f, S) = (CHOOSE g : Summing(f, S, g))[S]
BY DEF SumFunctionOnSet, FoldFunctionOnSet, MapThenFoldSet, Summing, First

\* There is one, on a finite set of integers.
LEMMA SummingExists ==
    ASSUME NEW S, IsFiniteSet(S), NEW f, \A x \in S : f[x] \in Int
    PROVE  \E g : Summing(f, S, g)
<1> DEFINE Right(g, T) == g[T] = IF T = {} THEN 0 ELSE f[First(T)] + g[T \ {First(T)}]
           N == {n \in Nat : \E g \in [SUBSET S -> Int] :
                    \A T \in SUBSET S : Cardinality(T) <= n => Right(g, T)}
<1>1. \A T \in SUBSET S : IsFiniteSet(T) /\ Cardinality(T) \in Nat
  BY FS_Subset, FS_CardinalityType
<1>2. ASSUME NEW T \in SUBSET S, T # {}
      PROVE  /\ First(T) \in T /\ f[First(T)] \in Int /\ T \ {First(T)} \in SUBSET S
             /\ Cardinality(T \ {First(T)}) = Cardinality(T) - 1
  <2>1. First(T) \in T
    BY <1>2 DEF First
  <2> QED BY <1>1, <2>1, FS_RemoveElement
<1>3. 0 \in N
  <2>1. PICK g : g = [T \in SUBSET S |-> 0]
    OBVIOUS
  <2>2. ASSUME NEW T \in SUBSET S, Cardinality(T) <= 0 PROVE Right(g, T)
    <3>1. T = {}
      BY <1>1, <2>2, FS_EmptySet
    <3> QED BY <2>1, <3>1
  <2>3. g \in [SUBSET S -> Int]
    BY <2>1
  <2> QED BY <2>2, <2>3
<1>4. ASSUME NEW n \in Nat, n \in N PROVE n + 1 \in N
  <2>1. PICK g \in [SUBSET S -> Int] : \A T \in SUBSET S : Cardinality(T) <= n => Right(g, T)
    BY <1>4
  <2>2. PICK h : h = [T \in SUBSET S |-> IF Cardinality(T) <= n THEN g[T]
                                         ELSE f[First(T)] + g[T \ {First(T)}]]
    OBVIOUS
  <2>3. ASSUME NEW T \in SUBSET S
        PROVE  h[T] \in Int /\ (Cardinality(T) <= n + 1 => Right(h, T))
    <3>1. CASE Cardinality(T) <= n
      <4>1. h[T] = g[T] /\ Right(g, T)
        BY <2>1, <2>2, <3>1
      <4>2. CASE T = {}
        BY <4>1, <4>2
      <4>3. CASE T # {}
        <5>1. T \ {First(T)} \in SUBSET S /\ Cardinality(T \ {First(T)}) <= n
          BY <1>1, <1>2, <3>1, <4>3
        <5>2. h[T \ {First(T)}] = g[T \ {First(T)}]
          BY <2>2, <5>1
        <5> QED BY <4>1, <4>3, <5>2
      <4> QED BY <4>2, <4>3
    <3>2. CASE ~(Cardinality(T) <= n)
      <4>1. T # {}
        BY <1>1, <3>2, FS_EmptySet
      <4>2. h[T] = f[First(T)] + g[T \ {First(T)}]
        BY <2>2, <3>2
      <4>3. h[T] \in Int
        <5>1. f[First(T)] \in Int /\ T \ {First(T)} \in SUBSET S
          BY <1>2, <4>1
        <5>2. g[T \ {First(T)}] \in Int
          BY <2>1, <5>1
        <5> QED BY <4>2, <5>1, <5>2
      <4>4. ASSUME Cardinality(T) <= n + 1 PROVE Right(h, T)
        <5>1. T \ {First(T)} \in SUBSET S /\ Cardinality(T \ {First(T)}) <= n
          BY <1>1, <1>2, <4>1, <4>4
        <5>2. h[T \ {First(T)}] = g[T \ {First(T)}]
          BY <2>2, <5>1
        <5> QED BY <4>1, <4>2, <5>2
      <4> QED BY <4>3, <4>4
    <3> QED BY <3>1, <3>2
  <2>4. h \in [SUBSET S -> Int]
    BY <2>2, <2>3
  <2>5. \A T \in SUBSET S : Cardinality(T) <= n + 1 => Right(h, T)
    BY <2>3
  <2>6. \E k \in [SUBSET S -> Int] : \A T \in SUBSET S : Cardinality(T) <= n + 1 => Right(k, T)
    BY <2>4, <2>5
  <2>7. n + 1 \in Nat
    OBVIOUS
  <2> QED BY <2>6, <2>7, Zenon
<1>5. Nat \subseteq N
  <2> HIDE DEF N
  <2> QED BY <1>3, <1>4, NatInSet
<1>6. Cardinality(S) \in Nat
  BY <1>1
<1>7. PICK g \in [SUBSET S -> Int] : \A T \in SUBSET S : Cardinality(T) <= Cardinality(S) => Right(g, T)
  BY <1>5, <1>6
<1>8. \A T \in SUBSET S : Right(g, T)
  BY <1>7, FS_Subset
<1>9. g = [T \in SUBSET S |-> IF T = {} THEN 0 ELSE f[First(T)] + g[T \ {First(T)}]]
  BY <1>8
<1> QED BY <1>9 DEF Summing

\* and they agree where they are both defined.
LEMMA SummingAgree ==
    ASSUME NEW S, NEW R, IsFiniteSet(S), R \subseteq S, NEW f, NEW g, NEW h,
           Summing(f, S, g), Summing(f, R, h)
    PROVE  \A T \in SUBSET R : g[T] = h[T]
<1> DEFINE F == {T \in SUBSET R : g[T] = h[T]}
<1>1. ASSUME NEW T \in SUBSET R, \A x \in T : T \ {x} \in F PROVE T \in F
  <2>1. T \in SUBSET S
    OBVIOUS
  <2>2. g[T] = IF T = {} THEN 0 ELSE f[First(T)] + g[T \ {First(T)}]
    BY <2>1 DEF Summing
  <2>3. h[T] = IF T = {} THEN 0 ELSE f[First(T)] + h[T \ {First(T)}]
    BY DEF Summing
  <2>4. T # {} => First(T) \in T
    BY DEF First
  <2>5. T # {} => g[T \ {First(T)}] = h[T \ {First(T)}]
    BY <1>1, <2>4
  <2> QED BY <2>2, <2>3, <2>5
<1>2. IsFiniteSet(R)
  BY FS_Subset
<1>3. SUBSET R \subseteq F
  <2> HIDE DEF F
  <2> QED BY <1>1, <1>2, SubsetsInSet
<1> QED BY <1>3

\* The sum over nothing is 0.
LEMMA SumEmpty == ASSUME NEW f PROVE SumFunctionOnSet(f, {}) = 0
<1>1. \E g : Summing(f, {}, g)
  BY FS_EmptySet, SummingExists
<1>2. PICK g : g = CHOOSE h : Summing(f, {}, h)
  OBVIOUS
<1>3. Summing(f, {}, g)
  BY <1>1, <1>2
<1>4. g[{}] = 0
  BY <1>3 DEF Summing
<1> QED BY <1>2, <1>4, SumIsOne

\* The sum over a set is that of the first element and the rest.
LEMMA SumFirst ==
    ASSUME NEW S, IsFiniteSet(S), NEW f, \A x \in S : f[x] \in Int, S # {}
    PROVE  /\ First(S) \in S
           /\ SumFunctionOnSet(f, S) = f[First(S)] + SumFunctionOnSet(f, S \ {First(S)})
<1>1. First(S) \in S
  BY DEF First
<1>2. PICK R : R = S \ {First(S)}
  OBVIOUS
<1>3. R \subseteq S /\ IsFiniteSet(R)
  BY <1>2, FS_Subset
<1>4. PICK g : g = CHOOSE k : Summing(f, S, k)
  OBVIOUS
<1>5. PICK h : h = CHOOSE k : Summing(f, R, k)
  OBVIOUS
<1>6. Summing(f, S, g)
  BY <1>4, SummingExists
<1>7. \A x \in R : f[x] \in Int
  BY <1>3
<1>8. Summing(f, R, h)
  BY <1>3, <1>5, <1>7, SummingExists
<1>9. g[R] = h[R]
  BY <1>3, <1>6, <1>8, SummingAgree
<1>10. g[S] = f[First(S)] + g[R]
  BY <1>2, <1>6 DEF Summing
<1>11. SumFunctionOnSet(f, S) = g[S] /\ SumFunctionOnSet(f, R) = h[R]
  BY <1>4, <1>5, SumIsOne
<1> QED BY <1>1, <1>2, <1>9, <1>10, <1>11

\* Integers have an integer sum,
LEMMA SumType ==
    ASSUME NEW S, IsFiniteSet(S), NEW f, \A x \in S : f[x] \in Int
    PROVE  SumFunctionOnSet(f, S) \in Int
<1> DEFINE F == {T \in SUBSET S : SumFunctionOnSet(f, T) \in Int}
<1>1. ASSUME NEW T \in SUBSET S, \A x \in T : T \ {x} \in F PROVE T \in F
  <2>1. CASE T = {}
    BY <2>1, SumEmpty
  <2>2. CASE T # {}
    <3>1. IsFiniteSet(T) /\ \A x \in T : f[x] \in Int
      BY FS_Subset
    <3>2. First(T) \in T /\ SumFunctionOnSet(f, T) = f[First(T)] + SumFunctionOnSet(f, T \ {First(T)})
      BY <2>2, <3>1, SumFirst
    <3>3. SumFunctionOnSet(f, T \ {First(T)}) \in Int
      BY <1>1, <3>2
    <3> QED BY <3>1, <3>2, <3>3
  <2> QED BY <2>1, <2>2
<1>2. SUBSET S \subseteq F
  <2> HIDE DEF F
  <2> QED BY <1>1, SubsetsInSet
<1> QED BY <1>2

\* from which any of them can be split off,
LEMMA SumSplit ==
    ASSUME NEW S, IsFiniteSet(S), NEW f, \A x \in S : f[x] \in Int, NEW x \in S
    PROVE  SumFunctionOnSet(f, S) = f[x] + SumFunctionOnSet(f, S \ {x})
<1> DEFINE F == {T \in SUBSET S : \A y \in T : SumFunctionOnSet(f, T) = f[y] + SumFunctionOnSet(f, T \ {y})}
<1>1. ASSUME NEW T \in SUBSET S, \A y \in T : T \ {y} \in F PROVE T \in F
  <2>1. IsFiniteSet(T) /\ \A y \in T : f[y] \in Int
    BY FS_Subset
  <2>2. ASSUME NEW y \in T PROVE SumFunctionOnSet(f, T) = f[y] + SumFunctionOnSet(f, T \ {y})
    <3>1. PICK z : z = First(T)
      OBVIOUS
    <3>2. z \in T /\ SumFunctionOnSet(f, T) = f[z] + SumFunctionOnSet(f, T \ {z})
      BY <2>1, <3>1, SumFirst
    <3>3. CASE y = z
      BY <3>2, <3>3
    <3>4. CASE y # z
      <4>1. SumFunctionOnSet(f, T \ {z}) = f[y] + SumFunctionOnSet(f, (T \ {z}) \ {y})
        BY <1>1, <3>2, <3>4
      <4>2. SumFunctionOnSet(f, T \ {y}) = f[z] + SumFunctionOnSet(f, (T \ {y}) \ {z})
        BY <1>1, <3>2, <3>4
      <4>3. (T \ {z}) \ {y} = (T \ {y}) \ {z}
        OBVIOUS
      <4>4. IsFiniteSet((T \ {y}) \ {z}) /\ \A v \in (T \ {y}) \ {z} : f[v] \in Int
        BY <2>1, FS_Subset
      <4>5. SumFunctionOnSet(f, (T \ {y}) \ {z}) \in Int
        BY <4>4, SumType
      <4>6. f[y] \in Int /\ f[z] \in Int
        BY <2>1, <3>2
      <4>7. PICK u \in Int, p \in Int, q \in Int :
                u = SumFunctionOnSet(f, (T \ {y}) \ {z}) /\ p = f[y] /\ q = f[z]
        BY <4>5, <4>6
      <4>8. q + (p + u) = p + (q + u)
        OBVIOUS
      <4> QED BY <3>2, <4>1, <4>2, <4>3, <4>7, <4>8
    <3> QED BY <3>3, <3>4
  <2> QED BY <2>2
<1>2. SUBSET S \subseteq F
  <2> HIDE DEF F
  <2> QED BY <1>1, SubsetsInSet
<1> QED BY <1>2

\* and sums are linear.
LEMMA SumLinear ==
    ASSUME NEW S, IsFiniteSet(S), NEW f, NEW g, NEW h, NEW a \in Int, NEW b \in Int,
           \A x \in S : f[x] \in Int /\ g[x] \in Int /\ h[x] = a * f[x] + b * g[x]
    PROVE  SumFunctionOnSet(h, S) = a * SumFunctionOnSet(f, S) + b * SumFunctionOnSet(g, S)
<1> DEFINE F == {T \in SUBSET S :
                    SumFunctionOnSet(h, T) = a * SumFunctionOnSet(f, T) + b * SumFunctionOnSet(g, T)}
<1>1. ASSUME NEW T \in SUBSET S, \A x \in T : T \ {x} \in F PROVE T \in F
  <2>1. CASE T = {}
    BY <2>1, SumEmpty
  <2>2. CASE T # {}
    <3>1. PICK x \in T : TRUE
      BY <2>2
    <3>2. PICK R : R = T \ {x}
      OBVIOUS
    <3>3. IsFiniteSet(T) /\ IsFiniteSet(R) /\ R \subseteq S
      BY <3>2, FS_Subset
    <3>4. \A y \in T : f[y] \in Int /\ g[y] \in Int /\ h[y] \in Int
      OBVIOUS
    <3>5. SumFunctionOnSet(f, T) = f[x] + SumFunctionOnSet(f, R)
      BY <3>2, <3>3, <3>4, SumSplit
    <3>6. SumFunctionOnSet(g, T) = g[x] + SumFunctionOnSet(g, R)
      BY <3>2, <3>3, <3>4, SumSplit
    <3>7. SumFunctionOnSet(h, T) = h[x] + SumFunctionOnSet(h, R)
      BY <3>2, <3>3, <3>4, SumSplit
    <3>8. SumFunctionOnSet(h, R) = a * SumFunctionOnSet(f, R) + b * SumFunctionOnSet(g, R)
      BY <1>1, <3>1, <3>2
    <3>9. PICK u \in Int, v \in Int : u = SumFunctionOnSet(f, R) /\ v = SumFunctionOnSet(g, R)
      BY <3>2, <3>3, <3>4, SumType
    <3>10. h[x] = a * f[x] + b * g[x] /\ f[x] \in Int /\ g[x] \in Int
      BY <3>1
    <3>11. PICK p \in Int, q \in Int : p = f[x] /\ q = g[x]
      BY <3>10
    <3>12. (a * p + b * q) + (a * u + b * v) = a * (p + u) + b * (q + v)
      OBVIOUS
    <3>13. SumFunctionOnSet(h, T) = a * SumFunctionOnSet(f, T) + b * SumFunctionOnSet(g, T)
      BY <3>5, <3>6, <3>7, <3>8, <3>9, <3>10, <3>11, <3>12
    <3> QED BY <3>13
  <2> QED BY <2>1, <2>2
<1>2. SUBSET S \subseteq F
  <2> HIDE DEF F
  <2> QED BY <1>1, SubsetsInSet
<1> QED BY <1>2

\* Functions that agree on a set have the same sum over it.
LEMMA SumSame ==
    ASSUME NEW S, IsFiniteSet(S), NEW f, NEW g, \A x \in S : f[x] \in Int /\ g[x] = f[x]
    PROVE  SumFunctionOnSet(g, S) = SumFunctionOnSet(f, S)
<1>1. \A x \in S : f[x] \in Int /\ g[x] = 1 * f[x] + 0 * f[x]
  OBVIOUS
<1>2. SumFunctionOnSet(g, S) = 1 * SumFunctionOnSet(f, S) + 0 * SumFunctionOnSet(f, S)
  BY <1>1, SumLinear
<1>3. SumFunctionOnSet(f, S) \in Int
  BY SumType
<1> QED BY <1>2, <1>3

-----------------------------------------------------------------------------
(* Recursion *)

\* t is what g makes of b in N steps.
Iterates(t, N, b, g) == t = [n \in 0 .. N |-> IF n = 0 THEN b ELSE g[n][t[n - 1]]]

\* A function defined by recursion on the numbers up to N exists, whatever is
\* taken from one number to the next.
LEMMA Iteration ==
    ASSUME NEW N \in Nat, NEW X, NEW b \in X, NEW g,
           \A n \in 1 .. N, x \in X : g[n][x] \in X
    PROVE  \E t : Iterates(t, N, b, g) /\ \A n \in 0 .. N : t[n] \in X
<1> DEFINE Up(n, t) == /\ t = [i \in 0 .. n |-> IF i = 0 THEN b ELSE g[i][t[i - 1]]]
                       /\ \A i \in 0 .. n : t[i] \in X
           S == {n \in Nat : n <= N => \E t : Up(n, t)}
<1>1. 0 \in S
  <2>1. PICK t : t = [i \in 0 .. 0 |-> b]
    OBVIOUS
  <2>2. \A i \in 0 .. 0 : i = 0 /\ t[i] = b
    BY <2>1
  <2>3. t = [i \in 0 .. 0 |-> IF i = 0 THEN b ELSE g[i][t[i - 1]]]
    BY <2>1, <2>2
  <2> QED BY <2>2, <2>3
<1>2. ASSUME NEW n \in Nat, n \in S PROVE n + 1 \in S
  <2> SUFFICES ASSUME n + 1 <= N PROVE \E t : Up(n + 1, t)
    OBVIOUS
  <2>1. PICK old : Up(n, old)
    BY <1>2
  <2>2. PICK last : last = g[n + 1][old[n]]
    OBVIOUS
  <2>3. PICK t : t = [i \in 0 .. n + 1 |-> IF i = n + 1 THEN last ELSE old[i]]
    OBVIOUS
  <2>4. \A i \in 0 .. n : t[i] = old[i]
    BY <2>3
  <2>5. t[n + 1] = last
    BY <2>3
  <2>6. last \in X
    <3>1. old[n] \in X /\ n + 1 \in 1 .. N
      BY <2>1
    <3> QED BY <2>2, <3>1
  <2>7. ASSUME NEW i \in 0 .. n + 1
        PROVE  t[i] \in X /\ t[i] = IF i = 0 THEN b ELSE g[i][t[i - 1]]
    <3>1. CASE i = n + 1
      <4>1. t[i - 1] = old[n] /\ i # 0
        BY <2>4, <3>1
      <4> QED BY <2>2, <2>5, <2>6, <3>1, <4>1
    <3>2. CASE i \in 0 .. n
      <4>1. /\ old[i] = IF i = 0 THEN b ELSE g[i][old[i - 1]]
            /\ old[i] \in X
        BY <2>1, <3>2
      <4>2. i = 0 \/ i - 1 \in 0 .. n
        BY <3>2
      <4> QED BY <2>4, <3>2, <4>1, <4>2
    <3>3. i = n + 1 \/ i \in 0 .. n
      OBVIOUS
    <3> QED BY <3>1, <3>2, <3>3
  <2>8. t = [i \in 0 .. n + 1 |-> IF i = 0 THEN b ELSE g[i][t[i - 1]]]
    BY <2>3, <2>7
  <2> QED BY <2>7, <2>8
<1>3. Nat \subseteq S
  <2> HIDE DEF S
  <2> QED BY <1>1, <1>2, NatInSet
<1> QED BY <1>3 DEF Iterates

\* Induction up to a bound.
LEMMA UpTo ==
    ASSUME NEW N \in Nat, NEW S, 0 \in S, \A n \in 1 .. N : n - 1 \in S => n \in S
    PROVE  0 .. N \subseteq S
<1> DEFINE T == {n \in Nat : n <= N => n \in S}
<1>1. 0 \in T
  OBVIOUS
<1>2. ASSUME NEW n \in Nat, n \in T PROVE n + 1 \in T
  <2> SUFFICES ASSUME n + 1 <= N PROVE n + 1 \in S
    OBVIOUS
  <2>1. n + 1 \in 1 .. N /\ (n + 1) - 1 = n
    OBVIOUS
  <2> QED BY <1>2, <2>1
<1>3. Nat \subseteq T
  <2> HIDE DEF T
  <2> QED BY <1>1, <1>2, NatInSet
<1> QED BY <1>3

-----------------------------------------------------------------------------
(* Arithmetic *)

\* A number is put together from its quotient and remainder.
LEMMA DividedUp ==
    ASSUME NEW x \in Nat, NEW m \in Nat \ {0}
    PROVE  /\ x \div m \in Nat /\ x % m \in 0 .. m - 1
           /\ x = (x \div m) * m + (x % m)
OBVIOUS

\* The quotient and the remainder of a number that is put together.
LEMMA PutTogether ==
    ASSUME NEW q \in Nat, NEW m \in Nat \ {0}, NEW r \in 0 .. m - 1
    PROVE  (q * m + r) \div m = q /\ (q * m + r) % m = r
OBVIOUS

\* Products of natural numbers.
LEMMA ProductIsNat == ASSUME NEW a \in Nat, NEW b \in Nat PROVE a * b \in Nat
OBVIOUS

\* A larger factor makes a larger product.
LEMMA ProductGrows ==
    ASSUME NEW a \in Nat, NEW b \in Nat, NEW m \in Nat, a <= b
    PROVE  a * m <= b * m
<1>1. PICK d \in Nat : d = b - a
  OBVIOUS
<1>2. b = a + d
  BY <1>1
<1>3. b * m = a * m + d * m
  BY <1>2
<1>4. d * m \in Nat
  OBVIOUS
<1>5. PICK x \in Int : x = a * m
  OBVIOUS
<1>6. PICK y \in Nat : y = d * m
  BY <1>4
<1> QED BY <1>3, <1>5, <1>6

\* Factors in another order.
LEMMA ProductOrder ==
    ASSUME NEW a \in Int, NEW b \in Int, NEW d \in Int
    PROVE  (a * b) * d = a * (d * b) /\ a * b = b * a
OBVIOUS

\* A sequence with one more entry.
LEMMA AppendIs ==
    ASSUME NEW rows, NEW n \in Nat, rows = [i \in 1 .. n |-> rows[i]], NEW x
    PROVE  Append(rows, x) = [i \in 1 .. n + 1 |-> IF i = n + 1 THEN x ELSE rows[i]]
<1>1. PICK f : f = [i \in 1 .. n + 1 |-> IF i = n + 1 THEN x ELSE rows[i]]
  OBVIOUS
<1>2. rows = [i \in 1 .. n |-> f[i]]
  BY <1>1
<1>3. Append(rows, f[n + 1]) = [i \in 1 .. (n + 1) |-> f[i]]
  BY <1>2, SeqOfEntries
<1>4. f[n + 1] = x /\ f = [i \in 1 .. n + 1 |-> f[i]]
  BY <1>1
<1> QED BY <1>1, <1>3, <1>4
=============================================================================
