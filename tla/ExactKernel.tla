---------------------------- MODULE ExactKernel -----------------------------
(***************************************************************************)
(* The kernel of a matrix over a field of roots of unity (exact_kernel()   *)
(* of core/math/exact_kernel.c).  The matrix is reduced modulo a prime in  *)
(* every embedding of the field, the residues are interpolated and lifted  *)
(* to fractions, and the vectors are multiplied with the matrix exactly;   *)
(* if any of this fails the next prime is tried, four in all.              *)
(*                                                                         *)
(* An element is [c, den], (c[1] + c[2] z + ...) / den with z a root of    *)
(* order m.  Fields of degree one and two are modelled.                    *)
(***************************************************************************)
EXTENDS ModularRows, SequencesExt

CONSTANTS
    KernelRequests, \* what is asked: [m, a], a nonempty sequence of rows
    PrimesNear,     \* primes are searched from here down (2^62)
    WordLimit       \* integers of the exact arithmetic are at most this large (2^127)

VARIABLES
    system,     \* the request
    solving,    \* "prime", "embed", "verify", "ended"
    primesTried, \* the primes, each with a root of the order: [p, w]
    embedded,   \* per embedding: the reduced rows and their pivots
    lifted,     \* the vectors
    outcome     \* "none", "found", "uncertified", "memory"

kernelVars == <<system, solving, primesTried, embedded, lifted, outcome>>

-----------------------------------------------------------------------------
(* The field: the polynomial of its root, lowest coefficient first. *)
RootPolynomial(m) == CASE m = 1 -> <<-1, 1>> [] m = 3 -> <<1, 1, 1>> [] m = 4 -> <<1, 0, 1>>
Degree(m) == Len(RootPolynomial(m)) - 1
Magnitude(n) == IF n < 0 THEN -n ELSE n
Gcd(x, y) ==
    LET gcd[a \in Nat, b \in Nat] == IF b = 0 THEN a ELSE gcd[b, a % b]
    IN  gcd[Magnitude(x), Magnitude(y)]
Units(m) == IF m = 1 THEN <<0>> ELSE SetToSortSeq({j \in 1 .. m - 1 : Gcd(j, m) = 1}, <)

IsNought(x) == \A i \in DOMAIN x.c : x.c[i] = 0
Normal(x) ==
    LET common[i \in 0 .. Len(x.c)] == IF i = 0 THEN x.den ELSE Gcd(common[i - 1], x.c[i])
        g == common[Len(x.c)] * IF x.den < 0 THEN -1 ELSE 1
    IN  [c |-> [i \in DOMAIN x.c |-> x.c[i] \div g], den |-> x.den \div g]
(* Sums and products before they are made coprime. *)
RawSum(x, y) ==
    LET g == Gcd(x.den, y.den)
    IN  [c |-> [i \in DOMAIN x.c |-> x.c[i] * (y.den \div g) + y.c[i] * (x.den \div g)],
         den |-> x.den * (y.den \div g)]
RawProduct(m, x, y) ==
    LET f == RootPolynomial(m)
        top == x.c[Len(x.c)] * y.c[Len(y.c)]
    IN  [c |-> IF Degree(m) = 1 THEN <<top>>
               ELSE <<x.c[1] * y.c[1] - f[1] * top, x.c[1] * y.c[2] + x.c[2] * y.c[1] - f[2] * top>>,
         den |-> x.den * y.den]
Wide(x) == x.den > WordLimit \/ \E i \in DOMAIN x.c : Magnitude(x.c[i]) > WordLimit
(* A row times a vector, and whether an integer on the way was too large. *)
RowTimes(m, row, v) ==
    LET after[k \in 0 .. Len(row)] ==
            IF k = 0 THEN [sum |-> [c |-> [i \in 1 .. Degree(m) |-> 0], den |-> 1], wide |-> FALSE]
            ELSE IF IsNought(row[k]) \/ IsNought(v[k]) THEN after[k - 1]
            ELSE LET term == RawProduct(m, row[k], v[k])
                     sum == RawSum(after[k - 1].sum, Normal(term))
                 IN  [sum |-> Normal(sum), wide |-> after[k - 1].wide \/ Wide(term) \/ Wide(sum)]
    IN  after[Len(row)]

-----------------------------------------------------------------------------
(* Modulo a prime *)
PowerMod(x, e, p) ==
    LET power[n \in Nat] ==
            IF n = 0 THEN 1 % p
            ELSE LET half == power[n \div 2] IN (((half * half) % p) * (IF n % 2 = 1 THEN x ELSE 1)) % p
    IN  power[e]
RootMod(m, p) ==
    LET power(g) == PowerMod(g, (p - 1) \div m, p)
    IN  power(Min({g \in 2 .. p - 1 : \A q \in 2 .. m : m % q = 0 /\ IsPrime(q) => PowerMod(power(g), m \div q, p) # 1}))
(* The next prime of the order below those tried. *)
NextPrime ==
    LET m == system.m
        down[t \in Nat] == IF IsPrime(t * m + 1) THEN t * m + 1 ELSE down[t - 1]
        p == down[IF primesTried = <<>> THEN PrimesNear \div m ELSE (Last(primesTried).p - 1) \div m - 1]
    IN  [p |-> p, w |-> RootMod(m, p)]
(* What the root is mapped to by an embedding. *)
ImageOfRoot(e) == PowerMod(Last(primesTried).w, Units(system.m)[e], Last(primesTried).p)
Residue(x, e) ==
    LET p == Last(primesTried).p
    IN  (FoldLeftDomain(LAMBDA s, i : s + x.c[i] * PowerMod(ImageOfRoot(e), i - 1, p), 0, x.c) * InverseMod(x.den % p, p)) % p

(* The fraction of small numbers that has a residue, by the steps of Euclid. *)
RECONSTRUCT_BOUND(p) == Max({b \in {2 ^ k : k \in 0 .. 14} : b = 1 \/ (b \div 2) * (b \div 2) < p \div 2}) \div 2
Reconstruct(s, p) ==
    LET bound == RECONSTRUCT_BOUND(p)
        step[n \in Nat] ==
            IF n = 0 THEN [r |-> <<p, s>>, t |-> <<0, 1>>]
            ELSE LET before == step[n - 1]
                     q == before.r[1] \div before.r[2]
                 IN  [r |-> <<before.r[2], before.r[1] - q * before.r[2]>>,
                      t |-> <<before.t[2], before.t[1] - q * before.t[2]>>]
        stop[n \in Nat] == IF step[n].r[2] < bound THEN step[n] ELSE stop[n + 1]
        last == stop[0]
        sign == IF last.t[2] < 0 THEN -1 ELSE 1
    IN  [fits |-> Magnitude(last.t[2]) < bound, num |-> sign * last.r[2], den |-> sign * last.t[2]]
(* The coefficients whose values in the embeddings are known. *)
Interpolated(values, p) ==
    LET phi == Len(values)
        rows == [e \in 1 .. phi |->
            [i \in 1 .. phi + 1 |-> IF i > phi THEN values[e] ELSE PowerMod(ImageOfRoot(e), i - 1, p)]]
        solved == Echelon(rows, phi, p).a
    IN  [i \in 1 .. phi |-> solved[i][phi + 1]]
LiftedElement(coefficients, p) ==
    LET parts == [i \in DOMAIN coefficients |->
            IF coefficients[i] = 0 THEN [fits |-> TRUE, num |-> 0, den |-> 1] ELSE Reconstruct(coefficients[i], p)]
        common == FoldSeq(LAMBDA part, l : (l \div Gcd(l, part.den)) * part.den, 1, parts)
    IN  [fits |-> \A i \in DOMAIN parts : parts[i].fits,
         x |-> Normal([c |-> [i \in DOMAIN parts |-> parts[i].num * (common \div parts[i].den)], den |-> common])]

Columns == Len(system.a[1])
FreeOf(pivots) == SetToSortSeq((1 .. Columns) \ Range(pivots), <)
(* Component c of the vector of a free column, in one embedding. *)
VectorMod(one, free, c, p) ==
    IF c \notin Range(one.pivots) THEN IF c = free THEN 1 ELSE 0
    ELSE (-one.a[CHOOSE r \in DOMAIN one.pivots : one.pivots[r] = c][free]) % p
LiftedVectors ==
    LET p == Last(primesTried).p
        free == FreeOf(embedded[1].pivots)
    IN  [t \in DOMAIN free |->
            [c \in 1 .. Columns |->
                LiftedElement(Interpolated([e \in DOMAIN embedded |-> VectorMod(embedded[e], free[t], c, p)], p), p)]]

-----------------------------------------------------------------------------
(* The next prime is tried unless it divides a denominator. *)
TakePrime ==
    /\ solving = "prime" /\ Len(primesTried) < 4
    /\ \E next \in {NextPrime} :
           /\ primesTried' = Append(primesTried, next)
           /\ solving' = IF \E r \in DOMAIN system.a : \E c \in 1 .. Columns : system.a[r][c].den % next.p = 0
                         THEN "prime" ELSE "embed"
    /\ embedded' = <<>> /\ lifted' = <<>>
    /\ UNCHANGED <<system, outcome>>
NoPrimeLeft ==
    /\ solving = "prime" /\ Len(primesTried) = 4
    /\ solving' = "ended" /\ outcome' = "uncertified"
    /\ UNCHANGED <<system, primesTried, embedded, lifted>>
Embedding ==
    LET e == Len(embedded) + 1
    IN  Echelon([r \in DOMAIN system.a |-> [c \in 1 .. Columns |-> Residue(system.a[r][c], e)]], Columns, Last(primesTried).p)
Agrees(one) == \A e \in DOMAIN embedded : embedded[e].pivots = one.pivots
Embed ==
    /\ solving = "embed" /\ Len(embedded) < Degree(system.m)
    /\ \E one \in {Embedding} :
           \/ Agrees(one) /\ embedded' = Append(embedded, one) /\ UNCHANGED solving
           \/ ~Agrees(one) /\ solving' = "prime" /\ UNCHANGED embedded
    /\ UNCHANGED <<system, primesTried, lifted, outcome>>
Lift ==
    /\ solving = "embed" /\ Len(embedded) = Degree(system.m)
    /\ \E vectors \in {LiftedVectors} :
           IF \A t \in DOMAIN vectors : \A c \in 1 .. Columns : vectors[t][c].fits
           THEN /\ lifted' = [t \in DOMAIN vectors |-> [c \in 1 .. Columns |-> vectors[t][c].x]]
                /\ solving' = "verify"
           ELSE solving' = "prime" /\ UNCHANGED lifted
    /\ UNCHANGED <<system, primesTried, embedded, outcome>>
\* A fault: the vectors of a prime are taken as they are.
VerifiedAlways == TRUE
Verified ==
    \A t \in DOMAIN lifted, r \in DOMAIN system.a :
        LET product == RowTimes(system.m, system.a[r], lifted[t])
        IN  IsNought(product.sum) /\ ~product.wide
Verify ==
    /\ solving = "verify"
    /\ \/ Verified /\ solving' = "ended" /\ outcome' = "found"
       \/ ~Verified /\ solving' = "prime" /\ UNCHANGED outcome
    /\ UNCHANGED <<system, primesTried, embedded, lifted>>
NoMemory ==
    /\ solving = "prime" /\ primesTried = <<>>
    /\ solving' = "ended" /\ outcome' = "memory"
    /\ UNCHANGED <<system, primesTried, embedded, lifted>>

KernelAt(asked, step) ==
    /\ system \in asked
    /\ solving = step /\ primesTried = <<>> /\ embedded = <<>> /\ lifted = <<>> /\ outcome = "none"
KernelInit == KernelAt(KernelRequests, "prime")
KernelNext == TakePrime \/ NoPrimeLeft \/ Embed \/ Lift \/ Verify \/ NoMemory
KernelSpec == KernelInit /\ [][KernelNext]_kernelVars

-----------------------------------------------------------------------------
(* The kernel from its definition, over the field: the pivots by the ranks of
   the first columns, the vectors by Cramer's rule. *)
One == [c |-> [i \in 1 .. Degree(system.m) |-> IF i = 1 THEN 1 ELSE 0], den |-> 1]
Nought == [c |-> [i \in 1 .. Degree(system.m) |-> 0], den |-> 1]
Negative(x) == [x EXCEPT !.c = [i \in DOMAIN x.c |-> -x.c[i]]]
Entry(r, c) == system.a[r][c]
(* The determinant of rows and columns, at most two of each. *)
FieldMinor(rows, columns) ==
    CASE Len(rows) = 0 -> One
      [] Len(rows) = 1 -> Entry(rows[1], columns[1])
      [] Len(rows) = 2 ->
            LET crossed == [k \in 1 .. 2 |-> RawProduct(system.m, Entry(rows[1], columns[k]), Entry(rows[2], columns[3 - k]))]
            IN  Normal(RawSum(crossed[1], Negative(crossed[2])))
Increasing(n, to) == {s \in [1 .. n -> 1 .. to] : \A i, j \in 1 .. n : i < j => s[i] < s[j]}
FullRows(columns) == {rows \in Increasing(Len(columns), Len(system.a)) : ~IsNought(FieldMinor(rows, columns))}
TruePivots ==
    LET after[c \in 0 .. Columns] ==
            IF c = 0 THEN <<>>
            ELSE LET wider == Append(after[c - 1], c) IN IF FullRows(wider) # {} THEN wider ELSE after[c - 1]
    IN  after[Columns]
Conjugate(x) ==
    IF Degree(system.m) = 1 THEN One
    ELSE [x EXCEPT !.c = <<x.c[1] - RootPolynomial(system.m)[2] * x.c[2], -x.c[2]>>]
(* The norm is the rational product of an element and its conjugate. *)
Norm(x) == RawProduct(system.m, x, Conjugate(x)).c[1]
(* Divided by y: times its conjugate, divided by its norm. *)
Quotient(x, y) ==
    LET over == RawProduct(system.m, x, Conjugate(y))
        norm == RawProduct(system.m, y, Conjugate(y))
    IN  Normal([c |-> [i \in DOMAIN over.c |-> over.c[i] * norm.den], den |-> over.den * norm.c[1]])
TrueVectors ==
    LET pivots == TruePivots
        rows == CHOOSE rows \in FullRows(pivots) : TRUE
        free == FreeOf(pivots)
        (* The minor of the pivots, with column f in the place of column c. *)
        minor == [c \in 1 .. Columns, f \in 1 .. Columns |->
            FieldMinor(rows, [k \in DOMAIN pivots |-> IF pivots[k] = c THEN f ELSE pivots[k]])]
    IN  [t \in DOMAIN free |->
            [c \in 1 .. Columns |->
                IF c \in Range(pivots) THEN Negative(Quotient(minor[c, free[t]], minor[c, c]))
                ELSE IF c = free[t] THEN One ELSE Nought]]

(* A prime that divides no denominator, and no minor in any embedding. *)
IsGoodPrime(p) ==
    /\ \A r \in DOMAIN system.a, c \in 1 .. Columns : Entry(r, c).den % p # 0
    /\ \A columns \in Increasing(1, Columns) \cup Increasing(2, Columns) :
           \A rows \in FullRows(columns) : Norm(FieldMinor(rows, columns)) % p # 0
(* Numerators and denominators are below half the root of p / 2, and no integer
   of the exact products is too large. *)
IsSmall(vectors, p) ==
    /\ \A t \in DOMAIN vectors, c \in 1 .. Columns, i \in 1 .. Degree(system.m) :
           LET x == vectors[t][c]
               part == Normal([c |-> <<x.c[i]>>, den |-> x.den])
           IN  \A n \in {Magnitude(part.c[1]), part.den} : n < p /\ 8 * n * n < p
    /\ \A t \in DOMAIN vectors, r \in DOMAIN system.a : ~RowTimes(system.m, system.a[r], vectors[t]).wide

(* A kernel that is answered is the whole kernel of the matrix, with the true
   pivots.  It is refused only if each of the four primes divides a denominator
   or a minor, or is too small for the fractions of the kernel, or an exact
   product is too large.  (exact_kernel, reconstruct) *)
KernelExact ==
    /\ outcome = "found" => lifted = TrueVectors /\ embedded[1].pivots = TruePivots
    /\ outcome = "uncertified" =>
           \A one \in Range(primesTried) : ~(IsGoodPrime(one.p) /\ IsSmall(TrueVectors, one.p))
=============================================================================
