------------------------------- MODULE KStars -------------------------------
(***************************************************************************)
(* K vectors, the stars of the k points of a parent (core/k/star.c), and   *)
(* which parameters put a k vector on an arm of a star                     *)
(* (core/k/star_solutions.c, solver_for of core/k/families.c).             *)
(*                                                                         *)
(* A vector is given by its numerators over KDen.  An arm is the sequence  *)
(* of its constant part and its parameter directions, which are integral;  *)
(* parameters are numerators over KDen as well.                            *)
(***************************************************************************)
EXTENDS Integers, Sequences, FiniteSets, SequencesExt, FiniteSetsExt

CONSTANT KDen
ASSUME KDenAssumption == KDen \in Nat \ {0}

Dot(u, v) == u[1] * v[1] + u[2] * v[2] + u[3] * v[3]
Rotated(m, v) == <<Dot(m[1], v), Dot(m[2], v), Dot(m[3], v)>>
Mod1(v) == <<v[1] % KDen, v[2] % KDen, v[3] % KDen>>
Neg(v) == <<-v[1], -v[2], -v[3]>>
NegMatrix(m) == <<Neg(m[1]), Neg(m[2]), Neg(m[3])>>

-----------------------------------------------------------------------------
(* The numbers up to n that are in a set. *)
Ascending(members, n) ==
    LET order[i \in 0 .. n] ==
            IF i = 0 THEN <<>> ELSE IF i \in members THEN Append(order[i - 1], i) ELSE order[i - 1]
    IN  order[n]

(* The star of a k point: the images of its first arm. *)
Reversed(arm) == [r \in DOMAIN arm |-> Neg(arm[r])]
SameArm(a, b) == Mod1(a[1]) = Mod1(b[1]) /\ Tail(a) = Tail(b)
ArmImages(rotations, seed) ==
    [g \in DOMAIN rotations |-> [r \in DOMAIN seed |-> Rotated(rotations[g], seed[r])]]
(* -k is in the star, and is not k. *)
HasMinus(images, seed) ==
    /\ ~SameArm(Reversed(seed), seed)
    /\ \E g \in DOMAIN images : SameArm(Reversed(images[g]), seed)
KnownArm(images, g, minus) ==
    \E h \in 1 .. g - 1 : \/ SameArm(images[h], images[g])
                          \/ minus /\ SameArm(images[h], Reversed(images[g]))
GeneratedArms(rotations, seed) ==
    LET images == ArmImages(rotations, seed)
        minus == HasMinus(images, seed)
        kept == Ascending({g \in DOMAIN images : ~KnownArm(images, g, minus)}, Len(images))
    IN  [a \in DOMAIN kept |-> images[kept[a]]]
(* The arms in the order and with the signs that are conventional: `order` may
   be <<>>, `flips` are the arms stored with the opposite sign. *)
StarOf(rotations, seed, order, flips) ==
    LET arms == GeneratedArms(rotations, seed)
        ordered == IF order = <<>> THEN arms ELSE [a \in DOMAIN arms |-> arms[order[a]]]
        Stored(a) == IF a \in flips THEN Reversed(ordered[a]) ELSE ordered[a]
    IN  [a \in DOMAIN ordered |-> <<Mod1(Stored(a)[1])>> \o Tail(Stored(a))]

-----------------------------------------------------------------------------
(* The directions of an arm beside the unit matrix, eliminated: direction c is
   left in row c alone, and what the rows made of the unit vectors tells the
   parameters, or whether there are any. *)
Beside(arm) ==
    [axis \in 1 .. 3 |-> [c \in 1 .. Len(arm) + 2 |->
        IF c < Len(arm) THEN arm[c + 1][axis] ELSE IF c - Len(arm) + 1 = axis THEN 1 ELSE 0]]
Cleared(m, c) ==
    LET pivot == Min({r \in c .. 3 : m[r][c] # 0})
        swapped == [m EXCEPT ![c] = m[pivot], ![pivot] = m[c]]
    IN  [r \in 1 .. 3 |->
            IF r = c THEN swapped[c]
            ELSE [j \in DOMAIN m[r] |-> swapped[r][j] * swapped[c][c] - swapped[r][c] * swapped[c][j]]]
Eliminated(arm) ==
    LET after[c \in 0 .. Len(arm) - 1] ==
            IF c = 0 THEN Beside(arm)
            ELSE LET before == after[c - 1] IN Cleared(before, c)
    IN  after[Len(arm) - 1]
SolverOf(arm) ==
    LET m == Eliminated(arm)
        dim == Len(arm) - 1
    IN  [rows |-> [r \in 1 .. 3 |-> SubSeq(m[r], dim + 1, dim + 3)], pivots |-> [c \in 1 .. dim |-> m[c][c]]]

(* The reciprocal lattice vectors that are tried, in order. *)
Lattice27 == <<>> \o [n \in 1 .. 27 |->
    <<KDen * (((n - 1) \div 9) - 1), KDen * ((((n - 1) \div 3) % 3) - 1), KDen * (((n - 1) % 3) - 1)>>]
(* The combination of the directions that brings the arm to the target. *)
Wanted(arm, target, shift) ==
    <<target[1] + shift[1] - arm[1][1], target[2] + shift[2] - arm[1][2], target[3] + shift[3] - arm[1][3]>>
Consistent(solver, rhs) == \A r \in Len(solver.pivots) + 1 .. 3 : Dot(solver.rows[r], rhs) = 0
ParamsFor(solver, rhs) ==  \* the divisions leave no rest: directions are primitive
    [c \in DOMAIN solver.pivots |->
        IF solver.pivots[c] > 0 THEN Dot(solver.rows[c], rhs) \div solver.pivots[c]
        ELSE -(Dot(solver.rows[c], rhs) \div (-solver.pivots[c]))]
Hits(arm, solver, target) ==
    {n \in 1 .. 27 : \E rhs \in {Wanted(arm, target, Lattice27[n])} : Consistent(solver, rhs)}
SolvedAt(arm, solver, target, n) ==
    CHOOSE params \in {ParamsFor(solver, rhs) : rhs \in {Wanted(arm, target, Lattice27[n])}} : TRUE
(* KS_FIRST: of the first arm and vector that have one, if any. *)
FirstSolution(star, solvers, target) ==
    LET arms == {a \in DOMAIN star : Hits(star[a], solvers[a], target) # {}}
    IN  {SolvedAt(star[a], solvers[a], target, Min(Hits(star[a], solvers[a], target))) :
            a \in IF arms = {} THEN {} ELSE {Min(arms)}}
(* KS_ALL_MOD_ONE *)
ModOne(params) == [c \in DOMAIN params |-> params[c] % KDen]
AllSolutions(star, solvers, target) ==
    UNION {{ModOne(p) : p \in {SolvedAt(star[a], solvers[a], target, n) : n \in Hits(star[a], solvers[a], target)}} :
              a \in DOMAIN star}

KVector(arm, params) ==
    LET at[c \in 0 .. Len(params)] ==
            IF c = 0 THEN arm[1]
            ELSE LET v == at[c - 1] IN [axis \in 1 .. 3 |-> v[axis] + params[c] * arm[c + 1][axis]]
    IN  at[Len(params)]
=============================================================================
