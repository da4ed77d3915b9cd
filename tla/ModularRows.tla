---------------------------- MODULE ModularRows -----------------------------
(***************************************************************************)
(* Matrices modulo a prime: sequences of rows.  Both solvers of core/math  *)
(* reduce them in this way, modular_columns.c one column after the other   *)
(* and exact_kernel.c for every embedding of a field.                      *)
(***************************************************************************)
EXTENDS Integers, Sequences, FiniteSets, FiniteSetsExt

IsPrime(n) == n > 1 /\ \A d \in 2 .. n - 1 : n % d # 0
InverseMod(x, p) == CHOOSE y \in 1 .. p - 1 : (x * y) % p = 1

(* One turn of the loop over the columns: the first row at or below the place
   of the next pivot that has something in column c is moved there, scaled,
   and taken off all others. *)
Pivoted(s, c, p) ==
    LET place == Len(s.pivots) + 1
        open == {r \in place .. Len(s.a) : s.a[r][c] # 0}
        swapped == [s.a EXCEPT ![place] = s.a[Min(open)], ![Min(open)] = s.a[place]]
        scale == InverseMod(swapped[place][c], p)
        row == [k \in DOMAIN swapped[place] |-> (swapped[place][k] * scale) % p]
    IN  IF open = {} THEN s
        ELSE [a |-> [r \in DOMAIN s.a |->
                        IF r = place THEN row
                        ELSE [k \in DOMAIN row |-> (swapped[r][k] - swapped[r][c] * row[k]) % p]],
              pivots |-> Append(s.pivots, c)]

(* The reduced rows and the columns of their pivots, ascending. *)
Echelon(a, columns, p) ==
    LET after[c \in 0 .. columns] ==
            IF c = 0 THEN [a |-> a, pivots |-> <<>>]
            ELSE LET before == after[c - 1] IN Pivoted(before, c, p)
    IN  after[columns]
=============================================================================
