------------------------------ MODULE MCKernel ------------------------------
(***************************************************************************)
(* ExactKernel on a small instance: rational matrices, matrices over the   *)
(* third and the fourth roots of unity, with entries that the primes near  *)
(* 1024 divide in one or in all embeddings, kernels whose fractions are    *)
(* too large to be lifted, or are lifted to others that are not in the     *)
(* kernel, or are right but too large to be verified.                      *)
(***************************************************************************)
EXTENDS ExactKernel

Whole(n) == [c |-> <<n>>, den |-> 1]
Part(n, d) == [c |-> <<n>>, den |-> d]
Complex(x, y) == [c |-> <<x, y>>, den |-> 1]
Small == {-5, 0, 1, 2, 15, 16}
Rational ==
    {<<<<Whole(x), Whole(y)>>>> : x \in {0, 1, 2, 3, 1021, 1019}, y \in {0, 1, 15, 16, 100, -510}}
    \cup {<<<<Whole(x), Whole(y)>>, <<Whole(2), Whole(z)>>>> : x \in Small, y \in Small, z \in {1, 510, -5}}
    \cup {<<<<Part(x, d), Part(1, 3), Whole(3)>>, <<Whole(y), Whole(2), Part(1, 7)>>>> :
             x \in {0, 1, 5}, y \in {0, 2, 10}, d \in {1, 2, 1021}}
    \cup {<<<<Whole(1021)>>, <<Whole(1019)>>>>, <<<<Whole(1021 * 1019)>>>>, <<<<Whole(28000), Whole(-26000)>>>>, <<<<Part(1, 1021), Part(1, 1019), Part(1, 1013), Part(1, 1009)>>>>}
OverRoots ==
    {<<<<Complex(x, y), Complex(z, 2)>>>> : x \in {0, 1, 11}, y \in {0, -2, 30}, z \in {-1, 0, 4}}
    \cup {<<<<Complex(1, x), Complex(y, 3), Complex(0, 1)>>, <<Complex(x, 1), Complex(2, y), z>>>> :
             x \in {0, 1, 2}, y \in {0, 1, -6}, z \in {Complex(11, 30), Complex(1, 0)}}
    \cup {<<<<Complex(11, 30)>>>>, <<<<Complex(11, 30)>>, <<Complex(11, -30)>>>>}
MCKernelRequests ==
    {[m |-> 1, a |-> a] : a \in Rational} \cup {[m |-> m, a |-> a] : m \in {3, 4}, a \in OverRoots}
=============================================================================
