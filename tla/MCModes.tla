------------------------------ MODULE MCModes -------------------------------
(***************************************************************************)
(* IndependentModes on a small instance: three or four modes of up to      *)
(* three components, primes from 13 down.  Several pairs of vectors        *)
(* have the determinant 13, 11 or 143.                                     *)
(***************************************************************************)
EXTENDS IndependentModes

ModeOf(site, spec, waves, replaced, vector) ==
    [site |-> site, magnetic |-> FALSE, spec |-> spec, waves |-> waves, replaced |-> replaced, vector |-> vector]
Vectors == {<<2, 3, 0>>, <<-1, 5, 0>>, <<4, -2, 1>>, <<13, 0, 0>>, <<0, 0, 0>>, <<1, 8, 1>>, <<3, 1, 4>>, <<0, 11, 0>>}
MCModeLists ==
    {<<ModeOf("A", 1, <<"k">>, TRUE, u), ModeOf("A", 1, <<"k">>, TRUE, v), ModeOf("A", 2, <<"k">>, FALSE, w)>> :
        u \in Vectors, v \in Vectors, w \in Vectors}
    \cup
    {<<ModeOf("A", 1, <<"k">>, TRUE, u), ModeOf("B", 1, <<"k">>, second, <<1, 2>>), ModeOf("A", 2, <<"k">>, FALSE, v),
       ModeOf("B", 2, waves, second, <<2, 4>>)>> :
        u \in {<<2, 3, 0>>, <<0, 11, 0>>}, v \in {<<2, 3, 0>>, <<4, 6>>},
        waves \in {<<>>, <<"k">>, <<"l">>}, second \in BOOLEAN}
=============================================================================
