---------------------------- MODULE MCKFamilies ----------------------------
(***************************************************************************)
(* KFamilies on a small instance: the k points of P2, P4, P3 and P23, on   *)
(* the axes of their primitive lattices, in twelfths.                      *)
(***************************************************************************)
EXTENDS KFamilies

Evald(f) == <<>> \o f
SgNumbers == {3, 75, 143, 195}

(* Row i of a signed permutation takes coordinate |s[i]|, with its sign. *)
SignedUnit(n) == [i \in 1 .. 3 |-> IF i = n THEN 1 ELSE IF i = -n THEN -1 ELSE 0]
Signed(s) == <<SignedUnit(s[1]), SignedUnit(s[2]), SignedUnit(s[3])>>
All(triples) == Evald([n \in DOMAIN triples |-> Signed(triples[n])])
Inverted(rotations) == rotations \o Evald([n \in DOMAIN rotations |-> NegMatrix(rotations[n])])
Tetrad == <<<<1, 2, 3>>, <<-1, -2, 3>>, <<-2, 1, 3>>, <<2, -1, 3>>>>
Tetrahedral == <<
    <<1, 2, 3>>, <<1, -2, -3>>, <<-1, 2, -3>>, <<-1, -2, 3>>, <<2, 3, 1>>, <<2, -3, -1>>,
    <<-2, 3, -1>>, <<-2, -3, 1>>, <<3, 1, 2>>, <<3, -1, -2>>, <<-3, 1, -2>>, <<-3, -1, 2>>>>
Octahedral == Tetrahedral \o <<
    <<-2, -1, -3>>, <<-2, 1, 3>>, <<2, -1, 3>>, <<2, 1, -3>>, <<-1, -3, -2>>, <<-1, 3, 2>>,
    <<1, -3, 2>>, <<1, 3, -2>>, <<-3, -2, -1>>, <<-3, 2, 1>>, <<3, -2, 1>>, <<3, 2, -1>>>>
Dihedral == <<
    <<1, 2, 3>>, <<1, -2, -3>>, <<-1, 2, -3>>, <<-1, -2, 3>>, <<-2, -1, -3>>, <<-2, 1, 3>>, <<2, -1, 3>>, <<2, 1, -3>>>>
(* On the axes of the hexagonal reciprocal lattice: sixth turns about the third
   axis and the half turns across it. *)
Flat(a, b, c, d, e) == <<<<a, b, 0>>, <<c, d, 0>>, <<0, 0, e>>>>
Hexagonal == <<
    Flat(1, 0, 0, 1, 1), Flat(0, -1, 1, 1, 1), Flat(-1, -1, 1, 0, 1), Flat(-1, 0, 0, -1, 1),
    Flat(0, 1, -1, -1, 1), Flat(1, 1, -1, 0, 1), Flat(1, 0, -1, -1, -1), Flat(1, 1, 0, -1, -1),
    Flat(0, 1, 1, 0, -1), Flat(-1, 0, 1, 1, -1), Flat(-1, -1, 0, 1, -1), Flat(0, -1, -1, 0, -1)>>

SgRotationTable == [sg \in SgNumbers |->
    CASE sg = 3 -> All(<<<<1, 2, 3>>, <<-1, -2, 3>>>>)
      [] sg = 75 -> All(Tetrad)
      [] sg = 143 -> <<Hexagonal[1], Hexagonal[3], Hexagonal[5]>>
      [] sg = 195 -> All(Tetrahedral)]
LatticeTable == [sg \in SgNumbers |->
    CASE sg = 3 -> Inverted(All(<<<<1, 2, 3>>, <<-1, -2, 3>>>>))
      [] sg = 75 -> Inverted(All(Dihedral))
      [] sg = 143 -> Inverted(Hexagonal)
      [] sg = 195 -> Inverted(All(Octahedral))]
SettingTable == [sg \in SgNumbers |-> IF sg = 3 THEN Signed(<<2, 3, 1>>) ELSE Signed(<<1, 2, 3>>)]

(* The k points of the lattice: the numerators over KDen = 12 of the constant part,
   then the directions. *)
MonoclinicPoints == <<
    <<<<0, 0, 0>>>>, <<<<0, 0, 0>>, <<0, 0, 1>>>>, <<<<6, 6, 0>>>>, <<<<6, 0, 0>>>>,
    <<<<0, 6, 6>>>>, <<<<6, 0, 6>>>>, <<<<6, 6, 6>>>>, <<<<0, 6, 0>>>>, <<<<0, 0, 6>>>>,
    <<<<6, 6, 0>>, <<0, 0, 1>>>>, <<<<6, 0, 0>>, <<0, 0, 1>>>>, <<<<0, 6, 0>>, <<0, 0, 1>>>>,
    <<<<0, 0, 0>>, <<1, 0, 0>>, <<0, 1, 0>>>>, <<<<0, 0, 6>>, <<1, 0, 0>>, <<0, 1, 0>>>>,
    <<<<0, 0, 0>>, <<1, 0, 0>>, <<0, 1, 0>>, <<0, 0, 1>>>>>>
TetragonalPoints == <<
    <<<<0, 0, 0>>>>, <<<<0, 0, 0>>, <<1, 1, 0>>>>, <<<<0, 0, 0>>, <<0, 1, 0>>>>,
    <<<<0, 0, 0>>, <<0, 0, 1>>>>, <<<<6, 6, 0>>>>, <<<<0, 6, 0>>>>, <<<<6, 6, 6>>>>,
    <<<<0, 6, 6>>>>, <<<<0, 0, 6>>>>, <<<<0, 6, 0>>, <<1, 0, 0>>>>, <<<<6, 6, 0>>, <<0, 0, 1>>>>,
    <<<<0, 6, 0>>, <<0, 0, 1>>>>, <<<<0, 0, 6>>, <<1, 1, 0>>>>, <<<<0, 6, 6>>, <<1, 0, 0>>>>,
    <<<<0, 0, 6>>, <<0, 1, 0>>>>, <<<<0, 0, 0>>, <<0, 1, 0>>, <<0, 0, 1>>>>,
    <<<<0, 0, 0>>, <<1, 1, 0>>, <<0, 0, 1>>>>, <<<<0, 0, 0>>, <<1, 0, 0>>, <<0, 1, 0>>>>,
    <<<<0, 0, 6>>, <<1, 0, 0>>, <<0, 1, 0>>>>, <<<<0, 6, 0>>, <<1, 0, 0>>, <<0, 0, 1>>>>,
    <<<<0, 0, 0>>, <<1, 0, 0>>, <<0, 1, 0>>, <<0, 0, 1>>>>>>
TrigonalPoints == <<
    <<<<0, 0, 0>>>>, <<<<0, 0, 0>>, <<0, 0, 1>>>>, <<<<0, 0, 0>>, <<1, 1, 0>>>>,
    <<<<0, 0, 0>>, <<1, 0, 0>>>>, <<<<0, 0, 6>>>>, <<<<4, 4, 6>>>>, <<<<4, 4, 0>>>>,
    <<<<6, 0, 6>>>>, <<<<6, 0, 0>>>>, <<<<4, 4, 0>>, <<0, 0, 1>>>>, <<<<0, 0, 6>>, <<1, 1, 0>>>>,
    <<<<0, 0, 6>>, <<1, 0, 0>>>>, <<<<6, 0, 0>>, <<0, 0, 1>>>>,
    <<<<0, 0, 0>>, <<1, 0, 0>>, <<0, 1, 0>>>>, <<<<0, 0, 0>>, <<1, 1, 0>>, <<0, 0, 1>>>>,
    <<<<0, 0, 0>>, <<1, 0, 0>>, <<0, 0, 1>>>>, <<<<0, 0, 6>>, <<1, 0, 0>>, <<0, 1, 0>>>>,
    <<<<0, 0, 0>>, <<1, 0, 0>>, <<0, 1, 0>>, <<0, 0, 1>>>>>>
CubicPoints == <<
    <<<<0, 0, 0>>>>, <<<<0, 0, 0>>, <<0, 1, 0>>>>, <<<<0, 0, 0>>, <<1, 1, 1>>>>,
    <<<<0, 0, 0>>, <<1, 1, 0>>>>, <<<<6, 6, 6>>>>, <<<<0, 6, 0>>>>, <<<<6, 6, 0>>>>,
    <<<<0, 6, 0>>, <<1, 0, 1>>>>, <<<<6, 6, 0>>, <<0, 0, 1>>>>, <<<<0, 6, 0>>, <<1, 0, 0>>>>,
    <<<<0, 0, 0>>, <<1, 1, 0>>, <<0, 0, 1>>>>, <<<<0, 0, 0>>, <<1, 0, 0>>, <<0, 1, 0>>>>,
    <<<<0, 6, 0>>, <<1, 0, 0>>, <<0, 0, 1>>>>,
    <<<<0, 0, 0>>, <<1, 0, 0>>, <<0, 1, 0>>, <<0, 0, 1>>>>, <<<<6, 0, 0>>, <<0, 1, 0>>>>>>

PointsOf(sg) ==
    CASE sg = 3 -> MonoclinicPoints [] sg = 75 -> TetragonalPoints
      [] sg = 143 -> TrigonalPoints [] sg = 195 -> CubicPoints
FlipsOf(sg, f) == IF sg = 75 /\ f \in {3, 15} THEN {2} ELSE {}
OrderOf(sg, f) == IF sg = 195 /\ f = 15 THEN <<1, 3, 2>> ELSE <<>>
StarsOf(sg, points, rotations) ==
    Evald([f \in DOMAIN points |-> StarOf(rotations, points[f], OrderOf(sg, f), FlipsOf(sg, f))])
StarTable == [sg \in SgNumbers |-> StarsOf(sg, PointsOf(sg), SgRotationTable[sg])]
MCStars == StarTable
MCSgRotations == SgRotationTable
MCLatticeRotations == LatticeTable
MCSettingMatrix == SettingTable

Asked(sg, basis, preferred, tight) == [sg |-> sg, basis |-> basis, preferred |-> preferred, tight |-> tight]
Diagonal(a, b, c) == <<<<a, 0, 0>>, <<0, b, 0>>, <<0, 0, c>>>>
MCSessions == {
    <<Asked(195, Diagonal(4, 4, 1), {}, FALSE),
      Asked(195, <<<<1, 1, 0>>, <<-1, 1, 0>>, <<0, 0, 3>>>>, {}, FALSE),
      Asked(195, Diagonal(4, 2, 1), {[family |-> 15, params |-> <<3>>]}, FALSE)>>,
    <<Asked(75, Diagonal(4, 3, 1), {}, FALSE), Asked(75, <<<<1, 1, 0>>, <<-1, 1, 0>>, <<0, 0, 3>>>>, {}, FALSE),
      Asked(143, <<<<0, 0, 3>>, <<0, 3, 3>>, <<2, -2, 0>>>>, {}, FALSE)>>,
    <<Asked(3, <<<<3, 0, 0>>, <<0, 1, 1>>, <<0, -1, 1>>>>, {}, TRUE), Asked(3, Diagonal(3, 1, 2), {}, FALSE)>>}
=============================================================================
