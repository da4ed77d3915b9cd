----------------------------- MODULE MCCoupled ------------------------------
(***************************************************************************)
(* CoupledOpds on small instances.  The parents are P4mm, with the         *)
(* translations modulo two cells along two axes, and P23  with those along *)
(* three.  The irreps are signed permutations of their components: a       *)
(* vector of Gamma (GM) and of the zone corner (M), which is of P4mm only, *)
(* the star of X whose arms are the axes (X1), the same with the sign of a *)
(* swap (X2) and with the sign of the axis (X3), and of P4mm the sign of a *)
(* swap (S), with one component.                                           *)
(***************************************************************************)
EXTENDS MCEngine, CoupledOpds

(* Operation (p, f) of d axes: point operation p shuffles the axes and turns
   over those in Over, translation f moves along the axes in Along. *)
Odd(n) == n % 2 = 1
Parent4mm == [axes |-> 2, points |-> <<0, 1, 6, 7, 12, 13, 18, 19>>]
Parent23 == [axes |-> 3, points |-> SelectSeq([i \in 1 .. 48 |-> i - 1], LAMBDA n : ~Odd(n) /\ Proper(n))]
Along(f) == Bits(f - 1)

Turning(v, axes) == [i \in DOMAIN v |-> IF i \in axes THEN -v[i] ELSE v[i]]
Components(d, x) == Evaluated([i \in 1 .. d |-> Component(x, i)])
Shuffled(n, v) == [i \in DOMAIN v |-> v[Of48(n).to[i]]]
MovedBy(kind, n, f, v) ==
    CASE kind = "GM" -> Turning(Shuffled(n, v), Of48(n).turned)
      [] kind = "M" -> Turning(Shuffled(n, v), IF Odd(Cardinality(Along(f))) THEN (1 .. 2) \ Of48(n).turned ELSE Of48(n).turned)
      [] kind = "X1" -> Shuffled(n, Turning(v, Along(f)))
      [] kind = "X2" -> Turning(Shuffled(n, Turning(v, Along(f))), IF Odd(n) THEN 1 .. 3 ELSE {})
      [] kind = "X3" -> Turning(Shuffled(n, Turning(v, Along(f))), Of48(n).turned)
      [] kind = "S" -> Turning(v, IF Odd(n) THEN {1} ELSE {})
DimensionOf(kind, parent) == IF kind = "S" THEN 1 ELSE parent.axes
MovesOf(kind, parent) ==
    LET d == DimensionOf(kind, parent)
        fractions == 2 ^ parent.axes
    IN  Evaluated([g \in 1 .. Len(parent.points) * fractions |-> Evaluated([x \in 1 .. Size(d) |->
            Vector(Evaluated(MovedBy(kind, parent.points[((g - 1) \div fractions) + 1],
                                     ((g - 1) % fractions) + 1, Components(d, x))))])])
(* A row is given by its components: 0, or equal where they are the same letter. *)
Spanned(row) ==
    {x \in 1 .. Size(Len(row)) : \A i, j \in DOMAIN row :
        /\ row[i] = "0" => Component(x, i) = 0
        /\ row[i] = row[j] => Component(x, i) = Component(x, j)}
RowsOfKind(kind, parent) ==
    CASE kind = "S" -> <<<<"a">>>>
      [] kind # "S" /\ parent.axes = 2 -> <<<<"a", "0">>, <<"a", "a">>, <<"a", "b">>>>
      [] kind = "GM" /\ parent.axes = 3 -> <<<<"a", "0", "0">>, <<"a", "a", "a">>, <<"a", "b", "c">>>>
      [] OTHER -> <<<<"a", "0", "0">>, <<"a", "a", "a">>, <<"a", "b", "0">>, <<"a", "b", "c">>>>

Instances == <<
    [parent |-> Parent4mm, kinds |-> <<"X1", "GM">>],
    [parent |-> Parent4mm, kinds |-> <<"X1", "X2">>],
    [parent |-> Parent4mm, kinds |-> <<"S", "M", "X3">>],
    [parent |-> Parent23, kinds |-> <<"X1", "GM">>]>>
ForEach(Of(_)) == Evaluated([c \in DOMAIN Instances |-> Of(Instances[c])])
ForSlots(Of(_, _), in) == Evaluated([s \in DOMAIN in.kinds |-> Of(in.kinds[s], in.parent)])
SpannedRows(kind, parent) ==
    Evaluated([i \in DOMAIN RowsOfKind(kind, parent) |-> Spanned(RowsOfKind(kind, parent)[i])])
ProductsOf(parent) ==
    LET points == parent.points
        vectors == Evaluated([i \in DOMAIN points |->
            Evaluated([x \in 1 .. Size(parent.axes) |->
                Vector(Evaluated(MovedBy("GM", points[i], 1, Components(parent.axes, x))))])])
    IN  Evaluated([p \in DOMAIN points |-> Evaluated([q \in DOMAIN points |->
            CHOOSE r \in DOMAIN points :
                \A x \in Axes(parent.axes) : vectors[r][x] = vectors[p][vectors[q][x]]])])

PointOpCounts == ForEach(LAMBDA in : Len(in.parent.points))
FractionCounts == ForEach(LAMBDA in : 2 ^ in.parent.axes)
PointProducts == ForEach(LAMBDA in : ProductsOf(in.parent))
MoveTables == ForEach(LAMBDA in : ForSlots(MovesOf, in))
RowTables == ForEach(LAMBDA in : ForSlots(SpannedRows, in))
SourceOrders == ForEach(LAMBDA in : Evaluated([s \in DOMAIN in.kinds |-> s # 1]))

MCCouples == 1 .. 4
MCPointOps == PointOpCounts
MCFractions == FractionCounts
MCPointProduct == PointProducts
MCMoves == MoveTables
MCSlotRows == RowTables
MCInSourceOrder == SourceOrders
(* The groups of two operations are not identified. *)
MCUnnamed == {{1, g} : g \in 2 .. 96}
=============================================================================
