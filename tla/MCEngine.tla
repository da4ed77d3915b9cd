------------------------------ MODULE MCEngine ------------------------------
(***************************************************************************)
(* Engine on a small instance.  Orders 24 and 48; two bases per field:     *)
(* basis 1 is shown as it is and has the same doubles in both fields (a    *)
(* rational subspace), basis 2 has doubles of its own in each, which look  *)
(* alike with six decimals.  The hashes collide modulo every size a table  *)
(* has here.  The images of the walk are groups of signed permutations of  *)
(* three axes.  MCFrames holds the instance of the mode frames.            *)
(***************************************************************************)
EXTENDS Engine, MCFrames, FiniteSets, Functions

MCModuli == {24, 48}
MCPrimeOf ==
    [key \in MCModuli \X {0, 1} |->
        CASE key = <<24, 0>> -> 73 [] key = <<48, 1>> -> 0 [] OTHER -> 97]
MCDoubles == 0 .. 3
MCDoublesHash == [d \in MCDoubles |-> IF d = 3 THEN 7 ELSE 8 * d]
MCBases == {1, 2}
MCOrthogonal == [x \in MCModuli \X MCBases |-> IF x[2] = 1 THEN 0 ELSE x[1] \div 24]
MCShown == [x \in MCModuli \X MCBases |-> IF x[2] = 1 THEN 0 ELSE 3]

-----------------------------------------------------------------------------
Evaluated(f) == <<>> \o f  \* a table, not a rule evaluated at each use

(* A vector with d components over -1, 0, 1 is the number of d ternary digits,
   counted from 1.  A signed permutation of the axes fixes a subspace that is
   spanned by such vectors, and so does a group of them. *)
Size(d) == 3 ^ d
Component(x, i) == (((x - 1) \div 3 ^ (i - 1)) % 3) - 1
Vector(c) == 1 + FoldFunction(+, 0, [i \in DOMAIN c |-> (c[i] + 1) * 3 ^ (i - 1)])
Axes(d) == {1 + (Size(d) + 2 * 3 ^ (i - 1) - 1) \div 2 : i \in 1 .. d}

(* The 48 of three axes: the shuffle is the remainder by 6, the axes turned
   over are the bits of the quotient. *)
Shuffles == <<<<1, 2, 3>>, <<2, 1, 3>>, <<2, 3, 1>>, <<1, 3, 2>>, <<3, 1, 2>>, <<3, 2, 1>>>>
Bits(n) == {i \in 1 .. 3 : (n \div 2 ^ (i - 1)) % 2 = 1}
Of48(n) == [to |-> Shuffles[(n % 6) + 1], turned |-> Bits(n \div 6)]
Proper(n) == n % 2 = Cardinality(Bits(n \div 6)) % 2

(* The four arms of the star of L in F222: the operations change the arms in
   pairs, the translations turn over an even number of them. *)
Changes == <<<<1, 2, 3, 4>>, <<2, 1, 4, 3>>, <<3, 4, 1, 2>>, <<4, 3, 2, 1>>>>
OfL(n) ==
    LET bits == Bits(n \div 4)
    IN  [to |-> Changes[(n % 4) + 1],
         turned |-> IF Cardinality(bits) % 2 = 1 THEN bits \cup {4} ELSE bits]

(* An image: its matrices, and how many pairs share each of them. *)
Numbers(group, up) == SelectSeq([i \in 1 .. 48 |-> IF up THEN i - 1 ELSE 48 - i], LAMBDA n : n \in group)
Shape(Of(_), group, up, copies) ==
    LET numbers == Numbers(group, up)
    IN  [matrices |-> Evaluated([i \in DOMAIN numbers |-> Of(numbers[i])]), copies |-> copies]
Shapes == <<
    Shape(Of48, {n \in 0 .. 47 : Proper(n)}, TRUE, 1),       \* O
    Shape(Of48, (0 .. 5) \cup (42 .. 47), FALSE, 1),         \* D3d
    Shape(Of48, {n \in 0 .. 47 : n % 6 = 0}, TRUE, 2),       \* D2h
    Shape(OfL, 0 .. 31, TRUE, 1),
    Shape(OfL, 0 .. 31, FALSE, 1) >>

Dimension(shape) == Len(shape.matrices[1].to)
Table(matrix) ==
    LET d == Len(matrix.to)
    IN  Evaluated([x \in 1 .. Size(d) |->
            Vector([i \in 1 .. d |->
                IF i \in matrix.turned THEN -Component(x, matrix.to[i]) ELSE Component(x, matrix.to[i])])])
Acts(shape) ==
    LET tables == Evaluated([i \in DOMAIN shape.matrices |-> Table(shape.matrices[i])])
    IN  Evaluated([p \in 1 .. Len(tables) * shape.copies |-> tables[((p - 1) \div shape.copies) + 1]])
ActTables == Evaluated([im \in DOMAIN Shapes |-> Acts(Shapes[im])])
Products(shape, acts) ==
    LET Copy(p) == (p - 1) % shape.copies
        axes == Axes(Dimension(shape))
    IN  Evaluated([p \in DOMAIN acts |-> Evaluated([q \in DOMAIN acts |->
            CHOOSE r \in DOMAIN acts :
                /\ Copy(r) = (Copy(p) + Copy(q)) % shape.copies
                /\ \A x \in axes : acts[r][x] = acts[p][acts[q][x]]])])
ProductTables == Evaluated([im \in DOMAIN Shapes |-> Products(Shapes[im], ActTables[im])])
Sizes == <<27, 27, 27, 81, 81>>
PointSets == Evaluated([im \in DOMAIN Sizes |-> 1 .. Sizes[im]])
Zeros == Evaluated([im \in DOMAIN Sizes |-> (Sizes[im] + 1) \div 2])
OppositesOf(size) == Evaluated([x \in 1 .. size |-> size + 1 - x])
Opposites == Evaluated([im \in DOMAIN Sizes |-> OppositesOf(Sizes[im])])

MCImages == 1 .. 5
MCPoints == PointSets
MCZero == Zeros
MCOpposite == Opposites
MCAct == ActTables
MCProduct == ProductTables
=============================================================================
