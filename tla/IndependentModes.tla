-------------------------- MODULE IndependentModes --------------------------
(***************************************************************************)
(* Which of the modes of a child structure are kept                        *)
(* (independent_union() of core/modes/loop.c).  Modes of one site and kind *)
(* may have become dependent when several subduction specs with the same   *)
(* waves had their subspaces replaced.  The first modes that are           *)
(* independent over the rationals are kept, and they are found modulo      *)
(* primes (core/math/modular_columns.c): the independent columns modulo a  *)
(* prime are taken if each of the others depends on them also modulo       *)
(* enough primes to exceed any minor it could have; else the next prime is *)
(* tried.                                                                  *)
(***************************************************************************)
EXTENDS ModularRows, SequencesExt

CONSTANTS
    ModeLists,     \* the lists that are asked: sequences of
                   \* [site, magnetic, spec, waves, replaced, vector]
    PrimeCeiling,  \* primes are taken from below it (2^31)
    MaxPrimes      \* primes tried before giving up (64)

VARIABLES
    modeList,   \* the list
    uStep,      \* "affected", "group", "columns", "proof", "ended"
    uStatus,    \* "fine", "value", "memory", "range"
    together,   \* the group at work: places in the list
    visited, dependent, \* places that have been in a group, that are left out
    tries, modulus, \* the prime of the columns, and how many were tried
    pivotBasis, \* per pivot: [column, lead, vector, from]
    relations,  \* columns and the columns each depends on: sequences
    column,     \* the next column
    proof       \* of the first relation: the last prime, and the product of all

unionVars == <<together, visited, dependent, tries, modulus, pivotBasis, relations, column, proof>>
modeVars == <<modeList, uStep, uStatus, unionVars>>

-----------------------------------------------------------------------------
(* The groups *)
SameKind(i, j) == modeList[i].site = modeList[j].site /\ modeList[i].magnetic = modeList[j].magnetic
Affected ==
    {i \in DOMAIN modeList :
        /\ modeList[i].replaced /\ modeList[i].waves # <<>>
        /\ Cardinality({modeList[j].spec : j \in {k \in DOMAIN modeList : SameKind(i, k) /\ modeList[k].waves = modeList[i].waves}}) > 1}
GroupOfMode(i) == SetToSortSeq({j \in DOMAIN modeList : SameKind(i, j)}, <)
Fit(group) == \A n \in DOMAIN group : Len(modeList[group[n]].vector) = Len(modeList[group[1]].vector)
(* A row for every component that some member has, numbered as they are met. *)
VectorRows(group) ==
    LET met == FlattenSeq([n \in DOMAIN group |->
            SelectSeq([k \in DOMAIN modeList[group[n]].vector |-> k], LAMBDA k : modeList[group[n]].vector[k] # 0)])
        first == {m \in DOMAIN met : \A l \in 1 .. m - 1 : met[l] # met[m]}
    IN  [r \in 1 .. Cardinality(first) |-> met[SetToSortSeq(first, <)[r]]]
ColumnOf(n) ==
    LET rows == VectorRows(together)
    IN  [r \in DOMAIN rows |-> modeList[together[n]].vector[rows[r]]]

-----------------------------------------------------------------------------
(* modular_columns *)
PrimeBelow(n) == Max({p \in 2 .. n - 1 : IsPrime(p)})

(* A column without what the basis takes off it, and the multiples of the
   pivot columns that were taken. *)
TakenOff(b, before) ==
    LET a == before.rest[pivotBasis[b].lead]
    IN  [rest |-> [r \in DOMAIN before.rest |-> (before.rest[r] - a * pivotBasis[b].vector[r]) % modulus],
         taken |-> [m \in DOMAIN pivotBasis |->
            (before.taken[m] + IF m <= b THEN a * pivotBasis[b].from[m] ELSE 0) % modulus]]
Remainder(full) ==
    LET after[b \in 0 .. Len(pivotBasis)] ==
            IF b = 0 THEN [rest |-> [r \in DOMAIN full |-> full[r] % modulus], taken |-> [m \in DOMAIN pivotBasis |-> 0]]
            ELSE LET before == after[b - 1] IN TakenOff(b, before)
    IN  after[Len(pivotBasis)]
PivotFrom(n, left) ==
    LET lead == Min({r \in DOMAIN left.rest : left.rest[r] # 0})
        scale == InverseMod(left.rest[lead], modulus)
    IN  [column |-> n, lead |-> lead,
         vector |-> [r \in DOMAIN left.rest |-> (left.rest[r] * scale) % modulus],
         from |-> Append([m \in DOMAIN pivotBasis |-> ((modulus - left.taken[m]) * scale) % modulus], scale)]
RelationOf(n, left) ==
    LET used == SelectSeq([m \in DOMAIN pivotBasis |-> m], LAMBDA m : left.taken[m] # 0)
    IN  [k \in 1 .. Len(used) + 1 |-> IF k <= Len(used) THEN pivotBasis[used[k]].column ELSE n]

(* dependent_over_q: ranks modulo one prime after the other, until their product
   exceeds the bound of all minors. *)
RankMod(relation, p) ==
    LET columns == [k \in DOMAIN relation |-> ColumnOf(relation[k])]
        rows == DOMAIN columns[1]
    IN  Len(Echelon([r \in rows |-> [k \in DOMAIN columns |-> columns[k][r] % p]], Len(columns), p).pivots)
Norm2(v) == FoldSeq(LAMBDA x, y : x * x + y, 0, v)
\* A fault: one prime is enough.
EnoughOfOne(covered, relation) == covered > 1
(* The bound, twice: four times the product of the norms. *)
Enough(covered, relation) ==
    covered * covered > 16 * FoldSeq(LAMBDA n, product : Max({1, Norm2(ColumnOf(n))}) * product, 1, relation)

-----------------------------------------------------------------------------
End(status) ==
    /\ uStep' = "ended" /\ uStatus' = status
    /\ UNCHANGED <<modeList, unionVars>>
(* The columns are looked at modulo the next prime. *)
StartColumns(n, below) ==
    /\ uStep' = "columns"
    /\ tries' = n /\ modulus' = PrimeBelow(below)
    /\ pivotBasis' = <<>> /\ relations' = <<>> /\ column' = 1

FindAffected ==
    /\ uStep = "affected"
    /\ \/ Affected = {} /\ End("fine")
       \/ Affected # {} /\ uStep' = "group" /\ UNCHANGED <<modeList, uStatus, unionVars>>
TakeGroup ==
    LET group == GroupOfMode(Min(Affected \ visited))
    IN  /\ uStep = "group" /\ Affected \ visited # {}
        /\ \/ ~Fit(group) /\ End("value")
           \/ /\ Fit(group)
              /\ together' = group
              /\ visited' = visited \cup Range(group)
              /\ StartColumns(1, PrimeCeiling)
              /\ UNCHANGED <<modeList, uStatus, dependent, proof>>
NoGroupLeft ==
    uStep = "group" /\ Affected \subseteq visited /\ End("fine")

ProveFrom == [modulus |-> PrimeCeiling, covered |-> 1]
TakeColumn ==
    /\ uStep = "columns" /\ column <= Len(together)
    /\ \E left \in {Remainder(ColumnOf(column))} :
           \/ /\ \E r \in DOMAIN left.rest : left.rest[r] # 0
              /\ pivotBasis' = Append(pivotBasis, PivotFrom(column, left)) /\ UNCHANGED relations
           \/ /\ \A r \in DOMAIN left.rest : left.rest[r] = 0
              /\ relations' = Append(relations, RelationOf(column, left)) /\ UNCHANGED pivotBasis
    /\ column' = column + 1
    /\ UNCHANGED <<modeList, uStep, uStatus, together, visited, dependent, tries, modulus, proof>>
ColumnsDone ==
    /\ uStep = "columns" /\ column > Len(together)
    /\ uStep' = "proof" /\ proof' = ProveFrom
    /\ UNCHANGED <<modeList, uStatus, together, visited, dependent, tries, modulus, pivotBasis, relations, column>>
(* A relation modulo one prime that is none modulo another. *)
Refuted(relation, p) == RankMod(relation, p) = Len(relation)
ProveRelation ==
    LET relation == Head(relations)
        p == PrimeBelow(proof.modulus)
        covered == proof.covered * p
    IN  /\ uStep = "proof" /\ relations # <<>>
        /\ ~Refuted(relation, p)
        /\ \/ Enough(covered, relation) /\ relations' = Tail(relations) /\ proof' = ProveFrom
           \/ ~Enough(covered, relation) /\ proof' = [modulus |-> p, covered |-> covered] /\ UNCHANGED relations
        /\ UNCHANGED <<modeList, uStep, uStatus, together, visited, dependent, tries, modulus, pivotBasis, column>>
RefuteRelation ==
    /\ uStep = "proof" /\ relations # <<>>
    /\ Refuted(Head(relations), PrimeBelow(proof.modulus))
    /\ \/ tries = MaxPrimes /\ End("range")
       \/ /\ tries < MaxPrimes
          /\ StartColumns(tries + 1, modulus)
          /\ UNCHANGED <<modeList, uStatus, together, visited, dependent, proof>>
(* Every relation is proved: the columns without a pivot are left out. *)
LeaveOut ==
    /\ uStep = "proof" /\ relations = <<>>
    /\ uStep' = "group"
    /\ LET pivots == {pivotBasis[b].column : b \in DOMAIN pivotBasis}
       IN  dependent' = dependent \cup {together[n] : n \in DOMAIN together \ pivots}
    /\ UNCHANGED <<modeList, uStatus, together, visited, tries, modulus, pivotBasis, relations, column, proof>>
UnionRunsOut == uStep # "ended" /\ End("memory")

UnionAt(lists, step) ==
    /\ modeList \in lists
    /\ uStep = step /\ uStatus = "fine"
    /\ together = <<>> /\ visited = {} /\ dependent = {} /\ tries = 0 /\ modulus = 0
    /\ pivotBasis = <<>> /\ relations = <<>> /\ column = 0 /\ proof = ProveFrom
UnionInit == UnionAt(ModeLists, "affected")
UnionNext ==
    \/ FindAffected \/ TakeGroup \/ NoGroupLeft
    \/ TakeColumn \/ ColumnsDone \/ ProveRelation \/ RefuteRelation
    \/ LeaveOut \/ UnionRunsOut
UnionSpec == UnionInit /\ [][UnionNext]_modeVars

-----------------------------------------------------------------------------
(* Independence over the rationals, from its definition: some minor is not 0. *)
Determinant(a) ==
    CASE Len(a) = 1 -> a[1][1]
      [] Len(a) = 2 -> a[1][1] * a[2][2] - a[1][2] * a[2][1]
      [] Len(a) = 3 -> a[1][1] * (a[2][2] * a[3][3] - a[2][3] * a[3][2])
                       - a[1][2] * (a[2][1] * a[3][3] - a[2][3] * a[3][1])
                       + a[1][3] * (a[2][1] * a[3][2] - a[2][2] * a[3][1])
Minors(places) ==
    LET rows == SetToSortSeq(places, <)
        size == Len(modeList[rows[1]].vector)
    IN  {Determinant([i \in DOMAIN rows |-> [k \in DOMAIN rows |-> modeList[rows[i]].vector[picked[k]]]]) :
            picked \in {SetToSortSeq(s, <) : s \in kSubset(Len(rows), 1 .. size)}}
Independent(places) == places = {} \/ \E minor \in Minors(places) : minor # 0

(* The modes that are kept of an affected site and kind are independent, and
   every one left out depends on those kept before it; nothing else is left out.
   The numbers are given up only if each prime that was tried makes modes
   dependent that are not.  (independent_union, independent_columns) *)
ModesIndependent ==
    uStep = "ended" =>
        LET at == {j \in DOMAIN modeList : \E i \in Affected : SameKind(i, j)}
            kept(i) == {j \in DOMAIN modeList \ dependent : SameKind(i, j)}
        IN  /\ uStatus = "fine" =>
                   /\ dependent \subseteq at
                   /\ \A i \in at \ dependent : Independent(kept(i))
                   /\ \A i \in dependent : ~Independent({j \in kept(i) : j < i} \cup {i})
            /\ uStatus = "range" =>
                   \A p \in {q \in modulus .. PrimeCeiling - 1 : IsPrime(q)} :
                       \E s \in SUBSET Range(together) :
                           Independent(s) /\ s # {} /\ \A minor \in Minors(s) : minor % p = 0
=============================================================================
