---------------------------- MODULE CoupledOpds -----------------------------
(***************************************************************************)
(* The coupled order parameter directions of a request with two slots or   *)
(* more (coupled() of isotropy/opds_coupled.c), as one process answers     *)
(* several such requests.  Each slot has its rows, one for each class of   *)
(* directions of its own irrep.  For each choice of rows the parent's      *)
(* operations carry them to their domains; of the tuples of domains one of *)
(* each class is tried, and it is a coupled direction if the operations    *)
(* that fix all of it leave no more free in any slot than its domain.      *)
(*                                                                         *)
(* An operation is a point operation with one of the translations the      *)
(* irreps tell apart; operation g is point operation Point(c, g) after     *)
(* translation (g - 1) % Fractions[c].  A subspace is the set of its vectors, *)
(* so that the count of free parameters is the number of its vectors.      *)
(***************************************************************************)
EXTENDS Integers, Sequences, FiniteSets

CONSTANTS
    Couples,        \* the choices of irreps for the slots
    PointOps,       \* PointOps[c]: number of point operations; 1 is the identity
    Fractions,      \* Fractions[c]: number of translations modulo the common kernel
    PointProduct,   \* PointProduct[c][p][q]: p after q
    Moves,          \* Moves[c][s][g][x]: where operation g carries vector x of slot s
    SlotRows,       \* SlotRows[c][s]: the rows of slot s, each a subspace
    InSourceOrder,  \* InSourceOrder[c][s]: its rows have stored subgroups
    Unnamed,        \* groups of operations that are not identified
    RowLimits,      \* row_limit of the requests; 0 when there is none
    MaxCoupled      \* bound on the requests of the process

VARIABLES
    couple,      \* the request being answered
    rowLimit,
    combo,       \* choices of rows that are done
    listed,      \* the rows found (U)
    frequencies, \* free parameters per slot, for the groups met (the cache of coupled_tuples)
    coupling,    \* "idle", "scanning", "answered", "failed"
    coupled      \* requests so far

coupledVars == <<couple, rowLimit, combo, listed, frequencies, coupling, coupled>>

-----------------------------------------------------------------------------
(* Operations and subspaces *)

Listing(f) == <<>> \o f  \* a sequence, its elements worked out once
KernelOps(c) == 1 .. PointOps[c] * Fractions[c]
Point(c, g) == ((g - 1) \div Fractions[c]) + 1
WithFraction(c, p, f) == (p - 1) * Fractions[c] + f
SlotsOf(c) == DOMAIN SlotRows[c]
Image(c, s, g, U) == {Moves[c][s][g][x] : x \in U}
(* Lattice and operations of a direction: what fixes its vectors. *)
Fixing(c, s, U) == {g \in KernelOps(c) : \A x \in U : Moves[c][s][g][x] = x}
SlotVectors(c, s) == DOMAIN Moves[c][s][1]
FixedBy(c, s, H) == {x \in SlotVectors(c, s) : \A g \in H : Moves[c][s][g][x] = x}
SubductionFrequency(c, H) == [s \in SlotsOf(c) |-> Cardinality(FixedBy(c, s, H))]

(* The kernel operations are grouped by point operation: each of these
   without a translation, and each translation alone, generate them all. *)

(* A fault: the translations are left out. *)
GeneratorsUntranslated(c) == {WithFraction(c, p, 1) : p \in 1 .. PointOps[c]}
Generators(c) ==
    {WithFraction(c, p, 1) : p \in 1 .. PointOps[c]} \cup {WithFraction(c, 1, f) : f \in 1 .. Fractions[c]}

-----------------------------------------------------------------------------
(* The operations of a parent are a group, that acts on the vectors. *)
ActsAs(c, g, h, k) ==  \* g as h after k
    \A s \in SlotsOf(c) : \A x \in SlotVectors(c, s) : Moves[c][s][g][x] = Moves[c][s][h][Moves[c][s][k][x]]
AreOperations(c) ==
    /\ PointOps[c] \in Nat \ {0} /\ Fractions[c] \in Nat \ {0}
    /\ \A s \in SlotsOf(c) :
           /\ IsFiniteSet(SlotVectors(c, s))
           /\ \A g \in KernelOps(c) : Moves[c][s][g] \in [SlotVectors(c, s) -> SlotVectors(c, s)]
           /\ \A x \in SlotVectors(c, s) : Moves[c][s][1][x] = x
    /\ \A p \in 1 .. PointOps[c], f \in 1 .. Fractions[c] :
           ActsAs(c, WithFraction(c, p, f), WithFraction(c, p, 1), WithFraction(c, 1, f))
    /\ \A g, h \in KernelOps(c) : \E f \in 1 .. Fractions[c] :
           ActsAs(c, WithFraction(c, PointProduct[c][Point(c, g)][Point(c, h)], f), g, h)
    /\ \A g \in KernelOps(c) : \E h \in KernelOps(c) : ActsAs(c, 1, g, h) /\ ActsAs(c, 1, h, g)
    /\ \A p, q \in 1 .. PointOps[c] : PointProduct[c][p][q] \in 1 .. PointOps[c]
(* The rows of a slot are what their operations leave free, and no operation
   carries one to another: each stands for one class of subspaces. *)
AreRows(c) ==
    /\ Len(SlotRows[c]) \in Nat \ {0} /\ SlotsOf(c) = 1 .. Len(SlotRows[c])
    /\ \A s \in SlotsOf(c) :
           /\ SlotRows[c][s] \in Seq(SUBSET SlotVectors(c, s)) /\ SlotRows[c][s] # <<>>
           /\ \A i \in DOMAIN SlotRows[c][s] :
                  /\ FixedBy(c, s, Fixing(c, s, SlotRows[c][s][i])) = SlotRows[c][s][i]
                  /\ \A j \in DOMAIN SlotRows[c][s], g \in KernelOps(c) :
                         Image(c, s, g, SlotRows[c][s][i]) = SlotRows[c][s][j] => i = j
(* Whether a group is identified does not depend on the axes. *)
Carried(c, g, H) == {h \in KernelOps(c) : \E k \in H :
    \A s \in SlotsOf(c) : \A x \in SlotVectors(c, s) : Moves[c][s][h][Moves[c][s][g][x]] = Moves[c][s][g][Moves[c][s][k][x]]}
ASSUME CouplesAssumption ==
    \A c \in Couples :
        /\ AreOperations(c) /\ AreRows(c)
        /\ \A H \in Unnamed : H \subseteq KernelOps(c) /\ Carried(c, 1, H) = H =>
               \A g \in KernelOps(c) : Carried(c, g, H) \in Unnamed

-----------------------------------------------------------------------------
(* The domains of a row *)

(* The numbers up to n that are in a set. *)
InOrder(n, S) ==
    LET order[i \in 0 .. n] ==
            IF i = 0 THEN <<>> ELSE IF i \in S THEN Append(order[i - 1], i) ELSE order[i - 1]
    IN  order[n]

(* The first point operation outside the cosets so far opens the next. *)
CosetScan(c, points) ==
    LET scan[p \in 0 .. PointOps[c]] ==
            IF p = 0 THEN [chosen |-> <<>>, marked |-> {}]
            ELSE LET before == scan[p - 1]
                 IN  IF p \in before.marked THEN before
                     ELSE [chosen |-> Append(before.chosen, p),
                           marked |-> before.marked \cup {PointProduct[c][p][q] : q \in points}]
    IN  scan[PointOps[c]].chosen

(* All translations stand for those modulo the row's own lattice: the others
   repeat domains. *)
DomainOps(c, s, U) ==
    LET cosets == CosetScan(c, {Point(c, g) : g \in Fixing(c, s, U)})
        n == Len(cosets)
    IN  [i \in 1 .. n * Fractions[c] |-> WithFraction(c, cosets[((i - 1) % n) + 1], ((i - 1) \div n) + 1)]

(* One domain for each subgroup the source is carried to; a subspace with the
   subgroup of an earlier one is taken for that one. *)
Firsts(values, keys) == {n \in keys : \A m \in keys : m < n => values[m] # values[n]}
OrbitPass(c, s, images, new) ==
    LET groups == [n \in new |-> Fixing(c, s, images[n])]
        kept == InOrder(Len(images), Firsts(groups, new))
    IN  [reached |-> {images[n] : n \in new}, domains |-> Listing([d \in DOMAIN kept |-> images[kept[d]]])]
OrbitUnder(c, s, U, ops) ==
    LET images == Listing([n \in DOMAIN ops |-> Image(c, s, ops[n], U)])
    IN  OrbitPass(c, s, images, Firsts(images, DOMAIN ops))
Unmatched(c, s, orbit) ==
    \E g \in Generators(c), d \in DOMAIN orbit.domains :
        Image(c, s, g, orbit.domains[d]) \notin orbit.reached
Confirmed(c, s, U, numbered) ==
    IF InSourceOrder[c][s] /\ ~Unmatched(c, s, numbered) THEN numbered
    ELSE OrbitUnder(c, s, U, [g \in KernelOps(c) |-> g])
SlotOrbit(c, s, U) == Confirmed(c, s, U, OrbitUnder(c, s, U, DomainOps(c, s, U)))
DomainOf(c, s, domains, V) ==
    CHOOSE e \in DOMAIN domains : domains[e] = V \/ Fixing(c, s, domains[e]) = Fixing(c, s, V)
DomainActions(c, s, domains, g) ==
    Listing([d \in DOMAIN domains |-> DomainOf(c, s, domains, Image(c, s, g, domains[d]))])

-----------------------------------------------------------------------------
(* Tuples *)

Times(numbers) ==
    LET product[n \in 0 .. Len(numbers)] == IF n = 0 THEN 1 ELSE product[n - 1] * numbers[n]
    IN  product[Len(numbers)]
(* The k-th sequence of numbers up to sizes, counted from 0, the first fastest. *)
Digits(sizes, k) ==
    LET rest[n \in 0 .. Len(sizes)] == IF n = 0 THEN k ELSE rest[n - 1] \div sizes[n]
    IN  Listing([n \in DOMAIN sizes |-> (rest[n - 1] % sizes[n]) + 1])
Backwards(numbers) == [n \in DOMAIN numbers |-> numbers[Len(numbers) + 1 - n]]
(* The k-th tuple of domains: the last number changes fastest. *)
Tuple(sizes, k) == Listing(Backwards(Digits(Backwards(sizes), k)))
Joint(action, tuple) == Listing([s \in DOMAIN tuple |-> action[s][tuple[s]]])
Closure(actions, tuple, all) ==
    LET closed[reached \in SUBSET all] ==
            LET more == reached \cup {Joint(a, t) : a \in actions, t \in reached}
            IN  IF more = reached THEN reached ELSE closed[more]
    IN  closed[{tuple}]
(* The first tuple of each class under the actions. *)
RelativeTuples(sizes, actions) ==
    LET total == Times(sizes)
        all == {Tuple(sizes, k) : k \in 0 .. total - 1}
        scan[k \in 0 .. total] ==
            IF k = 0 THEN [retained |-> <<>>, seen |-> {}]
            ELSE LET before == scan[k - 1]
                     tuple == Tuple(sizes, k - 1)
                 IN  IF tuple \in before.seen THEN before
                     ELSE [retained |-> Append(before.retained, tuple),
                           seen |-> before.seen \cup Closure(actions, tuple, all)]
    IN  scan[total].retained

(* The rows of choice k: slot 1 changes fastest. *)
RowCounts(c) == [s \in SlotsOf(c) |-> Len(SlotRows[c][s])]
RowsOf(c, k) == LET digits == Digits(RowCounts(c), k) IN [s \in SlotsOf(c) |-> SlotRows[c][s][digits[s]]]
Combos(c) == Times(RowCounts(c))

Common(c, U) == {g \in KernelOps(c) : \A s \in SlotsOf(c) : g \in Fixing(c, s, U[s])}
Candidate(c, k, U) == [rows |-> k, domains |-> U, group |-> Common(c, U)]
CandidatesOf(c, k, orbits) ==
    LET actions == {Listing([s \in SlotsOf(c) |-> DomainActions(c, s, orbits[s], g)]) : g \in Generators(c)}
        tuples == RelativeTuples(Listing([s \in SlotsOf(c) |-> Len(orbits[s])]), actions)
    IN  Listing([i \in DOMAIN tuples |->
            Candidate(c, k, Listing([s \in SlotsOf(c) |-> orbits[s][tuples[i][s]]]))])
Candidates(c, k) ==
    CandidatesOf(c, k, Listing([s \in SlotsOf(c) |-> SlotOrbit(c, s, RowsOf(c, k)[s]).domains]))

-----------------------------------------------------------------------------
(* The scan *)

(* What is known of a group is not computed again. *)
Frequencies(known, c, candidates) ==
    LET groups == {candidates[i].group : i \in DOMAIN candidates}
    IN  [H \in DOMAIN known \cup groups |->
            IF H \in DOMAIN known THEN known[H] ELSE SubductionFrequency(c, H)]
FreeRows(U) == [s \in DOMAIN U |-> Cardinality(U[s])]
Matches(known, candidate) == known[candidate.group] = FreeRows(candidate.domains)

Full(rows) == rowLimit # 0 /\ Len(rows) >= rowLimit
SameKey(row, other) == row.rows = other.rows /\ row.group = other.group
EmitTuple(rows, row) ==
    IF Full(rows) \/ row.group \in Unnamed \/ \E i \in DOMAIN rows : SameKey(rows[i], row)
    THEN rows ELSE Append(rows, row)
Emitted(rows, known, scanned) ==
    LET emit[n \in 0 .. Len(scanned)] ==
            IF n = 0 THEN rows
            ELSE IF Matches(known, scanned[n]) THEN EmitTuple(emit[n - 1], scanned[n]) ELSE emit[n - 1]
    IN  emit[Len(scanned)]

CoupledInit ==
    /\ couple \in Couples /\ rowLimit = 0 /\ combo = 0
    /\ listed = <<>>
    /\ frequencies = <<>>
    /\ coupling = "idle"
    /\ coupled = 0

(* A fault: the frequencies of the request before are kept. *)
AskUnreset(c, l) ==
    /\ coupling # "scanning" /\ coupled < MaxCoupled
    /\ couple' = c /\ rowLimit' = l /\ combo' = 0
    /\ listed' = <<>>
    /\ coupling' = "scanning"
    /\ coupled' = coupled + 1
    /\ UNCHANGED frequencies
AskCoupled(c, l) ==
    /\ coupling # "scanning" /\ coupled < MaxCoupled
    /\ couple' = c /\ rowLimit' = l /\ combo' = 0
    /\ listed' = <<>>
    /\ frequencies' = <<>>  \* coupled_tuples_reset
    /\ coupling' = "scanning"
    /\ coupled' = coupled + 1

(* One choice of rows.  A value out of range in tuple `fault` stops the
   tuples; those kept before it are still listed, and when they are enough
   the fault is not told. *)
ScanRows(candidates, fault) ==
    LET scanned == IF fault = 0 THEN candidates ELSE SubSeq(candidates, 1, fault - 1)
        known == Frequencies(frequencies, couple, scanned)
        rows == Emitted(listed, known, scanned)
    IN  /\ frequencies' = known
        /\ listed' = rows
        /\ combo' = combo + 1
        /\ coupling' = CASE Full(rows) -> "answered"
                         [] ~Full(rows) /\ fault # 0 -> "failed"
                         [] ~Full(rows) /\ fault = 0 ->
                                IF combo + 1 = Combos(couple) THEN "answered" ELSE "scanning"
        /\ UNCHANGED <<couple, rowLimit, coupled>>

CoupledNext ==
    \/ \E c \in Couples, l \in RowLimits : AskCoupled(c, l)
    \/ /\ coupling = "scanning"
       /\ \E candidates \in {Candidates(couple, combo)} :
              \E fault \in 0 .. Len(candidates) : ScanRows(candidates, fault)

CoupledSpec == CoupledInit /\ [][CoupledNext]_coupledVars

(* What is known of a group is what this request would compute for it. *)
FrequenciesRight ==
    \A H \in DOMAIN frequencies : frequencies[H] = SubductionFrequency(couple, H)

-----------------------------------------------------------------------------
(* Two subspaces of each slot are the same direction if one operation of the
   parent carries all of one to the other. *)
Equivalent(c, U, V) == \E g \in KernelOps(c) : \A s \in SlotsOf(c) : Image(c, s, g, U[s]) = V[s]
Directions(c, s) == UNION {{Image(c, s, g, SlotRows[c][s][i]) : g \in KernelOps(c)} : i \in DOMAIN SlotRows[c][s]}
AllDirections(c) == {U \in [SlotsOf(c) -> UNION {Directions(c, s) : s \in SlotsOf(c)}] :
                        \A s \in SlotsOf(c) : U[s] \in Directions(c, s)}
IsDirection(c, U) == \A s \in SlotsOf(c) : FixedBy(c, s, Common(c, U)) = U[s]

(* No direction is offered twice: no operation of the parent carries one
   listed row to another, and each row is what its operations leave free. *)
CoupledDistinct ==
    \A i \in DOMAIN listed :
        /\ IsDirection(couple, listed[i].domains)
        /\ \A j \in 1 .. i - 1 : ~Equivalent(couple, listed[j].domains, listed[i].domains)

(* None is missing: an answer that the limit did not cut holds a row for each
   coupled direction whose group is identified, whatever requests the process
   answered before. *)
CoupledComplete ==
    coupling = "answered" /\ ~Full(listed) =>
        \A U \in AllDirections(couple) :
            IsDirection(couple, U) /\ Common(couple, U) \notin Unnamed =>
                \E i \in DOMAIN listed : Equivalent(couple, listed[i].domains, U)
=============================================================================
